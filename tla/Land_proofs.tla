------------------------------ MODULE Land_proofs ------------------------------
(***************************************************************************)
(* What a land promises, for any family of conversations, composition of   *)
(* repositories, doors and clashes: nobody rebases or writes in a checkout *)
(* beside another, a refused land wrote nothing, and what a record says    *)
(* has landed was read in the tree it went to.                             *)
(***************************************************************************)
EXTENDS Land, FiniteSetTheorems, WellFoundedInduction, TLAPS

Rows == {<< >>} \cup UNION {[S -> Nat] : S \in SUBSET Nat}
Plans == [put : SUBSET Changes, tip : Nat]
Lands == [pc : PCs, whole : BOOLEAN, rows : Rows, asked : SUBSET Nat, marks : BOOLEAN,
          plan : {<< >>} \cup UNION {[S -> Plans] : S \in SUBSET Nat},
          todo : SUBSET Nat, wrote : SUBSET Nat, moved : BOOLEAN, refused : BOOLEAN,
          broke : BOOLEAN, mishap : BOOLEAN]
Contents == [Trees -> [Repos -> SUBSET Changes]]
Branches(c) == [Range(Composed[c]) -> Seq(SUBSET Changes)]

Typed ==
    /\ work \in [Convs -> UNION {Branches(c) : c \in Convs}]
    /\ \A c \in Convs : work[c] \in Branches(c)
    /\ tree \in Contents /\ everIn \in Contents
    /\ barred \in [Repos -> SUBSET (Changes \cup Touchable)]
    /\ books \in [Convs -> Rows]
    /\ \A c \in Convs : books[c] \in [Range(Composed[c]) -> Nat]
    /\ lease \in [Convs -> Seq(Jobs)] /\ chain \in [Repos -> Seq(Jobs)]
    /\ job \in [Jobs -> Lands]

\* Whose work is younger: a child's branch never holds its parent's.
Age == CHOOSE age \in [Convs -> 1..Cardinality(Convs)] :
          \A c \in Convs : ParentOf[c] # Main => age[ParentOf[c]] < age[c]

\* The landed commits a record counts, and that their changes were in the tree.
Proven(c, rows) ==
    \A r \in Range(Composed[c]) :
        /\ rows[r] \in 0..Len(work[c][r])
        /\ Between(c, r, 0, rows[r]) \subseteq everIn[ParentOf[c]][r]

-----------------------------------------------------------------------------
(* The inductive invariant. *)

\* A tree holds its own conversation's work, and what a land brought in; a branch
\* holds its own conversation's and its descendants'.
BroughtIn ==
    /\ \A t \in Trees, r \in Repos : \A u \in tree[t][r] : u.of = t \/ u \in everIn[t][r]
    /\ \A c \in Convs : \A r \in Range(Composed[c]) : \A i \in DOMAIN work[c][r] :
          \A u \in work[c][r][i] : Age[c] <= Age[u.of]
    /\ \A c \in Convs : Proven(c, books[c])

Planned == {"write", "prove"}
Locked == {"plan", "write", "prove", "unlock"}
Leasing == {"sync", "lock"} \cup Locked

InShape(j) ==
    /\ job[j].pc # "idle" => job[j].rows \in [Within(j) -> Nat]
    /\ j[2] = "hand" => Doing(j, {"idle", "called", "own", "free"})
    /\ Doing(j, {"called", "own", "parent", "sync"}) => job[j].asked = {}
    /\ Doing(j, {"lock"}) => job[j].asked \subseteq Within(j)
    /\ Doing(j, Planned) => /\ job[j].plan \in [Within(j) -> Plans] /\ j[2] # "measure"
                            /\ job[j].todo # {} /\ job[j].todo \subseteq Within(j)

\* Its own lease from when it asks for the parent's, the parent's where it writes
\* there, and the lock of each repository from its plan on.
HoldsItsQueues(j) ==
    /\ Doing(j, {"parent"} \cup Leasing) => HeldBy(lease[j[1]], j)
    /\ Doing(j, Leasing) /\ Into(j) # Main /\ j[2] # "measure" => HeldBy(lease[Into(j)], j)
    /\ Doing(j, Locked) => \A r \in Within(j) : HeldBy(chain[r], j)

\* What it would record was in its tree, or is what its plan has yet to put there.
RecordsProven(j) ==
    /\ job[j].pc # "idle" => Proven(j[1], job[j].rows)
    /\ Doing(j, Planned) => \A r \in Within(j) :
          /\ job[j].plan[r].tip \in 0..Len(work[j[1]][r])
          /\ job[j].plan[r].put \subseteq Between(j[1], r, 0, job[j].plan[r].tip)
          /\ Between(j[1], r, 0, job[j].plan[r].tip)
                \subseteq everIn[Into(j)][r] \cup job[j].plan[r].put

\* The repository it writes in, and those it has planned for and not begun.
Current(j) == FirstOf(j[1], job[j].todo)
Ahead(j) == IF Doing(j, {"write"}) THEN job[j].todo ELSE job[j].todo \ {Current(j)}

Fits(j, r) ==
    \A u \in job[j].plan[r].put :
        u \notin tree[Into(j)][r] /\ (job[j].marks \/ ~Blocked(Into(j), r, u))

\* Until something else writes under it, its plan still fits.
PlanFits(j) ==
    /\ Doing(j, {"called", "own", "parent", "sync", "lock", "plan"})
          => job[j].wrote = {} /\ ~job[j].refused
    /\ Doing(j, Planned) => ~job[j].refused
    /\ job[j].pc # "idle" /\ job[j].refused /\ ~job[j].mishap => job[j].wrote = {}
    /\ Doing(j, Planned) /\ ~job[j].mishap => \A r \in Ahead(j) : Fits(j, r)
    /\ Doing(j, {"prove"}) /\ ~job[j].mishap => Held(j, Current(j))

JobInv(j) == InShape(j) /\ HoldsItsQueues(j) /\ RecordsProven(j) /\ PlanFits(j)

IInv == Typed /\ BroughtIn /\ \A j \in Jobs : JobInv(j)

-----------------------------------------------------------------------------
(* Facts the steps share. *)

LEMMA AgeOfParent ==
    /\ \A c \in Convs : Age[c] \in Nat
    /\ \A c \in Convs : ParentOf[c] \in Convs => Age[ParentOf[c]] < Age[c]
<1>1. Cardinality(Convs) \in Nat
    BY LandAssumption, FS_CardinalityType DEF LandAssumption
<1>2. Age \in [Convs -> 1..Cardinality(Convs)]
      /\ \A c \in Convs : ParentOf[c] # Main => Age[ParentOf[c]] < Age[c]
    BY LandAssumption DEF LandAssumption, Age
<1>3. QED BY <1>1, <1>2, LandAssumption DEF LandAssumption

\* A set of numbers has a least one.
LEMMA Least ==
    ASSUME NEW T, T \subseteq Nat, T # {}
    PROVE  \E m \in T : \A k \in T : m <= k
<1> DEFINE U == {1..n : n \in T}
<1>1. U \subseteq FiniteSubsetsOf(Nat) /\ U # {}
    <2>1. \A n \in T : IsFiniteSet(1..n) /\ 1..n \in SUBSET Nat
        BY FS_Interval
    <2>2. \A x \in U : x \in SUBSET Nat /\ IsFiniteSet(x)
        BY <2>1
    <2>3. QED BY <2>2 DEF FiniteSubsetsOf
<1>2. IsWellFoundedOn(StrictSubsetOrdering(Nat), FiniteSubsetsOf(Nat))
    BY FS_StrictSubsetOrderingWellFounded
<1> HIDE DEF U
<1>3. \E x \in U : \A y \in U : ~(<<y, x>> \in StrictSubsetOrdering(Nat))
    BY <1>1, <1>2, WFMin
<1>4. PICK m \in T : \A k \in T : ~(<<1..k, 1..m>> \in StrictSubsetOrdering(Nat))
    BY <1>3 DEF U
<1>5. ASSUME NEW k \in T, k < m PROVE FALSE
    <2>1. k \in Nat /\ m \in Nat
        OBVIOUS
    <2>2. 1..k \subseteq 1..m /\ 1..k # 1..m /\ 1..k \in SUBSET Nat /\ 1..m \in SUBSET Nat
        BY <1>5, <2>1
    <2>3. <<1..k, 1..m>> \in StrictSubsetOrdering(Nat)
        BY <2>2 DEF StrictSubsetOrdering
    <2>4. QED BY <1>4, <2>3
<1>6. QED BY <1>5

LEMMA RepositoriesOfOne ==
    ASSUME NEW c \in Convs
    PROVE  /\ Range(Composed[c]) \subseteq Nat /\ Range(Composed[c]) \subseteq Repos
           /\ Composed[c] \in Seq(Nat)
BY LandAssumption DEF LandAssumption, Repos, Range

\* Of some of a composition's repositories one comes first, and one is least.
LEMMA FirstOfThem ==
    ASSUME NEW c \in Convs, NEW S \in SUBSET Range(Composed[c]), S # {}
    PROVE  FirstOf(c, S) \in S
<1> DEFINE T == {i \in DOMAIN Composed[c] : Composed[c][i] \in S}
<1>1. Composed[c] \in Seq(Nat) /\ DOMAIN Composed[c] = 1..Len(Composed[c]) /\ Len(Composed[c]) \in Nat
    BY RepositoriesOfOne
<1>2. T \subseteq Nat /\ T # {}
    BY <1>1 DEF Range
<1>3. PICK m \in T : \A k \in T : m <= k
    BY <1>2, Least
<1>4. \A k \in 1..m - 1 : Composed[c][k] \notin S
    <2> SUFFICES ASSUME NEW k \in 1..m - 1, Composed[c][k] \in S PROVE FALSE
        OBVIOUS
    <2>1. m \in 1..Len(Composed[c])
        BY <1>1
    <2>2. k \in DOMAIN Composed[c] /\ ~(m <= k)
        BY <1>1, <2>1
    <2>3. QED BY <1>3, <2>2
<1>5. QED BY <1>3, <1>4 DEF FirstOf

LEMMA NextOfThem ==
    ASSUME NEW c \in Convs, NEW asked, Range(Composed[c]) \ asked # {}
    PROVE  NextLock(c, asked) \in Range(Composed[c]) \ asked
<1>1. \E r \in Range(Composed[c]) \ asked : \A q \in Range(Composed[c]) \ asked : r <= q
    BY RepositoriesOfOne, Least
<1>2. QED BY <1>1 DEF NextLock

LEMMA JobOf ==
    ASSUME NEW j \in Jobs
    PROVE  /\ j[1] \in Convs /\ ParentOf[j[1]] \in Trees /\ Into(j) \in Trees
           /\ j[2] # "hand" => Into(j) = ParentOf[j[1]]
           /\ Within(j) \subseteq Repos /\ Within(j) \subseteq Nat
           /\ Into(j) # Main => Into(j) \in Convs
<1>1. j[1] \in Convs
    BY DEF Jobs
<1>2. QED BY <1>1, RepositoriesOfOne, LandAssumption DEF LandAssumption, Into, Within, Trees

LEMMA IdleIsOne == Idle \in Lands
BY DEF Lands, PCs, Idle, Rows

\* A queue keeps its holder but for the one that lets it go.
LEMMA QueueKeeps ==
    ASSUME NEW S, NEW q \in Seq(S), NEW j \in S
    PROVE  /\ Append(q, j) \in Seq(S) /\ Released(q, j) \in Seq(S)
           /\ \A i : HeldBy(q, i) => HeldBy(Append(q, j), i)
           /\ \A i : i # j /\ HeldBy(q, i) => HeldBy(Released(q, j), i)
BY DEF HeldBy, Released

\* What a stretch of a branch carries.
LEMMA CarriedInTwo ==
    ASSUME NEW s, NEW a \in Nat, NEW b \in Nat, a <= b
    PROVE  Carried(s, 0, b) = Carried(s, 0, a) \cup Carried(s, a, b)
<1>1. (0 + 1)..b = ((0 + 1)..a) \cup ((a + 1)..b)
    OBVIOUS
<1>2. QED BY <1>1 DEF Carried

LEMMA CarriedAlike ==
    ASSUME NEW s, NEW t, NEW n \in Nat, \A i \in 1..n : s[i] = t[i]
    PROVE  Carried(s, 0, n) = Carried(t, 0, n)
<1>1. (0 + 1)..n = 1..n
    OBVIOUS
<1>2. QED BY <1>1 DEF Carried

-----------------------------------------------------------------------------
(* What a step leaves to the lands it is not a step of. *)

\* Branches and what the trees were read to hold only grow.
Grown ==
    /\ \A c \in Convs : \A r \in Range(Composed[c]) : \A n \in 0..Len(work[c][r]) :
          n \in 0..Len(work'[c][r]) /\ Carried(work'[c][r], 0, n) = Carried(work[c][r], 0, n)
    /\ \A t \in Trees, r \in Repos : everIn[t][r] \subseteq everIn'[t][r]

Undisturbed(j) ==
    Doing(j, Planned) /\ ~job[j].mishap => \A r \in Within(j) :
        /\ tree'[Into(j)][r] = tree[Into(j)][r]
        /\ Into(j) = Main => barred'[r] = barred[r]

StillHeld(j) ==
    /\ \A c \in Convs : HeldBy(lease[c], j) => HeldBy(lease'[c], j)
    /\ \A r \in Repos : HeldBy(chain[r], j) => HeldBy(chain'[r], j)

LEMMA BooksGrow ==
    ASSUME Grown, NEW c \in Convs, Proven(c, books[c]), books'[c] = books[c]
    PROVE  Proven(c, books[c])'
<1>1. ASSUME NEW r \in Range(Composed[c])
      PROVE  /\ books[c][r] \in 0..Len(work'[c][r])
             /\ Carried(work'[c][r], 0, books[c][r]) \subseteq everIn'[ParentOf[c]][r]
    <2>1. books[c][r] \in 0..Len(work[c][r])
          /\ Carried(work[c][r], 0, books[c][r]) \subseteq everIn[ParentOf[c]][r]
        BY DEF Proven, Between
    <2>2. books[c][r] \in 0..Len(work'[c][r])
          /\ Carried(work'[c][r], 0, books[c][r]) = Carried(work[c][r], 0, books[c][r])
        BY <2>1 DEF Grown
    <2>3. ParentOf[c] \in Trees /\ r \in Repos
        BY RepositoriesOfOne, LandAssumption DEF LandAssumption, Trees
    <2>4. QED BY <2>1, <2>2, <2>3 DEF Grown
<1>2. QED BY <1>1 DEF Proven, Between

\* A land beside the step: as it was, or jolted by what was written under it.
LEMMA BesideHolds ==
    ASSUME IInv, NEW j \in Jobs, Grown, StillHeld(j), \/ job'[j] = job[j] /\ Undisturbed(j)
                                                      \/ job'[j] = [job[j] EXCEPT !.mishap = TRUE]
    PROVE  JobInv(j)'
<1>1. JobInv(j) /\ job[j] \in Lands
    BY DEF IInv, Typed
<1>2. /\ job'[j].pc = job[j].pc /\ job'[j].rows = job[j].rows /\ job'[j].asked = job[j].asked
      /\ job'[j].marks = job[j].marks /\ job'[j].plan = job[j].plan /\ job'[j].todo = job[j].todo
      /\ job'[j].wrote = job[j].wrote /\ job'[j].refused = job[j].refused
      /\ ~job'[j].mishap => ~job[j].mishap /\ Undisturbed(j)
    BY <1>1 DEF Lands
<1>3. j[1] \in Convs /\ Into(j) \in Trees /\ ParentOf[j[1]] \in Trees /\ Within(j) \subseteq Repos
      /\ (Into(j) # Main => Into(j) \in Convs)
    BY JobOf
<1>4. InShape(j)'
    BY <1>1, <1>2 DEF JobInv, InShape, Doing
<1>5. HoldsItsQueues(j)'
    BY <1>1, <1>2, <1>3 DEF JobInv, HoldsItsQueues, StillHeld, Doing
<1>6. RecordsProven(j)'
    <2>1. ASSUME job[j].pc # "idle", NEW r \in Within(j)
          PROVE  /\ job[j].rows[r] \in 0..Len(work'[j[1]][r])
                 /\ Carried(work'[j[1]][r], 0, job[j].rows[r]) \subseteq everIn'[ParentOf[j[1]]][r]
        <3>1. /\ job[j].rows[r] \in 0..Len(work[j[1]][r])
              /\ Carried(work[j[1]][r], 0, job[j].rows[r]) \subseteq everIn[ParentOf[j[1]]][r]
            BY <1>1, <2>1 DEF JobInv, RecordsProven, Proven, Between, Within
        <3>2. /\ job[j].rows[r] \in 0..Len(work'[j[1]][r])
              /\ Carried(work'[j[1]][r], 0, job[j].rows[r]) = Carried(work[j[1]][r], 0, job[j].rows[r])
            BY <1>3, <3>1 DEF Grown, Within
        <3>3. QED BY <1>3, <3>1, <3>2 DEF Grown
    <2>2. ASSUME Doing(j, Planned), NEW r \in Within(j)
          PROVE  /\ job[j].plan[r].tip \in 0..Len(work'[j[1]][r])
                 /\ job[j].plan[r].put \subseteq Carried(work'[j[1]][r], 0, job[j].plan[r].tip)
                 /\ Carried(work'[j[1]][r], 0, job[j].plan[r].tip)
                       \subseteq everIn'[Into(j)][r] \cup job[j].plan[r].put
        <3>1. /\ job[j].plan[r].tip \in 0..Len(work[j[1]][r])
              /\ job[j].plan[r].put \subseteq Carried(work[j[1]][r], 0, job[j].plan[r].tip)
              /\ Carried(work[j[1]][r], 0, job[j].plan[r].tip)
                    \subseteq everIn[Into(j)][r] \cup job[j].plan[r].put
            BY <1>1, <2>2 DEF JobInv, RecordsProven, Between
        <3>2. /\ job[j].plan[r].tip \in 0..Len(work'[j[1]][r])
              /\ Carried(work'[j[1]][r], 0, job[j].plan[r].tip)
                    = Carried(work[j[1]][r], 0, job[j].plan[r].tip)
            BY <1>3, <3>1 DEF Grown, Within
        <3>3. QED BY <1>3, <3>1, <3>2 DEF Grown
    <2>3. (job[j].pc # "idle" => Proven(j[1], job[j].rows))'
        BY <1>2, <2>1 DEF Proven, Between, Within
    <2>4. QED BY <1>2, <2>2, <2>3 DEF RecordsProven, Between, Doing
<1>7. PlanFits(j)'
    <2>1. PlanFits(j)
        BY <1>1 DEF JobInv
    <2>2. Current(j)' = Current(j) /\ Ahead(j)' = Ahead(j)
        BY <1>2 DEF Current, Ahead, Doing
    <2>3. Doing(j, Planned) => job[j].todo # {} /\ job[j].todo \subseteq Within(j) /\ Current(j) \in Within(j)
        <3>1. Doing(j, Planned) => job[j].todo # {} /\ job[j].todo \subseteq Within(j)
            BY <1>1 DEF JobInv, InShape
        <3>2. QED BY <1>3, <3>1, FirstOfThem DEF Current, Within
    <2>4. ASSUME Doing(j, Planned), ~job'[j].mishap, NEW r \in Ahead(j)
          PROVE  Fits(j, r)'
        <3>1. r \in Within(j) /\ Fits(j, r)
            BY <1>2, <2>1, <2>3, <2>4 DEF Ahead, PlanFits
        <3>2. tree'[Into(j)][r] = tree[Into(j)][r] /\ (Into(j) = Main => barred'[r] = barred[r])
            BY <1>2, <2>4, <3>1 DEF Undisturbed
        <3>3. QED BY <1>2, <3>1, <3>2 DEF Fits, Blocked
    <2>5. ASSUME Doing(j, {"prove"}), ~job'[j].mishap
          PROVE  Held(j, Current(j))'
        <3>1. Doing(j, Planned)
            BY <2>5 DEF Doing, Planned
        <3>2. tree'[Into(j)][Current(j)] = tree[Into(j)][Current(j)]
            BY <1>2, <2>3, <2>5, <3>1 DEF Undisturbed
        <3>3. Held(j, Current(j))
            BY <1>2, <2>1, <2>5 DEF PlanFits
        <3>4. QED BY <1>2, <2>2, <3>2, <3>3 DEF Held
    <2>6. QED BY <1>2, <2>1, <2>2, <2>4, <2>5 DEF PlanFits, Doing, Planned
<1>8. QED BY <1>4, <1>5, <1>6, <1>7 DEF JobInv

\* A step of one land, in no tree: it need only answer for itself.
LEMMA OneMoves ==
    ASSUME IInv, NEW j \in Jobs, UNCHANGED <<work, tree, barred, everIn>>,
           lease' \in [Convs -> Seq(Jobs)], chain' \in [Repos -> Seq(Jobs)],
           books' \in [Convs -> Rows],
           \A c \in Convs : books'[c] \in [Range(Composed[c]) -> Nat] /\ Proven(c, books[c])',
           job' \in [Jobs -> Lands], \A i \in Jobs \ {j} : job'[i] = job[i] /\ StillHeld(i),
           JobInv(j)'
    PROVE  IInv'
<1>1. Typed'
    BY DEF IInv, Typed
<1>2. BroughtIn'
    BY DEF IInv, BroughtIn
<1>3. Grown
    BY DEF Grown
<1>4. ASSUME NEW i \in Jobs \ {j} PROVE JobInv(i)'
    <2>1. Undisturbed(i)
        BY DEF Undisturbed
    <2>2. QED BY <1>3, <2>1, BesideHolds
<1>5. QED BY <1>1, <1>2, <1>4 DEF IInv

LEMMA LeaseAsked ==
    ASSUME Typed, NEW j \in Jobs, NEW c \in Convs, lease' = [lease EXCEPT ![c] = Append(@, j)]
    PROVE  /\ lease' \in [Convs -> Seq(Jobs)]
           /\ \A i : \A d \in Convs : HeldBy(lease[d], i) => HeldBy(lease'[d], i)
<1>1. lease \in [Convs -> Seq(Jobs)]
    BY DEF Typed
<1>2. Append(lease[c], j) \in Seq(Jobs) /\ \A i : HeldBy(lease[c], i) => HeldBy(Append(lease[c], j), i)
    BY <1>1, QueueKeeps
<1>3. \A d \in Convs : lease'[d] = IF d = c THEN Append(lease[c], j) ELSE lease[d]
    BY <1>1
<1>4. QED BY <1>1, <1>2, <1>3

LEMMA LeaseLetGo ==
    ASSUME Typed, NEW j \in Jobs, lease' = [c \in Convs |-> Released(lease[c], j)]
    PROVE  /\ lease' \in [Convs -> Seq(Jobs)]
           /\ \A i : i # j => \A d \in Convs : HeldBy(lease[d], i) => HeldBy(lease'[d], i)
<1>1. \A c \in Convs : lease[c] \in Seq(Jobs)
    BY DEF Typed
<1>2. \A c \in Convs : /\ Released(lease[c], j) \in Seq(Jobs)
                       /\ \A i : i # j /\ HeldBy(lease[c], i) => HeldBy(Released(lease[c], j), i)
    BY <1>1, QueueKeeps
<1>3. QED BY <1>2

LEMMA LockAsked ==
    ASSUME Typed, NEW j \in Jobs, NEW r \in Repos, chain' = [chain EXCEPT ![r] = Append(@, j)]
    PROVE  /\ chain' \in [Repos -> Seq(Jobs)]
           /\ \A i : \A d \in Repos : HeldBy(chain[d], i) => HeldBy(chain'[d], i)
<1>1. chain \in [Repos -> Seq(Jobs)]
    BY DEF Typed
<1>2. Append(chain[r], j) \in Seq(Jobs) /\ \A i : HeldBy(chain[r], i) => HeldBy(Append(chain[r], j), i)
    BY <1>1, QueueKeeps
<1>3. \A d \in Repos : chain'[d] = IF d = r THEN Append(chain[r], j) ELSE chain[d]
    BY <1>1
<1>4. QED BY <1>1, <1>2, <1>3

LEMMA LocksLetGo ==
    ASSUME Typed, NEW j \in Jobs, chain' = [r \in Repos |-> Released(chain[r], j)]
    PROVE  /\ chain' \in [Repos -> Seq(Jobs)]
           /\ \A i : i # j => \A d \in Repos : HeldBy(chain[d], i) => HeldBy(chain'[d], i)
<1>1. \A r \in Repos : chain[r] \in Seq(Jobs)
    BY DEF Typed
<1>2. \A r \in Repos : /\ Released(chain[r], j) \in Seq(Jobs)
                       /\ \A i : i # j /\ HeldBy(chain[r], i) => HeldBy(Released(chain[r], j), i)
    BY <1>1, QueueKeeps
<1>3. QED BY <1>2

-----------------------------------------------------------------------------
(* The steps of a land. *)

LEMMA CallHolds ==
    ASSUME IInv, NEW j \in Jobs, NEW whole \in BOOLEAN, Call(j, whole)
    PROVE  IInv'
<1>1. Typed /\ BroughtIn /\ j[1] \in Convs
    BY JobOf DEF IInv
<1>2. UNCHANGED <<work, tree, barred, books, lease, chain, everIn>>
    BY DEF Call
<1>3. job' = [job EXCEPT ![j] = [Idle EXCEPT !.pc = "called", !.whole = whole, !.rows = books[j[1]]]]
    BY DEF Call
<1>4. books[j[1]] \in Rows /\ books[j[1]] \in [Range(Composed[j[1]]) -> Nat]
    BY <1>1 DEF Typed
<1>5. job' \in [Jobs -> Lands] /\ \A i \in Jobs \ {j} : job'[i] = job[i]
    BY <1>1, <1>3, <1>4 DEF Typed, Lands, Idle, PCs
<1>6. /\ job'[j].pc = "called" /\ job'[j].rows = books[j[1]] /\ job'[j].wrote = {}
      /\ ~job'[j].refused /\ job'[j].asked = {}
    BY <1>1, <1>3 DEF Typed, Idle
<1>7. Proven(j[1], job[j].rows)'
    BY <1>1, <1>2, <1>6 DEF BroughtIn, Proven, Between
<1>8. JobInv(j)'
    BY <1>4, <1>6, <1>7 DEF JobInv, InShape, HoldsItsQueues, RecordsProven, PlanFits, Doing,
                            Leasing, Locked, Planned, Within
<1>9. \A c \in Convs : Proven(c, books[c])'
    BY <1>1, <1>2 DEF BroughtIn, Proven, Between
<1>10. QED BY <1>1, <1>2, <1>5, <1>8, <1>9, OneMoves DEF Typed, StillHeld

\* A land that only takes its next step, asking for a queue or holding what it asked for.
LEMMA OnlyAdvances ==
    ASSUME IInv, NEW j \in Jobs, NEW p \in {"own", "parent", "sync", "lock"},
           Doing(j, {"called", "own", "parent"}), j[2] = "hand" => p = "own",
           job' = [job EXCEPT ![j].pc = p],
           UNCHANGED <<work, tree, barred, books, chain, everIn>>,
           lease' \in [Convs -> Seq(Jobs)],
           \A i : \A d \in Convs : HeldBy(lease[d], i) => HeldBy(lease'[d], i),
           HoldsItsQueues(j)'
    PROVE  IInv'
<1>1. Typed /\ BroughtIn /\ j[1] \in Convs /\ JobInv(j) /\ job[j] \in Lands /\ job \in [Jobs -> Lands]
    BY JobOf DEF IInv, Typed
<1>2. job' \in [Jobs -> Lands] /\ \A i \in Jobs \ {j} : job'[i] = job[i]
    BY <1>1 DEF Lands, PCs
<1>3. job'[j].pc = p /\ job'[j].rows = job[j].rows /\ job'[j].asked = job[j].asked
      /\ job'[j].wrote = job[j].wrote /\ job'[j].refused = job[j].refused
    BY <1>1 DEF Lands
<1>4. InShape(j)'
    BY <1>1, <1>3 DEF JobInv, InShape, Doing, Planned
<1>5. RecordsProven(j)'
    BY <1>1, <1>3 DEF JobInv, RecordsProven, Proven, Between, Doing, Planned
<1>6. PlanFits(j)'
    BY <1>1, <1>3 DEF JobInv, PlanFits, Doing, Planned
<1>7. \A c \in Convs : Proven(c, books[c])'
    BY <1>1 DEF BroughtIn, Proven, Between
<1>8. JobInv(j)'
    BY <1>4, <1>5, <1>6 DEF JobInv
<1>9. QED BY <1>1, <1>2, <1>7, <1>8, OneMoves DEF Typed, StillHeld

LEMMA LeaseHolds ==
    ASSUME IInv, NEW j \in Jobs, Lease(j)
    PROVE  IInv'
<1>1. Typed /\ j[1] \in Convs /\ job[j] \in Lands
    BY JobOf DEF IInv, Typed
<1>2. /\ Doing(j, {"called"}) /\ lease' = [lease EXCEPT ![j[1]] = Append(@, j)]
      /\ job' = [job EXCEPT ![j].pc = "own"] /\ UNCHANGED <<work, tree, barred, books, chain, everIn>>
    BY DEF Lease
<1>3. /\ lease' \in [Convs -> Seq(Jobs)]
      /\ \A i : \A d \in Convs : HeldBy(lease[d], i) => HeldBy(lease'[d], i)
    BY <1>1, <1>2, LeaseAsked
<1>4. HoldsItsQueues(j)'
    BY <1>1, <1>2 DEF Typed, HoldsItsQueues, Doing, Leasing, Locked, Lands
<1>5. QED BY <1>2, <1>3, <1>4, OnlyAdvances DEF Doing

LEMMA LeasedHolds ==
    ASSUME IInv, NEW j \in Jobs, Leased(j)
    PROVE  IInv'
<1>1. Typed /\ j[1] \in Convs /\ job[j] \in Lands
    BY JobOf DEF IInv, Typed
<1>2. /\ Doing(j, {"own"}) /\ HeldBy(lease[j[1]], j) /\ j[2] # "hand"
      /\ UNCHANGED <<work, tree, barred, books, chain, everIn>>
    BY DEF Leased
<1>3. CASE Into(j) # Main /\ j[2] # "measure"
    <2>1. lease' = [lease EXCEPT ![Into(j)] = Append(@, j)] /\ job' = [job EXCEPT ![j].pc = "parent"]
        BY <1>3 DEF Leased
    <2>2. Into(j) \in Convs
        BY <1>3, JobOf
    <2>3. /\ lease' \in [Convs -> Seq(Jobs)]
          /\ \A i : \A d \in Convs : HeldBy(lease[d], i) => HeldBy(lease'[d], i)
        BY <1>1, <2>1, <2>2, LeaseAsked
    <2>4. HoldsItsQueues(j)'
        BY <1>1, <1>2, <2>1, <2>3 DEF Typed, HoldsItsQueues, Doing, Leasing, Locked, Lands
    <2>5. QED BY <1>2, <2>1, <2>3, <2>4, OnlyAdvances DEF Doing
<1>4. CASE ~(Into(j) # Main /\ j[2] # "measure")
    <2>1. job' = [job EXCEPT ![j].pc = Start(j)] /\ UNCHANGED lease /\ Start(j) \in {"sync", "lock"}
        BY <1>4 DEF Leased, Start
    <2>2. HoldsItsQueues(j)'
        BY <1>1, <1>2, <1>4, <2>1 DEF Typed, HoldsItsQueues, Doing, Leasing, Locked, Lands, Into
    <2>3. QED BY <1>1, <1>2, <2>1, <2>2, OnlyAdvances DEF Doing, Typed
<1>5. QED BY <1>3, <1>4

LEMMA ParentLeasedHolds ==
    ASSUME IInv, NEW j \in Jobs, ParentLeased(j)
    PROVE  IInv'
<1>1. Typed /\ j[1] \in Convs /\ job[j] \in Lands /\ JobInv(j)
    BY JobOf DEF IInv, Typed
<1>2. /\ Doing(j, {"parent"}) /\ HeldBy(lease[Into(j)], j)
      /\ job' = [job EXCEPT ![j].pc = Start(j)] /\ Start(j) \in {"sync", "lock"}
      /\ UNCHANGED <<work, tree, barred, books, chain, lease, everIn>>
    BY DEF ParentLeased, Start
<1>3. HoldsItsQueues(j)'
    BY <1>1, <1>2 DEF Typed, JobInv, HoldsItsQueues, Doing, Leasing, Locked, Lands, Into
<1>4. j[2] # "hand"
    BY <1>1, <1>2 DEF JobInv, InShape, Doing
<1>5. QED BY <1>1, <1>2, <1>3, <1>4, OnlyAdvances DEF Doing, Typed

\* The record a land goes on with, read again or filed as it came, was proven either way.
LEMMA SyncedHolds ==
    ASSUME IInv, NEW j \in Jobs, Synced(j)
    PROVE  IInv'
<1>1. Typed /\ BroughtIn /\ j[1] \in Convs /\ JobInv(j) /\ job[j] \in Lands /\ job \in [Jobs -> Lands]
    BY JobOf DEF IInv, Typed
<1>2. Doing(j, {"sync"}) /\ UNCHANGED <<work, tree, barred, lease, chain, everIn>>
    BY DEF Synced
<1>3. \/ /\ job' = [job EXCEPT ![j].pc = "lock", ![j].rows = books[j[1]]] /\ UNCHANGED books
      \/ /\ job' = [job EXCEPT ![j].pc = "lock"]
         /\ books' = books \/ books' = [books EXCEPT ![j[1]] = job[j].rows]
    BY DEF Synced
<1>4. /\ books \in [Convs -> Rows] /\ books[j[1]] \in [Within(j) -> Nat] /\ books[j[1]] \in Rows
      /\ job[j].rows \in Rows /\ job[j].rows \in [Within(j) -> Nat]
    BY <1>1, <1>2 DEF Typed, Lands, JobInv, InShape, Doing, Within
<1>5. job' \in [Jobs -> Lands] /\ \A i \in Jobs \ {j} : job'[i] = job[i]
    <2>1. \/ job' = [job EXCEPT ![j] = [@ EXCEPT !.pc = "lock", !.rows = books[j[1]]]]
          \/ job' = [job EXCEPT ![j] = [@ EXCEPT !.pc = "lock"]]
        BY <1>1, <1>3
    <2>2. /\ [job[j] EXCEPT !.pc = "lock", !.rows = books[j[1]]] \in Lands
          /\ [job[j] EXCEPT !.pc = "lock"] \in Lands
        BY <1>1, <1>4 DEF Lands, PCs
    <2>3. QED BY <1>1, <2>1, <2>2
<1>6. /\ job'[j].pc = "lock" /\ job'[j].rows \in {books[j[1]], job[j].rows}
      /\ job'[j].asked = job[j].asked /\ job'[j].wrote = job[j].wrote
      /\ job'[j].refused = job[j].refused
    BY <1>1, <1>3 DEF Lands
<1>7. Proven(j[1], books[j[1]]) /\ Proven(j[1], job[j].rows)
    BY <1>1, <1>2 DEF BroughtIn, JobInv, RecordsProven, Doing
<1>8. Proven(j[1], job[j].rows)'
    BY <1>2, <1>6, <1>7 DEF Proven, Between
<1>9. InShape(j)'
    BY <1>1, <1>2, <1>4, <1>6 DEF JobInv, InShape, Doing, Planned
<1>10. HoldsItsQueues(j)'
    BY <1>1, <1>2, <1>6 DEF JobInv, HoldsItsQueues, Doing, Leasing, Locked
<1>11. RecordsProven(j)'
    BY <1>6, <1>8 DEF RecordsProven, Doing, Planned
<1>12. PlanFits(j)'
    BY <1>1, <1>2, <1>6 DEF JobInv, PlanFits, Doing, Planned
<1>13. books' \in [Convs -> Rows] /\ \A c \in Convs : books'[c] \in [Range(Composed[c]) -> Nat]
    BY <1>1, <1>3, <1>4 DEF Typed, Within
<1>14. \A c \in Convs : Proven(c, books[c])'
    <2>1. \A c \in Convs : books'[c] \in {books[c], job[j].rows} /\ (c # j[1] => books'[c] = books[c])
        BY <1>3, <1>4
    <2>2. QED BY <1>1, <1>2, <1>7, <2>1 DEF BroughtIn, Proven, Between
<1>15. QED BY <1>1, <1>2, <1>5, <1>9, <1>10, <1>11, <1>12, <1>13, <1>14, OneMoves
       DEF Typed, StillHeld, JobInv

LEMMA RecordHolds ==
    ASSUME IInv, NEW j \in Jobs, Record(j)
    PROVE  IInv'
<1>1. Typed /\ BroughtIn /\ j[1] \in Convs /\ JobInv(j) /\ job[j] \in Lands /\ job \in [Jobs -> Lands]
    BY JobOf DEF IInv, Typed
<1>2. /\ Doing(j, {"record"}) /\ UNCHANGED <<work, tree, barred, lease, chain, everIn>>
      /\ books' = [books EXCEPT ![j[1]] = job[j].rows]
      /\ job' = [job EXCEPT ![j] = IF Inside(j) THEN [@ EXCEPT !.pc = "free"] ELSE Idle]
    BY DEF Record
<1>3. job[j].rows \in Rows /\ job[j].rows \in [Within(j) -> Nat] /\ Proven(j[1], job[j].rows)
    BY <1>1, <1>2 DEF Lands, JobInv, InShape, RecordsProven, Doing
<1>4. job' \in [Jobs -> Lands] /\ \A i \in Jobs \ {j} : job'[i] = job[i]
    <2>1. [job[j] EXCEPT !.pc = "free"] \in Lands /\ Idle \in Lands
        BY <1>1, IdleIsOne DEF Lands, PCs
    <2>2. QED BY <1>1, <1>2, <2>1
<1>5. \/ job'[j].pc = "idle"
      \/ /\ job'[j].pc = "free" /\ job'[j].rows = job[j].rows
         /\ job'[j].wrote = job[j].wrote /\ job'[j].refused = job[j].refused
         /\ job'[j].mishap = job[j].mishap
    BY <1>1, <1>2 DEF Lands, Idle
<1>6. JobInv(j)'
    <2>1. job[j].pc = "record"
        BY <1>2 DEF Doing
    <2>2. RecordsProven(j)'
        BY <1>2, <1>3, <1>5 DEF RecordsProven, Doing, Planned, Proven, Between
    <2>3. PlanFits(j)'
        BY <1>1, <1>5, <2>1 DEF JobInv, PlanFits, Doing, Planned
    <2>4. InShape(j)' /\ HoldsItsQueues(j)'
        BY <1>3, <1>5 DEF InShape, HoldsItsQueues, Doing, Planned, Leasing, Locked
    <2>5. QED BY <2>2, <2>3, <2>4 DEF JobInv
<1>7. books' \in [Convs -> Rows] /\ \A c \in Convs : books'[c] \in [Range(Composed[c]) -> Nat]
    BY <1>1, <1>2, <1>3 DEF Typed, Within
<1>8. \A c \in Convs : Proven(c, books[c])'
    <2>1. \A c \in Convs : books'[c] = IF c = j[1] THEN job[j].rows ELSE books[c]
        BY <1>1, <1>2 DEF Typed
    <2>2. QED BY <1>1, <1>2, <1>3, <2>1 DEF BroughtIn, Proven, Between
<1>9. QED BY <1>1, <1>2, <1>4, <1>6, <1>7, <1>8, OneMoves DEF Typed, StillHeld

LEMMA ProvenGrows ==
    ASSUME Grown, NEW c \in Convs, NEW rows, Proven(c, rows)
    PROVE  \A r \in Range(Composed[c]) :
              /\ rows[r] \in 0..Len(work'[c][r])
              /\ Carried(work'[c][r], 0, rows[r]) \subseteq everIn'[ParentOf[c]][r]
<1> SUFFICES ASSUME NEW r \in Range(Composed[c])
             PROVE  /\ rows[r] \in 0..Len(work'[c][r])
                    /\ Carried(work'[c][r], 0, rows[r]) \subseteq everIn'[ParentOf[c]][r]
    OBVIOUS
<1>1. rows[r] \in 0..Len(work[c][r])
      /\ Carried(work[c][r], 0, rows[r]) \subseteq everIn[ParentOf[c]][r]
    BY DEF Proven, Between
<1>2. rows[r] \in 0..Len(work'[c][r]) /\ Carried(work'[c][r], 0, rows[r]) = Carried(work[c][r], 0, rows[r])
    BY <1>1 DEF Grown
<1>3. ParentOf[c] \in Trees /\ r \in Repos
    BY RepositoriesOfOne, LandAssumption DEF LandAssumption, Trees
<1>4. QED BY <1>1, <1>2, <1>3 DEF Grown

\* What a branch carries are changes, none of them older than its conversation.
LEMMA CarriedFrom ==
    ASSUME Typed, BroughtIn, NEW c \in Convs, NEW r \in Range(Composed[c]),
           NEW a \in Nat, NEW b \in 0..Len(work[c][r]), NEW u \in Carried(work[c][r], a, b)
    PROVE  u \in Changes /\ Age[c] <= Age[u.of] /\ u.of \in Convs /\ u.of # ParentOf[c]
<1>1. work[c][r] \in Seq(SUBSET Changes)
    BY DEF Typed, Branches
<1>2. PICK i \in a + 1..b : u \in work[c][r][i]
    BY DEF Carried
<1>3. i \in DOMAIN work[c][r] /\ work[c][r][i] \in SUBSET Changes
    BY <1>1, <1>2
<1>4. u \in Changes /\ Age[c] <= Age[u.of]
    BY <1>2, <1>3 DEF BroughtIn
<1>5. u.of \in Convs
    BY <1>4 DEF Changes
<1>6. u.of # ParentOf[c]
    BY <1>4, <1>5, AgeOfParent
<1>7. QED BY <1>4, <1>5, <1>6

LEMMA HandHolds ==
    ASSUME IInv, NEW j \in Jobs, SettleByHand(j)
    PROVE  IInv'
<1> DEFINE put(r) == IF r \in Within(j) THEN Between(j[1], r, 0, Len(work[j[1]][r])) ELSE {}
<1>1. Typed /\ BroughtIn /\ j[1] \in Convs /\ JobInv(j) /\ job[j] \in Lands /\ job \in [Jobs -> Lands]
      /\ ParentOf[j[1]] \in Trees /\ Within(j) \subseteq Repos /\ Within(j) \subseteq Nat
    BY JobOf DEF IInv, Typed
<1>2. /\ j[2] = "hand" /\ Doing(j, {"own"}) /\ UNCHANGED <<work, tree, barred, lease, chain>>
      /\ books' = [books EXCEPT ![j[1]] = [r \in Within(j) |-> Len(work[j[1]][r])]]
      /\ everIn' = [everIn EXCEPT ![ParentOf[j[1]]] = [r \in Repos |-> @[r] \cup put(r)]]
      /\ job' = [job EXCEPT ![j].pc = "free", ![j].moved = TRUE]
    BY DEF SettleByHand
<1>3. \A r \in Within(j) : Len(work[j[1]][r]) \in Nat
    BY <1>1 DEF Typed, Branches, Within
<1>4. \A r \in Repos : put(r) \subseteq Changes
    <2>1. ASSUME NEW r \in Within(j) PROVE Carried(work[j[1]][r], 0, Len(work[j[1]][r])) \subseteq Changes
        <3>1. Len(work[j[1]][r]) \in 0..Len(work[j[1]][r])
            BY <1>3
        <3>2. QED BY <1>1, <3>1, CarriedFrom DEF Within
    <2>2. QED BY <2>1 DEF Between
<1> HIDE DEF put
<1>5. everIn' \in Contents
    BY <1>1, <1>2, <1>4 DEF Typed, Contents
<1>6. \A t \in Trees, r \in Repos :
         everIn'[t][r] = IF t = ParentOf[j[1]] THEN everIn[t][r] \cup put(r) ELSE everIn[t][r]
    BY <1>1, <1>2 DEF Typed, Contents
<1>7. Grown
    BY <1>2, <1>6 DEF Grown
<1>8. books' \in [Convs -> Rows] /\ \A c \in Convs : books'[c] \in [Range(Composed[c]) -> Nat]
    <2> DEFINE tips == [r \in Within(j) |-> Len(work[j[1]][r])]
    <2>1. tips \in [Within(j) -> Nat]
        BY <1>3
    <2>2. tips \in Rows
        BY <1>1, <2>1 DEF Rows
    <2>3. books' = [books EXCEPT ![j[1]] = tips]
        BY <1>2
    <2> HIDE DEF tips
    <2>4. QED BY <1>1, <2>1, <2>2, <2>3 DEF Typed, Within
<1>9. job' \in [Jobs -> Lands] /\ (\A i \in Jobs \ {j} : job'[i] = job[i])
      /\ job'[j].pc = "free" /\ job'[j].rows = job[j].rows /\ job'[j].refused = job[j].refused
      /\ job'[j].mishap = job[j].mishap /\ job'[j].wrote = job[j].wrote
    <2>1. job' = [job EXCEPT ![j] = [@ EXCEPT !.pc = "free", !.moved = TRUE]]
        BY <1>1, <1>2
    <2>2. [job[j] EXCEPT !.pc = "free", !.moved = TRUE] \in Lands
        BY <1>1 DEF Lands, PCs
    <2>3. job'[j] = [job[j] EXCEPT !.pc = "free", !.moved = TRUE]
        BY <1>1, <2>1
    <2>4. QED BY <1>1, <2>1, <2>2, <2>3 DEF Lands
<1>10. Typed'
    BY <1>1, <1>2, <1>5, <1>8, <1>9 DEF Typed
<1>11. \A c \in Convs : Proven(c, books[c])'
    <2>1. ASSUME NEW c \in Convs, c # j[1] PROVE Proven(c, books[c])'
        BY <1>1, <1>2, <1>7, <2>1, BooksGrow DEF BroughtIn, Typed
    <2>2. ASSUME NEW r \in Within(j)
          PROVE  /\ books'[j[1]][r] \in 0..Len(work'[j[1]][r])
                 /\ Carried(work'[j[1]][r], 0, books'[j[1]][r]) \subseteq everIn'[ParentOf[j[1]]][r]
        <3>1. books'[j[1]][r] = Len(work[j[1]][r])
            BY <1>1, <1>2 DEF Typed
        <3>2. r \in Repos /\ put(r) = Carried(work[j[1]][r], 0, Len(work[j[1]][r]))
            BY <1>1 DEF put, Between
        <3>3. work'[j[1]][r] = work[j[1]][r] /\ Len(work[j[1]][r]) \in 0..Len(work[j[1]][r])
            BY <1>2, <1>3
        <3>4. put(r) \subseteq everIn'[ParentOf[j[1]]][r]
            BY <1>1, <1>6, <3>2
        <3>5. QED BY <3>1, <3>2, <3>3, <3>4
    <2>3. Proven(j[1], books[j[1]])'
        BY <2>2 DEF Proven, Between, Within
    <2>4. QED BY <2>1, <2>3
<1>12. BroughtIn'
    BY <1>1, <1>2, <1>6, <1>11 DEF BroughtIn
<1>13. JobInv(j)'
    <2>1. job[j].pc = "own"
        BY <1>2 DEF Doing
    <2>2. RecordsProven(j)'
        <3>1. Proven(j[1], job[j].rows)
            BY <1>1, <2>1 DEF JobInv, RecordsProven
        <3>2. \A r \in Range(Composed[j[1]]) :
                 /\ job[j].rows[r] \in 0..Len(work'[j[1]][r])
                 /\ Carried(work'[j[1]][r], 0, job[j].rows[r]) \subseteq everIn'[ParentOf[j[1]]][r]
            BY <1>1, <1>7, <3>1, ProvenGrows
        <3>3. Proven(j[1], job[j].rows)'
            BY <1>9, <3>2 DEF Proven, Between
        <3>4. QED BY <1>9, <3>3 DEF RecordsProven, Doing, Planned
    <2>3. PlanFits(j)'
        BY <1>1, <1>9, <2>1 DEF JobInv, PlanFits, Doing, Planned
    <2>4. InShape(j)' /\ HoldsItsQueues(j)'
        BY <1>1, <1>9, <2>1 DEF JobInv, InShape, HoldsItsQueues, Doing, Planned, Leasing, Locked
    <2>5. QED BY <2>2, <2>3, <2>4 DEF JobInv
<1>14. ASSUME NEW i \in Jobs \ {j} PROVE JobInv(i)'
    <2>1. Undisturbed(i) /\ StillHeld(i)
        BY <1>2 DEF Undisturbed, StillHeld
    <2>2. QED BY <1>7, <1>9, <2>1, BesideHolds
<1>15. QED BY <1>10, <1>12, <1>13, <1>14 DEF IInv

LEMMA AcquireHolds ==
    ASSUME IInv, NEW j \in Jobs, Acquire(j)
    PROVE  IInv'
<1> DEFINE asked == job[j].asked
           next == NextLock(j[1], asked)
<1>1. Typed /\ BroughtIn /\ j[1] \in Convs /\ JobInv(j) /\ job[j] \in Lands /\ job \in [Jobs -> Lands]
      /\ Within(j) \subseteq Repos /\ Within(j) \subseteq Nat
    BY JobOf DEF IInv, Typed
<1>2. /\ Doing(j, {"lock"}) /\ \A r \in asked : HeldBy(chain[r], j)
      /\ UNCHANGED <<work, tree, barred, books, lease, everIn>>
    BY DEF Acquire
<1>3. asked \subseteq Within(j)
    BY <1>1, <1>2 DEF JobInv, InShape
<1>4. \/ asked = Within(j) /\ job' = [job EXCEPT ![j].pc = "plan"] /\ UNCHANGED chain
      \/ /\ asked # Within(j) /\ chain' = [chain EXCEPT ![next] = Append(@, j)]
         /\ job' = [job EXCEPT ![j].asked = asked \cup {next}]
    BY <1>1 DEF Acquire
<1>5. asked # Within(j) => next \in Within(j)
    BY <1>1, <1>3, NextOfThem DEF Within
<1> HIDE DEF asked, next
<1>6. chain' \in [Repos -> Seq(Jobs)]
      /\ \A i : \A r \in Repos : HeldBy(chain[r], i) => HeldBy(chain'[r], i)
    BY <1>1, <1>4, <1>5, LockAsked DEF Typed
<1>7. /\ job' \in [Jobs -> Lands] /\ \A i \in Jobs \ {j} : job'[i] = job[i]
      /\ job'[j].rows = job[j].rows /\ job'[j].wrote = job[j].wrote /\ job'[j].refused = job[j].refused
      /\ \/ job'[j].pc = "plan" /\ \A r \in Within(j) : HeldBy(chain'[r], j)
         \/ job'[j].pc = "lock" /\ job'[j].asked \subseteq Within(j)
    <2>1. CASE asked = Within(j) /\ job' = [job EXCEPT ![j].pc = "plan"] /\ UNCHANGED chain
        <3>1. [job[j] EXCEPT !.pc = "plan"] \in Lands
            BY <1>1 DEF Lands, PCs
        <3>2. job'[j] = [job[j] EXCEPT !.pc = "plan"]
            BY <1>1, <2>1
        <3>3. QED BY <1>1, <1>2, <2>1, <3>1, <3>2 DEF Lands
    <2>2. CASE next \in Within(j) /\ job' = [job EXCEPT ![j].asked = asked \cup {next}]
        <3>1. [job[j] EXCEPT !.asked = asked \cup {next}] \in Lands
            BY <1>1, <1>3, <2>2 DEF Lands, asked
        <3>2. job'[j] = [job[j] EXCEPT !.asked = asked \cup {next}]
            BY <1>1, <2>2
        <3>3. QED BY <1>1, <1>2, <1>3, <2>2, <3>1, <3>2 DEF Lands, Doing
    <2>3. QED BY <1>4, <1>5, <2>1, <2>2
<1>8. job[j].pc = "lock"
    BY <1>2 DEF Doing
<1>9. JobInv(j)'
    <2>1. InShape(j)'
        BY <1>1, <1>7, <1>8 DEF JobInv, InShape, Doing, Planned
    <2>2. HoldsItsQueues(j)'
        BY <1>1, <1>2, <1>7, <1>8 DEF JobInv, HoldsItsQueues, Doing, Leasing, Locked
    <2>3. RecordsProven(j)'
        BY <1>1, <1>2, <1>7, <1>8 DEF JobInv, RecordsProven, Proven, Between, Doing, Planned
    <2>4. PlanFits(j)'
        BY <1>1, <1>7, <1>8 DEF JobInv, PlanFits, Doing, Planned
    <2>5. QED BY <2>1, <2>2, <2>3, <2>4 DEF JobInv
<1>10. \A c \in Convs : Proven(c, books[c])'
    BY <1>1, <1>2 DEF BroughtIn, Proven, Between
<1>11. QED BY <1>1, <1>2, <1>6, <1>7, <1>9, <1>10, OneMoves DEF Typed, StillHeld

\* The record a plan stamps was in the tree already; what it plans is the rest.
LEMMA PlanHolds ==
    ASSUME IInv, NEW j \in Jobs, Plan(j)
    PROVE  IInv'
<1> DEFINE t == Into(j)
           delta == [r \in Within(j) |-> Outstanding(j, r)]
           clash == {r \in Within(j) : \E u \in delta[r] : Blocked(t, r, u)}
           there == {r \in Within(j) : delta[r] \subseteq tree[t][r]}
           stamped == IF j[2] = "measure" THEN there ELSE {r \in Within(j) : delta[r] = {}}
           writes == {r \in Within(j) : j[2] # "measure" /\ delta[r] # {}}
           plan == [r \in Within(j) |-> [put |-> delta[r] \ tree[t][r], tip |-> Tip(j, r)]]
           moved == \E r \in Within(j) : delta[r] # {} \/ job[j].rows[r] # Tip(j, r)
           rows == [r \in Within(j) |-> IF r \in stamped THEN Tip(j, r) ELSE job[j].rows[r]]
<1>1. Typed /\ BroughtIn /\ j[1] \in Convs /\ JobInv(j) /\ job[j] \in Lands /\ job \in [Jobs -> Lands]
      /\ Within(j) \subseteq Repos /\ Within(j) \subseteq Nat /\ t \in Trees
    BY JobOf DEF IInv, Typed
<1>2. /\ Doing(j, {"plan"}) /\ UNCHANGED <<work, tree, barred, books, lease, chain, everIn>>
      /\ \E marks \in BOOLEAN :
            job' = [job EXCEPT ![j] =
                       IF clash # {} /\ ~marks
                       THEN [@ EXCEPT !.pc = "unlock", !.refused = TRUE, !.moved = TRUE]
                       ELSE [@ EXCEPT !.pc = IF writes = {} THEN "unlock" ELSE "write",
                                      !.marks = marks, !.todo = writes, !.plan = plan,
                                      !.moved = moved,
                                      !.rows = rows]]
    BY DEF Plan, PlanLand
<1>3. /\ job[j].pc = "plan" /\ j[2] # "hand" /\ t = ParentOf[j[1]]
      /\ job[j].rows \in [Within(j) -> Nat] /\ Proven(j[1], job[j].rows)
      /\ job[j].wrote = {} /\ ~job[j].refused
    BY <1>1, <1>2, JobOf DEF JobInv, InShape, RecordsProven, PlanFits, Doing
<1>4. ASSUME NEW r \in Within(j)
      PROVE  /\ Tip(j, r) \in Nat /\ Tip(j, r) \in 0..Len(work[j[1]][r])
             /\ delta[r] \subseteq Changes /\ delta[r] \subseteq Between(j[1], r, 0, Tip(j, r))
             /\ Between(j[1], r, 0, Tip(j, r)) \subseteq everIn[t][r] \cup delta[r]
             /\ delta[r] \cap tree[t][r] \subseteq everIn[t][r]
    <2>1. work[j[1]][r] \in Seq(SUBSET Changes)
        BY <1>1 DEF Typed, Branches, Within
    <2>2. Tip(j, r) \in Nat /\ Tip(j, r) \in 0..Len(work[j[1]][r])
        BY <2>1 DEF Tip
    <2>3. /\ job[j].rows[r] \in Nat /\ job[j].rows[r] <= Tip(j, r)
          /\ Carried(work[j[1]][r], 0, job[j].rows[r]) \subseteq everIn[t][r]
        BY <1>3, <2>2 DEF Proven, Between, Within, Tip
    <2>4. Carried(work[j[1]][r], 0, Tip(j, r))
             = Carried(work[j[1]][r], 0, job[j].rows[r]) \cup Carried(work[j[1]][r], job[j].rows[r], Tip(j, r))
        BY <2>2, <2>3, CarriedInTwo
    <2>5. \/ delta[r] = Carried(work[j[1]][r], 0, Tip(j, r))
          \/ delta[r] = Carried(work[j[1]][r], job[j].rows[r], Tip(j, r))
        BY DEF Outstanding, Between
    <2>6. \A u \in Carried(work[j[1]][r], 0, Tip(j, r)) : u \in Changes /\ u.of # ParentOf[j[1]]
        BY <1>1, <2>2, CarriedFrom DEF Within
    <2>7. delta[r] \subseteq Carried(work[j[1]][r], 0, Tip(j, r))
        BY <2>4, <2>5
    <2>8. \A u \in tree[t][r] : u.of = t \/ u \in everIn[t][r]
        BY <1>1 DEF BroughtIn
    <2>9. delta[r] \cap tree[t][r] \subseteq everIn[t][r]
        BY <1>3, <2>6, <2>7, <2>8
    <2>10. QED BY <2>2, <2>3, <2>4, <2>5, <2>6, <2>7, <2>9 DEF Between
<1>5. plan \in [Within(j) -> Plans]
    BY <1>4 DEF Plans
<1>6. rows \in [Within(j) -> Nat]
    BY <1>3, <1>4
<1>7. writes \subseteq Within(j) /\ Within(j) \in SUBSET Nat /\ moved \in BOOLEAN
    BY <1>1
<1>8. \A r \in Within(j) : r \in stamped => delta[r] \subseteq everIn[t][r]
    BY <1>4
<1>9. \A r \in Within(j) : /\ rows[r] \in 0..Len(work[j[1]][r])
                           /\ Between(j[1], r, 0, rows[r]) \subseteq everIn[t][r]
    <2> SUFFICES ASSUME NEW r \in Within(j)
                 PROVE  /\ rows[r] \in 0..Len(work[j[1]][r])
                        /\ Between(j[1], r, 0, rows[r]) \subseteq everIn[t][r]
        OBVIOUS
    <2>1. CASE r \in stamped
        <3>1. rows[r] = Tip(j, r)
            BY <2>1
        <3>2. delta[r] \subseteq everIn[t][r]
            BY <1>8, <2>1
        <3>3. QED BY <1>4, <3>1, <3>2
    <2>2. CASE r \notin stamped
        <3>1. rows[r] = job[j].rows[r]
            BY <2>2
        <3>2. QED BY <1>3, <3>1 DEF Proven, Within
    <2>3. QED BY <2>1, <2>2
<1>10. \A r \in Within(j) : /\ plan[r].tip = Tip(j, r) /\ plan[r].put = delta[r] \ tree[t][r]
    OBVIOUS
<1>11. \A r \in Within(j) : r \notin clash => \A u \in delta[r] : ~Blocked(t, r, u)
    OBVIOUS
<1> HIDE DEF t, delta, clash, there, stamped, writes, plan, moved, rows
<1>12. PICK marks \in BOOLEAN :
          \/ /\ clash # {} /\ ~marks
             /\ job' = [job EXCEPT ![j] = [@ EXCEPT !.pc = "unlock", !.refused = TRUE, !.moved = TRUE]]
          \/ /\ clash = {} \/ marks
             /\ job' = [job EXCEPT ![j] =
                   [@ EXCEPT !.pc = IF writes = {} THEN "unlock" ELSE "write", !.marks = marks,
                             !.todo = writes, !.plan = plan, !.moved = moved, !.rows = rows]]
    <2>1. PICK marks \in BOOLEAN :
            job' = [job EXCEPT ![j] =
                       IF clash # {} /\ ~marks
                       THEN [@ EXCEPT !.pc = "unlock", !.refused = TRUE, !.moved = TRUE]
                       ELSE [@ EXCEPT !.pc = IF writes = {} THEN "unlock" ELSE "write",
                                      !.marks = marks, !.todo = writes, !.plan = plan,
                                      !.moved = moved, !.rows = rows]]
        BY <1>2
    <2>2. CASE clash # {} /\ ~marks
        BY <2>1, <2>2
    <2>3. CASE ~(clash # {} /\ ~marks)
        BY <2>1, <2>3
    <2>4. QED BY <2>2, <2>3
<1>13. \A c \in Convs : Proven(c, books[c])'
    BY <1>1, <1>2 DEF BroughtIn, Proven, Between
<1>14. CASE job' = [job EXCEPT ![j] = [@ EXCEPT !.pc = "unlock", !.refused = TRUE, !.moved = TRUE]]
    <2>1. [job[j] EXCEPT !.pc = "unlock", !.refused = TRUE, !.moved = TRUE] \in Lands
        BY <1>1 DEF Lands, PCs
    <2>2. job' \in [Jobs -> Lands] /\ \A i \in Jobs \ {j} : job'[i] = job[i]
        BY <1>1, <1>14, <2>1
    <2>3. job'[j].pc = "unlock" /\ job'[j].rows = job[j].rows /\ job'[j].wrote = job[j].wrote
        BY <1>1, <1>14 DEF Lands
    <2>4. RecordsProven(j)'
        BY <1>2, <1>3, <2>3 DEF RecordsProven, Proven, Between, Doing, Planned
    <2>5. HoldsItsQueues(j)'
        BY <1>1, <1>2, <1>3, <2>3 DEF JobInv, HoldsItsQueues, Doing, Leasing, Locked
    <2>6. InShape(j)' /\ PlanFits(j)'
        BY <1>3, <2>3 DEF InShape, PlanFits, Doing, Planned
    <2>7. JobInv(j)'
        BY <2>4, <2>5, <2>6 DEF JobInv
    <2>8. QED BY <1>1, <1>2, <1>13, <2>2, <2>7, OneMoves DEF Typed, StillHeld
<1>15. CASE /\ clash = {} \/ marks
            /\ job' = [job EXCEPT ![j] =
                   [@ EXCEPT !.pc = IF writes = {} THEN "unlock" ELSE "write", !.marks = marks,
                             !.todo = writes, !.plan = plan, !.moved = moved, !.rows = rows]]
    <2>1. [job[j] EXCEPT !.pc = IF writes = {} THEN "unlock" ELSE "write", !.marks = marks,
                         !.todo = writes, !.plan = plan, !.moved = moved, !.rows = rows] \in Lands
        <3>1. rows \in Rows /\ plan \in {<< >>} \cup UNION {[S -> Plans] : S \in SUBSET Nat}
              /\ writes \in SUBSET Nat
            BY <1>5, <1>6, <1>7 DEF Rows
        <3>2. QED BY <1>1, <1>7, <3>1 DEF Lands, PCs
    <2>2. job' \in [Jobs -> Lands] /\ \A i \in Jobs \ {j} : job'[i] = job[i]
        BY <1>1, <1>15, <2>1
    <2>3. /\ job'[j].pc = IF writes = {} THEN "unlock" ELSE "write"
          /\ job'[j].rows = rows /\ job'[j].wrote = job[j].wrote /\ job'[j].refused = job[j].refused
          /\ job'[j].plan = plan /\ job'[j].todo = writes /\ job'[j].marks = marks
        BY <1>1, <1>15 DEF Lands
    <2>4. InShape(j)'
        BY <1>3, <1>5, <1>6, <1>7, <2>3 DEF InShape, Doing, Planned, writes
    <2>5. HoldsItsQueues(j)'
        BY <1>1, <1>2, <1>3, <2>3 DEF JobInv, HoldsItsQueues, Doing, Leasing, Locked
    <2>6. Proven(j[1], job[j].rows)'
        BY <1>2, <1>3, <1>9, <2>3 DEF Proven, Between, Within
    <2>7. ASSUME NEW r \in Within(j)
          PROVE  /\ plan[r].tip \in 0..Len(work[j[1]][r])
                 /\ plan[r].put \subseteq Between(j[1], r, 0, plan[r].tip)
                 /\ Between(j[1], r, 0, plan[r].tip) \subseteq everIn[t][r] \cup plan[r].put
        BY <1>4, <1>10
    <2>8. RecordsProven(j)'
        BY <1>2, <2>3, <2>6, <2>7 DEF RecordsProven, Between, t
    <2>9. ASSUME NEW r \in Within(j), NEW u \in plan[r].put
          PROVE  u \notin tree[t][r] /\ (marks \/ ~Blocked(t, r, u))
        BY <1>10, <1>11, <1>15, <2>9
    <2>10. Ahead(j)' \subseteq Within(j)
        BY <1>7, <2>3 DEF Ahead, Doing
    <2>11. \A r \in Ahead(j)' : Fits(j, r)'
        BY <1>2, <2>3, <2>9, <2>10 DEF Fits, Blocked, t
    <2>12. PlanFits(j)'
        BY <1>3, <2>3, <2>11 DEF PlanFits, Doing, Planned
    <2>13. JobInv(j)'
        BY <2>4, <2>5, <2>8, <2>12 DEF JobInv
    <2>14. QED BY <1>1, <1>2, <1>13, <2>2, <2>13, OneMoves DEF Typed, StillHeld
<1>16. QED BY <1>12, <1>14, <1>15

\* A write is refused only under a mishap; one that goes through grows the tree, where
\* only the holder of the repository's lock has planned.
LEMMA WriteHolds ==
    ASSUME IInv, NEW j \in Jobs, Write(j)
    PROVE  IInv'
<1> DEFINE t == Into(j)
           r == Current(j)
           W == job[j].plan[r].put
           refused == \E u \in W : u \in tree[t][r] \/ (Blocked(t, r, u) /\ ~job[j].marks)
<1>1. Typed /\ BroughtIn /\ j[1] \in Convs /\ JobInv(j) /\ job[j] \in Lands /\ job \in [Jobs -> Lands]
      /\ Within(j) \subseteq Repos /\ Within(j) \subseteq Nat /\ t \in Trees /\ (t # Main => t \in Convs)
    BY JobOf DEF IInv, Typed
<1>2. /\ job[j].pc = "write" /\ Doing(j, {"write"})
      /\ UNCHANGED <<barred, books, lease, chain>>
      /\ \/ /\ refused /\ UNCHANGED <<work, tree, everIn>>
            /\ \E broke \in BOOLEAN :
                  job' = [job EXCEPT ![j].pc = "unlock", ![j].refused = TRUE, ![j].broke = broke]
         \/ /\ ~refused
            /\ tree' = [tree EXCEPT ![t][r] = @ \cup W]
            /\ everIn' = [everIn EXCEPT ![t][r] = @ \cup W]
            /\ work' = IF t # Main /\ W # {} THEN [work EXCEPT ![t][r] = Append(@, W)] ELSE work
            /\ job' = [job EXCEPT ![j].pc = "prove", ![j].wrote = @ \cup {r}]
         \/ /\ job' = [job EXCEPT ![j].pc = "prove", ![j].mishap = TRUE]
            /\ UNCHANGED <<work, tree, everIn>>
    BY DEF Write, Current, Doing
<1>3. /\ job[j].rows \in [Within(j) -> Nat] /\ job[j].plan \in [Within(j) -> Plans]
      /\ j[2] # "hand" /\ j[2] # "measure" /\ job[j].todo # {} /\ job[j].todo \subseteq Within(j)
      /\ Proven(j[1], job[j].rows) /\ ~job[j].refused
    BY <1>1, <1>2 DEF JobInv, InShape, RecordsProven, PlanFits, Doing, Planned
<1>4. t = ParentOf[j[1]] /\ r \in job[j].todo /\ r \in Within(j) /\ r \in Repos
    BY <1>1, <1>3, FirstOfThem, JobOf DEF Current, Within
<1>5. \A q \in Within(j) :
         /\ job[j].plan[q].tip \in 0..Len(work[j[1]][q])
         /\ job[j].plan[q].put \subseteq Between(j[1], q, 0, job[j].plan[q].tip)
         /\ Between(j[1], q, 0, job[j].plan[q].tip) \subseteq everIn[t][q] \cup job[j].plan[q].put
    BY <1>1, <1>2 DEF JobInv, RecordsProven, Doing, Planned
<1>6. ~job[j].mishap => \A q \in job[j].todo : Fits(j, q)
    BY <1>1, <1>2 DEF JobInv, PlanFits, Doing, Planned, Ahead
<1>7. \A q \in Within(j) : HeldBy(chain[q], j)
    BY <1>1, <1>2 DEF JobInv, HoldsItsQueues, Doing, Locked
<1>8. \A u \in W : u \in Changes /\ (t # Main => Age[t] <= Age[u.of])
    <2> SUFFICES ASSUME NEW u \in W PROVE u \in Changes /\ (t # Main => Age[t] <= Age[u.of])
        OBVIOUS
    <2>1. /\ job[j].plan[r].tip \in 0..Len(work[j[1]][r])
          /\ u \in Carried(work[j[1]][r], 0, job[j].plan[r].tip)
        BY <1>4, <1>5 DEF Between
    <2>2. u \in Changes /\ Age[j[1]] <= Age[u.of] /\ u.of \in Convs
        BY <1>1, <1>4, <2>1, CarriedFrom DEF Within
    <2>3. t # Main => Age[t] < Age[j[1]]
        BY <1>1, <1>4, AgeOfParent
    <2>4. Age[j[1]] \in Nat /\ Age[u.of] \in Nat /\ (t # Main => Age[t] \in Nat)
        BY <1>1, <2>2, AgeOfParent
    <2>5. QED BY <2>2, <2>3, <2>4
<1>9. job[j].refused = FALSE /\ (refused => job[j].mishap)
    <2>1. job[j].refused \in BOOLEAN
        BY <1>1 DEF Lands
    <2>2. ~job[j].mishap => Fits(j, r)
        BY <1>4, <1>6
    <2>3. QED BY <1>3, <2>1, <2>2 DEF Fits
<1> HIDE DEF t, r, W, refused
<1>10. CASE UNCHANGED <<work, tree, everIn>>
    <2>1. \A c \in Convs : Proven(c, books[c])'
        BY <1>1, <1>2, <1>10 DEF BroughtIn, Proven, Between
    <2>2. \/ /\ refused
             /\ \E broke \in BOOLEAN : job' = [job EXCEPT ![j] = [@ EXCEPT !.pc = "unlock",
                                                         !.refused = TRUE, !.broke = broke]]
          \/ job' = [job EXCEPT ![j] = [@ EXCEPT !.pc = "prove", !.mishap = TRUE]]
          \/ job' = [job EXCEPT ![j] = [@ EXCEPT !.pc = "prove", !.wrote = job[j].wrote \cup {r}]] /\ W \subseteq tree[t][r]
        <3>1. tree' = [tree EXCEPT ![t][r] = @ \cup W] => W \subseteq tree[t][r]
            BY <1>1, <1>4, <1>10 DEF Typed, Contents
        <3>2. QED BY <1>1, <1>2, <3>1
    <2>3. CASE /\ refused
               /\ \E broke \in BOOLEAN : job' = [job EXCEPT ![j] = [@ EXCEPT !.pc = "unlock",
                                                           !.refused = TRUE, !.broke = broke]]
        <3>1. PICK broke \in BOOLEAN : job' = [job EXCEPT ![j] = [@ EXCEPT !.pc = "unlock",
                                                         !.refused = TRUE, !.broke = broke]]
            BY <2>3
        <3>2. [job[j] EXCEPT !.pc = "unlock", !.refused = TRUE, !.broke = broke] \in Lands
            BY <1>1 DEF Lands, PCs
        <3>3. job' \in [Jobs -> Lands] /\ \A i \in Jobs \ {j} : job'[i] = job[i]
            BY <1>1, <3>1, <3>2
        <3>4. job'[j].pc = "unlock" /\ job'[j].rows = job[j].rows /\ job'[j].mishap = job[j].mishap
              /\ job'[j].asked = job[j].asked
            BY <1>1, <3>1 DEF Lands
        <3>5. job[j].mishap
            BY <1>9, <2>3
        <3>6. RecordsProven(j)'
            BY <1>10, <1>3, <3>4 DEF RecordsProven, Proven, Between, Doing, Planned
        <3>7. HoldsItsQueues(j)'
            BY <1>1, <1>2, <3>4 DEF JobInv, HoldsItsQueues, Doing, Leasing, Locked
        <3>8. InShape(j)' /\ PlanFits(j)'
            BY <1>3, <3>4, <3>5 DEF InShape, PlanFits, Doing, Planned
        <3>9. JobInv(j)'
            BY <3>6, <3>7, <3>8 DEF JobInv
        <3>10. QED BY <1>1, <1>2, <1>10, <2>1, <3>3, <3>9, OneMoves DEF Typed, StillHeld
    <2>4. CASE job' = [job EXCEPT ![j] = [@ EXCEPT !.pc = "prove", !.mishap = TRUE]]
        <3>1. [job[j] EXCEPT !.pc = "prove", !.mishap = TRUE] \in Lands
            BY <1>1 DEF Lands, PCs
        <3>2. job' \in [Jobs -> Lands] /\ \A i \in Jobs \ {j} : job'[i] = job[i]
            BY <1>1, <2>4, <3>1
        <3>3. /\ job'[j].pc = "prove" /\ job'[j].rows = job[j].rows /\ job'[j].mishap
              /\ job'[j].plan = job[j].plan /\ job'[j].todo = job[j].todo
              /\ job'[j].refused = job[j].refused
            BY <1>1, <2>4 DEF Lands
        <3>4. RecordsProven(j)'
            BY <1>10, <1>3, <1>5, <3>3 DEF RecordsProven, Proven, Between, Doing, Planned, t
        <3>5. HoldsItsQueues(j)'
            BY <1>1, <1>2, <3>3 DEF JobInv, HoldsItsQueues, Doing, Leasing, Locked
        <3>6. InShape(j)' /\ PlanFits(j)'
            BY <1>3, <3>3 DEF InShape, PlanFits, Doing, Planned
        <3>7. JobInv(j)'
            BY <3>4, <3>5, <3>6 DEF JobInv
        <3>8. QED BY <1>1, <1>2, <1>10, <2>1, <3>2, <3>7, OneMoves DEF Typed, StillHeld
    <2>5. CASE job' = [job EXCEPT ![j] = [@ EXCEPT !.pc = "prove", !.wrote = job[j].wrote \cup {r}]] /\ W \subseteq tree[t][r]
        <3>1. [job[j] EXCEPT !.pc = "prove", !.wrote = job[j].wrote \cup {r}] \in Lands
            BY <1>1, <1>4 DEF Lands, PCs
        <3>2. job' \in [Jobs -> Lands] /\ \A i \in Jobs \ {j} : job'[i] = job[i]
            BY <1>1, <2>5, <3>1
        <3>3. /\ job'[j].pc = "prove" /\ job'[j].rows = job[j].rows /\ job'[j].mishap = job[j].mishap
              /\ job'[j].plan = job[j].plan /\ job'[j].todo = job[j].todo
              /\ job'[j].refused = job[j].refused /\ job'[j].marks = job[j].marks
            BY <1>1, <2>5 DEF Lands
        <3>4. RecordsProven(j)'
            BY <1>10, <1>3, <1>5, <3>3 DEF RecordsProven, Proven, Between, Doing, Planned, t
        <3>5. HoldsItsQueues(j)'
            BY <1>1, <1>2, <3>3 DEF JobInv, HoldsItsQueues, Doing, Leasing, Locked
        <3>6. InShape(j)'
            BY <1>3, <3>3 DEF InShape, Doing, Planned
        <3>7. ~job[j].mishap => (\A q \in job[j].todo : Fits(j, q)')
            BY <1>2, <1>6, <1>10, <3>3 DEF Fits, Blocked
        <3>8. Held(j, Current(j))'
            BY <1>10, <2>5, <3>3 DEF Held, Current, W, t, r
        <3>9. PlanFits(j)'
            BY <1>3, <3>3, <3>7, <3>8 DEF PlanFits, Doing, Planned, Ahead
        <3>10. JobInv(j)'
            BY <3>4, <3>5, <3>6, <3>9 DEF JobInv
        <3>11. QED BY <1>1, <1>2, <1>10, <2>1, <3>2, <3>10, OneMoves DEF Typed, StillHeld
    <2>6. QED BY <2>2, <2>3, <2>4, <2>5
<1>11. CASE /\ tree' = [tree EXCEPT ![t][r] = @ \cup W]
            /\ everIn' = [everIn EXCEPT ![t][r] = @ \cup W]
            /\ work' = IF t # Main /\ W # {} THEN [work EXCEPT ![t][r] = Append(@, W)] ELSE work
            /\ job' = [job EXCEPT ![j].pc = "prove", ![j].wrote = @ \cup {r}]
    <2>1. \A s \in Trees, q \in Repos :
             /\ tree'[s][q] = IF s = t /\ q = r THEN tree[t][r] \cup W ELSE tree[s][q]
             /\ everIn'[s][q] = IF s = t /\ q = r THEN everIn[t][r] \cup W ELSE everIn[s][q]
        BY <1>1, <1>4, <1>11 DEF Typed, Contents
    <2>2. tree' \in Contents /\ everIn' \in Contents
        BY <1>1, <1>4, <1>8, <1>11 DEF Typed, Contents
    <2>3. \A c \in Convs : \A q \in Range(Composed[c]) :
             work'[c][q] = IF c = t /\ q = r /\ t # Main /\ W # {}
                           THEN Append(work[c][q], W) ELSE work[c][q]
        BY <1>1, <1>11 DEF Typed, Branches
    <2>4. \A c \in Convs : work'[c] \in Branches(c)
        <3>1. ASSUME NEW c \in Convs, NEW q \in Range(Composed[c])
              PROVE  work'[c][q] \in Seq(SUBSET Changes)
            <4>1. work[c][q] \in Seq(SUBSET Changes) /\ W \in SUBSET Changes
                BY <1>1, <1>8 DEF Typed, Branches
            <4>2. Append(work[c][q], W) \in Seq(SUBSET Changes)
                BY <4>1
            <4>3. work'[c][q] = work[c][q] \/ work'[c][q] = Append(work[c][q], W)
                BY <2>3
            <4>4. QED BY <4>1, <4>2, <4>3
        <3>2. ASSUME NEW c \in Convs
              PROVE  work'[c] = [q \in Range(Composed[c]) |-> work'[c][q]]
            <4>1. work[c] = [q \in Range(Composed[c]) |-> work[c][q]]
                BY <1>1 DEF Typed, Branches
            <4>2. \/ work'[c] = work[c]
                  \/ work'[c] = [work[c] EXCEPT ![r] = Append(work[c][r], W)]
                BY <1>1, <1>11 DEF Typed
            <4>3. QED BY <4>1, <4>2
        <3>3. QED BY <3>1, <3>2 DEF Branches
    <2>5. work' \in [Convs -> UNION {Branches(c) : c \in Convs}]
        <3>1. DOMAIN work' = Convs /\ work' = [c \in Convs |-> work'[c]]
            BY <1>1, <1>11 DEF Typed
        <3>2. QED BY <2>4, <3>1
    <2>6. Grown
        <3>1. ASSUME NEW c \in Convs, NEW q \in Range(Composed[c]), NEW n \in 0..Len(work[c][q])
              PROVE  n \in 0..Len(work'[c][q]) /\ Carried(work'[c][q], 0, n) = Carried(work[c][q], 0, n)
            <4>1. work[c][q] \in Seq(SUBSET Changes) /\ W \in SUBSET Changes /\ n \in Nat
                BY <1>1, <1>8 DEF Typed, Branches
            <4>2. \/ work'[c][q] = work[c][q]
                  \/ work'[c][q] = Append(work[c][q], W)
                BY <2>3
            <4>3. n \in 0..Len(work'[c][q]) /\ \A k \in 1..n : work'[c][q][k] = work[c][q][k]
                BY <4>1, <4>2
            <4>4. QED BY <4>1, <4>3, CarriedAlike
        <3>2. QED BY <2>1, <3>1 DEF Grown
    <2>7. job' = [job EXCEPT ![j] = [@ EXCEPT !.pc = "prove", !.wrote = job[j].wrote \cup {r}]]
        BY <1>1, <1>11
    <2>8. [job[j] EXCEPT !.pc = "prove", !.wrote = job[j].wrote \cup {r}] \in Lands
        BY <1>1, <1>4 DEF Lands, PCs
    <2>9. job' \in [Jobs -> Lands] /\ \A i \in Jobs \ {j} : job'[i] = job[i]
        BY <1>1, <2>7, <2>8
    <2>10. /\ job'[j].pc = "prove" /\ job'[j].rows = job[j].rows /\ job'[j].mishap = job[j].mishap
           /\ job'[j].plan = job[j].plan /\ job'[j].todo = job[j].todo
           /\ job'[j].refused = job[j].refused /\ job'[j].marks = job[j].marks
        BY <1>1, <2>7 DEF Lands
    <2>11. Typed'
        BY <1>1, <1>2, <2>2, <2>4, <2>5, <2>9 DEF Typed
    <2>12. BroughtIn'
        <3>1. \A s \in Trees, q \in Repos : \A u \in tree'[s][q] : u.of = s \/ u \in everIn'[s][q]
            BY <1>1, <2>1 DEF BroughtIn
        <3>2. ASSUME NEW c \in Convs, NEW q \in Range(Composed[c]), NEW k \in DOMAIN work'[c][q],
                     NEW u \in work'[c][q][k]
              PROVE  Age[c] <= Age[u.of]
            <4>1. work[c][q] \in Seq(SUBSET Changes) /\ W \in SUBSET Changes
                BY <1>1, <1>8 DEF Typed, Branches
            <4>2. CASE k \in DOMAIN work[c][q] /\ work'[c][q][k] = work[c][q][k]
                BY <1>1, <3>2, <4>2 DEF BroughtIn
            <4>3. CASE c = t /\ t # Main /\ work'[c][q][k] = W
                BY <1>8, <3>2, <4>3
            <4>4. CASE work'[c][q] = work[c][q]
                BY <3>2, <4>2, <4>4
            <4>5. CASE c = t /\ t # Main /\ work'[c][q] = Append(work[c][q], W)
                <5>1. DOMAIN work'[c][q] = 1..Len(work[c][q]) + 1 /\ Len(work[c][q]) \in Nat
                    BY <4>1, <4>5
                <5>2. CASE k = Len(work[c][q]) + 1
                    BY <4>1, <4>3, <4>5, <5>2
                <5>3. CASE k \in 1..Len(work[c][q])
                    BY <4>1, <4>2, <4>5, <5>3
                <5>4. QED BY <3>2, <5>1, <5>2, <5>3
            <4>6. QED BY <2>3, <4>4, <4>5
        <3>3. \A c \in Convs : Proven(c, books[c])'
            BY <1>1, <1>2, <2>6, BooksGrow DEF BroughtIn
        <3>4. QED BY <3>1, <3>2, <3>3 DEF BroughtIn
    <2>13. JobInv(j)'
        <3>1. \A q \in Range(Composed[j[1]]) :
                 /\ job[j].rows[q] \in 0..Len(work'[j[1]][q])
                 /\ Carried(work'[j[1]][q], 0, job[j].rows[q]) \subseteq everIn'[ParentOf[j[1]]][q]
            BY <1>1, <1>3, <2>6, ProvenGrows
        <3>2. Proven(j[1], job[j].rows)'
            BY <2>10, <3>1 DEF Proven, Between
        <3>3. ASSUME NEW q \in Within(j)
              PROVE  /\ job[j].plan[q].tip \in 0..Len(work'[j[1]][q])
                     /\ job[j].plan[q].put \subseteq Carried(work'[j[1]][q], 0, job[j].plan[q].tip)
                     /\ Carried(work'[j[1]][q], 0, job[j].plan[q].tip)
                           \subseteq everIn'[t][q] \cup job[j].plan[q].put
            <4>1. /\ job[j].plan[q].tip \in 0..Len(work'[j[1]][q])
                  /\ Carried(work'[j[1]][q], 0, job[j].plan[q].tip)
                        = Carried(work[j[1]][q], 0, job[j].plan[q].tip)
                BY <1>1, <1>5, <2>6 DEF Grown, Within
            <4>2. everIn[t][q] \subseteq everIn'[t][q]
                BY <1>1, <2>6 DEF Grown
            <4>3. QED BY <1>5, <4>1, <4>2 DEF Between
        <3>4. RecordsProven(j)'
            BY <2>10, <3>2, <3>3 DEF RecordsProven, Between, t
        <3>5. HoldsItsQueues(j)'
            BY <1>1, <1>2, <2>10 DEF JobInv, HoldsItsQueues, Doing, Leasing, Locked
        <3>6. InShape(j)'
            BY <1>3, <2>10 DEF InShape, Doing, Planned
        <3>7. Current(j)' = r
            BY <2>10 DEF Current, r
        <3>8. ASSUME ~job[j].mishap, NEW q \in job[j].todo, q # r
              PROVE  Fits(j, q)'
            <4>1. tree'[t][q] = tree[t][q] /\ Fits(j, q) /\ q \in Repos
                BY <1>1, <1>3, <1>6, <2>1, <3>8
            <4>2. QED BY <1>2, <2>10, <4>1 DEF Fits, Blocked, t
        <3>9. Held(j, Current(j))'
            <4>1. W \subseteq tree'[t][r]
                BY <1>1, <1>4, <2>1
            <4>2. QED BY <2>10, <3>7, <4>1 DEF Held, W, t
        <3>10. PlanFits(j)'
            BY <1>3, <2>10, <3>7, <3>8, <3>9 DEF PlanFits, Doing, Planned, Ahead
        <3>11. QED BY <3>4, <3>5, <3>6, <3>10 DEF JobInv
    <2>14. ASSUME NEW i \in Jobs \ {j} PROVE JobInv(i)'
        <3>1. StillHeld(i)
            BY <1>2 DEF StillHeld
        <3>2. Undisturbed(i)
            <4> SUFFICES ASSUME Doing(i, Planned), NEW q \in Within(i)
                         PROVE  tree'[Into(i)][q] = tree[Into(i)][q] /\ barred'[q] = barred[q]
                BY DEF Undisturbed
            <4>1. HeldBy(chain[q], i) /\ Into(i) \in Trees /\ q \in Repos
                BY JobOf DEF IInv, JobInv, HoldsItsQueues, Doing, Planned, Locked
            <4>2. q # r
                BY <1>4, <1>7, <4>1 DEF HeldBy
            <4>3. QED BY <1>2, <2>1, <4>1, <4>2
        <3>3. QED BY <2>6, <2>9, <3>1, <3>2, BesideHolds
    <2>15. QED BY <2>11, <2>12, <2>13, <2>14 DEF IInv
<1>12. QED BY <1>2, <1>10, <1>11

\* A tip moves for what the tree was read back holding: none of it the tree's own work.
LEMMA ProveHolds ==
    ASSUME IInv, NEW j \in Jobs, Prove(j)
    PROVE  IInv'
<1> DEFINE r == Current(j)
           rest == job[j].todo \ {r}
           tip == job[j].plan[r].tip
<1>1. Typed /\ BroughtIn /\ j[1] \in Convs /\ JobInv(j) /\ job[j] \in Lands /\ job \in [Jobs -> Lands]
      /\ Within(j) \subseteq Repos /\ Within(j) \subseteq Nat /\ Into(j) \in Trees
    BY JobOf DEF IInv, Typed
<1>2. /\ job[j].pc = "prove" /\ Doing(j, {"prove"})
      /\ UNCHANGED <<work, tree, barred, books, lease, chain, everIn>>
      /\ \/ /\ Held(j, r)
            /\ job' = [job EXCEPT ![j] = [@ EXCEPT !.rows[r] = tip, !.todo = rest,
                                                   !.pc = IF rest = {} THEN "unlock" ELSE "write"]]
         \/ /\ ~Held(j, r)
            /\ job' = [job EXCEPT ![j] = [@ EXCEPT !.refused = TRUE, !.pc = "unlock"]]
    BY DEF Prove, Current, Doing
<1>3. /\ job[j].rows \in [Within(j) -> Nat] /\ job[j].plan \in [Within(j) -> Plans]
      /\ j[2] # "hand" /\ j[2] # "measure" /\ job[j].todo # {} /\ job[j].todo \subseteq Within(j)
      /\ Proven(j[1], job[j].rows) /\ ~job[j].refused
    BY <1>1, <1>2 DEF JobInv, InShape, RecordsProven, PlanFits, Doing, Planned
<1>4. Into(j) = ParentOf[j[1]] /\ r \in job[j].todo /\ r \in Within(j) /\ r \in Repos
    BY <1>1, <1>3, FirstOfThem, JobOf DEF Current, Within
<1>5. \A q \in Within(j) :
         /\ job[j].plan[q].tip \in 0..Len(work[j[1]][q])
         /\ job[j].plan[q].put \subseteq Between(j[1], q, 0, job[j].plan[q].tip)
         /\ Between(j[1], q, 0, job[j].plan[q].tip) \subseteq everIn[Into(j)][q] \cup job[j].plan[q].put
    BY <1>1, <1>2 DEF JobInv, RecordsProven, Doing, Planned
<1>6. /\ ~job[j].mishap => \A q \in rest : Fits(j, q)
      /\ ~job[j].mishap => Held(j, r)
    BY <1>1, <1>2 DEF JobInv, PlanFits, Doing, Planned, Ahead
<1>7. \A c \in Convs : Proven(c, books[c])'
    BY <1>1, <1>2 DEF BroughtIn, Proven, Between
<1> HIDE DEF r, rest, tip
<1>8. CASE /\ Held(j, r)
           /\ job' = [job EXCEPT ![j] = [@ EXCEPT !.rows[r] = tip, !.todo = rest,
                                                  !.pc = IF rest = {} THEN "unlock" ELSE "write"]]
    <2> DEFINE rows == [job[j].rows EXCEPT ![r] = tip]
    <2>1. job' = [job EXCEPT ![j] = [@ EXCEPT !.rows = rows, !.todo = rest,
                                              !.pc = IF rest = {} THEN "unlock" ELSE "write"]]
        BY <1>1, <1>8
    <2>2. tip \in 0..Len(work[j[1]][r]) /\ tip \in Nat
        <3>1. work[j[1]][r] \in Seq(SUBSET Changes)
            BY <1>1, <1>4 DEF Typed, Branches, Within
        <3>2. QED BY <1>4, <1>5, <3>1 DEF tip
    <2>3. /\ rows \in [Within(j) -> Nat] /\ rows \in Rows
          /\ \A q \in Within(j) : rows[q] = IF q = r THEN tip ELSE job[j].rows[q]
        BY <1>1, <1>3, <2>2 DEF Rows
    <2> HIDE DEF rows
    <2>4. rest \subseteq Within(j) /\ rest \in SUBSET Nat
        BY <1>1, <1>3 DEF rest
    <2>5. [job[j] EXCEPT !.rows = rows, !.todo = rest,
                         !.pc = IF rest = {} THEN "unlock" ELSE "write"] \in Lands
        BY <1>1, <2>3, <2>4 DEF Lands, PCs
    <2>6. job' \in [Jobs -> Lands] /\ \A i \in Jobs \ {j} : job'[i] = job[i]
        BY <1>1, <2>1, <2>5
    <2>7. /\ job'[j].pc = IF rest = {} THEN "unlock" ELSE "write"
          /\ job'[j].rows = rows /\ job'[j].todo = rest /\ job'[j].plan = job[j].plan
          /\ job'[j].refused = job[j].refused /\ job'[j].mishap = job[j].mishap
          /\ job'[j].marks = job[j].marks
        BY <1>1, <2>1 DEF Lands
    <2>8. Between(j[1], r, 0, tip) \subseteq everIn[ParentOf[j[1]]][r]
        <3>1. \A u \in job[j].plan[r].put : u.of # ParentOf[j[1]]
            BY <1>1, <1>4, <1>5, CarriedFrom DEF Between, Within
        <3>2. \A u \in job[j].plan[r].put : u \in tree[Into(j)][r]
            BY <1>8 DEF Held
        <3>3. \A u \in job[j].plan[r].put : u \in everIn[Into(j)][r]
            BY <1>1, <1>4, <3>1, <3>2 DEF BroughtIn
        <3>4. QED BY <1>4, <1>5, <3>3 DEF tip
    <2>9. Proven(j[1], rows)
        BY <1>3, <2>2, <2>3, <2>8 DEF Proven, Within
    <2>10. RecordsProven(j)'
        BY <1>2, <1>5, <2>7, <2>9 DEF RecordsProven, Proven, Between
    <2>11. HoldsItsQueues(j)'
        BY <1>1, <1>2, <2>7 DEF JobInv, HoldsItsQueues, Doing, Leasing, Locked
    <2>12. InShape(j)'
        BY <1>3, <2>3, <2>4, <2>7 DEF InShape, Doing, Planned
    <2>13. ~job[j].mishap => \A q \in rest : Fits(j, q)'
        BY <1>2, <1>6, <2>7 DEF Fits, Blocked
    <2>14. PlanFits(j)'
        BY <1>3, <2>7, <2>13 DEF PlanFits, Doing, Planned, Ahead
    <2>15. JobInv(j)'
        BY <2>10, <2>11, <2>12, <2>14 DEF JobInv
    <2>16. QED BY <1>1, <1>2, <1>7, <2>6, <2>15, OneMoves DEF Typed, StillHeld
<1>9. CASE /\ ~Held(j, r)
           /\ job' = [job EXCEPT ![j] = [@ EXCEPT !.refused = TRUE, !.pc = "unlock"]]
    <2>1. [job[j] EXCEPT !.refused = TRUE, !.pc = "unlock"] \in Lands
        BY <1>1 DEF Lands, PCs
    <2>2. job' \in [Jobs -> Lands] /\ \A i \in Jobs \ {j} : job'[i] = job[i]
        BY <1>1, <1>9, <2>1
    <2>3. job'[j].pc = "unlock" /\ job'[j].rows = job[j].rows /\ job'[j].mishap = job[j].mishap
        BY <1>1, <1>9 DEF Lands
    <2>4. job[j].mishap
        BY <1>6, <1>9
    <2>5. RecordsProven(j)'
        BY <1>2, <1>3, <2>3 DEF RecordsProven, Proven, Between, Doing, Planned
    <2>6. HoldsItsQueues(j)'
        BY <1>1, <1>2, <2>3 DEF JobInv, HoldsItsQueues, Doing, Leasing, Locked
    <2>7. InShape(j)' /\ PlanFits(j)'
        BY <1>3, <2>3, <2>4 DEF InShape, PlanFits, Doing, Planned
    <2>8. JobInv(j)'
        BY <2>5, <2>6, <2>7 DEF JobInv
    <2>9. QED BY <1>1, <1>2, <1>7, <2>2, <2>8, OneMoves DEF Typed, StillHeld
<1>10. QED BY <1>2, <1>8, <1>9

LEMMA UnlockHolds ==
    ASSUME IInv, NEW j \in Jobs, Unlock(j)
    PROVE  IInv'
<1>1. Typed /\ BroughtIn /\ j[1] \in Convs /\ JobInv(j) /\ job[j] \in Lands /\ job \in [Jobs -> Lands]
    BY JobOf DEF IInv, Typed
<1>2. /\ job[j].pc = "unlock" /\ UNCHANGED <<work, tree, barred, books, lease, everIn>>
      /\ chain' = [r \in Repos |-> Released(chain[r], j)]
      /\ \E p \in {"record", "free"} : job' = [job EXCEPT ![j] = [@ EXCEPT !.pc = p]]
    BY DEF Unlock, Doing
<1>3. PICK p \in {"record", "free"} : job' = [job EXCEPT ![j] = [@ EXCEPT !.pc = p]]
    BY <1>2
<1>4. /\ chain' \in [Repos -> Seq(Jobs)]
      /\ \A i : i # j => \A d \in Repos : HeldBy(chain[d], i) => HeldBy(chain'[d], i)
    BY <1>1, <1>2, LocksLetGo
<1>5. job' \in [Jobs -> Lands] /\ \A i \in Jobs \ {j} : job'[i] = job[i]
    <2>1. [job[j] EXCEPT !.pc = p] \in Lands
        BY <1>1 DEF Lands, PCs
    <2>2. QED BY <1>1, <1>3, <2>1
<1>6. job'[j].pc = p /\ job'[j].rows = job[j].rows /\ job'[j].wrote = job[j].wrote
      /\ job'[j].refused = job[j].refused /\ job'[j].mishap = job[j].mishap
    BY <1>1, <1>3 DEF Lands
<1>7. RecordsProven(j)'
    BY <1>1, <1>2, <1>6 DEF JobInv, RecordsProven, Proven, Between, Doing, Planned
<1>8. PlanFits(j)'
    BY <1>1, <1>2, <1>6 DEF JobInv, PlanFits, Doing, Planned
<1>9. InShape(j)' /\ HoldsItsQueues(j)'
    BY <1>1, <1>2, <1>6 DEF JobInv, InShape, HoldsItsQueues, Doing, Planned, Leasing, Locked
<1>10. JobInv(j)'
    BY <1>7, <1>8, <1>9 DEF JobInv
<1>11. \A c \in Convs : Proven(c, books[c])'
    BY <1>1, <1>2 DEF BroughtIn, Proven, Between
<1>12. QED BY <1>1, <1>2, <1>4, <1>5, <1>10, <1>11, OneMoves DEF Typed, StillHeld

LEMMA FreeHolds ==
    ASSUME IInv, NEW j \in Jobs, Free(j)
    PROVE  IInv'
<1>1. Typed /\ BroughtIn /\ j[1] \in Convs /\ JobInv(j) /\ job[j] \in Lands /\ job \in [Jobs -> Lands]
    BY JobOf DEF IInv, Typed
<1>2. /\ job[j].pc = "free" /\ UNCHANGED <<work, tree, barred, books, chain, everIn>>
      /\ lease' = [c \in Convs |-> Released(lease[c], j)]
      /\ \/ job' = [job EXCEPT ![j] = Idle]
         \/ job' = [job EXCEPT ![j] = [@ EXCEPT !.pc = "record"]] /\ j[2] # "hand"
    BY DEF Free, Doing
<1>3. /\ lease' \in [Convs -> Seq(Jobs)]
      /\ \A i : i # j => \A d \in Convs : HeldBy(lease[d], i) => HeldBy(lease'[d], i)
    BY <1>1, <1>2, LeaseLetGo
<1>4. job' \in [Jobs -> Lands] /\ \A i \in Jobs \ {j} : job'[i] = job[i]
    <2>1. [job[j] EXCEPT !.pc = "record"] \in Lands
        BY <1>1 DEF Lands, PCs
    <2>2. QED BY <1>1, <1>2, <2>1, IdleIsOne
<1>5. \/ job'[j].pc = "idle"
      \/ /\ job'[j].pc = "record" /\ job'[j].rows = job[j].rows /\ job'[j].wrote = job[j].wrote
         /\ job'[j].refused = job[j].refused /\ job'[j].mishap = job[j].mishap /\ j[2] # "hand"
    BY <1>1, <1>2 DEF Lands, Idle
<1>6. RecordsProven(j)'
    BY <1>1, <1>2, <1>5 DEF JobInv, RecordsProven, Proven, Between, Doing, Planned
<1>7. PlanFits(j)'
    BY <1>1, <1>2, <1>5 DEF JobInv, PlanFits, Doing, Planned
<1>8. InShape(j)' /\ HoldsItsQueues(j)'
    BY <1>1, <1>2, <1>5 DEF JobInv, InShape, HoldsItsQueues, Doing, Planned, Leasing, Locked
<1>9. JobInv(j)'
    BY <1>6, <1>7, <1>8 DEF JobInv
<1>10. \A c \in Convs : Proven(c, books[c])'
    BY <1>1, <1>2 DEF BroughtIn, Proven, Between
<1>11. QED BY <1>1, <1>2, <1>3, <1>4, <1>9, <1>10, OneMoves DEF Typed, StillHeld

LEMMA IdleHolds ==
    ASSUME NEW j \in Jobs, job[j] = Idle
    PROVE  JobInv(j)
BY DEF JobInv, InShape, HoldsItsQueues, RecordsProven, PlanFits, Doing, Idle, Planned,
       Leasing, Locked

LEMMA RestartHolds ==
    ASSUME IInv, Restart
    PROVE  IInv'
<1>1. Typed /\ BroughtIn
    BY DEF IInv
<1>2. /\ lease' = [c \in Convs |-> << >>] /\ chain' = [r \in Repos |-> << >>]
      /\ job' = [j \in Jobs |-> Idle] /\ UNCHANGED <<work, tree, barred, books, everIn>>
    BY DEF Restart
<1>3. Typed'
    BY <1>1, <1>2, IdleIsOne DEF Typed
<1>4. BroughtIn'
    BY <1>1, <1>2 DEF BroughtIn, Proven, Between
<1>5. ASSUME NEW j \in Jobs PROVE JobInv(j)'
    <2>1. job'[j].pc = "idle" /\ job'[j].asked = {}
        BY <1>2 DEF Idle
    <2>2. QED BY <2>1 DEF JobInv, InShape, HoldsItsQueues, RecordsProven, PlanFits, Doing, Planned,
                          Leasing, Locked
<1>6. QED BY <1>3, <1>4, <1>5 DEF IInv

-----------------------------------------------------------------------------
(* People and turns beside the lands. *)

\* A turn's commits of its own conversation are no more than MaxWork.
LEMMA OwnCommits ==
    ASSUME NEW S \in SUBSET Changes, NEW c
    PROVE  Cardinality({u \in S : u.of = c}) \in Nat
<1> DEFINE own == {u \in S : u.of = c}
           Made == [n \in 1..MaxWork |-> [of |-> c, n |-> n]]
<1>1. IsFiniteSet(1..MaxWork)
    BY LandAssumption, FS_Interval DEF LandAssumption
<1>2. Made \in [1..MaxWork -> {Made[n] : n \in 1..MaxWork}]
      /\ \A x \in {Made[n] : n \in 1..MaxWork} : \E n \in 1..MaxWork : Made[n] = x
    OBVIOUS
<1>3. own \subseteq {Made[n] : n \in 1..MaxWork}
    BY DEF Changes
<1> HIDE DEF Made, own
<1>4. IsFiniteSet({Made[n] : n \in 1..MaxWork})
    <2>1. Made \in Surjection(1..MaxWork, {Made[n] : n \in 1..MaxWork})
        BY <1>2 DEF Surjection
    <2>2. QED BY <1>1, <2>1, FS_Surjection
<1>5. IsFiniteSet(own)
    BY <1>3, <1>4, FS_Subset
<1>6. QED BY <1>5, FS_CardinalityType DEF own

\* Somebody writes in a tree: a land that planned for it and writes into it is jolted,
\* and the others find what they planned for as it was.
LEMMA JoltedHolds ==
    ASSUME IInv, NEW t \in Trees, NEW r \in Repos, job' = Jolted(t, r), Grown,
           UNCHANGED <<lease, chain>>,
           \A s \in Trees, q \in Repos : s # t \/ q # r =>
               tree'[s][q] = tree[s][q] /\ (s = Main => barred'[q] = barred[q])
    PROVE  job' \in [Jobs -> Lands] /\ \A j \in Jobs : JobInv(j)'
<1>1. Typed /\ job \in [Jobs -> Lands]
    BY DEF IInv, Typed
<1>2. ASSUME NEW j \in Jobs
      PROVE  \/ job'[j] = [job[j] EXCEPT !.mishap = TRUE]
             \/ job'[j] = job[j] /\ Undisturbed(j)
    <2>1. CASE Doing(j, Planned) /\ Into(j) = t /\ r \in Within(j)
        BY <2>1 DEF Jolted, Planned
    <2>2. CASE ~(Doing(j, Planned) /\ Into(j) = t /\ r \in Within(j))
        <3>1. job'[j] = job[j]
            BY <2>2 DEF Jolted, Planned
        <3>2. Into(j) \in Trees /\ Within(j) \subseteq Repos
            BY JobOf
        <3>3. Undisturbed(j)
            BY <2>2, <3>2 DEF Undisturbed
        <3>4. QED BY <3>1, <3>3
    <2>3. QED BY <2>1, <2>2
<1>3. ASSUME NEW j \in Jobs PROVE job'[j] \in Lands /\ JobInv(j)'
    <2>1. [job[j] EXCEPT !.mishap = TRUE] \in Lands /\ job[j] \in Lands
        BY <1>1 DEF Lands
    <2>2. StillHeld(j)
        BY DEF StillHeld
    <2>3. JobInv(j)'
        BY <1>2, <2>2, BesideHolds
    <2>4. QED BY <1>2, <2>1, <2>3
<1>4. job' = [j \in Jobs |-> job'[j]]
    BY DEF Jolted
<1>5. QED BY <1>3, <1>4

LEMMA WorkHolds ==
    ASSUME IInv, NEW c \in Convs, NEW r \in Repos, Work(c, r)
    PROVE  IInv'
<1>1. PICK u \in Changes :
         /\ u.of = c /\ r \in Range(Composed[c])
         /\ work' = [work EXCEPT ![c][r] = Append(@, {u})]
         /\ tree' = [tree EXCEPT ![c][r] = @ \cup {u}]
         /\ job' = Jolted(c, r) /\ UNCHANGED <<barred, books, lease, chain, everIn>>
    <2> DEFINE n == Cardinality({u \in tree[c][r] : u.of = c}) + 1
    <2>1. tree[c][r] \in SUBSET Changes
        BY DEF IInv, Typed, Contents, Trees
    <2>2. Cardinality({u \in tree[c][r] : u.of = c}) \in Nat
        BY <2>1, OwnCommits
    <2>3. n \in Nat /\ n >= 1 /\ n <= MaxWork
        BY <2>2 DEF Work
    <2>4. [of |-> c, n |-> n] \in Changes
        BY <2>3, LandAssumption DEF Changes, LandAssumption
    <2>5. QED BY <2>4 DEF Work
<1>2. Typed /\ BroughtIn /\ c \in Trees /\ c # Main
    BY LandAssumption DEF IInv, LandAssumption, Trees
<1>3. \A s \in Trees, q \in Repos :
         tree'[s][q] = IF s = c /\ q = r THEN tree[c][r] \cup {u} ELSE tree[s][q]
    BY <1>1, <1>2 DEF Typed, Contents
<1>4. tree' \in Contents
    BY <1>1, <1>2 DEF Typed, Contents
<1>5. \A d \in Convs : \A q \in Range(Composed[d]) :
         work'[d][q] = IF d = c /\ q = r THEN Append(work[d][q], {u}) ELSE work[d][q]
    BY <1>1, <1>2 DEF Typed, Branches
<1>6. \A d \in Convs : \A q \in Range(Composed[d]) :
         work[d][q] \in Seq(SUBSET Changes) /\ Append(work[d][q], {u}) \in Seq(SUBSET Changes)
    BY <1>1, <1>2 DEF Typed, Branches
<1>7. \A d \in Convs : work'[d] \in Branches(d)
    <2>1. ASSUME NEW d \in Convs
          PROVE  work'[d] = [q \in Range(Composed[d]) |-> work'[d][q]]
        <3>1. work[d] = [q \in Range(Composed[d]) |-> work[d][q]]
            BY <1>2 DEF Typed, Branches
        <3>2. work'[d] = work[d] \/ work'[d] = [work[d] EXCEPT ![r] = Append(work[d][r], {u})]
            BY <1>1, <1>2 DEF Typed
        <3>3. QED BY <3>1, <3>2
    <2>2. \A d \in Convs : \A q \in Range(Composed[d]) : work'[d][q] \in Seq(SUBSET Changes)
        BY <1>5, <1>6
    <2>3. QED BY <2>1, <2>2 DEF Branches
<1>8. work' \in [Convs -> UNION {Branches(d) : d \in Convs}]
    <2>1. work' = [d \in Convs |-> work'[d]]
        BY <1>1, <1>2 DEF Typed
    <2>2. QED BY <1>7, <2>1
<1>9. Grown
    <2>1. ASSUME NEW d \in Convs, NEW q \in Range(Composed[d]), NEW n \in 0..Len(work[d][q])
          PROVE  n \in 0..Len(work'[d][q]) /\ Carried(work'[d][q], 0, n) = Carried(work[d][q], 0, n)
        <3>1. work[d][q] \in Seq(SUBSET Changes) /\ {u} \in SUBSET Changes /\ n \in Nat
            BY <1>6
        <3>2. work'[d][q] = work[d][q] \/ work'[d][q] = Append(work[d][q], {u})
            BY <1>5
        <3>3. n \in 0..Len(work'[d][q]) /\ \A k \in 1..n : work'[d][q][k] = work[d][q][k]
            BY <3>1, <3>2
        <3>4. QED BY <3>1, <3>3, CarriedAlike
    <2>2. QED BY <1>1, <2>1 DEF Grown
<1>10. job' \in [Jobs -> Lands] /\ \A j \in Jobs : JobInv(j)'
    BY <1>1, <1>2, <1>3, <1>9, JoltedHolds
<1>11. Typed'
    BY <1>1, <1>2, <1>4, <1>7, <1>8, <1>10 DEF Typed
<1>12. BroughtIn'
    <2>1. \A s \in Trees, q \in Repos : \A v \in tree'[s][q] : v.of = s \/ v \in everIn'[s][q]
        BY <1>1, <1>2, <1>3 DEF BroughtIn
    <2>2. ASSUME NEW d \in Convs, NEW q \in Range(Composed[d]), NEW k \in DOMAIN work'[d][q],
                 NEW v \in work'[d][q][k]
          PROVE  Age[d] <= Age[v.of]
        <3>1. CASE work'[d][q] = work[d][q]
            BY <1>2, <2>2, <3>1 DEF BroughtIn
        <3>2. CASE d = c /\ work'[d][q] = Append(work[d][q], {u})
            <4>1. DOMAIN work'[d][q] = 1..Len(work[d][q]) + 1 /\ Len(work[d][q]) \in Nat
                BY <1>6, <3>2
            <4>2. CASE k = Len(work[d][q]) + 1
                <5>1. v = u
                    BY <1>6, <2>2, <3>2, <4>2
                <5>2. QED BY <1>1, <3>2, <5>1, AgeOfParent
            <4>3. CASE k \in 1..Len(work[d][q])
                <5>1. v \in work[d][q][k] /\ k \in DOMAIN work[d][q]
                    BY <1>6, <2>2, <3>2, <4>3
                <5>2. QED BY <1>2, <5>1 DEF BroughtIn
            <4>4. QED BY <2>2, <4>1, <4>2, <4>3
        <3>3. QED BY <1>5, <3>1, <3>2
    <2>3. \A d \in Convs : Proven(d, books[d])'
        BY <1>1, <1>2, <1>9, BooksGrow DEF BroughtIn
    <2>4. QED BY <2>1, <2>2, <2>3 DEF BroughtIn
<1>13. QED BY <1>10, <1>11, <1>12 DEF IInv

\* What people do in the shared tree takes nothing from what it was read to hold.
LEMMA EditHolds ==
    ASSUME IInv, NEW r \in Repos, NEW u \in Touchable, Edit(r, u)
    PROVE  IInv'
<1>1. /\ tree' = [tree EXCEPT ![Main][r] = @ \ {u}]
      /\ barred' = [barred EXCEPT ![r] = IF u \in @ THEN @ \ {u} ELSE @ \cup {u}]
      /\ job' = Jolted(Main, r) /\ UNCHANGED <<work, books, lease, chain, everIn>>
    BY DEF Edit
<1>2. Typed /\ BroughtIn /\ Main \in Trees
    BY DEF IInv, Trees
<1>3. \A s \in Trees, q \in Repos : /\ tree'[s][q] \subseteq tree[s][q]
                                   /\ (s # Main \/ q # r => tree'[s][q] = tree[s][q])
    BY <1>1, <1>2 DEF Typed, Contents
<1>4. tree' \in Contents
    BY <1>1, <1>2 DEF Typed, Contents
<1>5. barred' \in [Repos -> SUBSET (Changes \cup Touchable)]
      /\ \A q \in Repos : q # r => barred'[q] = barred[q]
    BY <1>1, <1>2 DEF Typed
<1>6. Grown
    BY <1>1 DEF Grown
<1>7. job' \in [Jobs -> Lands] /\ \A j \in Jobs : JobInv(j)'
    BY <1>1, <1>2, <1>3, <1>5, <1>6, JoltedHolds
<1>8. Typed'
    BY <1>1, <1>2, <1>4, <1>5, <1>7 DEF Typed
<1>9. BroughtIn'
    <2>1. \A s \in Trees, q \in Repos : \A v \in tree'[s][q] : v.of = s \/ v \in everIn'[s][q]
        BY <1>1, <1>2, <1>3 DEF BroughtIn
    <2>2. \A c \in Convs : Proven(c, books[c])'
        BY <1>1, <1>2 DEF BroughtIn, Proven, Between
    <2>3. QED BY <1>1, <1>2, <2>1, <2>2 DEF BroughtIn
<1>10. QED BY <1>7, <1>8, <1>9 DEF IInv

\* A discard waits for the repository's lock, so no land has planned for that tree.
LEMMA DiscardHolds ==
    ASSUME IInv, NEW r \in Repos, NEW u \in Touchable, Discard(r, u)
    PROVE  IInv'
<1>1. /\ chain[r] = << >> /\ tree' = [tree EXCEPT ![Main][r] = @ \ {u}]
      /\ UNCHANGED <<work, barred, books, lease, chain, job, everIn>>
    BY DEF Discard
<1>2. Typed /\ BroughtIn /\ Main \in Trees
    BY DEF IInv, Trees
<1>3. \A s \in Trees, q \in Repos : /\ tree'[s][q] \subseteq tree[s][q]
                                   /\ (s # Main \/ q # r => tree'[s][q] = tree[s][q])
    BY <1>1, <1>2 DEF Typed, Contents
<1>4. tree' \in Contents
    BY <1>1, <1>2 DEF Typed, Contents
<1>5. Grown
    BY <1>1 DEF Grown
<1>6. ASSUME NEW j \in Jobs PROVE JobInv(j)'
    <2>1. StillHeld(j) /\ job'[j] = job[j]
        BY <1>1 DEF StillHeld
    <2>2. Undisturbed(j)
        <3> SUFFICES ASSUME Doing(j, Planned), NEW q \in Within(j)
                     PROVE  tree'[Into(j)][q] = tree[Into(j)][q] /\ barred'[q] = barred[q]
            BY DEF Undisturbed
        <3>1. HeldBy(chain[q], j) /\ Into(j) \in Trees /\ q \in Repos
            BY JobOf DEF IInv, JobInv, HoldsItsQueues, Doing, Planned, Locked
        <3>2. q # r
            BY <1>1, <3>1 DEF HeldBy
        <3>3. QED BY <1>1, <1>3, <3>1, <3>2
    <2>3. QED BY <1>5, <2>1, <2>2, BesideHolds
<1>7. Typed'
    BY <1>1, <1>2, <1>4 DEF Typed
<1>8. BroughtIn'
    <2>1. \A s \in Trees, q \in Repos : \A v \in tree'[s][q] : v.of = s \/ v \in everIn'[s][q]
        BY <1>1, <1>2, <1>3 DEF BroughtIn
    <2>2. \A c \in Convs : Proven(c, books[c])'
        BY <1>1, <1>2 DEF BroughtIn, Proven, Between
    <2>3. QED BY <1>1, <1>2, <2>1, <2>2 DEF BroughtIn
<1>9. QED BY <1>6, <1>7, <1>8 DEF IInv

-----------------------------------------------------------------------------
(* The theorems. *)

LEMMA InitHolds == Init => IInv
<1> SUFFICES ASSUME Init PROVE IInv
    OBVIOUS
<1>1. \A c \in Convs : Range(Composed[c]) \subseteq Repos /\ Range(Composed[c]) \in SUBSET Nat
    BY RepositoriesOfOne
<1>2. \A c \in Convs : [of |-> c, n |-> 1] \in Changes
    BY LandAssumption DEF Changes, LandAssumption
<1>3. work \in [Convs -> UNION {Branches(c) : c \in Convs}] /\ \A c \in Convs : work[c] \in Branches(c)
    <2>1. ASSUME NEW c \in Convs PROVE work[c] \in Branches(c)
        <3>1. <<{[of |-> c, n |-> 1]}>> \in Seq(SUBSET Changes)
            BY <1>2
        <3>2. QED BY <3>1 DEF Init, Branches
    <2>2. QED BY <2>1 DEF Init
<1>4. tree \in Contents /\ everIn \in Contents
    <2>1. \A t \in Trees : t # Main => [of |-> t, n |-> 1] \in Changes
        BY <1>2 DEF Trees
    <2>2. QED BY <2>1 DEF Init, Contents
<1>5. \A c \in Convs : books[c] \in [Range(Composed[c]) -> Nat] /\ books[c] \in Rows
    <2>1. \A c \in Convs : books[c] \in [Range(Composed[c]) -> Nat]
        BY DEF Init
    <2>2. QED BY <1>1, <2>1 DEF Rows
<1>6. Typed
    <2>1. books \in [Convs -> Rows]
        BY <1>5 DEF Init
    <2>2. barred \in [Repos -> SUBSET (Changes \cup Touchable)]
        BY DEF Init
    <2>3. lease \in [Convs -> Seq(Jobs)] /\ chain \in [Repos -> Seq(Jobs)] /\ job \in [Jobs -> Lands]
        BY IdleIsOne DEF Init
    <2>4. QED BY <1>3, <1>4, <1>5, <2>1, <2>2, <2>3 DEF Typed
<1>7. BroughtIn
    <2>1. \A t \in Trees, r \in Repos : \A u \in tree[t][r] : u.of = t \/ u \in everIn[t][r]
        BY DEF Init
    <2>2. ASSUME NEW c \in Convs, NEW r \in Range(Composed[c]), NEW i \in DOMAIN work[c][r],
                 NEW u \in work[c][r][i]
          PROVE  Age[c] <= Age[u.of]
        <3>1. work[c][r] = <<{[of |-> c, n |-> 1]}>>
            BY DEF Init
        <3>2. u = [of |-> c, n |-> 1]
            BY <2>2, <3>1
        <3>3. QED BY <3>2, AgeOfParent
    <2>3. ASSUME NEW c \in Convs, NEW r \in Range(Composed[c])
          PROVE  /\ books[c][r] \in 0..Len(work[c][r])
                 /\ Between(c, r, 0, books[c][r]) \subseteq everIn[ParentOf[c]][r]
        <3>1. books[c][r] = 0 /\ work[c][r] \in Seq(SUBSET Changes)
            BY <1>3 DEF Init, Branches
        <3>2. Carried(work[c][r], 0, 0) = {}
            BY DEF Carried
        <3>3. QED BY <3>1, <3>2 DEF Between
    <2>4. QED BY <2>1, <2>2, <2>3 DEF BroughtIn, Proven
<1>8. \A j \in Jobs : JobInv(j)
    BY IdleHolds DEF Init
<1>9. QED BY <1>6, <1>7, <1>8 DEF IInv

LEMMA NextHolds == IInv /\ [Next]_vars => IInv'
<1> SUFFICES ASSUME IInv, [Next]_vars PROVE IInv'
    OBVIOUS
<1>1. ASSUME NEW c \in Convs, NEW r \in Repos, Work(c, r) PROVE IInv'
    BY <1>1, WorkHolds
<1>2. ASSUME NEW r \in Repos, NEW u \in Touchable, Edit(r, u) PROVE IInv'
    BY <1>2, EditHolds
<1>3. ASSUME NEW r \in Repos, NEW u \in Touchable, Discard(r, u) PROVE IInv'
    BY <1>3, DiscardHolds
<1>4. ASSUME NEW j \in Jobs, NEW whole \in BOOLEAN, Call(j, whole) PROVE IInv'
    BY <1>4, CallHolds
<1>5. ASSUME NEW j \in Jobs, LandStep(j) PROVE IInv'
    <2>1. CASE Lease(j) BY <2>1, LeaseHolds
    <2>2. CASE Leased(j) BY <2>2, LeasedHolds
    <2>3. CASE ParentLeased(j) BY <2>3, ParentLeasedHolds
    <2>4. CASE Synced(j) BY <2>4, SyncedHolds
    <2>5. CASE SettleByHand(j) BY <2>5, HandHolds
    <2>6. CASE Acquire(j) BY <2>6, AcquireHolds
    <2>7. CASE Plan(j) BY <2>7, PlanHolds
    <2>8. CASE Write(j) BY <2>8, WriteHolds
    <2>9. CASE Prove(j) BY <2>9, ProveHolds
    <2>10. CASE Unlock(j) BY <2>10, UnlockHolds
    <2>11. CASE Free(j) BY <2>11, FreeHolds
    <2>12. CASE Record(j) BY <2>12, RecordHolds
    <2>13. QED BY <1>5, <2>1, <2>2, <2>3, <2>4, <2>5, <2>6, <2>7, <2>8, <2>9, <2>10, <2>11, <2>12
               DEF LandStep
<1>6. CASE Restart
    BY <1>6, RestartHolds
<1>7. CASE UNCHANGED vars
    <2>1. UNCHANGED <<work, tree, barred, books, lease, chain, job, everIn>>
        BY <1>7 DEF vars
    <2>2. Typed' /\ BroughtIn'
        BY <2>1 DEF IInv, Typed, BroughtIn, Proven, Between
    <2>3. ASSUME NEW j \in Jobs PROVE JobInv(j)'
        <3>1. Grown /\ StillHeld(j) /\ Undisturbed(j) /\ job'[j] = job[j]
            BY <2>1 DEF Grown, StillHeld, Undisturbed
        <3>2. QED BY <3>1, BesideHolds
    <2>4. QED BY <2>2, <2>3 DEF IInv
<1>8. QED BY <1>1, <1>2, <1>3, <1>4, <1>5, <1>6, <1>7 DEF Next

\* The inductive invariant of the lands, for any conversations, repositories and doors:
\* who holds which lease and lock, and what each plan and record rests on
\* (turn-landing.ts, land.ts).
THEOREM LandInvariant == Spec => []IInv
<1>1. QED BY InitHolds, NextHolds, PTL DEF Spec

\* A checkout is rebased by one land alone: no other rebases it, has planned for it or
\* writes into it, a parent's under its children's lands too (turn-landing.ts: the
\* conversation's lease, then the parent's).
THEOREM RebasedAlone == Spec => []RebaseAlone
<1>1. ASSUME IInv PROVE RebaseAlone
    <2> SUFFICES ASSUME NEW i \in Jobs, NEW j \in Jobs, i # j, Doing(i, {"sync"}),
                        Doing(j, {"sync", "lock", "plan", "write", "prove"}),
                        NEW c \in Touches(i) \cap Touches(j)
                 PROVE  FALSE
        BY DEF RebaseAlone
    <2>1. ASSUME NEW k \in Jobs, Doing(k, Leasing), c \in Touches(k)
          PROVE  HeldBy(lease[c], k)
        <3>1. HoldsItsQueues(k)
            BY <1>1 DEF IInv, JobInv
        <3>2. QED BY <2>1, <3>1 DEF Touches, HoldsItsQueues, Doing
    <2>2. Doing(i, Leasing) /\ Doing(j, Leasing)
        BY DEF Doing, Leasing, Locked
    <2>3. HeldBy(lease[c], i) /\ HeldBy(lease[c], j)
        BY <2>1, <2>2
    <2>4. QED BY <2>3 DEF HeldBy
<1>2. QED BY <1>1, LandInvariant, PTL

\* A refused land wrote in no repository, unless somebody wrote in the tree under it or
\* the tree failed it: its plan holds for every repository from the locks to the last
\* write (land.ts: "Locks stay held through both phases").
THEOREM RefusedWhole == Spec => []WholeOrNothing
<1>1. IInv => WholeOrNothing
    BY DEF IInv, JobInv, PlanFits, WholeOrNothing
<1>2. QED BY <1>1, LandInvariant, PTL

\* Whatever a record says has landed was read in the tree it went to, or said to be there
\* by the person who brought it in: through refusals, failed writes, stale records and
\* restarts (land.ts: "A write is landed only once the tree is read back holding it").
THEOREM TipsProven == Spec => []TipProven
<1>1. IInv => TipProven
    BY DEF IInv, BroughtIn, Proven, TipProven
<1>2. QED BY <1>1, LandInvariant, PTL

\* The type invariant: the steps a land may be at, tips no further than their branches,
\* trees of known changes (land.ts, turn-landing.ts).
THEOREM LandTypeOK == Spec => []TypeOK
<1>1. ASSUME IInv PROVE TypeOK
    <2>1. \A j \in Jobs : job[j].pc \in PCs
        BY <1>1 DEF IInv, Typed, Lands
    <2>2. \A c \in Convs, r \in Repos : r \in Range(Composed[c]) => books[c][r] \in 0..Len(work[c][r])
        BY <1>1 DEF IInv, BroughtIn, Proven
    <2>3. \A t \in Trees, r \in Repos : tree[t][r] \subseteq Changes
        BY <1>1 DEF IInv, Typed, Contents
    <2>4. QED BY <2>1, <2>2, <2>3 DEF TypeOK
<1>2. QED BY <1>1, LandInvariant, PTL

=============================================================================
