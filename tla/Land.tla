-------------------------------- MODULE Land --------------------------------
(***************************************************************************)
(* Finished work going from conversations' branches into the shared tree,  *)
(* or a spawned child's into its parent's checkout: the doors a land comes *)
(* through, the leases and repository locks it waits for, its plan, its    *)
(* writes with their proof, and the books it leaves (land.ts,              *)
(* turn-landing.ts, land-by-hand.ts, land-target.ts), beside people who    *)
(* edit and discard in the tree and a daemon that dies.                    *)
(*                                                                         *)
(* Abstracted: a commit is the set of changes it carries, a change is in a *)
(* tree or not, and two conversations' changes either touch the same lines *)
(* or do not. Rebases keep a branch's changes; lockfiles, derived files,   *)
(* version commits and branches other than the main line are left out.     *)
(***************************************************************************)
EXTENDS Naturals, FiniteSets, SequencesExt

CONSTANTS
    Convs, Main,  \* the conversations, and the shared tree
    ParentOf,     \* where each one's work goes: its parent, or Main
    Composed,     \* the repositories of each one, in its composition's order
    Doors,        \* what may land each one's work: its turn's end, a press, its parent's
                  \* merge, a measure, or a person who says it is in
    SameLines,    \* the pairs of conversations whose changes clash
    MaxWork,      \* bound: commits of one conversation's own in one repository
    MaxMore,      \* bound: commits beside the first of each
    MaxLands,     \* bound: lands asked for
    Touchable,    \* bound: the changes people edit or discard
    MaxEdits,     \* bound: edits and discards by people
    MaxBoots      \* bound: restarts

ASSUME LandAssumption ==
    /\ {MaxWork, MaxMore, MaxLands, MaxEdits, MaxBoots} \subseteq Nat /\ MaxWork # 0
    /\ IsFiniteSet(Convs) /\ Main \notin Convs /\ Composed \in [Convs -> Seq(Nat)]
    /\ ParentOf \in [Convs -> Convs \cup {Main}]
    \* A child is spawned by a conversation that is there already.
    /\ \E age \in [Convs -> 1..Cardinality(Convs)] :
          \A c \in Convs : ParentOf[c] # Main => age[ParentOf[c]] < age[c]

VARIABLES
    work,     \* each branch: its commits, per repository
    tree,     \* each checkout: the changes it holds, per repository
    barred,   \* changes somebody's own edit in the shared tree stands in the way of
    books,    \* each conversation's landed tip, per repository
    lease,    \* each conversation's land lease: its holder and those behind it
    chain,    \* each repository's lock: its holder and those behind it
    job,      \* the lands under way, one per conversation and door
    spent,    \* work, lands, edits and restarts so far
    everIn,   \* ghost: what each tree was ever read to hold, or said to
    dropped   \* ghost: landed changes a person discarded

vars == <<work, tree, barred, books, lease, chain, job, spent, everIn, dropped>>

Repos == UNION {Range(Composed[c]) : c \in Convs}
Trees == Convs \cup {Main}
Changes == [of : Convs, n : 1..MaxWork]
Jobs == UNION {{c} \X Doors[c] : c \in Convs}

Idle == [pc |-> "idle", whole |-> FALSE, rows |-> << >>, asked |-> {}, marks |-> FALSE,
         plan |-> << >>, todo |-> {}, wrote |-> {}, moved |-> FALSE, refused |-> FALSE,
         broke |-> FALSE, mishap |-> FALSE]

Within(j) == Range(Composed[j[1]])
Into(j) == IF j[2] = "hand" THEN Main ELSE ParentOf[j[1]]
Doing(j, pcs) == job[j].pc \in pcs

\* A lease or a lock: its holder heads those who wait, and lets the next one in.
HeldBy(queue, j) == queue # << >> /\ Head(queue) = j
Released(queue, j) == IF HeldBy(queue, j) THEN Tail(queue) ELSE queue

\* The first of some repositories in a composition's order.
FirstOf(c, repos) ==
    Composed[c][CHOOSE i \in DOMAIN Composed[c] :
                    /\ Composed[c][i] \in repos
                    /\ \A k \in 1..i - 1 : Composed[c][k] \notin repos]

\* The changes of a branch after one commit, up to another.
Carried(branch, from, to) == UNION {branch[i] : i \in from + 1..to}
Between(c, r, from, to) == Carried(work[c][r], from, to)

\* Whether git refuses a change there: somebody wrote on the same lines.
Blocked(t, r, u) ==
    /\ u \notin tree[t][r]
    /\ (t = Main /\ u \in barred[r]) \/ \E v \in tree[t][r] : <<u.of, v.of>> \in SameLines

\* Each conversation has worked once in each of its repositories.
Init ==
    /\ work = [c \in Convs |-> [r \in Range(Composed[c]) |-> <<{[of |-> c, n |-> 1]}>>]]
    /\ tree = [t \in Trees |-> [r \in Repos |->
                  IF t # Main /\ r \in Range(Composed[t]) THEN {[of |-> t, n |-> 1]} ELSE {}]]
    /\ barred = [r \in Repos |-> {}]
    /\ books = [c \in Convs |-> [r \in Range(Composed[c]) |-> 0]]
    /\ lease = [c \in Convs |-> << >>] /\ chain = [r \in Repos |-> << >>]
    /\ job = [j \in Jobs |-> Idle]
    /\ spent = [work |-> 0, lands |-> 0, edits |-> 0, boots |-> 0]
    /\ everIn = tree /\ dropped = [r \in Repos |-> {}]

-----------------------------------------------------------------------------
(* People and turns beside the lands.                                      *)

\* Somebody writes in a tree that a land has planned for and is writing into.
Jolted(t, r) ==
    [j \in Jobs |-> IF Doing(j, {"write", "prove"}) /\ Into(j) = t /\ r \in Within(j)
                    THEN [job[j] EXCEPT !.mishap = TRUE] ELSE job[j]]

\* A turn writes in its checkout; a commit at the latest when its land reads it.
Work(c, r) ==
    LET n == Cardinality({u \in tree[c][r] : u.of = c}) + 1
        u == [of |-> c, n |-> n]
    IN  /\ r \in Range(Composed[c]) /\ n <= MaxWork
        /\ spent.work < MaxMore /\ spent' = [spent EXCEPT !.work = @ + 1]
        /\ work' = [work EXCEPT ![c][r] = Append(@, {u})]
        /\ tree' = [tree EXCEPT ![c][r] = @ \cup {u}]
        /\ job' = Jolted(c, r)
        /\ UNCHANGED <<barred, books, lease, chain, everIn, dropped>>

Hand == spent.edits < MaxEdits /\ spent' = [spent EXCEPT !.edits = @ + 1]

\* Somebody types in the shared tree, which no lock stops: on the lines of a change,
\* there or not, or away from them again.
Edit(r, u) ==
    /\ Hand
    /\ tree' = [tree EXCEPT ![Main][r] = @ \ {u}]
    /\ barred' = [barred EXCEPT ![r] = IF u \in @ THEN @ \ {u} ELSE @ \cup {u}]
    /\ job' = Jolted(Main, r)
    /\ UNCHANGED <<work, books, lease, chain, everIn, dropped>>

\* A discard in the Changes panel, under the repository's lock.
Discard(r, u) ==
    /\ Hand /\ chain[r] = << >> /\ u \in tree[Main][r]
    /\ tree' = [tree EXCEPT ![Main][r] = @ \ {u}]
    /\ dropped' = [dropped EXCEPT ![r] =
                      IF \E c \in Convs : r \in Range(Composed[c])
                                            /\ u \in Between(c, r, 0, books[c][r])
                      THEN @ \cup {u} ELSE @]
    /\ UNCHANGED <<work, barred, books, lease, chain, job, everIn>>

-----------------------------------------------------------------------------
(* A land, from its door to its lease.                                     *)

\* The record is read at the door. A press is refused while the card says a land
\* is under way, which is before it waits for its own.
Call(j, whole) ==
    /\ Doing(j, {"idle"}) /\ spent.lands < MaxLands
    /\ j[2] = "press" => lease[j[1]] = << >>
    /\ whole => j[2] = "press"
    /\ job' = [job EXCEPT ![j] = [Idle EXCEPT !.pc = "called", !.whole = whole,
                                              !.rows = books[j[1]]]]
    /\ spent' = [spent EXCEPT !.lands = @ + 1]
    /\ UNCHANGED <<work, tree, barred, books, lease, chain, everIn, dropped>>

Lease(j) ==
    /\ Doing(j, {"called"})
    /\ lease' = [lease EXCEPT ![j[1]] = Append(@, j)]
    /\ job' = [job EXCEPT ![j].pc = "own"]
    /\ UNCHANGED <<work, tree, barred, books, chain, spent, everIn, dropped>>

\* What a land does once it holds the leases it needs.
Start(j) == IF j[2] = "measure" THEN "lock" ELSE "sync"

\* Mutant of Leased: a land into its parent's checkout takes its own lease only.
LeasedOwn(j) ==
    /\ Doing(j, {"own"}) /\ HeldBy(lease[j[1]], j) /\ j[2] # "hand"
    /\ job' = [job EXCEPT ![j].pc = Start(j)]
    /\ UNCHANGED <<work, tree, barred, books, lease, chain, spent, everIn, dropped>>

\* Its own lease first, then the parent's where it writes into that checkout.
Leased(j) ==
    /\ Doing(j, {"own"}) /\ HeldBy(lease[j[1]], j) /\ j[2] # "hand"
    /\ IF Into(j) # Main /\ j[2] # "measure"
       THEN /\ lease' = [lease EXCEPT ![Into(j)] = Append(@, j)]
            /\ job' = [job EXCEPT ![j].pc = "parent"]
       ELSE job' = [job EXCEPT ![j].pc = Start(j)] /\ UNCHANGED lease
    /\ UNCHANGED <<work, tree, barred, books, chain, spent, everIn, dropped>>

ParentLeased(j) ==
    /\ Doing(j, {"parent"}) /\ HeldBy(lease[Into(j)], j)
    /\ job' = [job EXCEPT ![j].pc = Start(j)]
    /\ UNCHANGED <<work, tree, barred, books, lease, chain, spent, everIn, dropped>>

\* The rebase before the land, with no repository's lock. A turn's land reads its
\* record again after it; a press goes on with the record it came with, and files
\* that one when the rebase moved the branch.
Synced(j) ==
    /\ Doing(j, {"sync"})
    /\ IF j[2] = "turn"
       THEN job' = [job EXCEPT ![j].pc = "lock", ![j].rows = books[j[1]]] /\ UNCHANGED books
       ELSE /\ job' = [job EXCEPT ![j].pc = "lock"]
            /\ books' \in {books, [books EXCEPT ![j[1]] = job[j].rows]}
    /\ UNCHANGED <<work, tree, barred, lease, chain, spent, everIn, dropped>>

\* Held work said to be brought in by hand: the tips as they stand now.
SettleByHand(j) ==
    LET c == j[1]
    IN  /\ j[2] = "hand" /\ Doing(j, {"own"}) /\ HeldBy(lease[c], j)
        /\ books' = [books EXCEPT ![c] = [r \in Within(j) |-> Len(work[c][r])]]
        /\ everIn' = [everIn EXCEPT ![ParentOf[c]] =
                         [r \in Repos |-> @[r] \cup (IF r \in Within(j)
                                                     THEN Between(c, r, 0, Len(work[c][r]))
                                                     ELSE {})]]
        /\ job' = [job EXCEPT ![j].pc = "free", ![j].moved = TRUE]
        /\ UNCHANGED <<work, tree, barred, lease, chain, spent, dropped>>

-----------------------------------------------------------------------------
(* The land itself.                                                        *)

\* Mutant of NextLock: in the order of the composition.
NextComposed(c, asked) == FirstOf(c, Range(Composed[c]) \ asked)

\* One order for every land, whatever its composition's.
NextLock(c, asked) ==
    CHOOSE r \in Range(Composed[c]) \ asked : \A q \in Range(Composed[c]) \ asked : r <= q

\* Asks for the next repository's lock once it holds those before it.
Acquire(j) ==
    LET asked == job[j].asked
        next == NextLock(j[1], asked)
    IN  /\ Doing(j, {"lock"}) /\ \A r \in asked : HeldBy(chain[r], j)
        /\ IF asked = Within(j)
           THEN job' = [job EXCEPT ![j].pc = "plan"] /\ UNCHANGED chain
           ELSE /\ chain' = [chain EXCEPT ![next] = Append(@, j)]
                /\ job' = [job EXCEPT ![j].asked = @ \cup {next}]
        /\ UNCHANGED <<work, tree, barred, books, lease, spent, everIn, dropped>>

Tip(j, r) == Len(work[j[1]][r])
Outstanding(j, r) ==
    Between(j[1], r, IF job[j].whole THEN 0 ELSE job[j].rows[r], Tip(j, r))

\* Every repository judged before any is written: a conflict in one refuses the
\* land whole, and the record goes back as it came. A press may ask for a merge,
\* as a parent's always is, which may write conflict markers.
PlanLand(j) ==
    LET t == Into(j)
        delta == [r \in Within(j) |-> Outstanding(j, r)]
        clash == {r \in Within(j) : \E u \in delta[r] : Blocked(t, r, u)}
        there == {r \in Within(j) : delta[r] \subseteq tree[t][r]}
        stamped == IF j[2] = "measure" THEN there ELSE {r \in Within(j) : delta[r] = {}}
        rows == [r \in Within(j) |-> IF r \in stamped THEN Tip(j, r) ELSE job[j].rows[r]]
        writes == {r \in Within(j) : j[2] # "measure" /\ delta[r] # {}}
    IN  /\ Doing(j, {"plan"})
        /\ \E marks \in {FALSE} \cup (IF j[2] \in {"press", "merge"} THEN {TRUE} ELSE {}) :
             job' = [job EXCEPT ![j] =
                 IF clash # {} /\ ~marks
                 THEN [@ EXCEPT !.pc = "unlock", !.refused = TRUE, !.moved = TRUE]
                 ELSE [@ EXCEPT !.pc = IF writes = {} THEN "unlock" ELSE "write",
                                !.marks = marks, !.todo = writes,
                                !.plan = [r \in Within(j) |-> [put |-> delta[r] \ tree[t][r],
                                                             tip |-> Tip(j, r)]],
                                !.moved = \E r \in Within(j) : \/ delta[r] # {}
                                                                \/ job[j].rows[r] # Tip(j, r),
                                !.rows = rows]]

\* Mutant of Plan: the locks are let go before the writing.
PlanUnlocks(j) ==
    /\ PlanLand(j)
    /\ chain' = [r \in Repos |-> Released(chain[r], j)]
    /\ UNCHANGED <<work, tree, barred, books, lease, spent, everIn, dropped>>

Plan(j) ==
    /\ PlanLand(j)
    /\ UNCHANGED <<work, tree, barred, books, lease, chain, spent, everIn, dropped>>

\* A patch is refused whole where something came in its way since the plan, and
\* git's word for it may name no file: then the land breaks with nothing recorded.
Write(j) ==
    LET t == Into(j)
        r == FirstOf(j[1], job[j].todo)
        W == job[j].plan[r].put
        refused == \E u \in W : u \in tree[t][r] \/ (Blocked(t, r, u) /\ ~job[j].marks)
    IN  /\ Doing(j, {"write"})
        /\ IF refused
           THEN /\ \E broke \in BOOLEAN :
                     job' = [job EXCEPT ![j].pc = "unlock", ![j].refused = TRUE, ![j].broke = broke]
                /\ UNCHANGED <<work, tree, everIn>>
           ELSE \/ /\ tree' = [tree EXCEPT ![t][r] = @ \cup W]
                   /\ everIn' = [everIn EXCEPT ![t][r] = @ \cup W]
                   /\ work' = IF t # Main /\ W # {} THEN [work EXCEPT ![t][r] = Append(@, W)] ELSE work
                   /\ job' = [job EXCEPT ![j].pc = "prove", ![j].wrote = @ \cup {r}]
                \/ /\ W # {}   \* the tree did not take it
                   /\ job' = [job EXCEPT ![j].pc = "prove", ![j].mishap = TRUE]
                   /\ UNCHANGED <<work, tree, everIn>>
        /\ UNCHANGED <<barred, books, lease, chain, spent, dropped>>

\* Mutant of Held: a write git did not refuse is there.
HeldUnread(j, r) == TRUE

\* The tree read back: what was written un-applies.
Held(j, r) == job[j].plan[r].put \subseteq tree[Into(j)][r]

\* The only place a landed tip moves for something written.
Prove(j) ==
    LET r == FirstOf(j[1], job[j].todo)
        rest == job[j].todo \ {r}
    IN  /\ Doing(j, {"prove"})
        /\ job' = [job EXCEPT ![j] =
               IF Held(j, r)
               THEN [@ EXCEPT !.rows[r] = job[j].plan[r].tip,
                              !.todo = rest,
                              !.pc = IF rest = {} THEN "unlock" ELSE "write"]
               ELSE [@ EXCEPT !.refused = TRUE, !.pc = "unlock"]]
        /\ UNCHANGED <<work, tree, barred, books, lease, chain, spent, everIn, dropped>>

-----------------------------------------------------------------------------
(* Its end.                                                                *)

\* A press files its outcome inside the lease, a turn's land and a measure after it.
Inside(j) == j[2] \in {"press", "merge"}

Unlock(j) ==
    /\ Doing(j, {"unlock"})
    /\ chain' = [r \in Repos |-> Released(chain[r], j)]
    /\ job' = [job EXCEPT ![j].pc = IF Inside(j) /\ ~job[j].broke THEN "record" ELSE "free"]
    /\ UNCHANGED <<work, tree, barred, books, lease, spent, everIn, dropped>>

Free(j) ==
    /\ Doing(j, {"free"})
    /\ lease' = [c \in Convs |-> Released(lease[c], j)]
    /\ job' = [job EXCEPT ![j] =
           IF Inside(j) \/ job[j].broke \/ j[2] = "hand" \/ ~job[j].moved THEN Idle
           ELSE [@ EXCEPT !.pc = "record"]]
    /\ UNCHANGED <<work, tree, barred, books, chain, spent, everIn, dropped>>

Record(j) ==
    /\ Doing(j, {"record"})
    /\ books' = [books EXCEPT ![j[1]] = job[j].rows]
    /\ job' = [job EXCEPT ![j] = IF Inside(j) THEN [@ EXCEPT !.pc = "free"] ELSE Idle]
    /\ UNCHANGED <<work, tree, barred, lease, chain, spent, everIn, dropped>>

\* The daemon dies: trees, branches and books stay.
Restart ==
    /\ spent.boots < MaxBoots /\ spent' = [spent EXCEPT !.boots = @ + 1]
    /\ lease' = [c \in Convs |-> << >>] /\ chain' = [r \in Repos |-> << >>]
    /\ job' = [j \in Jobs |-> Idle]
    /\ UNCHANGED <<work, tree, barred, books, everIn, dropped>>

-----------------------------------------------------------------------------

LandStep(j) ==
    \/ Lease(j) \/ Leased(j) \/ ParentLeased(j) \/ Synced(j) \/ SettleByHand(j) \/ Acquire(j)
    \/ Plan(j) \/ Write(j) \/ Prove(j) \/ Unlock(j) \/ Free(j) \/ Record(j)

Next ==
    \/ \E c \in Convs, r \in Repos : Work(c, r)
    \/ \E r \in Repos, u \in Touchable : Edit(r, u) \/ Discard(r, u)
    \/ \E j \in Jobs, whole \in BOOLEAN : Call(j, whole)
    \/ \E j \in Jobs : LandStep(j)
    \/ Restart

Spec == Init /\ [][Next]_vars

\* Git and the record's writes come back: every land under way is taken on.
FairSpec == Spec /\ \A j \in Jobs : WF_vars(LandStep(j))

-----------------------------------------------------------------------------
(* Properties.                                                             *)

PCs == {"idle", "called", "own", "parent", "sync", "lock", "plan", "write", "prove", "unlock",
        "record", "free"}

TypeOK ==
    /\ \A j \in Jobs : job[j].pc \in PCs
    /\ \A c \in Convs, r \in Repos : r \in Range(Composed[c]) => books[c][r] \in 0..Len(work[c][r])
    /\ \A t \in Trees, r \in Repos : tree[t][r] \subseteq Changes

\* Whatever a record says has landed was read in the tree it went to, or said to
\* be there by the person who brought it in (land.ts: "A write is landed only once
\* the tree is read back holding it"): over several repositories, with a write the
\* tree refused or did not take, stale records and restarts.
TipProven ==
    \A c \in Convs : \A r \in Range(Composed[c]) :
        Between(c, r, 0, books[c][r]) \subseteq everIn[ParentOf[c]][r]

\* A land that is refused wrote in no repository, unless a person or a turn wrote in
\* the tree under it or the tree failed it: no other land, discard or stage comes
\* between its plan and its writes (land.ts: "Locks stay held through both phases").
WholeOrNothing ==
    \A j \in Jobs : job[j].pc # "idle" /\ job[j].refused /\ ~job[j].mishap => job[j].wrote = {}

\* The checkouts a land rebases, commits in or writes into.
Touches(j) == {j[1]} \cup (IF j[2] = "measure" THEN {} ELSE {Into(j)} \ {Main})

\* A checkout being rebased, which no repository's lock covers, is nobody else's to
\* rebase, read for a land or write into: a parent's under its children's lands too.
RebaseAlone ==
    \A i, j \in Jobs :
        i # j /\ Doing(i, {"sync"}) /\ Doing(j, {"sync", "lock", "plan", "write", "prove"})
          => Touches(i) \cap Touches(j) = {}

\* No lands wait on each other for good: whatever was asked for comes to its end,
\* until nothing is under way (as many lands as MaxLands allows).
LandsEnd == []<>(\A j \in Jobs : Doing(j, {"idle"}))

\* What a person took out of the shared tree after it was recorded comes back only
\* with a land of the whole branch (land.ts: "the only rung that still sees a
\* discard").
DiscardStays ==
    [][\A r \in Repos : \A u \in dropped[r] :
          u \notin tree[Main][r] /\ u \in tree'[Main][r]
            => \E j \in Jobs : Doing(j, {"write"}) /\ job[j].whole]_vars

=============================================================================
