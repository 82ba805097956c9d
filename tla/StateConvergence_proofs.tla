------------------------ MODULE StateConvergence_proofs ------------------------
(***************************************************************************)
(* Proofs about StateConvergence: its types, that one episode at most is   *)
(* open whatever died when, that the pre-images an open episode names are  *)
(* the files as they were before it, that an episode commits only over a   *)
(* finished conversion, and that the journal is written ahead.             *)
(*                                                                         *)
(* The argument about the pre-images: files only ever move between the two *)
(* ends of one regrouping, so what stands at an address a plan may delete  *)
(* from is, while an episode is open, nothing or what stood before it at   *)
(* one of that file's addresses (Ground); and only such files are copied   *)
(* aside.  About the commit: what the volumes will be once the rest of the *)
(* plan is done stays the same with each step of it, and is converged at   *)
(* the start, unless two copies meet, which then throws (Ahead, Doomed).   *)
(***************************************************************************)
EXTENDS StateConvergence, FiniteSetTheorems, SequenceTheorems, TLAPS

Running == {"prune", "record", "apply", "settle", "up"}

\* Which episodes stand open, by where the boot is.
Standing ==
    /\ \A e \in journal : \A f \in journal : e.id = f.id \/ (e.open /\ f.open) => e = f
    /\ daemon.at # "off" => daemon.build \in Builds
    /\ daemon.at \in Running => \A e \in journal : e.open => e.digest = Digest[daemon.build]
    /\ daemon.at = "record" =>
        /\ daemon.id \in 1 .. ids
        /\ daemon.resumed => \E e \in journal : e.open /\ e.id = daemon.id /\ ToSet(e.entries) \subseteq ToSet(daemon.entries)
        /\ ~daemon.resumed => \A e \in journal : ~e.open /\ e.id # daemon.id
    /\ daemon.at = "restore" =>
        \E e \in journal : e.open /\ e.id = daemon.id /\ ToSet(daemon.entries) \subseteq ToSet(e.entries)
    /\ daemon.at = "drop" => \A e \in journal : ~e.open /\ e.id # daemon.id

\* A step of a plan, or an entry of an episode, between the ends of a regrouping.
Pairs(b, from, to) == \E l \in Layout[b] : l.from = from[1] /\ l.to = to[1]

WorkOf(b) ==
    \A w \in daemon.work :
        /\ w.kind # "write" => Pairs(b, w.from, w.to)
        /\ w.kind = "write" =>
            /\ w.to \in Paths
            /\ w.to \in Leaving(b) => w.says = 0
            /\ daemon.at = "record" /\ w.to \notin Leaving(b) => disk[SourceOf(daemon.work, w.to)] = 0
Shaped(b, entry) ==
    /\ entry.moved => Pairs(b, entry.from, entry.path)
    /\ entry.image => entry.path \in Leaving(b)

\* What stands at an address a plan deletes from is what stood before.
Ground(b, d, was) == \A q \in Leaving(b) : d[q] = 0 \/ \E p \in Kin(b, q) : d[q] = was[p]
Imaged(b, id, entry, was) ==
    entry.image => /\ <<id, entry.path>> \in DOMAIN images
                   /\ \E p \in Kin(b, entry.path) : images[<<id, entry.path>>] = was[p]

\* The open episode's pre-images, and the files it may still copy aside ...
OpenTrue == \A e \in journal : e.open => \A b \in Builds : Digest[b] = e.digest =>
    /\ Ground(b, disk, before.disk)
    /\ \A entry \in ToSet(e.entries) : Shaped(b, entry) /\ Imaged(b, e.id, entry, before.disk)

\* ... and those of the one being recorded, which nothing has converted yet.
RecordTrue ==
    /\ daemon.at \in {"record", "apply"} => WorkOf(daemon.build)
    /\ daemon.at = "record" => \A entry \in ToSet(daemon.entries) :
        /\ Shaped(daemon.build, entry)
        /\ Imaged(daemon.build, daemon.id, entry, IF daemon.resumed THEN before.disk ELSE disk)
-----------------------------------------------------------------------------
\* Addresses.

\* A file of a tree.
LEMMA PathShape ==
    ASSUME NEW p \in Paths
    PROVE  /\ p[1] \in Trees /\ p[2] \in LeavesOf[p[1]] /\ p = <<p[1], p[2]>>
           /\ \A t \in Trees : LeavesOf[t] = LeavesOf[p[1]] => <<t, p[2]>> \in Paths
BY DEF Paths

\* What is inside an address is of its tree.
LEMMA InsideShape ==
    ASSUME NEW path, NEW p \in Inside(path)
    PROVE  p[1] = path[1]
BY DEF Inside

\* A regrouping's two ends hold files of one name, and have one home.
LEMMA Ends ==
    ASSUME NEW b \in Builds, NEW l \in Layout[b]
    PROVE  /\ l.from \in Trees /\ l.to \in Trees /\ LeavesOf[l.from] = LeavesOf[l.to]
           /\ Home(b, l.from) = l.to /\ Home(b, l.to) = l.to
<1>1. l.from \in Trees /\ l.to \in Trees /\ LeavesOf[l.from] = LeavesOf[l.to]
  BY PathsAssumption
<1>2. \A k \in Layout[b] : l.from # k.to /\ k.from # l.to /\ (l # k => l.from # k.from)
  BY PlansAssumption
<1>3. (CHOOSE k \in Layout[b] : k.from = l.from) = l
  BY <1>2
<1>4. Home(b, l.from) = l.to
  BY <1>3 DEF Home
<1>5. Home(b, l.to) = l.to
  BY <1>2 DEF Home
<1> QED
  BY <1>1, <1>4, <1>5

\* The addresses of one file are an equivalence, and all of them leave if one
\* does.
LEMMA KinFacts ==
    ASSUME NEW b \in Builds, NEW p \in Paths
    PROVE  /\ p \in Kin(b, p)
           /\ \A q \in Kin(b, p) : q \in Paths /\ Kin(b, q) = Kin(b, p)
           /\ p \in Leaving(b) => Kin(b, p) \subseteq Leaving(b)
           /\ Leaving(b) \subseteq Paths
<1>1. /\ p \in Kin(b, p)
      /\ \A q \in Kin(b, p) : q \in Paths /\ Kin(b, q) = Kin(b, p)
  BY DEF Kin
<1>2. ASSUME p \in Leaving(b) PROVE Kin(b, p) \subseteq Leaving(b)
  <2> DEFINE S == Retired[b] \cup {m.from : m \in MovedFrom[b]}
  <2>1. PICK r \in S : p \in Kin(b, r)
    BY <1>2 DEF Leaving
  <2>2. Kin(b, p) = Kin(b, r)
    BY <2>1 DEF Kin
  <2>3. QED
    BY <2>1, <2>2 DEF Leaving
<1>3. Leaving(b) \subseteq Paths
  BY DEF Leaving, Kin
<1> QED
  BY <1>1, <1>2, <1>3

\* A file at one end of a regrouping has kin at the other.
LEMMA OtherEnd ==
    ASSUME NEW b \in Builds, NEW l \in Layout[b], NEW p \in Paths
    PROVE  /\ p[1] = l.to => <<l.from, p[2]>> \in Kin(b, p)
           /\ p[1] = l.from => <<l.to, p[2]>> \in Kin(b, p)
<1>1. /\ p[1] = l.to => <<l.from, p[2]>> \in Paths
      /\ p[1] = l.from => <<l.to, p[2]>> \in Paths
  BY PathShape, Ends
<1> QED
  BY <1>1, Ends DEF Kin

\* Builds of one conversion set tell the same files apart.
LEMMA SameDigest ==
    ASSUME NEW b \in Builds, NEW c \in Builds, Digest[b] = Digest[c]
    PROVE  /\ \A p : Kin(b, p) = Kin(c, p)
           /\ Leaving(b) = Leaving(c)
           /\ \A from, to : Pairs(b, from, to) <=> Pairs(c, from, to)
<1>1. Layout[b] = Layout[c] /\ MovedFrom[b] = MovedFrom[c] /\ Retired[b] = Retired[c]
  BY PlansAssumption
<1>2. \A t : Home(b, t) = Home(c, t)
  BY <1>1 DEF Home
<1>3. \A p : Kin(b, p) = Kin(c, p)
  BY <1>2 DEF Kin
<1>4. Leaving(b) = Leaving(c)
  BY <1>1, <1>3 DEF Leaving
<1> QED
  BY <1>1, <1>3, <1>4 DEF Pairs

\* Where a file's bytes are before a plan's copies and renames is one of its
\* addresses.
LEMMA SourceIsKin ==
    ASSUME NEW b \in Builds, NEW work, NEW p \in Paths,
           \A w \in work : w.kind # "write" => Pairs(b, w.from, w.to)
    PROVE  SourceOf(work, p) \in Kin(b, p)
<1> DEFINE over == {op \in work : op.kind # "write" /\ p \in Inside(op.to)}
<1>1. CASE over = {}
  BY <1>1, KinFacts DEF SourceOf
<1>2. CASE over # {}
  <2> DEFINE op == CHOOSE x \in over : TRUE
  <2>1. op \in over
    BY <1>2
  <2>2. SourceOf(work, p) = <<op.from[1], p[2]>>
    BY <1>2 DEF SourceOf, Source
  <2>3. PICK l \in Layout[b] : l.from = op.from[1] /\ l.to = op.to[1]
    BY <2>1 DEF Pairs
  <2>4. p[1] = l.to
    BY <2>1, <2>3, InsideShape
  <2> QED
    BY <2>2, <2>3, <2>4, OtherEnd
<1> QED
  BY <1>1, <1>2

\* Moving or copying between the ends of a regrouping, either way, keeps the
\* ground.
LEMMA AfterKeepsGround ==
    ASSUME NEW b \in Builds, NEW d, NEW was, NEW op,
           Pairs(b, op.from, op.to) \/ Pairs(b, op.to, op.from),
           Ground(b, d, was)
    PROVE  Ground(b, After(d, op), was)
<1> SUFFICES ASSUME NEW q \in Leaving(b)
             PROVE  After(d, op)[q] = 0 \/ \E p \in Kin(b, q) : After(d, op)[q] = was[p]
  BY DEF Ground
<1>1. q \in Paths /\ q \in Kin(b, q) /\ Kin(b, q) \subseteq Leaving(b) /\ \A r \in Kin(b, q) : Kin(b, r) = Kin(b, q)
  <2>1. q \in Paths
    BY DEF Leaving, Kin
  <2> QED
    BY <2>1, KinFacts
<1>2. After(d, op)[q] \in {0, d[q], d[Source(op, q)]}
  BY <1>1 DEF After
<1>3. ASSUME q \in Inside(op.to) PROVE Source(op, q) \in Kin(b, q)
  <2>1. q[1] = op.to[1]
    BY <1>3, InsideShape
  <2>2. CASE Pairs(b, op.from, op.to)
    BY <2>1, <2>2, <1>1, OtherEnd DEF Pairs, Source
  <2>3. CASE Pairs(b, op.to, op.from)
    BY <2>1, <2>3, <1>1, OtherEnd DEF Pairs, Source
  <2> QED
    BY <2>2, <2>3
<1>4. CASE q \in Inside(op.to)
  <2>1. After(d, op)[q] = d[Source(op, q)]
    BY <1>4, <1>1 DEF After
  <2>2. Source(op, q) \in Leaving(b) /\ Kin(b, Source(op, q)) = Kin(b, q)
    BY <1>3, <1>4, <1>1
  <2> QED
    BY <2>1, <2>2 DEF Ground
<1>5. CASE q \notin Inside(op.to)
  <2>1. After(d, op)[q] \in {0, d[q]}
    BY <1>5, <1>1 DEF After
  <2> QED
    BY <2>1 DEF Ground
<1> QED
  BY <1>4, <1>5

-----------------------------------------------------------------------------
\* Plans.

LEMMA WholeShape ==
    ASSUME NEW t \in Trees
    PROVE  Whole(t) \in LeavesOf[t] \cup {All}
BY PathsAssumption DEF Whole

\* A layout step goes between the ends of one regrouping, under one name.
LEMMA LayoutShape ==
    ASSUME NEW b \in Builds, NEW d, NEW op \in Layouts(b, d)
    PROVE  /\ op \in Works /\ op.kind # "write"
           /\ \E l \in Layout[b] : /\ op \in Placed(d, l)
                                   /\ op.kind = l.mode /\ op.says = 0
                                   /\ op.from[1] = l.from /\ op.to[1] = l.to /\ op.from[2] = op.to[2]
                                   /\ op.to = <<l.to, op.to[2]>> /\ op.from = <<l.from, op.to[2]>>
<1>1. PICK l \in Layout[b] : op \in Placed(d, l)
  BY DEF Layouts
<1>2. PICK x \in LeavesOf[l.from] \cup {All} :
        op = [kind |-> l.mode, from |-> <<l.from, x>>, to |-> <<l.to, x>>, says |-> 0]
  <2>1. Whole(l.from) \in LeavesOf[l.from] \cup {All}
    BY Ends, WholeShape
  <2> QED
    BY <1>1, <2>1 DEF Placed
<1>3. <<l.from, x>> \in Addresses /\ <<l.to, x>> \in Addresses
  BY Ends DEF Addresses, Paths
<1>4. l.mode \in {"copy", "rename"} /\ 0 \in Says
  BY PathsAssumption DEF Says
<1> QED
  BY <1>1, <1>2, <1>3, <1>4 DEF Works

LEMMA LayoutPairs ==
    ASSUME NEW b \in Builds, NEW d
    PROVE  \A w \in Layouts(b, d) : w.kind # "write" => Pairs(b, w.from, w.to)
BY LayoutShape DEF Pairs

\* What stays where stores open it is not moved away.
LEMMA StaysPut ==
    ASSUME NEW b \in Builds, NEW d, NEW p \in Paths, Home(b, p[1]) = p[1]
    PROVE  ~MovedAway(Layouts(b, d), p)
<1> SUFFICES ASSUME NEW op \in Layouts(b, d), p \in Inside(op.from)
             PROVE  FALSE
  BY DEF MovedAway
<1>1. PICK l \in Layout[b] : op.from[1] = l.from
  BY LayoutShape
<1>2. p[1] = l.from
  BY <1>1, InsideShape
<1>3. l.from # l.to
  BY PlansAssumption
<1> QED
  BY <1>2, <1>3, Ends

\* The overlay reads each file at one of its addresses, or nothing.
LEMMA OverlayReads ==
    ASSUME NEW b \in Builds, NEW d \in [Paths -> Says], NEW p \in Paths
    PROVE  Overlay(b, d)[p] \in Says
<1>1. SourceOf(Layouts(b, d), p) \in Paths
  BY SourceIsKin, LayoutPairs, KinFacts
<1>2. 0 \in Says
  BY PathsAssumption DEF Says
<1> QED
  BY <1>1, <1>2 DEF Overlay

\* A write deletes what leaves, or puts a document where nothing stood.
LEMMA WriteShape ==
    ASSUME NEW b \in Builds, NEW d \in [Paths -> Says], NEW w \in Writes(b, d)
    PROVE  /\ w \in Works /\ w.kind = "write" /\ w.to \in Paths
           /\ \/ w.to \in Leaving(b) /\ w.says = 0 /\ Overlay(b, d)[w.to] # 0
              \/ /\ w.to \notin Leaving(b) /\ w.says # 0 /\ Overlay(b, d)[w.to] = 0
                 /\ d[SourceOf(Layouts(b, d), w.to)] = 0
                 /\ Home(b, w.to[1]) = w.to[1]
<1> DEFINE o == Overlay(b, d)
           write(p, v) == [kind |-> "write", from |-> p, to |-> p, says |-> v]
           mine == {m.from : m \in MovedFrom[b]}
<1>0. /\ Retired[b] \subseteq Paths /\ \A m \in MovedFrom[b] : m.from \in Paths /\ m.to \in Paths
      /\ 0 \in Says /\ Paths \subseteq Addresses
  BY PathsAssumption DEF Says, Addresses
<1>1. \/ \E m \in MovedFrom[b] : w = write(m.to, o[m.from]) /\ o[m.to] = 0 /\ o[m.from] # 0
      \/ \E m \in MovedFrom[b] : w = write(m.from, 0) /\ o[m.from] # 0
      \/ \E p \in Retired[b] : w = write(p, 0) /\ o[p] # 0
  BY DEF Writes
<1>2. \A p \in Retired[b] \cup mine : p \in Leaving(b)
  <2>1. \A p \in Retired[b] \cup mine : p \in Kin(b, p)
    BY <1>0, KinFacts
  <2> QED
    BY <2>1 DEF Leaving
<1>3. CASE \E m \in MovedFrom[b] : w = write(m.to, o[m.from]) /\ o[m.to] = 0 /\ o[m.from] # 0
  <2>1. PICK m \in MovedFrom[b] : w = write(m.to, o[m.from]) /\ o[m.to] = 0 /\ o[m.from] # 0
    BY <1>3
  <2>2. m.to \notin Leaving(b) /\ Home(b, m.to[1]) = m.to[1]
    BY PlansAssumption
  <2>3. o[m.to] = d[SourceOf(Layouts(b, d), m.to)]
    BY <2>2, <1>0, StaysPut DEF Overlay
  <2>4. o[m.from] \in Says
    BY <1>0, OverlayReads
  <2> HIDE DEF o
  <2>5. w.to = m.to /\ w.kind = "write" /\ w.says = o[m.from] /\ w \in Works
    BY <2>1, <2>4, <1>0 DEF Works
  <2> QED
    BY <2>1, <2>2, <2>3, <2>5, <1>0 DEF o
<1>4. ASSUME NEW p \in Retired[b] \cup mine, w = write(p, 0), o[p] # 0
      PROVE  /\ w \in Works /\ w.kind = "write" /\ w.to \in Paths
             /\ w.to \in Leaving(b) /\ w.says = 0 /\ o[w.to] # 0
  <2>1. p \in Paths /\ p \in Leaving(b)
    BY <1>0, <1>2
  <2> HIDE DEF o
  <2> QED
    BY <1>4, <2>1, <1>0 DEF Works
<1> QED
  BY <1>1, <1>3, <1>4

\* The copies and renames are the plan's layout steps, and the writes the rest.
LEMMA PlanSource ==
    ASSUME NEW b \in Builds, NEW d \in [Paths -> Says], NEW p
    PROVE  SourceOf(Plan(b, d), p) = SourceOf(Layouts(b, d), p)
<1> DEFINE over(work) == {op \in work : op.kind # "write" /\ p \in Inside(op.to)}
<1>1. over(Plan(b, d)) = over(Layouts(b, d))
  BY WriteShape, LayoutShape DEF Plan
<1>2. \A work : SourceOf(work, p) = IF over(work) = {} THEN p ELSE Source(CHOOSE op \in over(work) : TRUE, p)
  BY Zenon DEF SourceOf
<1> HIDE DEF over
<1> QED
  BY <1>1, <1>2, Zenon

LEMMA PlanShape ==
    ASSUME NEW b \in Builds, NEW d \in [Paths -> Says], NEW w \in Plan(b, d)
    PROVE  /\ w \in Works
           /\ w.kind # "write" => Pairs(b, w.from, w.to)
           /\ w.kind = "write" =>
                /\ w.to \in Paths
                /\ w.to \in Leaving(b) => w.says = 0
                /\ w.to \notin Leaving(b) => d[SourceOf(Plan(b, d), w.to)] = 0
<1>1. CASE w \in Layouts(b, d)
  BY <1>1, LayoutShape, LayoutPairs
<1>2. CASE w \in Writes(b, d)
  <2>1. SourceOf(Plan(b, d), w.to) = SourceOf(Layouts(b, d), w.to)
    BY PlanSource
  <2> QED
    BY <1>2, <2>1, WriteShape
<1> QED
  BY <1>1, <1>2 DEF Plan

-----------------------------------------------------------------------------
\* Types.

IInv == TypeOK /\ Standing /\ OpenTrue /\ RecordTrue

LEMMA AfterType ==
    ASSUME NEW b \in Builds, NEW d \in [Paths -> Says], NEW op,
           Pairs(b, op.from, op.to) \/ Pairs(b, op.to, op.from)
    PROVE  After(d, op) \in [Paths -> Says]
<1> SUFFICES ASSUME NEW q \in Paths PROVE After(d, op)[q] \in Says
  BY DEF After
<1>1. 0 \in Says
  BY PathsAssumption DEF Says
<1>2. ASSUME q \in Inside(op.to) PROVE Source(op, q) \in Paths
  <2>1. q[1] = op.to[1]
    BY <1>2, InsideShape
  <2>2. \A r \in Kin(b, q) : r \in Paths
    BY KinFacts
  <2>3. CASE Pairs(b, op.from, op.to)
    BY <2>1, <2>2, <2>3, OtherEnd DEF Pairs, Source
  <2>4. CASE Pairs(b, op.to, op.from)
    BY <2>1, <2>2, <2>4, OtherEnd DEF Pairs, Source
  <2> QED
    BY <2>3, <2>4
<1> QED
  BY <1>1, <1>2 DEF After

LEMMA OffType == Off \in Daemons
<1>1. <<>> \in Seq(Entries)
  OBVIOUS
<1> QED
  BY <1>1 DEF Off, Daemons

\* A boot puts back an episode of another conversion set, or goes on.
LEMMA RecoverFacts ==
    ASSUME NEW b \in Builds, NEW j, j \subseteq Episodes
    PROVE  /\ Recover(b, j) \in Daemons /\ Recover(b, j).build = b
           /\ \/ /\ Recover(b, j).at = "prune"
                 /\ \A e \in j : e.open => e.digest = Digest[b]
              \/ /\ Recover(b, j).at = "restore"
                 /\ \E e \in j : /\ e.open /\ Recover(b, j).id = e.id /\ Recover(b, j).entries = e.entries
<1> DEFINE others == {e \in j : e.open /\ e.digest # Digest[b]}
           e == CHOOSE x \in others : TRUE
<1>1. CASE others = {}
  <2>1. Recover(b, j) = [Off EXCEPT !.build = b, !.at = "prune"]
    BY <1>1 DEF Recover
  <2>2. \A x \in j : x.open => x.digest = Digest[b]
    BY <1>1
  <2> QED
    BY <2>1, <2>2, OffType DEF Daemons
<1>2. CASE others # {}
  <2>1. Recover(b, j) = [Off EXCEPT !.build = b, !.at = "restore", !.id = e.id, !.entries = e.entries,
                                    !.then = "recover"]
    BY <1>2 DEF Recover
  <2>2. e \in j /\ e.open
    BY <1>2
  <2>3. e.id \in Nat /\ e.entries \in Seq(Entries)
    BY <2>2 DEF Episodes
  <2> HIDE DEF e, others
  <2> QED
    BY <2>1, <2>2, <2>3, OffType DEF Daemons
<1> QED
  BY <1>1, <1>2

\* What a sequence without its last entry holds.
LEMMA FrontFacts ==
    ASSUME NEW s \in Seq(Entries), s # <<>>
    PROVE  /\ Last(s) \in ToSet(s) /\ Last(s) \in Entries
           /\ Front(s) \in Seq(Entries) /\ ToSet(Front(s)) \subseteq ToSet(s)
<1>1. Len(s) \in Nat /\ Len(s) >= 1
  OBVIOUS
<1>2. Front(s) \in Seq(Entries) /\ Len(Front(s)) = Len(s) - 1
      /\ \A i \in 1 .. Len(s) - 1 : Front(s)[i] = s[i]
  <2>1. Front(s) = SubSeq(s, 1, Len(s) - 1)
    BY DEF Front
  <2>2. \A i \in 1 .. Len(s) - 1 : s[i] \in Entries
    BY <1>1
  <2> DEFINE n == Len(s) - 1
  <2>3. n \in Int /\ 1 \in Int /\ n >= 0 /\ n - 1 + 1 = n
    BY <1>1
  <2>4. \A i \in 1 .. n : s[i] \in Entries
    BY <2>2
  <2> HIDE DEF n
  <2>5. /\ SubSeq(s, 1, n) \in Seq(Entries)
        /\ Len(SubSeq(s, 1, n)) = IF 1 <= n THEN n - 1 + 1 ELSE 0
        /\ \A i \in 1 .. n - 1 + 1 : SubSeq(s, 1, n)[i] = s[1 + i - 1]
    BY <2>3, <2>4, SubSeqProperties
  <2>6. Len(SubSeq(s, 1, n)) = n
    BY <2>3, <2>5
  <2>7. \A i \in 1 .. n : SubSeq(s, 1, n)[i] = s[i]
    BY <2>3, <2>5
  <2> QED
    BY <2>1, <2>5, <2>6, <2>7 DEF n
<1> QED
  BY <1>1, <1>2 DEF Last, ToSet

LEMMA AppendFacts ==
    ASSUME NEW s \in Seq(Entries), NEW x \in Entries
    PROVE  Append(s, x) \in Seq(Entries) /\ ToSet(Append(s, x)) = ToSet(s) \cup {x}
<1>1. /\ Append(s, x) \in Seq(Entries) /\ Len(Append(s, x)) = Len(s) + 1 /\ Len(s) \in Nat
      /\ \A i \in 1 .. Len(s) : Append(s, x)[i] = s[i]
      /\ Append(s, x)[Len(s) + 1] = x
  OBVIOUS
<1>2. ToSet(Append(s, x)) = {Append(s, x)[i] : i \in 1 .. Len(s) + 1} /\ ToSet(s) = {s[i] : i \in 1 .. Len(s)}
  BY <1>1 DEF ToSet
<1> QED
  BY <1>1, <1>2

\* Every open episode is of some build, whose regroupings its entries follow.
LEMMA OpenHasBuild ==
    ASSUME TypeOK, NEW e \in journal
    PROVE  \E b \in Builds : Digest[b] = e.digest
BY DEF TypeOK, Episodes

\* The entry a put-back is at.
LEMMA RestoredEntry ==
    ASSUME IInv, daemon.at = "restore", daemon.entries # <<>>
    PROVE  \E e \in journal : /\ e.open /\ e.id = daemon.id
                              /\ ToSet(daemon.entries) \subseteq ToSet(e.entries)
                              /\ \A b \in Builds : Digest[b] = e.digest =>
                                    /\ Shaped(b, Last(daemon.entries))
                                    /\ Imaged(b, daemon.id, Last(daemon.entries), before.disk)
<1>1. PICK e \in journal : e.open /\ e.id = daemon.id /\ ToSet(daemon.entries) \subseteq ToSet(e.entries)
  BY DEF IInv, Standing
<1>2. Last(daemon.entries) \in ToSet(e.entries)
  BY <1>1, FrontFacts DEF IInv, TypeOK, Daemons
<1> QED
  BY <1>1, <1>2 DEF IInv, OpenTrue

LEMMA PutBackType ==
    ASSUME IInv, daemon.at = "restore", daemon.entries # <<>>
    PROVE  PutBack(Last(daemon.entries)) \in [Paths -> Says]
<1> DEFINE x == Last(daemon.entries)
<1>1. PICK e \in journal : /\ e.open /\ e.id = daemon.id
                           /\ \A b \in Builds : Digest[b] = e.digest =>
                                /\ Shaped(b, x) /\ Imaged(b, daemon.id, x, before.disk)
  BY RestoredEntry
<1>2. PICK b \in Builds : Digest[b] = e.digest
  BY OpenHasBuild DEF IInv
<1>3. Shaped(b, x) /\ Imaged(b, daemon.id, x, before.disk)
  BY <1>1, <1>2
<1>4. x \in Entries /\ disk \in [Paths -> Says]
  BY FrontFacts DEF IInv, TypeOK, Daemons
<1> SUFFICES PutBack(x) \in [Paths -> Says]
  OBVIOUS
<1> HIDE DEF x
<1>5. CASE x.moved
  <2> DEFINE op == [kind |-> "rename", from |-> x.path, to |-> x.from]
  <2>1. op.from = x.path /\ op.to = x.from
    OBVIOUS
  <2>2. Pairs(b, op.to, op.from)
    BY <1>3, <1>5 DEF Shaped
  <2> HIDE DEF op
  <2>3. After(disk, op) \in [Paths -> Says]
    BY <2>2, <1>4, AfterType
  <2>4. PutBack(x) \in {disk, After(disk, op)}
    BY <1>5 DEF PutBack, op
  <2> QED
    BY <2>3, <2>4, <1>4
<1>6. CASE ~x.moved /\ ~x.image
  <2>1. PutBack(x) = [p \in Paths |-> IF p \in Inside(x.path) THEN 0 ELSE disk[p]]
    BY <1>6 DEF PutBack
  <2> QED
    BY <2>1, <1>4, PathsAssumption DEF Says
<1>7. CASE ~x.moved /\ x.image
  <2>1. PutBack(x) = [disk EXCEPT ![x.path] = images[<<daemon.id, x.path>>]]
    BY <1>7 DEF PutBack
  <2>2. images[<<daemon.id, x.path>>] \in Says
    BY <1>3, <1>7 DEF Imaged, IInv, TypeOK
  <2> QED
    BY <2>1, <2>2, <1>4
<1> QED
  BY <1>4, <1>5, <1>6, <1>7 DEF Entries


LEMMA TypesInitially == Init => TypeOK
<1> SUFFICES ASSUME Init PROVE TypeOK
  OBVIOUS
<1>1. 0 \in Says /\ 1 \in Says /\ 0 \in 0 .. MaxEdits /\ 0 \in 0 .. MaxCrashes /\ 0 \in 0 .. MaxFails
  BY PathsAssumption DEF Says
<1> QED
  BY <1>1, OffType DEF Init, TypeOK

\* What stands aside once an episode's images are dropped.
LEMMA DroppedFacts ==
    ASSUME NEW id
    PROVE  /\ DOMAIN Dropped(id) = {x \in DOMAIN images : x[1] # id}
           /\ \A x \in DOMAIN Dropped(id) : Dropped(id)[x] = images[x]
BY DEF Dropped

\* Whatever a throw leaves, the boot puts its own episode back, or goes on.
LEMMA ThrownFacts ==
    ASSUME IInv, Thrown, daemon.build \in Builds
    PROVE  /\ daemon' \in Daemons /\ daemon'.build = daemon.build
           /\ \/ /\ daemon'.at = "up" /\ ~daemon'.vouched
                 /\ \A e \in journal : ~(e.open /\ e.digest = Digest[daemon.build])
              \/ /\ daemon'.at = "restore"
                 /\ \E e \in journal : e.open /\ daemon'.id = e.id /\ daemon'.entries = e.entries
           /\ images' = IF daemon.at = "record" /\ ~daemon.resumed THEN Dropped(daemon.id) ELSE images
           /\ UNCHANGED <<disk, journal, seen, before, ids, crashes, edits>>
<1> DEFINE mine == OpenOf(Digest[daemon.build])
           e == CHOOSE x \in mine : TRUE
<1>1. /\ images' = IF daemon.at = "record" /\ ~daemon.resumed THEN Dropped(daemon.id) ELSE images
      /\ UNCHANGED <<disk, journal, seen, before, ids, crashes, edits>>
  BY DEF Thrown
<1>2. CASE mine = {}
  <2>1. daemon' = [Off EXCEPT !.build = daemon.build, !.at = "up"]
    BY <1>2 DEF Thrown, Hold
  <2>2. \A x \in journal : ~(x.open /\ x.digest = Digest[daemon.build])
    BY <1>2 DEF OpenOf
  <2>3. daemon' \in Daemons
    BY <2>1, OffType DEF Daemons
  <2>4. daemon'.build = daemon.build /\ daemon'.at = "up" /\ ~daemon'.vouched
    BY <2>1 DEF Off
  <2> QED
    BY <2>2, <2>3, <2>4, <1>1
<1>3. CASE mine # {}
  <2>1. daemon' = [Off EXCEPT !.build = daemon.build, !.at = "restore", !.id = e.id, !.entries = e.entries,
                              !.then = "up"]
    BY <1>3 DEF Thrown, Hold
  <2>2. e \in journal /\ e.open
    BY <1>3 DEF OpenOf
  <2>3. e.id \in Nat /\ e.entries \in Seq(Entries)
    BY <2>2 DEF IInv, TypeOK, Episodes
  <2> HIDE DEF e, mine
  <2>4. daemon' \in Daemons
    BY <2>1, <2>3, OffType DEF Daemons
  <2>5. daemon'.build = daemon.build /\ daemon'.at = "restore" /\ daemon'.id = e.id /\ daemon'.entries = e.entries
    BY <2>1, OffType DEF Daemons
  <2> QED
    BY <2>2, <2>4, <2>5, <1>1
<1> QED
  BY <1>2, <1>3

\* The work and the episode pruning leaves.
LEMMA PruneFacts ==
    ASSUME IInv, Prune
    PROVE  LET b == daemon.build
               work == Plan(b, disk)
           IN  /\ b \in Builds /\ daemon' \in Daemons /\ daemon'.build = b /\ daemon'.work = work
               /\ daemon'.at = (IF work = {} THEN "settle" ELSE "record")
               /\ \/ /\ OpenOf(Digest[b]) = {} /\ ~daemon'.resumed
                     /\ daemon'.id = ids + 1 /\ daemon'.entries = <<>>
                     /\ ids' = IF work # {} THEN ids + 1 ELSE ids
                  \/ /\ daemon'.resumed /\ ids' = ids
                     /\ \E e \in journal : /\ e.open /\ e.digest = Digest[b]
                                           /\ daemon'.id = e.id /\ daemon'.entries = e.entries
               /\ UNCHANGED <<disk, journal, seen, before, crashes, fails, edits>>
<1> DEFINE b == daemon.build
           work == Plan(b, disk)
           mine == OpenOf(Digest[b])
           e == CHOOSE x \in mine : TRUE
<1>1. b \in Builds /\ daemon \in Daemons /\ disk \in [Paths -> Says] /\ ids \in Nat
  BY DEF IInv, Standing, TypeOK, Prune, Running
<1>2. work \in SUBSET Works
  BY <1>1, PlanShape
<1>3. NewlySeen(b, disk) \in SUBSET Paths
  BY <1>1, PathsAssumption DEF NewlySeen
<1>4. mine # {} => e \in journal /\ e.open /\ e.digest = Digest[b] /\ e.id \in Nat /\ e.entries \in Seq(Entries)
  BY DEF OpenOf, IInv, TypeOK, Episodes
<1>5. /\ daemon' = [daemon EXCEPT
                    !.at = IF work = {} THEN "settle" ELSE "record",
                    !.work = work,
                    !.saw = NewlySeen(b, disk),
                    !.resumed = mine # {},
                    !.id = IF mine = {} THEN ids + 1 ELSE e.id,
                    !.entries = IF mine = {} THEN <<>> ELSE e.entries]
      /\ ids' = IF mine = {} /\ work # {} THEN ids + 1 ELSE ids
      /\ UNCHANGED <<disk, journal, seen, before, crashes, fails, edits>>
  BY DEF Prune, Hold, Kept
<1> HIDE DEF b, work, mine, e
<1>6. (mine # {}) \in BOOLEAN /\ <<>> \in Seq(Entries) /\ ids + 1 \in Nat
  BY <1>1
<1>7. daemon' \in Daemons
  BY <1>1, <1>2, <1>3, <1>4, <1>5, <1>6 DEF Daemons
<1>8. /\ daemon'.build = b /\ daemon'.work = work /\ daemon'.at = (IF work = {} THEN "settle" ELSE "record")
      /\ daemon'.resumed = (mine # {})
      /\ daemon'.id = (IF mine = {} THEN ids + 1 ELSE e.id) /\ daemon'.entries = (IF mine = {} THEN <<>> ELSE e.entries)
  BY <1>1, <1>5 DEF Daemons, b
<1>9. \/ /\ mine = {} /\ ~daemon'.resumed
         /\ daemon'.id = ids + 1 /\ daemon'.entries = <<>>
         /\ ids' = IF work # {} THEN ids + 1 ELSE ids
      \/ /\ daemon'.resumed /\ ids' = ids
         /\ \E x \in journal : /\ x.open /\ x.digest = Digest[b]
                               /\ daemon'.id = x.id /\ daemon'.entries = x.entries
  BY <1>4, <1>5, <1>8
<1> QED
  BY <1>1, <1>5, <1>7, <1>8, <1>9 DEF b, work, mine


\* What copying one more file aside leaves.
LEMMA RecordFacts ==
    ASSUME IInv, Record
    PROVE  /\ daemon.build \in Builds /\ daemon.at = "record"
           /\ \E w \in daemon.work : \E entry \in Entries :
                LET from == SourceOf(daemon.work, w.to)
                IN  /\ \A i \in DOMAIN daemon.entries : daemon.entries[i].path # w.to
                    /\ entry.path = w.to /\ entry.from = w.from /\ entry.moved = (w.kind = "rename")
                    /\ entry.image <=> w.kind = "write" /\ disk[from] # 0
                    /\ images' = IF entry.image THEN CopiedAside(<<daemon.id, w.to>>, disk[from]) ELSE images
                    /\ daemon' = [daemon EXCEPT !.entries = Append(@, entry)]
           /\ daemon' \in Daemons
           /\ UNCHANGED <<disk, journal, seen, before, ids, crashes, fails, edits>>
<1>1. daemon \in Daemons /\ daemon.build \in Builds /\ daemon.at = "record"
  BY DEF IInv, Standing, TypeOK, Record
<1>2. PICK w \in Due(Unrecorded, Recording) :
        LET from == SourceOf(daemon.work, w.to)
            image == w.kind = "write" /\ disk[from] # 0
            entry == [path |-> w.to, from |-> w.from, moved |-> w.kind = "rename", image |-> image]
        IN  /\ images' = IF image THEN CopiedAside(<<daemon.id, w.to>>, disk[from]) ELSE images
            /\ daemon' = [daemon EXCEPT !.entries = Append(@, entry)]
  BY DEF Record, Hold
<1>3. w \in daemon.work /\ w \in Works /\ \A i \in DOMAIN daemon.entries : daemon.entries[i].path # w.to
  BY <1>1, <1>2 DEF Due, Unrecorded, Daemons
<1> DEFINE from == SourceOf(daemon.work, w.to)
           image == w.kind = "write" /\ disk[from] # 0
           entry == [path |-> w.to, from |-> w.from, moved |-> w.kind = "rename", image |-> image]
<1>4. image \in BOOLEAN /\ (w.kind = "rename") \in BOOLEAN
  OBVIOUS
<1>5. /\ images' = IF image THEN CopiedAside(<<daemon.id, w.to>>, disk[from]) ELSE images
      /\ daemon' = [daemon EXCEPT !.entries = Append(@, entry)]
  BY <1>2
<1>6. image <=> w.kind = "write" /\ disk[from] # 0
  OBVIOUS
<1> HIDE DEF image, from
<1>7. entry \in Entries /\ entry.path = w.to /\ entry.from = w.from /\ entry.moved = (w.kind = "rename")
      /\ entry.image = image
  BY <1>3, <1>4 DEF Entries, Works
<1> HIDE DEF entry
<1>8. daemon' \in Daemons
  BY <1>1, <1>5, <1>7, AppendFacts DEF Daemons
<1>9. UNCHANGED <<disk, journal, seen, before, ids, crashes, fails, edits>>
  BY DEF Record, Kept
<1> QED
  BY <1>1, <1>3, <1>5, <1>6, <1>7, <1>8, <1>9 DEF from

\* What applying a step leaves.
LEMMA ApplyFacts ==
    ASSUME IInv, Apply
    PROVE  /\ daemon.build \in Builds /\ daemon.at = "apply"
           /\ \E w \in daemon.work :
                /\ disk' = IF w.kind = "write" THEN [disk EXCEPT ![w.to] = w.says] ELSE After(disk, w)
                /\ daemon' = [daemon EXCEPT !.work = @ \ {w}]
           /\ disk' \in [Paths -> Says] /\ daemon' \in Daemons
           /\ UNCHANGED <<journal, images, seen, before, ids, crashes, fails, edits>>
<1>1. daemon \in Daemons /\ daemon.build \in Builds /\ daemon.at = "apply" /\ disk \in [Paths -> Says]
  BY DEF IInv, Standing, TypeOK, Apply
<1>2. PICK w \in daemon.work :
        /\ disk' = IF w.kind = "write" THEN [disk EXCEPT ![w.to] = w.says] ELSE After(disk, w)
        /\ daemon' = [daemon EXCEPT !.work = @ \ {w}]
  BY DEF Apply, Hold, Due
<1>3. w \in Works /\ (w.kind # "write" => Pairs(daemon.build, w.from, w.to))
  BY <1>1 DEF IInv, RecordTrue, WorkOf, Daemons
<1>4. disk' \in [Paths -> Says]
  BY <1>1, <1>2, <1>3, AfterType DEF Works
<1>5. daemon' \in Daemons
  BY <1>1, <1>2 DEF Daemons
<1>6. UNCHANGED <<journal, images, seen, before, ids, crashes, fails, edits>>
  BY DEF Apply, Kept
<1> QED
  BY <1>1, <1>2, <1>4, <1>5, <1>6

LEMMA TypesStep ==
    ASSUME IInv, [Next]_vars
    PROVE  TypeOK'
<1>1. ASSUME NEW b \in Builds, Boot(b) PROVE TypeOK'
  <2>1. Recover(b, journal) \in Daemons
    BY RecoverFacts DEF IInv, TypeOK
  <2> QED
    BY <1>1, <2>1 DEF Boot, Hold, Kept, IInv, TypeOK
<1>2. CASE Restore
  <2>1. daemon' \in Daemons
    <3>1. Front(daemon.entries) \in Seq(Entries)
      BY <1>2, FrontFacts DEF IInv, TypeOK, Restore, Daemons
    <3> QED
      BY <1>2, <3>1 DEF IInv, TypeOK, Restore, Hold, Daemons
  <2>2. disk' \in [Paths -> Says]
    BY <1>2, PutBackType DEF Restore
  <2> QED
    BY <1>2, <2>1, <2>2 DEF Restore, Kept, IInv, TypeOK
<1>3. CASE Forget
  <2>1. daemon' \in Daemons
    BY <1>3 DEF IInv, TypeOK, Forget, Hold, Daemons
  <2> QED
    BY <1>3, <2>1 DEF Forget, Kept, Without, IInv, TypeOK
<1>4. CASE Drop
  <2>1. daemon.build \in Builds
    BY <1>4 DEF Drop, IInv, Standing
  <2>2. daemon' \in Daemons
    <3>1. Recover(daemon.build, journal) \in Daemons
      BY <2>1, RecoverFacts DEF IInv, TypeOK
    <3>2. [Off EXCEPT !.build = daemon.build, !.at = "up"] \in Daemons
      BY <2>1, OffType DEF Daemons
    <3> QED
      BY <1>4, <3>1, <3>2 DEF Drop, Hold
  <2> QED
    BY <1>4, <2>2, DroppedFacts DEF Drop, Kept, IInv, TypeOK
<1>5. CASE Prune
  <2>1. daemon' \in Daemons /\ ids' \in {ids, ids + 1} /\ UNCHANGED <<disk, journal, seen, before, crashes, fails, edits>>
    BY <1>5, PruneFacts
  <2>2. DOMAIN images' \subseteq DOMAIN images /\ \A k \in DOMAIN images' : images'[k] = images[k]
    BY <1>5 DEF Prune
  <2>3. ids' \in Nat /\ \A i \in 1 .. ids : i \in 1 .. ids'
    BY <2>1 DEF IInv, TypeOK
  <2> QED
    BY <2>1, <2>2, <2>3 DEF IInv, TypeOK
<1>6. CASE Record
  <2>1. PICK w \in daemon.work, entry \in Entries :
            /\ entry.image <=> w.kind = "write" /\ disk[SourceOf(daemon.work, w.to)] # 0
            /\ images' = IF entry.image THEN CopiedAside(<<daemon.id, w.to>>, disk[SourceOf(daemon.work, w.to)]) ELSE images
    BY <1>6, RecordFacts
  <2>2. daemon' \in Daemons /\ UNCHANGED <<disk, journal, seen, before, ids, crashes, fails, edits>>
        /\ daemon.at = "record" /\ daemon.build \in Builds
    BY <1>6, RecordFacts
  <2>3. entry.image => w.to \in Paths
    BY <2>1, <2>2 DEF IInv, RecordTrue, WorkOf
  <2>4. entry.image => disk[SourceOf(daemon.work, w.to)] \in Says
    <3>1. \A x \in daemon.work : x.kind # "write" => Pairs(daemon.build, x.from, x.to)
      BY <2>2 DEF IInv, RecordTrue, WorkOf
    <3>2. entry.image => SourceOf(daemon.work, w.to) \in Paths
      BY <3>1, <2>2, <2>3, SourceIsKin, KinFacts
    <3> QED
      BY <3>2 DEF IInv, TypeOK
  <2>5. daemon.id \in 1 .. ids
    BY <2>2 DEF IInv, Standing
  <2>6. DOMAIN images' \subseteq (1 .. ids) \X Paths /\ \A k \in DOMAIN images' : images'[k] \in Says
    <3>1. CASE ~entry.image
      BY <2>1, <3>1 DEF IInv, TypeOK
    <3>2. CASE entry.image
      <4> DEFINE key == <<daemon.id, w.to>>
                 says == disk[SourceOf(daemon.work, w.to)]
      <4>1. key \in (1 .. ids) \X Paths /\ says \in Says
        BY <2>3, <2>4, <2>5, <3>2
      <4>2. images' = CopiedAside(key, says)
        BY <2>1, <3>2
      <4> HIDE DEF key, says
      <4>3. /\ DOMAIN images' = DOMAIN images \cup {key} /\ images'[key] = says
            /\ \A k \in DOMAIN images : k # key => images'[k] = images[k]
        BY <4>2 DEF CopiedAside
      <4> QED
        BY <4>1, <4>3 DEF IInv, TypeOK
    <3> QED
      BY <3>1, <3>2
  <2> QED
    BY <2>2, <2>6 DEF IInv, TypeOK
<1>7. CASE Open
  <2>1. daemon.build \in Builds /\ daemon.id \in 1 .. ids
    BY <1>7 DEF Open, IInv, Standing
  <2>2. daemon' \in Daemons
    BY <1>7 DEF IInv, TypeOK, Open, Hold, Daemons
  <2> DEFINE e == [id |-> daemon.id, digest |-> Digest[daemon.build], open |-> TRUE,
                   past |-> FALSE, entries |-> daemon.entries]
  <2>3. e \in Episodes /\ e.id \in 1 .. ids
    BY <2>1 DEF Episodes, IInv, TypeOK, Daemons
  <2>4. journal' \subseteq journal \cup {e}
    BY <1>7 DEF Open, PrunedJournal
  <2>5. before' \in [disk : [Paths -> Says], edits : 0 .. MaxEdits]
    BY <1>7 DEF Open, IInv, TypeOK
  <2> HIDE DEF e
  <2> QED
    BY <1>7, <2>2, <2>3, <2>4, <2>5 DEF Open, Kept, IInv, TypeOK
<1>8. CASE Apply
  BY <1>8, ApplyFacts DEF IInv, TypeOK
<1>9. CASE Settle
  <2>1. daemon.build \in Builds
    BY <1>9 DEF Settle, IInv, Standing
  <2>2. daemon' \in Daemons
    BY <1>9, <2>1, OffType DEF Settle, Hold, Daemons
  <2>3. DOMAIN seen' \subseteq Paths /\ \A p \in DOMAIN seen' : seen'[p] \in {"new", "past"}
    BY <1>9 DEF Settle, WithSeen, IInv, TypeOK, Daemons
  <2> QED
    BY <1>9, <2>2, <2>3 DEF Settle, PrunedJournal, Kept, IInv, TypeOK
<1>10. CASE Fail \/ Collide
  <2>1. daemon.build \in Builds
    BY <1>10 DEF Fail, Collide, IInv, Standing
  <2>2. Thrown /\ fails' \in 0 .. MaxFails
    BY <1>10, PathsAssumption DEF Fail, Collide, IInv, TypeOK
  <2>3. daemon' \in Daemons /\ UNCHANGED <<disk, journal, seen, before, ids, crashes, edits>>
    BY <2>1, <2>2, ThrownFacts
  <2>4. images' \in {images, Dropped(daemon.id)}
    BY <2>1, <2>2, ThrownFacts
  <2>5. DOMAIN images' \subseteq DOMAIN images /\ \A k \in DOMAIN images' : images'[k] = images[k]
    BY <2>4, DroppedFacts
  <2> QED
    BY <2>2, <2>3, <2>5 DEF IInv, TypeOK
<1>11. ASSUME NEW p \in Paths, Edit(p) PROVE TypeOK'
  <2>1. edits' \in 0 .. MaxEdits /\ edits + 2 \in Says
    BY <1>11, PathsAssumption DEF Edit, IInv, TypeOK, Says
  <2> QED
    BY <1>11, <2>1 DEF Edit, IInv, TypeOK
<1>12. CASE Commit
  <2>1. daemon' \in Daemons
    BY <1>12 DEF Commit, Hold, IInv, TypeOK, Daemons
  <2> DEFINE mine == OpenOf(Digest[daemon.build])
             e == CHOOSE x \in mine : TRUE
  <2>2. mine # {} => e \in journal
    BY DEF OpenOf
  <2>3. journal' = IF mine = {} THEN journal ELSE (journal \ {e}) \cup {[e EXCEPT !.open = FALSE]}
    BY <1>12 DEF Commit
  <2> HIDE DEF mine, e
  <2>4. e \in journal => [e EXCEPT !.open = FALSE] \in Episodes /\ [e EXCEPT !.open = FALSE].id = e.id
    BY DEF IInv, TypeOK, Episodes
  <2>5. journal' \subseteq Episodes /\ \A x \in journal' : x.id \in 1 .. ids
    BY <2>2, <2>3, <2>4 DEF IInv, TypeOK
  <2> QED
    BY <1>12, <2>1, <2>5 DEF Commit, Kept, IInv, TypeOK
<1>13. CASE Week
  <2>1. \A e \in journal : [e EXCEPT !.past = ~e.open] \in Episodes /\ [e EXCEPT !.past = ~e.open].id = e.id
    BY DEF IInv, TypeOK, Episodes
  <2>2. journal' \subseteq Episodes /\ \A x \in journal' : x.id \in 1 .. ids
    <3>1. ASSUME NEW x \in journal' PROVE x \in Episodes /\ x.id \in 1 .. ids
      <4>1. PICK e \in journal : x = [e EXCEPT !.past = ~e.open]
        BY <1>13 DEF Week
      <4> QED
        BY <2>1, <4>1 DEF IInv, TypeOK
    <3> QED
      BY <3>1
  <2>3. DOMAIN seen' \subseteq Paths /\ \A p \in DOMAIN seen' : seen'[p] \in {"new", "past"}
    BY <1>13 DEF Week, IInv, TypeOK
  <2> QED
    BY <1>13, <2>2, <2>3 DEF Week, Kept, IInv, TypeOK
<1>14. CASE Crash
  BY <1>14, OffType, PathsAssumption DEF Crash, Hold, IInv, TypeOK
<1>15. CASE UNCHANGED vars
  BY <1>15 DEF vars, IInv, TypeOK
<1> QED
  BY <1>1, <1>2, <1>3, <1>4, <1>5, <1>6, <1>7, <1>8, <1>9, <1>10, <1>11, <1>12, <1>13, <1>14, <1>15
     DEF Next, DaemonStep

-----------------------------------------------------------------------------
\* Which episode is open.

\* Steps that leave the journal as it is, or prune it, keep its episodes apart.
LEMMA FewerApart ==
    ASSUME IInv, journal' \subseteq journal
    PROVE  \A e \in journal' : \A f \in journal' : e.id = f.id \/ (e.open /\ f.open) => e = f
BY DEF IInv, Standing

LEMMA StandingStep ==
    ASSUME IInv, [Next]_vars
    PROVE  Standing'
<1>0. /\ \A e \in journal : \A f \in journal : e.id = f.id \/ (e.open /\ f.open) => e = f
      /\ daemon.at # "off" => daemon.build \in Builds
      /\ daemon \in Daemons /\ journal \subseteq Episodes /\ ids \in Nat
      /\ \A e \in journal : e.id \in 1 .. ids
  BY DEF IInv, Standing, TypeOK
<1>1. ASSUME NEW b \in Builds, Boot(b) PROVE Standing'
  <2>1. daemon' = Recover(b, journal) /\ UNCHANGED <<journal, ids>>
    BY <1>1 DEF Boot, Hold
  <2> QED
    BY <1>0, <2>1, RecoverFacts DEF Standing, Running
<1>2. CASE Restore
  <2>1. /\ daemon.at = "restore" /\ UNCHANGED <<journal, ids>>
        /\ daemon' = [daemon EXCEPT !.entries = Front(@)]
        /\ ToSet(Front(daemon.entries)) \subseteq ToSet(daemon.entries)
    BY <1>2, <1>0, FrontFacts DEF Restore, Hold, Daemons
  <2>2. /\ daemon'.at = "restore" /\ daemon'.id = daemon.id /\ daemon'.build = daemon.build
        /\ daemon'.entries = Front(daemon.entries)
    BY <2>1, <1>0 DEF Daemons
  <2> QED
    BY <1>0, <2>1, <2>2 DEF IInv, Standing, Running
<1>3. CASE Forget
  <2>1. /\ daemon.at = "restore" /\ journal' = {e \in journal : e.id # daemon.id} /\ ids' = ids
        /\ daemon' = [daemon EXCEPT !.at = "drop"]
    BY <1>3 DEF Forget, Hold, Without
  <2>2. daemon'.at = "drop" /\ daemon'.id = daemon.id /\ daemon'.build = daemon.build
    BY <2>1, <1>0 DEF Daemons
  <2>3. PICK e \in journal : e.open /\ e.id = daemon.id
    BY <2>1 DEF IInv, Standing
  <2>4. \A f \in journal' : ~f.open /\ f.id # daemon.id
    BY <1>0, <2>1, <2>3
  <2> QED
    BY <1>0, <2>1, <2>2, <2>4 DEF Standing, Running
<1>4. CASE Drop
  <2>1. daemon.build \in Builds /\ UNCHANGED <<journal, ids>> /\ \A e \in journal : ~e.open
    BY <1>4 DEF Drop, IInv, Standing
  <2>2. \/ daemon' = Recover(daemon.build, journal)
        \/ daemon' = [Off EXCEPT !.build = daemon.build, !.at = "up"]
    BY <1>4 DEF Drop, Hold
  <2>3. daemon'.build = daemon.build /\ daemon'.at \in {"prune", "up"}
    <3>1. CASE daemon' = Recover(daemon.build, journal)
      BY <1>0, <2>1, <3>1, RecoverFacts
    <3>2. CASE daemon' = [Off EXCEPT !.build = daemon.build, !.at = "up"]
      BY <3>2, OffType DEF Daemons
    <3> QED
      BY <2>2, <3>1, <3>2
  <2> QED
    BY <1>0, <2>1, <2>3 DEF Standing, Running
<1>5. CASE Prune
  <2> DEFINE b == daemon.build
             work == Plan(b, disk)
  <2>1. /\ b \in Builds /\ daemon'.build = b /\ journal' = journal
        /\ daemon'.at = (IF work = {} THEN "settle" ELSE "record")
        /\ \/ /\ OpenOf(Digest[b]) = {} /\ ~daemon'.resumed
              /\ daemon'.id = ids + 1 /\ daemon'.entries = <<>>
              /\ ids' = IF work # {} THEN ids + 1 ELSE ids
           \/ /\ daemon'.resumed /\ ids' = ids
              /\ \E e \in journal : /\ e.open /\ e.digest = Digest[b]
                                    /\ daemon'.id = e.id /\ daemon'.entries = e.entries
    BY <1>5, PruneFacts
  <2>2. daemon.at = "prune"
    BY <1>5 DEF Prune
  <2>3. \A e \in journal : e.open => e.digest = Digest[b]
    BY <2>2 DEF IInv, Standing, Running
  <2> HIDE DEF work
  <2>4. CASE /\ OpenOf(Digest[b]) = {} /\ ~daemon'.resumed
             /\ daemon'.id = ids + 1 /\ daemon'.entries = <<>>
             /\ ids' = IF work # {} THEN ids + 1 ELSE ids
    <3>1. \A e \in journal : ~e.open /\ e.id # ids + 1
      BY <1>0, <2>3, <2>4 DEF OpenOf
    <3> QED
      BY <1>0, <2>1, <2>3, <2>4, <3>1 DEF Standing, Running
  <2>5. CASE /\ daemon'.resumed /\ ids' = ids
             /\ \E e \in journal : /\ e.open /\ e.digest = Digest[b]
                                   /\ daemon'.id = e.id /\ daemon'.entries = e.entries
    BY <1>0, <2>1, <2>3, <2>5 DEF Standing, Running
  <2> QED
    BY <2>1, <2>4, <2>5
<1>6. CASE Record
  <2>1. PICK w \in daemon.work, entry \in Entries : daemon' = [daemon EXCEPT !.entries = Append(@, entry)]
    BY <1>6, RecordFacts
  <2>2. daemon.at = "record" /\ UNCHANGED <<journal, ids>>
    BY <1>6, RecordFacts
  <2>3. /\ daemon'.at = "record" /\ daemon'.build = daemon.build /\ daemon'.id = daemon.id
        /\ daemon'.resumed = daemon.resumed /\ daemon'.entries = Append(daemon.entries, entry)
    BY <1>0, <2>1, <2>2 DEF Daemons
  <2>4. ToSet(daemon.entries) \subseteq ToSet(daemon'.entries)
    BY <1>0, <2>3, AppendFacts DEF Daemons
  <2> QED
    BY <1>0, <2>2, <2>3, <2>4 DEF IInv, Standing, Running
<1>7. CASE Open
  <2> DEFINE n == [id |-> daemon.id, digest |-> Digest[daemon.build], open |-> TRUE,
                   past |-> FALSE, entries |-> daemon.entries]
  <2>1. /\ daemon.at = "record" /\ ids' = ids
        /\ journal' = {e \in PrunedJournal : e.id # daemon.id} \cup {n}
        /\ daemon' = [daemon EXCEPT !.at = "apply"]
    BY <1>7 DEF Open, Hold
  <2>2. daemon'.at = "apply" /\ daemon'.build = daemon.build
    BY <1>0, <2>1 DEF Daemons
  <2>3. \A e \in journal : e.open => e.id = daemon.id
    <3>1. CASE daemon.resumed
      BY <1>0, <2>1, <3>1 DEF IInv, Standing
    <3>2. CASE ~daemon.resumed
      BY <2>1, <3>2 DEF IInv, Standing
    <3> QED
      BY <3>1, <3>2
  <2>4. n.id = daemon.id /\ n.open /\ n.digest = Digest[daemon.build]
    OBVIOUS
  <2> HIDE DEF n
  <2>5. \A e \in journal' : e = n \/ (e \in journal /\ e.id # daemon.id /\ ~e.open)
    BY <2>1, <2>3 DEF PrunedJournal
  <2>6. \A e \in journal' : \A f \in journal' : e.id = f.id \/ (e.open /\ f.open) => e = f
    BY <1>0, <2>4, <2>5
  <2> QED
    BY <1>0, <2>1, <2>2, <2>4, <2>5, <2>6 DEF Standing, Running
<1>8. CASE Apply
  <2>1. PICK w \in daemon.work : daemon' = [daemon EXCEPT !.work = @ \ {w}]
    BY <1>8, ApplyFacts
  <2>2. daemon.at = "apply" /\ UNCHANGED <<journal, ids>>
    BY <1>8, ApplyFacts
  <2>3. daemon'.at = "apply" /\ daemon'.build = daemon.build
    BY <1>0, <2>1, <2>2 DEF Daemons
  <2> QED
    BY <1>0, <2>2, <2>3 DEF IInv, Standing, Running
<1>9. CASE Settle
  <2>1. daemon.at \in Running /\ daemon.at # "off" /\ journal' \subseteq journal /\ ids' = ids
    BY <1>9 DEF Settle, PrunedJournal, Running
  <2>2. daemon'.at = "up" /\ daemon'.build = daemon.build
    BY <1>9, OffType DEF Settle, Hold, Daemons
  <2>3. \A e \in journal' : \A f \in journal' : e.id = f.id \/ (e.open /\ f.open) => e = f
    BY <2>1, FewerApart
  <2> QED
    BY <1>0, <2>1, <2>2, <2>3 DEF IInv, Standing, Running
<1>10. CASE Fail \/ Collide
  <2>1. daemon.at \in {"record", "apply"} /\ daemon.build \in Builds /\ Thrown
    BY <1>0, <1>10 DEF Fail, Collide
  <2>2. \A e \in journal : e.open => e.digest = Digest[daemon.build]
    BY <2>1 DEF IInv, Standing, Running
  <2>3. /\ daemon'.build = daemon.build /\ UNCHANGED <<journal, ids>>
        /\ \/ daemon'.at = "up"
           \/ /\ daemon'.at = "restore"
              /\ \E e \in journal : e.open /\ daemon'.id = e.id /\ daemon'.entries = e.entries
    BY <2>1, ThrownFacts
  <2> QED
    BY <1>0, <2>1, <2>2, <2>3 DEF Standing, Running
<1>11. ASSUME NEW p \in Paths, Edit(p) PROVE Standing'
  BY <1>11 DEF Edit, IInv, Standing, Running
<1>12. CASE Commit
  <2> DEFINE mine == OpenOf(Digest[daemon.build])
             e == CHOOSE x \in mine : TRUE
  <2>1. /\ daemon.at = "up" /\ ids' = ids
        /\ journal' = IF mine = {} THEN journal ELSE (journal \ {e}) \cup {[e EXCEPT !.open = FALSE]}
        /\ daemon' = [daemon EXCEPT !.vouched = FALSE]
    BY <1>12 DEF Commit, Hold
  <2>2. daemon'.at = "up" /\ daemon'.build = daemon.build
    BY <1>0, <2>1 DEF Daemons
  <2>3. mine # {} => e \in journal
    BY DEF OpenOf
  <2> DEFINE n == [e EXCEPT !.open = FALSE]
  <2>4. mine # {} => n.id = e.id /\ ~n.open
    BY <1>0, <2>3 DEF Episodes
  <2> HIDE DEF mine, e, n
  <2>5. journal' = IF mine = {} THEN journal ELSE (journal \ {e}) \cup {n}
    BY <2>1 DEF n
  <2>6. \A x \in journal' : x \in journal \/ (x = n /\ ~n.open /\ n.id = e.id /\ e \in journal /\ mine # {})
    BY <2>3, <2>4, <2>5
  <2>7. \A x \in journal' : \A y \in journal' : x.id = y.id \/ (x.open /\ y.open) => x = y
    <3>1. CASE mine = {}
      BY <1>0, <2>5, <3>1
    <3>2. CASE mine # {}
      <4>1. \A x \in journal' : (x \in journal /\ x # e) \/ (x = n)
        BY <2>5, <3>2
      <4> QED
        BY <1>0, <2>3, <2>4, <3>2, <4>1
    <3> QED
      BY <3>1, <3>2
  <2>8. \A x \in journal' : x.open => x.digest = Digest[daemon.build]
    BY <2>1, <2>6 DEF IInv, Standing, Running
  <2> QED
    BY <1>0, <2>1, <2>2, <2>7, <2>8 DEF Standing, Running
<1>13. CASE Week
  <2> DEFINE aged(e) == [e EXCEPT !.past = ~e.open]
  <2>1. daemon.at = "off" /\ UNCHANGED <<daemon, ids>> /\ journal' = {aged(e) : e \in journal}
    BY <1>13 DEF Week
  <2>2. \A e \in journal : aged(e).id = e.id /\ aged(e).open = e.open
    BY <1>0 DEF Episodes
  <2> HIDE DEF aged
  <2>3. \A x \in journal' : \A y \in journal' : x.id = y.id \/ (x.open /\ y.open) => x = y
    BY <1>0, <2>1, <2>2
  <2> QED
    BY <2>1, <2>3 DEF Standing, Running
<1>14. CASE Crash
  <2>1. UNCHANGED <<journal, ids>> /\ daemon'.at = "off"
    BY <1>14, OffType DEF Crash, Hold, Off
  <2> QED
    BY <1>0, <2>1 DEF Standing, Running
<1>15. CASE UNCHANGED vars
  BY <1>15 DEF vars, IInv, Standing
<1> QED
  BY <1>1, <1>2, <1>3, <1>4, <1>5, <1>6, <1>7, <1>8, <1>9, <1>10, <1>11, <1>12, <1>13, <1>14, <1>15
     DEF Next, DaemonStep

LEMMA StandingOne ==
    ASSUME Standing
    PROVE  OneOpen
<1> DEFINE open == {e \in journal : e.open}
<1>1. CASE open = {}
  BY <1>1, FS_EmptySet DEF OneOpen
<1>2. CASE open # {}
  <2>1. PICK e : e \in open
    BY <1>2
  <2>2. open = {e}
    BY <2>1 DEF Standing
  <2>3. Cardinality(open) = 1
    BY <2>2, FS_Singleton
  <2> QED
    BY <2>3 DEF OneOpen
<1> QED
  BY <1>1, <1>2

-----------------------------------------------------------------------------
\* The open episode's pre-images.

\* A step that opens no episode, writes over no pre-image an open one names and
\* keeps the ground keeps what is said of the open one.
LEMMA OpenKept ==
    ASSUME IInv, before' = before,
           \A e \in journal' : e.open => \E f \in journal :
                f.open /\ f.id = e.id /\ f.digest = e.digest /\ f.entries = e.entries,
           \A f \in journal : f.open => \A entry \in ToSet(f.entries) :
                entry.image /\ <<f.id, entry.path>> \in DOMAIN images =>
                    /\ <<f.id, entry.path>> \in DOMAIN images'
                    /\ images'[<<f.id, entry.path>>] = images[<<f.id, entry.path>>],
           \A f \in journal : f.open => \A b \in Builds : Digest[b] = f.digest =>
                Ground(b, disk', before.disk)
    PROVE  OpenTrue'
<1> SUFFICES ASSUME NEW e \in journal', e.open, NEW b \in Builds, Digest[b] = e.digest
             PROVE  /\ Ground(b, disk', before.disk)
                    /\ \A entry \in ToSet(e.entries) : Shaped(b, entry) /\ Imaged(b, e.id, entry, before.disk)'
  BY DEF OpenTrue
<1>1. PICK f \in journal : f.open /\ f.id = e.id /\ f.digest = e.digest /\ f.entries = e.entries
  OBVIOUS
<1>2. ASSUME NEW entry \in ToSet(e.entries)
      PROVE  Shaped(b, entry) /\ Imaged(b, e.id, entry, before.disk)'
  <2>1. Shaped(b, entry) /\ Imaged(b, f.id, entry, before.disk)
    BY <1>1, <1>2 DEF IInv, OpenTrue
  <2>2. ASSUME entry.image
        PROVE  /\ <<f.id, entry.path>> \in DOMAIN images'
               /\ \E p \in Kin(b, entry.path) : images'[<<f.id, entry.path>>] = before.disk[p]
    <3>1. /\ <<f.id, entry.path>> \in DOMAIN images
          /\ \E p \in Kin(b, entry.path) : images[<<f.id, entry.path>>] = before.disk[p]
      BY <2>1, <2>2 DEF Imaged
    <3>2. /\ <<f.id, entry.path>> \in DOMAIN images'
          /\ images'[<<f.id, entry.path>>] = images[<<f.id, entry.path>>]
      BY <1>1, <1>2, <2>2, <3>1
    <3> QED
      BY <3>1, <3>2
  <2> QED
    BY <1>1, <2>1, <2>2 DEF Imaged
<1> QED
  BY <1>1, <1>2

\* Putting a file back keeps the ground.
LEMMA PutBackGround ==
    ASSUME NEW b \in Builds, NEW entry \in Entries, NEW was,
           disk \in [Paths -> Says], Ground(b, disk, was),
           Shaped(b, entry), Imaged(b, daemon.id, entry, was)
    PROVE  Ground(b, PutBack(entry), was)
<1>1. CASE entry.moved
  <2> DEFINE op == [kind |-> "rename", from |-> entry.path, to |-> entry.from]
  <2>1. op.from = entry.path /\ op.to = entry.from
    OBVIOUS
  <2>2. Pairs(b, op.to, op.from)
    BY <1>1 DEF Shaped
  <2>3. PutBack(entry) \in {disk, After(disk, op)}
    BY <1>1 DEF PutBack
  <2> HIDE DEF op
  <2>4. Ground(b, After(disk, op), was)
    BY <2>2, AfterKeepsGround
  <2> QED
    BY <2>3, <2>4
<1>2. CASE ~entry.moved /\ ~entry.image
  <2>1. PutBack(entry) = [p \in Paths |-> IF p \in Inside(entry.path) THEN 0 ELSE disk[p]]
    BY <1>2 DEF PutBack
  <2>2. Leaving(b) \subseteq Paths
    BY DEF Leaving, Kin
  <2> QED
    BY <2>1, <2>2 DEF Ground
<1>3. CASE ~entry.moved /\ entry.image
  <2>1. PutBack(entry) = [disk EXCEPT ![entry.path] = images[<<daemon.id, entry.path>>]]
    BY <1>3 DEF PutBack
  <2>2. Leaving(b) \subseteq Paths
    BY DEF Leaving, Kin
  <2>3. \E p \in Kin(b, entry.path) : images[<<daemon.id, entry.path>>] = was[p]
    BY <1>3 DEF Imaged
  <2>4. \A q \in Leaving(b) : PutBack(entry)[q] = IF q = entry.path THEN images[<<daemon.id, entry.path>>] ELSE disk[q]
    BY <2>1, <2>2
  <2> QED
    BY <2>3, <2>4 DEF Ground
<1> QED
  BY <1>1, <1>2, <1>3 DEF Entries

\* So does a step of the plan ...
LEMMA ApplyGround ==
    ASSUME NEW b \in Builds, NEW d \in [Paths -> Says], NEW w, NEW was,
           Ground(b, d, was),
           w.kind # "write" => Pairs(b, w.from, w.to),
           w.kind = "write" /\ w.to \in Leaving(b) => w.says = 0
    PROVE  Ground(b, IF w.kind = "write" THEN [d EXCEPT ![w.to] = w.says] ELSE After(d, w), was)
<1>1. CASE w.kind # "write"
  BY <1>1, AfterKeepsGround
<1>2. CASE w.kind = "write"
  <2>1. Leaving(b) \subseteq Paths
    BY DEF Leaving, Kin
  <2>2. \A q \in Leaving(b) : [d EXCEPT ![w.to] = w.says][q] = IF q = w.to THEN 0 ELSE d[q]
    BY <1>2, <2>1
  <2> QED
    BY <1>2, <2>2 DEF Ground
<1> QED
  BY <1>1, <1>2

\* ... and a store's write, which no address that leaves is for.
LEMMA EditGround ==
    ASSUME NEW b \in Builds, NEW d \in [Paths -> Says], NEW p \in Reads[b], NEW v, NEW was,
           Ground(b, d, was)
    PROVE  Ground(b, [d EXCEPT ![p] = v], was)
<1>1. p \notin Leaving(b) /\ Leaving(b) \subseteq Paths
  BY PlansAssumption DEF Leaving, Kin
<1> QED
  BY <1>1 DEF Ground

\* What is copied aside for a step of the plan stands for a file of its kin as
\* the episode found it.
LEMMA CopiedTrue ==
    ASSUME IInv, daemon.at = "record", NEW w \in daemon.work, w.kind = "write",
           disk[SourceOf(daemon.work, w.to)] # 0
    PROVE  /\ w.to \in Leaving(daemon.build)
           /\ \E p \in Kin(daemon.build, w.to) :
                disk[SourceOf(daemon.work, w.to)] = (IF daemon.resumed THEN before.disk ELSE disk)[p]
<1> DEFINE b == daemon.build
           src == SourceOf(daemon.work, w.to)
<1>1. b \in Builds /\ WorkOf(b) /\ w.to \in Paths
  BY DEF IInv, Standing, RecordTrue, WorkOf
<1>2. w.to \in Leaving(b)
  BY <1>1 DEF WorkOf
<1>3. src \in Kin(b, w.to)
  BY <1>1, SourceIsKin DEF WorkOf
<1>4. src \in Leaving(b) /\ Kin(b, src) = Kin(b, w.to)
  BY <1>1, <1>2, <1>3, KinFacts
<1>5. CASE daemon.resumed
  <2>1. PICK e \in journal : e.open
    BY <1>5 DEF IInv, Standing
  <2>2. e.digest = Digest[b]
    BY <2>1 DEF IInv, Standing, Running
  <2>3. Ground(b, disk, before.disk)
    BY <1>1, <2>1, <2>2 DEF IInv, OpenTrue
  <2> QED
    BY <1>2, <1>4, <1>5, <2>3 DEF Ground
<1>6. CASE ~daemon.resumed
  BY <1>2, <1>3, <1>6
<1> QED
  BY <1>5, <1>6

LEMMA OpenTrueStep ==
    ASSUME IInv, [Next]_vars
    PROVE  OpenTrue'
<1>0. /\ \A e \in journal : \A f \in journal : e.id = f.id \/ (e.open /\ f.open) => e = f
      /\ journal \subseteq Episodes /\ daemon \in Daemons /\ disk \in [Paths -> Says]
      /\ daemon.at # "off" => daemon.build \in Builds
      /\ \A f \in journal : f.open => \A b \in Builds : Digest[b] = f.digest => Ground(b, disk, before.disk)
  BY DEF IInv, Standing, TypeOK, OpenTrue
<1>1. ASSUME UNCHANGED <<journal, images, disk, before>> PROVE OpenTrue'
  BY <1>0, <1>1, OpenKept
<1>2. ASSUME NEW b \in Builds, Boot(b) PROVE OpenTrue'
  BY <1>1, <1>2 DEF Boot
<1>3. CASE Restore
  <2>1. /\ daemon.at = "restore" /\ daemon.entries # <<>> /\ disk' = PutBack(Last(daemon.entries))
        /\ UNCHANGED <<journal, images, before>>
    BY <1>3 DEF Restore
  <2>2. PICK e \in journal : /\ e.open /\ e.id = daemon.id
                             /\ \A b \in Builds : Digest[b] = e.digest =>
                                    /\ Shaped(b, Last(daemon.entries))
                                    /\ Imaged(b, daemon.id, Last(daemon.entries), before.disk)
    BY <2>1, RestoredEntry
  <2>3. Last(daemon.entries) \in Entries
    BY <1>0, <2>1, FrontFacts DEF Daemons
  <2>4. \A b \in Builds : Digest[b] = e.digest => Ground(b, disk', before.disk)
    BY <1>0, <2>1, <2>2, <2>3, PutBackGround
  <2>5. \A f \in journal : f.open => f = e
    BY <1>0, <2>2
  <2> QED
    BY <2>1, <2>4, <2>5, OpenKept
<1>4. CASE Forget
  <2>1. journal' \subseteq journal /\ UNCHANGED <<images, disk, before>>
    BY <1>4 DEF Forget, Without
  <2> QED
    BY <1>0, <2>1, OpenKept
<1>5. CASE Drop
  <2>1. UNCHANGED <<journal, disk, before>> /\ \A e \in journal : ~e.open
    BY <1>5 DEF Drop, IInv, Standing
  <2> QED
    BY <2>1 DEF OpenTrue
<1>6. CASE Prune
  <2> DEFINE past == {e.id : e \in {x \in journal : ~x.open /\ x.past}}
  <2>1. UNCHANGED <<journal, disk, before>> /\ images' = [k \in {x \in DOMAIN images : x[1] \notin past} |-> images[k]]
    BY <1>6 DEF Prune
  <2>2. \A f \in journal : f.open => f.id \notin past
    BY <1>0
  <2> HIDE DEF past
  <2>3. \A f \in journal : f.open => \A entry \in ToSet(f.entries) :
            <<f.id, entry.path>> \in DOMAIN images =>
                /\ <<f.id, entry.path>> \in DOMAIN images'
                /\ images'[<<f.id, entry.path>>] = images[<<f.id, entry.path>>]
    BY <2>1, <2>2
  <2> QED
    BY <1>0, <2>1, <2>3, OpenKept
<1>7. CASE Record
  <2>1. PICK w \in daemon.work, entry \in Entries :
            LET from == SourceOf(daemon.work, w.to)
            IN  /\ \A i \in DOMAIN daemon.entries : daemon.entries[i].path # w.to
                /\ images' = IF entry.image THEN CopiedAside(<<daemon.id, w.to>>, disk[from]) ELSE images
    BY <1>7, RecordFacts
  <2>2. daemon.at = "record" /\ UNCHANGED <<disk, journal, before>>
    BY <1>7, RecordFacts
  <2>3. \A f \in journal : f.open => f.id = daemon.id /\ ToSet(f.entries) \subseteq ToSet(daemon.entries)
    BY <1>0, <2>2 DEF IInv, Standing
  <2>4. \A x \in ToSet(daemon.entries) : x.path # w.to
    BY <2>1 DEF ToSet
  <2> DEFINE key == <<daemon.id, w.to>>
             says == disk[SourceOf(daemon.work, w.to)]
  <2>5. images' = images \/ images' = CopiedAside(key, says)
    BY <2>1
  <2>6. \A f \in journal : f.open => \A x \in ToSet(f.entries) : <<f.id, x.path>> # key
    BY <2>3, <2>4
  <2> HIDE DEF key, says
  <2>7. \A k \in DOMAIN images : k # key => k \in DOMAIN images' /\ images'[k] = images[k]
    BY <2>5 DEF CopiedAside
  <2> QED
    BY <1>0, <2>2, <2>6, <2>7, OpenKept
<1>8. CASE Open
  <2> DEFINE n == [id |-> daemon.id, digest |-> Digest[daemon.build], open |-> TRUE,
                   past |-> FALSE, entries |-> daemon.entries]
  <2>1. /\ daemon.at = "record" /\ UNCHANGED <<disk, images>>
        /\ journal' = {e \in PrunedJournal : e.id # daemon.id} \cup {n}
        /\ before' = IF daemon.resumed THEN before ELSE [disk |-> disk, edits |-> edits]
    BY <1>8 DEF Open
  <2>2. n.id = daemon.id /\ n.open /\ n.digest = Digest[daemon.build] /\ n.entries = daemon.entries
    OBVIOUS
  <2> HIDE DEF n
  <2>3. \A e \in journal : e.open => e.id = daemon.id /\ e.digest = Digest[daemon.build]
    BY <1>0, <2>1 DEF IInv, Standing, Running
  <2>4. \A e \in journal' : e.open => e = n
    BY <2>1, <2>3 DEF PrunedJournal
  <2>5. before'.disk = IF daemon.resumed THEN before.disk ELSE disk
    BY <2>1
  <2>6. SUFFICES ASSUME NEW b \in Builds, Digest[b] = Digest[daemon.build]
                 PROVE  /\ Ground(b, disk, before'.disk)
                        /\ \A entry \in ToSet(daemon.entries) :
                                Shaped(b, entry) /\ Imaged(b, daemon.id, entry, before'.disk)
    BY <2>1, <2>2, <2>4 DEF OpenTrue, Imaged
  <2>7. Ground(b, disk, before'.disk)
    <3>1. CASE daemon.resumed
      BY <1>0, <2>1, <2>3, <2>5, <2>6, <3>1 DEF IInv, Standing
    <3>2. CASE ~daemon.resumed
      <4>1. \A q \in Leaving(b) : q \in Kin(b, q)
        BY DEF Leaving, Kin
      <4> QED
        BY <2>5, <3>2, <4>1 DEF Ground
    <3> QED
      BY <3>1, <3>2
  <2>8. ASSUME NEW entry \in ToSet(daemon.entries)
        PROVE  Shaped(b, entry) /\ Imaged(b, daemon.id, entry, before'.disk)
    <3>1. Shaped(daemon.build, entry) /\ Imaged(daemon.build, daemon.id, entry, before'.disk)
      BY <2>1, <2>5, <2>8 DEF IInv, RecordTrue
    <3>2. /\ Kin(b, entry.path) = Kin(daemon.build, entry.path) /\ Leaving(b) = Leaving(daemon.build)
          /\ Pairs(b, entry.from, entry.path) <=> Pairs(daemon.build, entry.from, entry.path)
      BY <1>0, <2>1, <2>6, SameDigest
    <3> QED
      BY <3>1, <3>2 DEF Shaped, Imaged
  <2> QED
    BY <2>7, <2>8
<1>9. CASE Apply
  <2>1. PICK w \in daemon.work :
            disk' = IF w.kind = "write" THEN [disk EXCEPT ![w.to] = w.says] ELSE After(disk, w)
    BY <1>9, ApplyFacts
  <2>2. daemon.at = "apply" /\ daemon.build \in Builds /\ UNCHANGED <<journal, images, before>>
    BY <1>9, ApplyFacts
  <2>3. /\ w.kind # "write" => Pairs(daemon.build, w.from, w.to)
        /\ w.kind = "write" /\ w.to \in Leaving(daemon.build) => w.says = 0
    BY <2>2 DEF IInv, RecordTrue, WorkOf
  <2>4. ASSUME NEW f \in journal, f.open, NEW b \in Builds, Digest[b] = f.digest
        PROVE  Ground(b, disk', before.disk)
    <3>1. Digest[b] = Digest[daemon.build]
      BY <2>2, <2>4 DEF IInv, Standing, Running
    <3>2. Leaving(b) = Leaving(daemon.build) /\ (Pairs(b, w.from, w.to) <=> Pairs(daemon.build, w.from, w.to))
      BY <2>2, <3>1, SameDigest
    <3>3. Ground(b, disk, before.disk)
      BY <1>0, <2>4
    <3> QED
      BY <1>0, <2>1, <2>3, <3>2, <3>3, ApplyGround
  <2> QED
    BY <1>0, <2>2, <2>4, OpenKept
<1>10. CASE Settle
  <2>1. journal' \subseteq journal /\ UNCHANGED <<images, disk, before>>
    BY <1>10 DEF Settle, PrunedJournal
  <2> QED
    BY <1>0, <2>1, OpenKept
<1>11. CASE Fail \/ Collide
  <2>1. daemon.build \in Builds /\ Thrown
    BY <1>0, <1>11 DEF Fail, Collide
  <2>2. /\ UNCHANGED <<disk, journal, before>>
        /\ images' = IF daemon.at = "record" /\ ~daemon.resumed THEN Dropped(daemon.id) ELSE images
    BY <2>1, ThrownFacts
  <2>3. CASE daemon.at = "record" /\ ~daemon.resumed
    BY <2>2, <2>3 DEF IInv, Standing, OpenTrue
  <2>4. CASE ~(daemon.at = "record" /\ ~daemon.resumed)
    BY <1>1, <2>2, <2>4
  <2> QED
    BY <2>3, <2>4
<1>12. ASSUME NEW p \in Paths, Edit(p) PROVE OpenTrue'
  <2>1. /\ daemon.at = "up" /\ p \in Reads[daemon.build] /\ UNCHANGED <<journal, images, before>>
        /\ disk' = [disk EXCEPT ![p] = edits + 2]
    BY <1>12 DEF Edit
  <2>2. ASSUME NEW f \in journal, f.open, NEW b \in Builds, Digest[b] = f.digest
        PROVE  Ground(b, disk', before.disk)
    <3>1. Digest[b] = Digest[daemon.build] /\ daemon.build \in Builds
      BY <1>0, <2>1, <2>2 DEF IInv, Standing, Running
    <3>2. Leaving(b) = Leaving(daemon.build) /\ \A q : Kin(b, q) = Kin(daemon.build, q)
      BY <3>1, SameDigest
    <3>3. Ground(daemon.build, disk, before.disk)
      BY <1>0, <2>2, <3>1
    <3>4. Ground(daemon.build, disk', before.disk)
      BY <1>0, <2>1, <3>1, <3>3, EditGround
    <3> QED
      BY <3>2, <3>4 DEF Ground
  <2> QED
    BY <1>0, <2>1, <2>2, OpenKept
<1>13. CASE Commit
  <2> DEFINE mine == OpenOf(Digest[daemon.build])
             e == CHOOSE x \in mine : TRUE
             n == [e EXCEPT !.open = FALSE]
  <2>1. /\ UNCHANGED <<disk, images, before>>
        /\ journal' = IF mine = {} THEN journal ELSE (journal \ {e}) \cup {n}
    BY <1>13 DEF Commit
  <2>2. mine # {} => e \in journal
    BY DEF OpenOf
  <2>3. mine # {} => ~n.open
    BY <1>0, <2>2 DEF Episodes
  <2> HIDE DEF mine, e, n
  <2>4. \A x \in journal' : x.open => x \in journal
    BY <2>1, <2>3
  <2> QED
    BY <1>0, <2>1, <2>4, OpenKept
<1>14. CASE Week
  <2>1. UNCHANGED <<disk, images, before>> /\ journal' = {[e EXCEPT !.past = ~e.open] : e \in journal}
    BY <1>14 DEF Week
  <2>2. ASSUME NEW x \in journal', x.open
        PROVE  \E f \in journal : f.open /\ f.id = x.id /\ f.digest = x.digest /\ f.entries = x.entries
    <3>1. PICK f \in journal : x = [f EXCEPT !.past = ~f.open]
      BY <2>1
    <3>2. f.open = x.open /\ f.id = x.id /\ f.digest = x.digest /\ f.entries = x.entries
      BY <1>0, <3>1 DEF Episodes
    <3> QED
      BY <2>2, <3>2
  <2> QED
    BY <1>0, <2>1, <2>2, OpenKept
<1>15. CASE Crash
  BY <1>1, <1>15 DEF Crash
<1>16. CASE UNCHANGED vars
  BY <1>1, <1>16 DEF vars
<1> QED
  BY <1>2, <1>3, <1>4, <1>5, <1>6, <1>7, <1>8, <1>9, <1>10, <1>11, <1>12, <1>13, <1>14, <1>15, <1>16
     DEF Next, DaemonStep

\* What the running boot will do, and has recorded, stays so.
LEMMA RecordTrueStep ==
    ASSUME IInv, [Next]_vars
    PROVE  RecordTrue'
<1>0. /\ daemon \in Daemons /\ disk \in [Paths -> Says] /\ journal \subseteq Episodes
      /\ daemon.at # "off" => daemon.build \in Builds
  BY DEF IInv, Standing, TypeOK
<1>1. ASSUME daemon'.at \notin {"record", "apply"} PROVE RecordTrue'
  BY <1>1 DEF RecordTrue
<1>2. ASSUME NEW b \in Builds, Boot(b) PROVE RecordTrue'
  BY <1>0, <1>1, <1>2, RecoverFacts DEF Boot, Hold
<1>3. CASE Restore \/ Forget
  <2>1. daemon'.at \in {"restore", "drop"}
    BY <1>0, <1>3 DEF Restore, Forget, Hold, Daemons
  <2> QED
    BY <1>1, <2>1
<1>4. CASE Drop
  <2>1. \/ daemon.build \in Builds /\ daemon' = Recover(daemon.build, journal)
        \/ daemon' = [Off EXCEPT !.build = daemon.build, !.at = "up"]
    BY <1>0, <1>4 DEF Drop, Hold
  <2>2. CASE daemon.build \in Builds /\ daemon' = Recover(daemon.build, journal)
    BY <1>0, <1>1, <2>2, RecoverFacts
  <2>3. CASE daemon' = [Off EXCEPT !.build = daemon.build, !.at = "up"]
    BY <1>1, <2>3, OffType DEF Daemons
  <2> QED
    BY <2>1, <2>2, <2>3
<1>5. CASE Prune
  <2> DEFINE b == daemon.build
             work == Plan(b, disk)
  <2>1. /\ b \in Builds /\ daemon'.build = b /\ daemon'.work = work /\ disk' = disk /\ before' = before
        /\ daemon'.at \in {"settle", "record"}
        /\ \/ ~daemon'.resumed /\ daemon'.entries = <<>>
           \/ /\ daemon'.resumed
              /\ \E e \in journal : /\ e.open /\ e.digest = Digest[b]
                                    /\ daemon'.id = e.id /\ daemon'.entries = e.entries
    BY <1>5, PruneFacts
  <2>2. WorkOf(b)'
    BY <1>0, <2>1, PlanShape DEF WorkOf
  <2>3. OpenTrue'
    BY OpenTrueStep
  <2>4. ASSUME NEW entry \in ToSet(daemon'.entries)
        PROVE  /\ Shaped(b, entry)
               /\ Imaged(b, daemon.id, entry, IF daemon.resumed THEN before.disk ELSE disk)'
    <3>1. CASE daemon'.entries = <<>>
      BY <2>4, <3>1 DEF ToSet
    <3>2. CASE /\ daemon'.resumed
               /\ \E e \in journal : /\ e.open /\ e.digest = Digest[b]
                                     /\ daemon'.id = e.id /\ daemon'.entries = e.entries
      <4>1. journal' = journal
        BY <1>5, PruneFacts
      <4> QED
        BY <2>1, <2>3, <2>4, <3>2, <4>1 DEF OpenTrue, Imaged
    <3> QED
      BY <2>1, <3>1, <3>2
  <2> QED
    BY <2>1, <2>2, <2>4 DEF RecordTrue
<1>6. CASE Record
  <2> DEFINE b == daemon.build
             was == IF daemon.resumed THEN before.disk ELSE disk
  <2>1. PICK w \in daemon.work, x \in Entries :
            LET from == SourceOf(daemon.work, w.to)
            IN  /\ \A i \in DOMAIN daemon.entries : daemon.entries[i].path # w.to
                /\ x.path = w.to /\ x.from = w.from /\ x.moved = (w.kind = "rename")
                /\ x.image <=> w.kind = "write" /\ disk[from] # 0
                /\ images' = IF x.image THEN CopiedAside(<<daemon.id, w.to>>, disk[from]) ELSE images
                /\ daemon' = [daemon EXCEPT !.entries = Append(@, x)]
    BY <1>6, RecordFacts
  <2>2. daemon.at = "record" /\ b \in Builds /\ UNCHANGED <<disk, before>>
    BY <1>6, RecordFacts
  <2>3. /\ daemon'.at = "record" /\ daemon'.build = b /\ daemon'.id = daemon.id /\ daemon'.work = daemon.work
        /\ daemon'.resumed = daemon.resumed /\ ToSet(daemon'.entries) = ToSet(daemon.entries) \cup {x}
    BY <1>0, <2>1, <2>2, AppendFacts DEF Daemons
  <2>4. WorkOf(b)'
    BY <2>2, <2>3 DEF IInv, RecordTrue, WorkOf
  <2> DEFINE key == <<daemon.id, w.to>>
             says == disk[SourceOf(daemon.work, w.to)]
  <2>5. images' = IF x.image THEN CopiedAside(key, says) ELSE images
    BY <2>1
  <2>6. \A y \in ToSet(daemon.entries) : <<daemon.id, y.path>> # key
    BY <2>1 DEF ToSet
  <2>7. x.image => /\ w.to \in Leaving(b) /\ \E p \in Kin(b, w.to) : says = was[p]
    BY <2>1, <2>2, CopiedTrue
  <2>8. x.moved => Pairs(b, x.from, x.path)
    BY <2>1, <2>2 DEF IInv, RecordTrue, WorkOf
  <2>9. x.path = w.to
    BY <2>1
  <2> HIDE DEF says
  <2>10. /\ \A k \in DOMAIN images : k # key => k \in DOMAIN images' /\ images'[k] = images[k]
         /\ x.image => key \in DOMAIN images' /\ images'[key] = says
    BY <2>5 DEF CopiedAside
  <2>11. Shaped(b, x) /\ Imaged(b, daemon.id, x, was)'
    BY <2>2, <2>3, <2>7, <2>8, <2>9, <2>10 DEF Shaped, Imaged
  <2>12. ASSUME NEW y \in ToSet(daemon.entries) PROVE Shaped(b, y) /\ Imaged(b, daemon.id, y, was)'
    <3>1. Shaped(b, y) /\ Imaged(b, daemon.id, y, was)
      BY <2>2 DEF IInv, RecordTrue
    <3> QED
      BY <2>2, <2>3, <2>6, <2>10, <3>1 DEF Imaged
  <2> QED
    BY <2>3, <2>4, <2>11, <2>12 DEF RecordTrue
<1>7. CASE Open
  <2>1. daemon.at = "record" /\ daemon' = [daemon EXCEPT !.at = "apply"]
    BY <1>7 DEF Open, Hold
  <2>2. daemon'.at = "apply" /\ daemon'.build = daemon.build /\ daemon'.work = daemon.work
    BY <1>0, <2>1 DEF Daemons
  <2> QED
    BY <2>1, <2>2 DEF IInv, RecordTrue, WorkOf
<1>8. CASE Apply
  <2>1. PICK w \in daemon.work : daemon' = [daemon EXCEPT !.work = @ \ {w}]
    BY <1>8, ApplyFacts
  <2>2. daemon.at = "apply"
    BY <1>8, ApplyFacts
  <2>3. daemon'.at = "apply" /\ daemon'.build = daemon.build /\ daemon'.work \subseteq daemon.work
    BY <1>0, <2>1, <2>2 DEF Daemons
  <2> QED
    BY <2>2, <2>3 DEF IInv, RecordTrue, WorkOf
<1>9. CASE Settle
  BY <1>0, <1>1, <1>9, OffType DEF Settle, Hold, Daemons
<1>10. CASE Fail \/ Collide
  <2>1. daemon.build \in Builds /\ Thrown
    BY <1>0, <1>10 DEF Fail, Collide
  <2> QED
    BY <1>1, <2>1, ThrownFacts
<1>11. ASSUME NEW p \in Paths, Edit(p) PROVE RecordTrue'
  BY <1>1, <1>11 DEF Edit
<1>12. CASE Commit
  BY <1>0, <1>1, <1>12 DEF Commit, Hold, Daemons
<1>13. CASE Week
  BY <1>1, <1>13 DEF Week
<1>14. CASE Crash
  BY <1>1, <1>14, OffType DEF Crash, Hold, Off
<1>15. CASE UNCHANGED vars
  BY <1>15 DEF vars, IInv, RecordTrue, WorkOf, Imaged
<1> QED
  BY <1>2, <1>3, <1>4, <1>5, <1>6, <1>7, <1>8, <1>9, <1>10, <1>11, <1>12, <1>13, <1>14, <1>15
     DEF Next, DaemonStep

-----------------------------------------------------------------------------
\* The invariant and what it gives.

LEMMA InvInitially == Init => IInv
<1> SUFFICES ASSUME Init PROVE IInv
  OBVIOUS
<1>1. TypeOK
  BY TypesInitially
<1>2. journal = {} /\ daemon.at = "off"
  BY DEF Init, Off
<1> QED
  BY <1>1, <1>2 DEF IInv, Standing, OpenTrue, RecordTrue, Running

LEMMA InvStep == IInv /\ [Next]_vars => IInv'
BY TypesStep, StandingStep, OpenTrueStep, RecordTrueStep DEF IInv

LEMMA ImagesFollow ==
    ASSUME IInv
    PROVE  ImagesTrue
<1> SUFFICES ASSUME NEW e \in journal, e.open, NEW entry \in ToSet(e.entries), entry.image
             PROVE  /\ <<e.id, entry.path>> \in DOMAIN images
                    /\ \E b \in Builds : Digest[b] = e.digest
                        /\ \E p \in Kin(b, entry.path) : images[<<e.id, entry.path>>] = before.disk[p]
  BY DEF ImagesTrue
<1>1. PICK b \in Builds : Digest[b] = e.digest
  BY OpenHasBuild DEF IInv
<1>2. Imaged(b, e.id, entry, before.disk)
  BY <1>1 DEF IInv, OpenTrue
<1> QED
  BY <1>1, <1>2 DEF Imaged

\* Whatever a boot was cut off at, the journal, the copies aside and the running
\* boot are of the shapes the next boot reads.
THEOREM Typing == Spec => []TypeOK
<1>1. IInv => TypeOK
  BY DEF IInv
<1> QED
  BY <1>1, InvInitially, InvStep, PTL DEF Spec

\* Through deaths, failures, put-backs and rollbacks, one episode at most stands
\* open in the journal.
THEOREM OneEpisodeOpen == Spec => []OneOpen
<1>1. IInv => OneOpen
  BY StandingOne DEF IInv
<1> QED
  BY <1>1, InvInitially, InvStep, PTL DEF Spec

\* Every pre-image an open episode names is there, and says what the file said
\* before the episode, at one of the file's addresses.
THEOREM PreImagesTrue == Spec => []ImagesTrue
<1>1. IInv => ImagesTrue
  BY ImagesFollow
<1> QED
  BY <1>1, InvInitially, InvStep, PTL DEF Spec

-----------------------------------------------------------------------------
\* What a commit vouches for: while a plan is applied, the volumes with the rest
\* of it done are those of a finished conversion.

\* What a path will hold before the writes, and whether one writes it.
Left(work, d, p) == IF MovedAway(work, p) THEN 0 ELSE d[SourceOf(work, p)]
Written(work, p) == \E w \in work : w.kind = "write" /\ w.to = p

\* The steps of a plan keep clear of each other: each has something to take, two
\* that meet are copies to one address, and a write deletes what leaves or fills
\* what stays.
Taken(b, work, d) == \A w \in work : w.kind # "write" =>
    /\ \E l \in Layout[b] : w.kind = l.mode /\ w.from[1] = l.from /\ w.to[1] = l.to /\ w.from[2] = w.to[2]
    /\ \E p \in Inside(w.to) : d[Source(w, p)] # 0
Apart(work) == \A w \in work : \A x \in work :
    w # x /\ w.kind # "write" /\ x.kind # "write" =>
        \/ Inside(w.to) \cap Inside(x.to) = {}
        \/ Inside(w.to) = Inside(x.to) /\ w.kind = "copy" /\ x.kind = "copy"
Filling(b, work) == \A w \in work : w.kind = "write" =>
    /\ w.to \in Paths /\ (w.to \in Leaving(b) <=> w.says = 0)
    /\ w.to \notin Leaving(b) => Home(b, w.to[1]) = w.to[1]
Laid(b, work, d) == Taken(b, work, d) /\ Apart(work) /\ Filling(b, work)

\* A copy that must throw: its address is taken, or another is on its way there.
Doomed(work, d) ==
    \E w \in work : /\ w.kind = "copy"
                    /\ \/ Exists(d, w.to)
                       \/ \E x \in work : x # w /\ x.kind = "copy" /\ Inside(x.to) = Inside(w.to)

Ahead(b, work, d) ==
    /\ \A p \in Retired[b] : Left(work, d, p) = 0 \/ Written(work, p)
    /\ \A m \in MovedFrom[b] : \/ Left(work, d, m.from) = 0 \/ Written(work, m.from)
                               \/ Left(work, d, m.to) # 0 \/ Written(work, m.to)
    /\ \A l \in Layout[b] : \A x \in LeavesOf[l.from] : <<l.to, x>> \in Reads[b] =>
        \/ Left(work, d, <<l.from, x>>) = 0
        \/ Left(work, d, <<l.to, x>>) # 0 \/ Written(work, <<l.to, x>>)

Finishing ==
    /\ daemon.at \in {"record", "apply"} =>
        /\ Laid(daemon.build, daemon.work, disk)
        /\ Doomed(daemon.work, disk) \/ Ahead(daemon.build, daemon.work, disk)
    /\ daemon.at = "settle" \/ (daemon.at = "up" /\ daemon.vouched) => Converged(daemon.build)

\* A tree's own address is that of all its files.
LEMMA InsideWhole ==
    ASSUME NEW t \in Trees, NEW s, LeavesOf[s] = LeavesOf[t]
    PROVE  Inside(<<s, Whole(t)>>) = {<<s, x>> : x \in LeavesOf[t]}
<1>1. CASE t \in Files
  <2>1. PICK l : LeavesOf[t] = {l}
    BY <1>1, PathsAssumption
  <2>2. Whole(t) = l /\ l # All
    BY <1>1, <2>1, PathsAssumption DEF Whole
  <2> QED
    BY <2>1, <2>2 DEF Inside
<1>2. CASE t \notin Files
  BY <1>2 DEF Whole, Inside
<1> QED
  BY <1>1, <1>2

LEMMA InsideLeaf ==
    ASSUME NEW t \in Trees, NEW s, NEW x \in LeavesOf[t]
    PROVE  Inside(<<s, x>>) = {<<s, x>>}
BY PathsAssumption DEF Inside

LEMMA ThereWhole ==
    ASSUME NEW d, NEW t \in Trees
    PROVE  Exists(d, <<t, Whole(t)>>) <=> \E y \in LeavesOf[t] : d[<<t, y>>] # 0
<1>1. Inside(<<t, Whole(t)>>) = {<<t, y>> : y \in LeavesOf[t]}
  BY InsideWhole
<1>2. ASSUME NEW q \in Inside(<<t, Whole(t)>>), d[q] # 0 PROVE \E y \in LeavesOf[t] : d[<<t, y>>] # 0
  <2>1. PICK y \in LeavesOf[t] : q = <<t, y>>
    BY <1>1, <1>2
  <2> QED
    BY <1>2, <2>1
<1>3. ASSUME NEW y \in LeavesOf[t], d[<<t, y>>] # 0 PROVE \E q \in Inside(<<t, Whole(t)>>) : d[q] # 0
  <2>1. <<t, y>> \in Inside(<<t, Whole(t)>>)
    BY <1>1
  <2> QED
    BY <1>3, <2>1
<1> QED
  BY <1>2, <1>3 DEF Exists

\* A tree is put whole at a free address, or the files its address lacks are.
LEMMA PlacedFacts ==
    ASSUME NEW b \in Builds, NEW l \in Layout[b], NEW d, NEW op \in Placed(d, l)
    PROVE  \E x \in LeavesOf[l.from] \cup {All} :
            /\ op = [kind |-> l.mode, from |-> <<l.from, x>>, to |-> <<l.to, x>>, says |-> 0]
            /\ \/ /\ x = Whole(l.from) /\ Placed(d, l) = {op}
                  /\ Inside(op.to) = {<<l.to, y>> : y \in LeavesOf[l.from]}
                  /\ \A y \in LeavesOf[l.to] : d[<<l.to, y>>] = 0
                  /\ \E y \in LeavesOf[l.from] : d[<<l.from, y>>] # 0
               \/ /\ x \in LeavesOf[l.from] /\ Inside(op.to) = {<<l.to, x>>}
                  /\ d[<<l.from, x>>] # 0 /\ d[<<l.to, x>>] = 0
                  /\ \E y \in LeavesOf[l.to] : d[<<l.to, y>>] # 0
<1> DEFINE move(x) == [kind |-> l.mode, from |-> <<l.from, x>>, to |-> <<l.to, x>>, says |-> 0]
           lacking == {x \in LeavesOf[l.from] : d[<<l.from, x>>] # 0 /\ d[<<l.to, x>>] = 0}
           there(t) == \E y \in LeavesOf[t] : d[<<t, y>>] # 0
<1>0. l.from \in Trees /\ l.to \in Trees /\ LeavesOf[l.from] = LeavesOf[l.to]
  BY Ends
<1>1. \A t \in Trees : Exists(d, <<t, Whole(t)>>) <=> there(t)
  BY ThereWhole
<1>2. /\ Placed(d, l) = IF ~there(l.from) THEN {}
                        ELSE IF ~there(l.to) THEN {move(Whole(l.from))}
                        ELSE IF l.from \in Files \/ l.to \in Files THEN {}
                        ELSE {move(x) : x \in lacking}
  BY <1>0, <1>1 DEF Placed
<1>3. CASE ~there(l.to)
  <2>1. op = move(Whole(l.from)) /\ Placed(d, l) = {op} /\ there(l.from)
    BY <1>2, <1>3
  <2>2. op.to = <<l.to, Whole(l.from)>>
    BY <2>1
  <2>3. Inside(op.to) = {<<l.to, y>> : y \in LeavesOf[l.from]}
    BY <1>0, <2>2, InsideWhole
  <2>4. Whole(l.from) \in LeavesOf[l.from] \cup {All}
    BY <1>0, WholeShape
  <2> QED
    BY <1>3, <2>1, <2>3, <2>4
<1>4. CASE there(l.to)
  <2>1. PICK x \in lacking : op = move(x)
    BY <1>2, <1>4
  <2>2. Inside(op.to) = {<<l.to, x>>}
    BY <1>0, <2>1, InsideLeaf
  <2> QED
    BY <1>4, <2>1, <2>2
<1> QED
  BY <1>3, <1>4

\* Conversely, a file that stands at the earlier address of a tree goes to the
\* later one, unless one stands there.
LEMMA PlacedAll ==
    ASSUME NEW b \in Builds, NEW l \in Layout[b], NEW d, NEW x \in LeavesOf[l.from],
           d[<<l.from, x>>] # 0, d[<<l.to, x>>] = 0
    PROVE  \E op \in Placed(d, l) : /\ op.kind = l.mode /\ op.from[1] = l.from
                                    /\ <<l.to, x>> \in Inside(op.to) /\ <<l.from, x>> \in Inside(op.from)
<1> DEFINE move(y) == [kind |-> l.mode, from |-> <<l.from, y>>, to |-> <<l.to, y>>, says |-> 0]
           lacking == {y \in LeavesOf[l.from] : d[<<l.from, y>>] # 0 /\ d[<<l.to, y>>] = 0}
           there(t) == \E y \in LeavesOf[t] : d[<<t, y>>] # 0
<1>0. l.from \in Trees /\ l.to \in Trees /\ LeavesOf[l.from] = LeavesOf[l.to]
  BY Ends
<1>1. \A t \in Trees : Exists(d, <<t, Whole(t)>>) <=> there(t)
  BY ThereWhole
<1>2. /\ Placed(d, l) = IF ~there(l.from) THEN {}
                        ELSE IF ~there(l.to) THEN {move(Whole(l.from))}
                        ELSE IF l.from \in Files \/ l.to \in Files THEN {}
                        ELSE {move(y) : y \in lacking}
  BY <1>0, <1>1 DEF Placed
<1>3. CASE ~there(l.to)
  <2>1. move(Whole(l.from)) \in Placed(d, l)
    BY <1>2, <1>3
  <2>2. Inside(<<l.from, Whole(l.from)>>) = {<<l.from, y>> : y \in LeavesOf[l.from]}
        /\ Inside(<<l.to, Whole(l.from)>>) = {<<l.to, y>> : y \in LeavesOf[l.from]}
    BY <1>0, InsideWhole
  <2> QED
    BY <2>1, <2>2
<1>4. CASE there(l.to)
  <2>1. l.from \notin Files /\ l.to \notin Files
    <3>1. \A t \in Files : \E y : LeavesOf[t] = {y}
      BY PathsAssumption
    <3> QED
      BY <1>0, <1>4, <3>1
  <2>2. move(x) \in Placed(d, l)
    BY <1>2, <1>4, <2>1
  <2>3. Inside(<<l.from, x>>) = {<<l.from, x>>} /\ Inside(<<l.to, x>>) = {<<l.to, x>>}
    BY <1>0, InsideLeaf
  <2> QED
    BY <2>2, <2>3
<1> QED
  BY <1>3, <1>4

LEMMA PlanLaid ==
    ASSUME NEW b \in Builds, NEW d \in [Paths -> Says]
    PROVE  Laid(b, Plan(b, d), d)
<1>1. \A w \in Plan(b, d) : w.kind # "write" => w \in Layouts(b, d)
  BY WriteShape DEF Plan
<1>2. Taken(b, Plan(b, d), d)
  <2> SUFFICES ASSUME NEW w \in Layouts(b, d), w.kind # "write"
               PROVE  /\ \E l \in Layout[b] : /\ w.kind = l.mode /\ w.from[1] = l.from /\ w.to[1] = l.to
                                              /\ w.from[2] = w.to[2]
                      /\ \E p \in Inside(w.to) : d[Source(w, p)] # 0
    BY <1>1 DEF Taken
  <2>1. PICK l \in Layout[b] : w \in Placed(d, l)
    BY DEF Layouts
  <2>2. PICK x \in LeavesOf[l.from] \cup {All} :
            /\ w = [kind |-> l.mode, from |-> <<l.from, x>>, to |-> <<l.to, x>>, says |-> 0]
            /\ \/ /\ Inside(w.to) = {<<l.to, y>> : y \in LeavesOf[l.from]}
                  /\ \E y \in LeavesOf[l.from] : d[<<l.from, y>>] # 0
               \/ Inside(w.to) = {<<l.to, x>>} /\ d[<<l.from, x>>] # 0
    BY <2>1, PlacedFacts
  <2>3. w.kind = l.mode /\ w.from[1] = l.from /\ w.to[1] = l.to /\ w.from[2] = w.to[2]
    BY <2>2
  <2>4. \A y : Source(w, <<l.to, y>>) = <<l.from, y>>
    BY <2>3 DEF Source
  <2>5. \E p \in Inside(w.to) : d[Source(w, p)] # 0
    BY <2>2, <2>4
  <2> QED
    BY <2>3, <2>5
<1>3. Apart(Plan(b, d))
  <2> SUFFICES ASSUME NEW w \in Layouts(b, d), NEW v \in Layouts(b, d), w # v,
                      Inside(w.to) \cap Inside(v.to) # {}
               PROVE  Inside(w.to) = Inside(v.to) /\ w.kind = "copy" /\ v.kind = "copy"
    BY <1>1 DEF Apart
  <2>1. PICK l \in Layout[b] : w \in Placed(d, l)
    BY DEF Layouts
  <2>2. PICK k \in Layout[b] : v \in Placed(d, k)
    BY DEF Layouts
  <2>3. PICK x \in LeavesOf[l.from] \cup {All} :
            /\ w = [kind |-> l.mode, from |-> <<l.from, x>>, to |-> <<l.to, x>>, says |-> 0]
            /\ \/ /\ x = Whole(l.from) /\ Placed(d, l) = {w}
                  /\ Inside(w.to) = {<<l.to, y>> : y \in LeavesOf[l.from]}
                  /\ \A y \in LeavesOf[l.to] : d[<<l.to, y>>] = 0
                  /\ \E y \in LeavesOf[l.from] : d[<<l.from, y>>] # 0
               \/ /\ x \in LeavesOf[l.from] /\ Inside(w.to) = {<<l.to, x>>}
                  /\ d[<<l.from, x>>] # 0 /\ d[<<l.to, x>>] = 0
                  /\ \E y \in LeavesOf[l.to] : d[<<l.to, y>>] # 0
    BY <2>1, PlacedFacts
  <2>4. PICK z \in LeavesOf[k.from] \cup {All} :
            /\ v = [kind |-> k.mode, from |-> <<k.from, z>>, to |-> <<k.to, z>>, says |-> 0]
            /\ \/ /\ z = Whole(k.from) /\ Placed(d, k) = {v}
                  /\ Inside(v.to) = {<<k.to, y>> : y \in LeavesOf[k.from]}
                  /\ \A y \in LeavesOf[k.to] : d[<<k.to, y>>] = 0
                  /\ \E y \in LeavesOf[k.from] : d[<<k.from, y>>] # 0
               \/ /\ z \in LeavesOf[k.from] /\ Inside(v.to) = {<<k.to, z>>}
                  /\ d[<<k.from, z>>] # 0 /\ d[<<k.to, z>>] = 0
                  /\ \E y \in LeavesOf[k.to] : d[<<k.to, y>>] # 0
    BY <2>2, PlacedFacts
  <2>5. PICK p : p \in Inside(w.to) /\ p \in Inside(v.to)
    OBVIOUS
  <2>6. l.to = k.to
    <3>1. p[1] = l.to
      BY <2>3, <2>5, InsideShape
    <3>2. p[1] = k.to
      BY <2>4, <2>5, InsideShape
    <3> QED
      BY <3>1, <3>2
  <2>7. LeavesOf[l.from] = LeavesOf[l.to] /\ LeavesOf[k.from] = LeavesOf[k.to]
    BY Ends
  <2>8. Inside(w.to) = Inside(v.to) /\ (l = k => w = v)
    <3>1. CASE \A y \in LeavesOf[l.to] : d[<<l.to, y>>] = 0
      <4>1. Placed(d, l) = {w} /\ Inside(w.to) = {<<l.to, y>> : y \in LeavesOf[l.from]}
        BY <2>3, <3>1
      <4>2. Placed(d, k) = {v} /\ Inside(v.to) = {<<k.to, y>> : y \in LeavesOf[k.from]}
        BY <2>4, <2>6, <3>1
      <4>3. LeavesOf[l.from] = LeavesOf[k.from]
        BY <2>6, <2>7
      <4>4. l = k => w = v
        BY <4>1, <4>2
      <4> QED
        BY <2>6, <4>1, <4>2, <4>3, <4>4, Zenon
    <3>2. CASE \E y \in LeavesOf[l.to] : d[<<l.to, y>>] # 0
      <4>1. Inside(w.to) = {<<l.to, x>>} /\ Inside(v.to) = {<<l.to, z>>}
        BY <2>3, <2>4, <2>6, <3>2
      <4>2. x = z
        BY <2>5, <4>1
      <4> QED
        BY <2>3, <2>4, <4>1, <4>2
    <3> QED
      BY <3>1, <3>2
  <2>9. l # k /\ l.mode = "copy" /\ k.mode = "copy"
    BY <2>6, <2>8, PlansAssumption
  <2> QED
    BY <2>3, <2>4, <2>8, <2>9
<1>4. Filling(b, Plan(b, d))
  <2> SUFFICES ASSUME NEW w \in Plan(b, d), w.kind = "write"
               PROVE  /\ w.to \in Paths /\ (w.to \in Leaving(b) <=> w.says = 0)
                      /\ w.to \notin Leaving(b) => Home(b, w.to[1]) = w.to[1]
    BY DEF Filling
  <2>1. w \in Writes(b, d)
    BY LayoutShape DEF Plan
  <2> QED
    BY <2>1, WriteShape
<1> QED
  BY <1>2, <1>3, <1>4 DEF Laid

\* What the plan leaves before its writes is the overlay.
LEMMA PlanLeft ==
    ASSUME NEW b \in Builds, NEW d \in [Paths -> Says], NEW p \in Paths
    PROVE  /\ Left(Plan(b, d), d, p) = Overlay(b, d)[p]
           /\ MovedAway(Plan(b, d), p) <=> MovedAway(Layouts(b, d), p)
<1>1. MovedAway(Plan(b, d), p) <=> MovedAway(Layouts(b, d), p)
  BY WriteShape DEF MovedAway, Plan
<1>2. SourceOf(Plan(b, d), p) = SourceOf(Layouts(b, d), p)
  BY PlanSource
<1>3. Overlay(b, d)[p] = IF MovedAway(Layouts(b, d), p) THEN 0 ELSE d[SourceOf(Layouts(b, d), p)]
  BY DEF Overlay
<1> QED
  BY <1>1, <1>2, <1>3, Zenon DEF Left

\* A file that is at one end only is brought from there.
LEMMA SourceAlone ==
    ASSUME NEW work, NEW p, NEW op \in work, op.kind # "write", p \in Inside(op.to),
           \A w \in work : w.kind # "write" /\ p \in Inside(w.to) => w = op
    PROVE  SourceOf(work, p) = Source(op, p)
<1> DEFINE over == {w \in work : w.kind # "write" /\ p \in Inside(w.to)}
<1>1. over = {op}
  OBVIOUS
<1>2. SourceOf(work, p) = IF over = {} THEN p ELSE Source(CHOOSE w \in over : TRUE, p)
  BY Zenon DEF SourceOf
<1>3. (CHOOSE w \in over : TRUE) = op
  BY <1>1
<1> HIDE DEF over
<1> QED
  BY <1>1, <1>2, <1>3

LEMMA SourceNone ==
    ASSUME NEW work, NEW p, \A w \in work : w.kind # "write" => p \notin Inside(w.to)
    PROVE  SourceOf(work, p) = p
BY DEF SourceOf

\* Once its steps are done a plan that need not throw has converged the volumes.
LEMMA PlanAhead ==
    ASSUME NEW b \in Builds, NEW d \in [Paths -> Says], ~Doomed(Plan(b, d), d)
    PROVE  Ahead(b, Plan(b, d), d)
<1> DEFINE W == Plan(b, d)
           o == Overlay(b, d)
           write(p, v) == [kind |-> "write", from |-> p, to |-> p, says |-> v]
<1>0. /\ Retired[b] \subseteq Paths /\ \A m \in MovedFrom[b] : m.from \in Paths /\ m.to \in Paths
  BY PathsAssumption
<1>1. \A p \in Paths : Left(W, d, p) = o[p]
  BY PlanLeft
<1>2. \A p, v : write(p, v) \in Writes(b, d) => Written(W, p)
  <2>1. \A p, v : write(p, v).kind = "write" /\ write(p, v).to = p
    OBVIOUS
  <2> HIDE DEF write
  <2> QED
    BY <2>1 DEF Written, Plan
<1>3. \A p \in Retired[b] : Left(W, d, p) = 0 \/ Written(W, p)
  <2> SUFFICES ASSUME NEW p \in Retired[b], o[p] # 0 PROVE Written(W, p)
    BY <1>0, <1>1
  <2>1. write(p, 0) \in Writes(b, d)
    BY DEF Writes
  <2> QED
    BY <1>2, <2>1
<1>4. \A m \in MovedFrom[b] : Left(W, d, m.from) = 0 \/ Left(W, d, m.to) # 0 \/ Written(W, m.to)
  <2> SUFFICES ASSUME NEW m \in MovedFrom[b], o[m.from] # 0, o[m.to] = 0 PROVE Written(W, m.to)
    BY <1>0, <1>1
  <2>1. write(m.to, o[m.from]) \in Writes(b, d)
    BY DEF Writes
  <2> QED
    BY <1>2, <2>1
<1>5. ASSUME NEW l \in Layout[b], NEW x \in LeavesOf[l.from], <<l.to, x>> \in Reads[b], Left(W, d, <<l.from, x>>) # 0
      PROVE  Left(W, d, <<l.to, x>>) # 0
  <2> DEFINE f == <<l.from, x>>
             t == <<l.to, x>>
  <2>1. /\ l.from \in Trees /\ l.to \in Trees /\ LeavesOf[l.from] = LeavesOf[l.to]
        /\ Home(b, l.to) = l.to /\ f \in Paths /\ t \in Paths
    BY Ends DEF Paths
  <2>2. \A w \in W : w.kind # "write" => w \in Layouts(b, d)
    BY WriteShape DEF Plan
  <2>3. \A w \in W : w.kind # "write" => f \notin Inside(w.to)
    <3> SUFFICES ASSUME NEW w \in Layouts(b, d), f \in Inside(w.to) PROVE FALSE
      BY <2>2
    <3>1. PICK k \in Layout[b] : w.to[1] = k.to
      BY LayoutShape
    <3>2. l.from = k.to
      BY <3>1, InsideShape
    <3> QED
      BY <3>2, PlansAssumption
  <2>4. d[f] # 0 /\ ~MovedAway(W, f)
    BY <1>5, <2>3, SourceNone DEF Left
  <2>5. ~MovedAway(W, t)
    BY <2>1, StaysPut, PlanLeft
  <2>6. SUFFICES d[SourceOf(W, t)] # 0
    BY <2>5 DEF Left
  <2>7. CASE d[t] = 0
    <3>1. PICK op \in Placed(d, l) : /\ op.kind = l.mode /\ op.from[1] = l.from
                                     /\ t \in Inside(op.to) /\ f \in Inside(op.from)
      BY <2>4, <2>7, PlacedAll
    <3>2. op \in Layouts(b, d) /\ op \in W
      BY <3>1 DEF Layouts, Plan
    <3>3. l.mode = "copy" /\ op.kind = "copy"
      BY <2>4, <3>1, <3>2, PathsAssumption DEF MovedAway
    <3>4. Apart(W)
      BY PlanLaid DEF Laid
    <3>5. \A w \in W : w.kind # "write" /\ t \in Inside(w.to) => w = op
      BY <3>1, <3>2, <3>3, <3>4 DEF Apart, Doomed
    <3>6. SourceOf(W, t) = Source(op, t)
      BY <3>1, <3>2, <3>3, <3>5, SourceAlone
    <3>7. Source(op, t) = f
      BY <3>1 DEF Source
    <3> QED
      BY <2>4, <3>6, <3>7
  <2>8. CASE d[t] # 0
    <3>1. \A w \in W : w.kind # "write" => t \notin Inside(w.to)
      <4> SUFFICES ASSUME NEW w \in Layouts(b, d), t \in Inside(w.to) PROVE d[t] = 0
        BY <2>2, <2>8
      <4>1. PICK k \in Layout[b] : w \in Placed(d, k)
        BY DEF Layouts
      <4>2. \/ /\ Inside(w.to) = {<<k.to, y>> : y \in LeavesOf[k.from]}
               /\ \A y \in LeavesOf[k.to] : d[<<k.to, y>>] = 0
            \/ \E y \in LeavesOf[k.from] : Inside(w.to) = {<<k.to, y>>} /\ d[<<k.to, y>>] = 0
        BY <4>1, PlacedFacts
      <4>3. LeavesOf[k.from] = LeavesOf[k.to]
        BY Ends
      <4> QED
        BY <4>2, <4>3
    <3>2. SourceOf(W, t) = t
      BY <3>1, SourceNone
    <3> QED
      BY <2>8, <3>2
  <2> QED
    BY <2>7, <2>8
<1> QED
  BY <1>3, <1>4, <1>5 DEF Ahead

\* With nothing left to do, what lies ahead is what is.
LEMMA NothingAhead ==
    ASSUME NEW b \in Builds, NEW d, Ahead(b, {}, d)
    PROVE  /\ \A p \in Retired[b] : d[p] = 0
           /\ \A m \in MovedFrom[b] : d[m.from] # 0 => d[m.to] # 0
           /\ \A l \in Layout[b] : \A x \in LeavesOf[l.from] :
                d[<<l.from, x>>] # 0 /\ <<l.to, x>> \in Reads[b] => d[<<l.to, x>>] # 0
<1>1. \A p : Left({}, d, p) = d[p] /\ ~Written({}, p)
  <2>1. \A p : SourceOf({}, p) = p
    BY SourceNone
  <2> QED
    BY <2>1 DEF Left, MovedAway, Written
<1> QED
  BY <1>1 DEF Ahead

LEMMA AddressShape ==
    ASSUME NEW a \in Addresses
    PROVE  a = <<a[1], a[2]>> /\ a[1] \in Trees /\ Inside(a) \subseteq Paths
<1>1. a = <<a[1], a[2]>> /\ a[1] \in Trees /\ (a[2] = All \/ a \in Paths)
  BY DEF Addresses, Paths
<1> QED
  BY <1>1 DEF Inside, Paths

\* What is inside one end of a regrouping is, by name, inside the other.
LEMMA Across ==
    ASSUME NEW from \in Addresses, NEW to \in Addresses, from[2] = to[2],
           LeavesOf[from[1]] = LeavesOf[to[1]], NEW n, <<from[1], n>> \in Inside(from)
    PROVE  <<to[1], n>> \in Inside(to)
<1>1. from = <<from[1], from[2]>> /\ to = <<to[1], to[2]>>
  BY AddressShape
<1>2. CASE from[2] = All
  BY <1>1, <1>2 DEF Inside
<1>3. CASE from[2] # All
  BY <1>1, <1>3 DEF Inside
<1> QED
  BY <1>2, <1>3

\* Where a copy or a rename of a plan goes from and to.
LEMMA MoveFacts ==
    ASSUME NEW b \in Builds, NEW work \in SUBSET Works, NEW d, Taken(b, work, d),
           NEW w \in work, w.kind # "write"
    PROVE  \E l \in Layout[b] :
            /\ w.kind = l.mode /\ w.from[1] = l.from /\ w.to[1] = l.to
            /\ Inside(w.to) \subseteq Paths /\ Inside(w.from) \subseteq Paths
            /\ \A p \in Inside(w.to) : /\ p[1] = l.to /\ Source(w, p) = <<l.from, p[2]>>
                                       /\ Source(w, p) \in Paths /\ p = <<l.to, p[2]>>
            /\ \A n : <<l.from, n>> \in Inside(w.from) => <<l.to, n>> \in Inside(w.to)
            /\ \A p \in Inside(w.from) : p[1] = l.from
<1>1. PICK l \in Layout[b] : w.kind = l.mode /\ w.from[1] = l.from /\ w.to[1] = l.to /\ w.from[2] = w.to[2]
  BY DEF Taken
<1>2. w.from \in Addresses /\ w.to \in Addresses
  BY DEF Works
<1>3. Inside(w.to) \subseteq Paths /\ Inside(w.from) \subseteq Paths
  BY <1>2, AddressShape
<1>4. ASSUME NEW p \in Inside(w.to)
      PROVE  p[1] = l.to /\ Source(w, p) = <<l.from, p[2]>> /\ Source(w, p) \in Paths /\ p = <<l.to, p[2]>>
  <2>1. p[1] = l.to /\ p \in Paths
    BY <1>1, <1>3, <1>4, InsideShape
  <2>2. LeavesOf[l.from] = LeavesOf[l.to] /\ l.from \in Trees
    BY Ends
  <2> QED
    BY <1>1, <2>1, <2>2, PathShape DEF Source
<1>5. \A n : <<l.from, n>> \in Inside(w.from) => <<l.to, n>> \in Inside(w.to)
  BY <1>1, <1>2, Ends, Across
<1>6. \A p \in Inside(w.from) : p[1] = l.from
  BY <1>1, InsideShape
<1> QED
  BY <1>1, <1>3, <1>4, <1>5, <1>6

\* One copy or rename leaves the others what they take.
LEMMA StillTaken ==
    ASSUME NEW b \in Builds, NEW work \in SUBSET Works, NEW d, Taken(b, work, d), Apart(work),
           NEW w \in work, w.kind # "write"
    PROVE  Taken(b, work \ {w}, After(d, w))
<1> SUFFICES ASSUME NEW v \in work, v # w, v.kind # "write"
             PROVE  \E p \in Inside(v.to) : After(d, w)[Source(v, p)] # 0
  BY DEF Taken
<1>1. PICK l \in Layout[b] :
            /\ w.kind = l.mode /\ w.to[1] = l.to
            /\ \A n : <<l.from, n>> \in Inside(w.from) => <<l.to, n>> \in Inside(w.to)
            /\ \A p \in Inside(w.from) : p[1] = l.from
  BY MoveFacts
<1>2. PICK k \in Layout[b] : \A p \in Inside(v.to) :
            p = <<k.to, p[2]>> /\ Source(v, p) = <<k.from, p[2]>> /\ Source(v, p) \in Paths
  BY MoveFacts
<1>3. PICK p \in Inside(v.to) : d[Source(v, p)] # 0
  BY DEF Taken
<1> DEFINE q == Source(v, p)
<1>4. q = <<k.from, p[2]>> /\ q \in Paths /\ p = <<k.to, p[2]>>
  BY <1>2
<1>5. q \notin Inside(w.to)
  BY <1>1, <1>4, InsideShape, PlansAssumption
<1>6. ~(w.kind = "rename" /\ q \in Inside(w.from))
  <2> SUFFICES ASSUME w.kind = "rename", q \in Inside(w.from) PROVE FALSE
    OBVIOUS
  <2>1. k.from = l.from
    BY <1>1, <1>4
  <2>2. k = l
    BY <2>1, PlansAssumption
  <2>3. p \in Inside(w.to)
    BY <1>1, <1>4, <2>2
  <2> QED
    BY <2>3 DEF Apart
<1>7. After(d, w)[q] = d[q]
  BY <1>4, <1>5, <1>6 DEF After
<1> QED
  BY <1>3, <1>7

\* A copy or rename that meets no other leaves ahead what was.
LEMMA LeftStays ==
    ASSUME NEW b \in Builds, NEW work \in SUBSET Works, NEW d, Taken(b, work, d),
           NEW w \in work, w.kind # "write",
           \A v \in work : v # w /\ v.kind # "write" => Inside(w.to) \cap Inside(v.to) = {},
           NEW p \in Paths
    PROVE  Left(work \ {w}, After(d, w), p) = Left(work, d, p)
<1> DEFINE rest == work \ {w}
           n == After(d, w)
<1>1. PICK l \in Layout[b] :
            /\ w.kind = l.mode /\ w.from[1] = l.from /\ w.to[1] = l.to
            /\ Inside(w.to) \subseteq Paths /\ Inside(w.from) \subseteq Paths
            /\ \A q \in Inside(w.to) : /\ q[1] = l.to /\ Source(w, q) = <<l.from, q[2]>>
                                       /\ Source(w, q) \in Paths /\ q = <<l.to, q[2]>>
            /\ \A x : <<l.from, x>> \in Inside(w.from) => <<l.to, x>> \in Inside(w.to)
            /\ \A q \in Inside(w.from) : q[1] = l.from
  BY MoveFacts
<1>2. ASSUME NEW v \in work, v.kind # "write"
      PROVE  \E k \in Layout[b] : /\ v.from[1] = k.from /\ v.to[1] = k.to
                                  /\ \A q \in Inside(v.from) : q[1] = k.from
                                  /\ \A q \in Inside(v.to) : q[1] = k.to
  <2>1. PICK k \in Layout[b] : v.from[1] = k.from /\ v.to[1] = k.to
    BY <1>2 DEF Taken
  <2> QED
    BY <2>1, InsideShape
<1>3. \A k \in Layout[b] : k.from # l.to /\ k.to # l.from
  BY PlansAssumption
<1>4. CASE p \in Inside(w.to)
  <2>1. p[1] = l.to
    BY <1>1, <1>4
  <2>2. ~MovedAway(work, p) /\ ~MovedAway(rest, p)
    BY <1>2, <1>3, <2>1 DEF MovedAway
  <2>3. SourceOf(work, p) = Source(w, p)
    BY <1>4, SourceAlone
  <2>4. SourceOf(rest, p) = p
    BY <1>4, SourceNone
  <2>5. n[p] = d[Source(w, p)]
    BY <1>4 DEF After
  <2> QED
    BY <2>2, <2>3, <2>4, <2>5 DEF Left
<1>5. CASE p \notin Inside(w.to) /\ w.kind = "rename" /\ p \in Inside(w.from)
  <2>1. Left(work, d, p) = 0
    BY <1>5 DEF Left, MovedAway
  <2>2. p[1] = l.from
    BY <1>1, <1>5
  <2>3. SourceOf(rest, p) = p
    BY <1>2, <1>3, <2>2, SourceNone
  <2>4. n[p] = 0
    BY <1>5 DEF After
  <2> QED
    BY <2>1, <2>3, <2>4 DEF Left
<1>6. CASE p \notin Inside(w.to) /\ ~(w.kind = "rename" /\ p \in Inside(w.from))
  <2> DEFINE over(work_) == {op \in work_ : op.kind # "write" /\ p \in Inside(op.to)}
             s == SourceOf(work, p)
  <2>1. MovedAway(work, p) <=> MovedAway(rest, p)
    BY <1>6 DEF MovedAway
  <2>2. over(work) = over(rest)
    BY <1>6
  <2>3. \A x : SourceOf(x, p) = IF over(x) = {} THEN p ELSE Source(CHOOSE op \in over(x) : TRUE, p)
    BY Zenon DEF SourceOf
  <2>4. SourceOf(rest, p) = s
    <3> HIDE DEF over
    <3> QED
      BY <2>2, <2>3, Zenon
  <2>5. n[s] = d[s]
    <3>1. CASE over(work) = {}
      <4>1. s = p
        BY <2>3, <3>1
      <4> QED
        BY <1>6, <4>1 DEF After
    <3>2. CASE over(work) # {}
      <4> DEFINE op == CHOOSE x \in over(work) : TRUE
      <4>1. op \in over(work)
        BY <3>2
      <4>2. s = Source(op, p)
        BY <2>3, <3>2
      <4>3. op \in work /\ op.kind # "write" /\ p \in Inside(op.to)
        BY <4>1
      <4> HIDE DEF op
      <4>4. PICK k \in Layout[b] : \A q \in Inside(op.to) :
                q = <<k.to, q[2]>> /\ Source(op, q) = <<k.from, q[2]>> /\ Source(op, q) \in Paths
        BY <4>3, MoveFacts
      <4>5. s = <<k.from, p[2]>> /\ s \in Paths /\ p = <<k.to, p[2]>>
        BY <4>2, <4>3, <4>4
      <4>6. s \notin Inside(w.to)
        BY <1>1, <1>3, <4>5
      <4>7. ~(w.kind = "rename" /\ s \in Inside(w.from))
        <5> SUFFICES ASSUME s \in Inside(w.from) PROVE FALSE
          OBVIOUS
        <5>1. k.from = l.from
          BY <1>1, <4>5
        <5>2. k = l
          BY <5>1, PlansAssumption
        <5> QED
          BY <1>1, <1>6, <4>5, <5>2
      <4> HIDE DEF s
      <4> QED
        BY <4>5, <4>6, <4>7 DEF After
    <3> QED
      BY <3>1, <3>2
  <2> HIDE DEF over, s
  <2>6. s = SourceOf(work, p)
    BY DEF s
  <2>7. Left(rest, n, p) = Left(work, d, p)
    <3> HIDE DEF rest, n
    <3> QED
      BY <2>1, <2>4, <2>5, <2>6, Zenon DEF Left
  <2> QED
    BY <2>7
<1> QED
  BY <1>4, <1>5, <1>6

LEMMA AheadSame ==
    ASSUME NEW b \in Builds, NEW work, NEW d, NEW rest, NEW n, Ahead(b, work, d),
           \A p \in Paths : Left(rest, n, p) = Left(work, d, p),
           \A p : Written(rest, p) <=> Written(work, p)
    PROVE  Ahead(b, rest, n)
<1>1. /\ Retired[b] \subseteq Paths /\ \A m \in MovedFrom[b] : m.from \in Paths /\ m.to \in Paths
  BY PathsAssumption
<1>2. \A l \in Layout[b] : \A x \in LeavesOf[l.from] : <<l.from, x>> \in Paths /\ <<l.to, x>> \in Paths
  BY Ends DEF Paths
<1> QED
  BY <1>1, <1>2 DEF Ahead

\* Of two copies to one address the second finds it taken.
LEMMA Clash ==
    ASSUME NEW b \in Builds, NEW work \in SUBSET Works, NEW d, Taken(b, work, d),
           NEW w \in work, w.kind # "write", NEW v \in work, v # w, v.kind = "copy", Inside(v.to) = Inside(w.to)
    PROVE  Doomed(work \ {w}, After(d, w))
<1>1. PICK p \in Inside(w.to) : d[Source(w, p)] # 0
  BY DEF Taken
<1>2. p \in Paths
  BY MoveFacts
<1>3. After(d, w)[p] # 0
  BY <1>1, <1>2 DEF After
<1> QED
  BY <1>1, <1>3 DEF Doomed, Exists

\* A copy or rename that is due and does not throw.
LEMMA MoveAhead ==
    ASSUME NEW b \in Builds, NEW work \in SUBSET Works, NEW d, Laid(b, work, d),
           Doomed(work, d) \/ Ahead(b, work, d),
           NEW w \in work, w.kind # "write", w.kind = "copy" => ~Exists(d, w.to),
           w.kind = "rename" => \A v \in work : v.kind # "copy"
    PROVE  /\ Laid(b, work \ {w}, After(d, w))
           /\ Doomed(work \ {w}, After(d, w)) \/ Ahead(b, work \ {w}, After(d, w))
<1>1. Laid(b, work \ {w}, After(d, w))
  BY StillTaken DEF Laid, Apart, Filling
<1>2. CASE \E v \in work : v # w /\ v.kind # "write" /\ Inside(w.to) \cap Inside(v.to) # {}
  <2>1. PICK v \in work : v # w /\ v.kind = "copy" /\ Inside(v.to) = Inside(w.to)
    BY <1>2 DEF Laid, Apart
  <2> QED
    BY <1>1, <2>1, Clash DEF Laid
<1>3. CASE \A v \in work : v # w /\ v.kind # "write" => Inside(w.to) \cap Inside(v.to) = {}
  <2>1. CASE Doomed(work, d)
    <3>1. PICK v \in work : /\ v.kind = "copy"
                            /\ \/ Exists(d, v.to)
                               \/ \E x \in work : x # v /\ x.kind = "copy" /\ Inside(x.to) = Inside(v.to)
      BY <2>1 DEF Doomed
    <3>2. w.kind = "copy"
      BY <3>1 DEF Works
    <3>3. CASE Exists(d, v.to)
      <4>1. PICK p \in Inside(v.to) : d[p] # 0
        BY <3>3 DEF Exists
      <4>2. v # w /\ p \notin Inside(w.to)
        BY <3>2, <3>3, <4>1 DEF Exists
      <4>3. p \in Paths
        BY <3>1, <4>1, MoveFacts DEF Laid
      <4>4. After(d, w)[p] = d[p]
        BY <3>2, <4>2, <4>3 DEF After
      <4> QED
        BY <1>1, <3>1, <4>1, <4>2, <4>4 DEF Doomed, Exists
    <3>4. CASE \E x \in work : x # v /\ x.kind = "copy" /\ Inside(x.to) = Inside(v.to)
      <4>1. PICK x \in work : x # v /\ x.kind = "copy" /\ Inside(x.to) = Inside(v.to)
        BY <3>4
      <4>2. CASE w = v
        BY <1>1, <4>1, <4>2, Clash DEF Laid
      <4>3. CASE w = x
        BY <1>1, <3>1, <4>1, <4>3, Clash DEF Laid
      <4>4. CASE w # v /\ w # x
        BY <1>1, <3>1, <4>1, <4>4 DEF Doomed
      <4> QED
        BY <4>2, <4>3, <4>4
    <3> QED
      BY <3>1, <3>3, <3>4
  <2>2. CASE Ahead(b, work, d)
    <3>1. \A p \in Paths : Left(work \ {w}, After(d, w), p) = Left(work, d, p)
      BY <1>3, LeftStays DEF Laid
    <3>2. \A p : Written(work \ {w}, p) <=> Written(work, p)
      BY DEF Written
    <3>3. Ahead(b, work \ {w}, After(d, w))
      BY <2>2, <3>1, <3>2, AheadSame
    <3> QED
      BY <1>1, <3>3
  <2> QED
    BY <2>1, <2>2
<1> QED
  BY <1>2, <1>3

\* A write, once nothing is left to move.
LEMMA WriteAhead ==
    ASSUME NEW b \in Builds, NEW work, NEW d \in [Paths -> Says], Filling(b, work), Ahead(b, work, d),
           NEW w \in work, \A v \in work : v.kind = "write"
    PROVE  Ahead(b, work \ {w}, [d EXCEPT ![w.to] = w.says])
<1> DEFINE rest == work \ {w}
           n == [d EXCEPT ![w.to] = w.says]
<1>1. \A p : Left(work, d, p) = d[p] /\ Left(rest, n, p) = n[p]
  <2>1. \A p : SourceOf(work, p) = p /\ SourceOf(rest, p) = p
    BY SourceNone
  <2> QED
    BY <2>1 DEF Left, MovedAway
<1>2. /\ Retired[b] \subseteq Paths /\ \A m \in MovedFrom[b] : m.from \in Paths /\ m.to \in Paths
  BY PathsAssumption
<1>3. \A p \in Retired[b] \cup {m.from : m \in MovedFrom[b]} : p \in Leaving(b)
  <2>1. \A p \in Retired[b] \cup {m.from : m \in MovedFrom[b]} : p \in Kin(b, p)
    BY <1>2, KinFacts
  <2> QED
    BY <2>1 DEF Leaving
<1>4. /\ w.to \in Paths /\ (w.to \in Leaving(b) <=> w.says = 0)
      /\ w.to \notin Leaving(b) => Home(b, w.to[1]) = w.to[1]
  BY DEF Filling
<1>5. \A p \in Paths : n[p] = IF p = w.to THEN w.says ELSE d[p]
  OBVIOUS
<1>6. \A p : p # w.to => (Written(rest, p) <=> Written(work, p))
  BY DEF Written
<1> HIDE DEF rest, n
<1>7. ASSUME NEW p \in Retired[b] PROVE n[p] = 0 \/ Written(rest, p)
  <2>1. d[p] = 0 \/ Written(work, p)
    BY <1>1, <1>7 DEF Ahead
  <2>2. p \in Paths /\ p \in Leaving(b)
    BY <1>2, <1>3
  <2> QED
    BY <1>4, <1>5, <1>6, <2>1, <2>2
<1>8. ASSUME NEW m \in MovedFrom[b]
      PROVE  n[m.from] = 0 \/ Written(rest, m.from) \/ n[m.to] # 0 \/ Written(rest, m.to)
  <2>1. d[m.from] = 0 \/ Written(work, m.from) \/ d[m.to] # 0 \/ Written(work, m.to)
    BY <1>1, <1>8 DEF Ahead
  <2>2. m.from \in Paths /\ m.to \in Paths /\ m.from \in Leaving(b) /\ m.to \notin Leaving(b)
    BY <1>2, <1>3, PlansAssumption
  <2> QED
    BY <1>4, <1>5, <1>6, <2>1, <2>2
<1>9. ASSUME NEW l \in Layout[b], NEW x \in LeavesOf[l.from], <<l.to, x>> \in Reads[b]
      PROVE  n[<<l.from, x>>] = 0 \/ n[<<l.to, x>>] # 0 \/ Written(rest, <<l.to, x>>)
  <2>1. d[<<l.from, x>>] = 0 \/ d[<<l.to, x>>] # 0 \/ Written(work, <<l.to, x>>)
    BY <1>1, <1>9 DEF Ahead
  <2>2. <<l.from, x>> \in Paths /\ <<l.to, x>> \in Paths /\ Home(b, l.from) = l.to
    BY Ends DEF Paths
  <2>3. <<l.to, x>> \notin Leaving(b) /\ l.from # l.to
    BY <1>9, PlansAssumption
  <2>4. CASE w.to = <<l.from, x>>
    <3>1. w.to \in Leaving(b)
      BY <1>4, <2>2, <2>3, <2>4
    <3> QED
      BY <1>4, <1>5, <2>2, <2>4, <3>1
  <2>5. CASE w.to # <<l.from, x>>
    BY <1>4, <1>5, <1>6, <2>1, <2>2, <2>3, <2>5
  <2> QED
    BY <2>4, <2>5
<1> QED
  BY <1>1, <1>7, <1>8, <1>9 DEF Ahead, rest, n

LEMMA FinishingStep ==
    ASSUME IInv, Finishing, [Next]_vars
    PROVE  Finishing'
<1>0. /\ daemon \in Daemons /\ disk \in [Paths -> Says] /\ journal \subseteq Episodes
      /\ daemon.at # "off" => daemon.build \in Builds
  BY DEF IInv, Standing, TypeOK
<1>1. ASSUME daemon'.at \notin {"record", "apply", "settle"}, daemon'.at = "up" => ~daemon'.vouched PROVE Finishing'
  BY <1>1 DEF Finishing
<1>2. ASSUME NEW b \in Builds, Boot(b) PROVE Finishing'
  BY <1>0, <1>1, <1>2, RecoverFacts DEF Boot, Hold
<1>3. CASE Restore \/ Forget
  <2>1. daemon'.at \in {"restore", "drop"}
    BY <1>0, <1>3 DEF Restore, Forget, Hold, Daemons
  <2> QED
    BY <1>1, <2>1
<1>4. CASE Drop
  <2>1. \/ daemon.build \in Builds /\ daemon' = Recover(daemon.build, journal)
        \/ daemon' = [Off EXCEPT !.build = daemon.build, !.at = "up"]
    BY <1>0, <1>4 DEF Drop, Hold
  <2>2. CASE daemon.build \in Builds /\ daemon' = Recover(daemon.build, journal)
    BY <1>0, <1>1, <2>2, RecoverFacts
  <2>3. CASE daemon' = [Off EXCEPT !.build = daemon.build, !.at = "up"]
    <3>1. daemon'.at = "up" /\ ~daemon'.vouched
      BY <2>3 DEF Off
    <3> QED
      BY <1>1, <3>1
  <2> QED
    BY <2>1, <2>2, <2>3
<1>5. CASE Prune
  <2> DEFINE b == daemon.build
             work == Plan(b, disk)
  <2>1. /\ b \in Builds /\ daemon'.build = b /\ daemon'.work = work /\ disk' = disk
        /\ daemon'.at = (IF work = {} THEN "settle" ELSE "record")
    BY <1>5, PruneFacts
  <2>2. Laid(b, work, disk) /\ (Doomed(work, disk) \/ Ahead(b, work, disk))
    BY <1>0, <2>1, PlanLaid, PlanAhead
  <2> HIDE DEF work
  <2>3. CASE work # {}
    BY <2>1, <2>2, <2>3 DEF Finishing
  <2>4. CASE work = {}
    <3>1. Converged(b)
      <4>1. Ahead(b, {}, disk)
        BY <2>2, <2>4 DEF Doomed
      <4> QED
        BY <2>1, <4>1, NothingAhead DEF Converged
    <3> QED
      BY <2>1, <2>4, <3>1 DEF Finishing, Converged
  <2> QED
    BY <2>3, <2>4
<1>6. CASE Record \/ Open
  <2>1. daemon.at = "record" /\ disk' = disk
    BY <1>6 DEF Record, Open
  <2>2. daemon'.at \in {"record", "apply"} /\ daemon'.build = daemon.build /\ daemon'.work = daemon.work
    <3>1. CASE Record
      BY <1>0, <2>1, <3>1, RecordFacts DEF Daemons
    <3>2. CASE Open
      BY <1>0, <3>2 DEF Open, Hold, Daemons
    <3> QED
      BY <1>6, <3>1, <3>2
  <2> QED
    BY <2>1, <2>2 DEF Finishing
<1>7. CASE Apply
  <2> DEFINE b == daemon.build
             work == daemon.work
  <2>1. PICK w \in Due(work, Applying) :
            /\ ~Blocked(w)
            /\ disk' = IF w.kind = "write" THEN [disk EXCEPT ![w.to] = w.says] ELSE After(disk, w)
            /\ daemon' = [daemon EXCEPT !.work = @ \ {w}]
    BY <1>7 DEF Apply, Hold
  <2>2. daemon.at = "apply" /\ b \in Builds /\ work \in SUBSET Works
    BY <1>0, <1>7 DEF Apply, Daemons
  <2>3. /\ w \in work /\ \A v \in work : v.kind = "copy" => w.kind = "copy"
        /\ w.kind = "write" => \A v \in work : v.kind = "write"
    <3>1. /\ Applying["copy"] = 1 /\ Applying["rename"] = 2 /\ Applying["write"] = 3
          /\ \A v \in work : v.kind \in {"copy", "rename", "write"}
      BY <2>2 DEF Applying, Works
    <3>2. w \in work /\ \A v \in work : Applying[w.kind] <= Applying[v.kind]
      BY <2>1 DEF Due
    <3> QED
      BY <3>1, <3>2
  <2>4. daemon'.at = "apply" /\ daemon'.build = b /\ daemon'.work = work \ {w}
    BY <1>0, <2>1, <2>2 DEF Daemons
  <2>5. Laid(b, work, disk) /\ (Doomed(work, disk) \/ Ahead(b, work, disk))
    BY <2>2 DEF Finishing
  <2>6. Laid(b, work \ {w}, disk') /\ (Doomed(work \ {w}, disk') \/ Ahead(b, work \ {w}, disk'))
    <3>1. CASE w.kind # "write"
      <4>1. w.kind = "copy" => ~Exists(disk, w.to)
        BY <2>1 DEF Blocked
      <4> QED
        BY <2>1, <2>2, <2>3, <2>5, <3>1, <4>1, MoveAhead
    <3>2. CASE w.kind = "write"
      <4>1. Ahead(b, work, disk)
        BY <2>3, <2>5, <3>2 DEF Doomed
      <4>2. Ahead(b, work \ {w}, disk')
        BY <1>0, <2>1, <2>2, <2>3, <2>5, <3>2, <4>1, WriteAhead DEF Laid
      <4>3. Laid(b, work \ {w}, disk')
        BY <2>3, <2>5, <3>2 DEF Laid, Taken, Apart, Filling
      <4> QED
        BY <4>2, <4>3
    <3> QED
      BY <3>1, <3>2
  <2> QED
    BY <2>4, <2>6 DEF Finishing
<1>8. CASE Settle
  <2>1. Converged(daemon.build)
    <3>1. CASE daemon.at = "settle"
      BY <3>1 DEF Finishing
    <3>2. CASE daemon.at = "apply" /\ daemon.work = {}
      <4>1. Ahead(daemon.build, {}, disk)
        BY <3>2 DEF Finishing, Doomed
      <4> QED
        BY <1>0, <3>2, <4>1, NothingAhead DEF Converged
    <3> QED
      BY <1>8, <3>1, <3>2 DEF Settle
  <2>2. disk' = disk /\ daemon'.at = "up" /\ daemon'.build = daemon.build
    BY <1>8, OffType DEF Settle, Hold, Daemons
  <2> QED
    BY <2>1, <2>2 DEF Finishing, Converged
<1>9. CASE Fail \/ Collide
  <2>1. daemon.build \in Builds /\ Thrown
    BY <1>0, <1>9 DEF Fail, Collide
  <2> QED
    BY <1>1, <2>1, ThrownFacts
<1>10. ASSUME NEW p \in Paths, Edit(p) PROVE Finishing'
  <2> DEFINE b == daemon.build
  <2>1. /\ daemon.at = "up" /\ b \in Builds /\ p \in Reads[b] /\ daemon' = daemon
        /\ disk' = [disk EXCEPT ![p] = edits + 2]
    BY <1>0, <1>10 DEF Edit
  <2>2. edits + 2 # 0
    BY DEF IInv, TypeOK
  <2>3. ASSUME daemon.vouched PROVE Converged(b)'
    <3>1. Converged(b)
      BY <2>1, <2>3 DEF Finishing
    <3>2. \A q \in Paths : disk'[q] = IF q = p THEN edits + 2 ELSE disk[q]
      BY <1>0, <2>1
    <3>3. p \notin Leaving(b) /\ Home(b, p[1]) = p[1]
      BY <2>1, PlansAssumption
    <3>4. \A q \in Retired[b] \cup {m.from : m \in MovedFrom[b]} : q # p /\ q \in Paths
      <4>1. \A q \in Retired[b] \cup {m.from : m \in MovedFrom[b]} : q \in Paths /\ q \in Kin(b, q)
        BY <2>1, PathsAssumption, KinFacts
      <4> QED
        BY <3>3, <4>1 DEF Leaving
    <3>5. \A m \in MovedFrom[b] : m.to \in Paths
      BY <2>1, PathsAssumption
    <3>6. \A l \in Layout[b] : \A x \in LeavesOf[l.from] :
            <<l.from, x>> \in Paths /\ <<l.to, x>> \in Paths /\ <<l.from, x>> # p
      <4> SUFFICES ASSUME NEW l \in Layout[b], NEW x \in LeavesOf[l.from]
                   PROVE  <<l.from, x>> \in Paths /\ <<l.to, x>> \in Paths /\ <<l.from, x>> # p
        OBVIOUS
      <4>1. Home(b, l.from) = l.to /\ l.from # l.to
        BY <2>1, Ends, PlansAssumption
      <4>2. <<l.from, x>> \in Paths /\ <<l.to, x>> \in Paths
        BY <2>1, Ends DEF Paths
      <4> QED
        BY <3>3, <4>1, <4>2
    <3> QED
      BY <2>1, <2>2, <3>1, <3>2, <3>4, <3>5, <3>6 DEF Converged
  <2> QED
    BY <2>1, <2>3 DEF Finishing
<1>11. CASE Commit
  <2>1. daemon'.at = "up" /\ ~daemon'.vouched
    BY <1>0, <1>11 DEF Commit, Hold, Daemons
  <2> QED
    BY <1>1, <2>1
<1>12. CASE Week
  BY <1>1, <1>12 DEF Week
<1>13. CASE Crash
  BY <1>1, <1>13, OffType DEF Crash, Hold, Off
<1>14. CASE UNCHANGED vars
  BY <1>14 DEF vars, Finishing, Converged
<1> QED
  BY <1>2, <1>3, <1>4, <1>5, <1>6, <1>7, <1>8, <1>9, <1>10, <1>11, <1>12, <1>13, <1>14
     DEF Next, DaemonStep

\* Only a commit closes an episode, and it closes this build's.
LEMMA Closes ==
    ASSUME IInv, [Next]_vars, NEW e \in journal, e.open, NEW x \in journal', x.id = e.id, ~x.open
    PROVE  Commit /\ Digest[daemon.build] = e.digest
<1>0. /\ \A f \in journal : \A g \in journal : f.id = g.id \/ (f.open /\ g.open) => f = g
      /\ journal \subseteq Episodes
  BY DEF IInv, Standing, TypeOK
<1>1. ~(journal' \subseteq journal)
  BY <1>0
<1>2. ~Open
  <2> SUFFICES ASSUME Open PROVE FALSE
    OBVIOUS
  <2> DEFINE n == [id |-> daemon.id, digest |-> Digest[daemon.build], open |-> TRUE,
                   past |-> FALSE, entries |-> daemon.entries]
  <2>1. journal' = {f \in PrunedJournal : f.id # daemon.id} \cup {n}
    BY DEF Open
  <2>2. n.open
    OBVIOUS
  <2> HIDE DEF n
  <2>3. x \in journal
    BY <2>1, <2>2 DEF PrunedJournal
  <2> QED
    BY <1>0, <2>3
<1>3. ~Week
  <2> SUFFICES ASSUME Week PROVE FALSE
    OBVIOUS
  <2>1. PICK f \in journal : x = [f EXCEPT !.past = ~f.open]
    BY DEF Week
  <2>2. f.id = x.id /\ f.open = x.open
    BY <1>0, <2>1 DEF Episodes
  <2> QED
    BY <1>0, <2>2
<1>4. Commit
  <2>1. \/ \E b \in Builds : Boot(b)
        \/ Restore \/ Forget \/ Drop \/ Prune \/ Record \/ Open \/ Apply \/ Collide \/ Settle \/ Commit
        \/ Fail \/ (\E p \in Paths : Edit(p)) \/ Week \/ Crash \/ UNCHANGED vars
    BY DEF Next, DaemonStep
  <2>2. /\ \A b \in Builds : Boot(b) => journal' \subseteq journal
        /\ \A p \in Paths : Edit(p) => journal' \subseteq journal
    BY DEF Boot, Edit
  <2>3. Restore \/ Forget \/ Drop \/ Prune \/ Record \/ Apply => journal' \subseteq journal
    BY DEF Restore, Forget, Without, Drop, Prune, Record, Apply
  <2>4. Collide \/ Fail \/ Settle \/ Crash \/ UNCHANGED vars => journal' \subseteq journal
    BY DEF Collide, Fail, Thrown, Settle, PrunedJournal, Crash, vars
  <2> QED
    BY <1>1, <1>2, <1>3, <2>1, <2>2, <2>3, <2>4
<1>5. Digest[daemon.build] = e.digest
  BY <1>4 DEF Commit, IInv, Standing, Running
<1> QED
  BY <1>4, <1>5

\* An episode commits only over a finished conversion of the build that vouches
\* for it, whatever of it earlier boots had done.
THEOREM CommitsOverWhole == Spec => CommitsWhole
<1> DEFINE A == \A e \in journal : e.open /\ (\E x \in journal' : x.id = e.id /\ ~x.open) =>
                    Digest[daemon.build] = e.digest /\ Converged(daemon.build)
           Both == IInv /\ Finishing
<1>1. Init => Both
  BY InvInitially DEF Finishing, Init, Off
<1>2. Both /\ [Next]_vars => Both'
  BY InvStep, FinishingStep
<1>3. Both /\ [Next]_vars => [A]_vars
  <2> SUFFICES ASSUME Both, [Next]_vars PROVE A
    OBVIOUS
  <2> SUFFICES ASSUME NEW e \in journal, e.open, NEW x \in journal', x.id = e.id, ~x.open
               PROVE  Digest[daemon.build] = e.digest /\ Converged(daemon.build)
    OBVIOUS
  <2>1. Commit /\ Digest[daemon.build] = e.digest
    BY Closes
  <2> QED
    BY <2>1 DEF Commit, Finishing
<1>4. CommitsWhole <=> [][A]_vars
  BY DEF CommitsWhole
<1> HIDE DEF A, Both
<1> QED
  BY <1>1, <1>2, <1>3, <1>4, PTL DEF Spec

-----------------------------------------------------------------------------
\* The journal is written ahead.

\* Whatever file a boot changes while it applies a plan, the open episode names
\* it already, at one of its addresses (recordEpisode before applyPlan).
NamedAhead ==
    [][daemon.at = "apply" =>
        \A p \in Paths : disk'[p] # disk[p] =>
            \E e \in journal : /\ e.open /\ e.digest = Digest[daemon.build]
                               /\ \E entry \in ToSet(e.entries) : \E q \in Kin(daemon.build, p) : q \in Inside(entry.path)]_vars

Named == daemon.at = "apply" =>
    \E e \in journal : e.open /\ \A w \in daemon.work : \E entry \in ToSet(e.entries) : entry.path = w.to

LEMMA NamedStep ==
    ASSUME IInv, Named, [Next]_vars
    PROVE  Named'
<1>0. /\ daemon \in Daemons /\ journal \subseteq Episodes
      /\ daemon.at # "off" => daemon.build \in Builds
  BY DEF IInv, Standing, TypeOK
<1>1. ASSUME daemon'.at # "apply" PROVE Named'
  BY <1>1 DEF Named
<1>2. ASSUME NEW b \in Builds, Boot(b) PROVE Named'
  BY <1>0, <1>1, <1>2, RecoverFacts DEF Boot, Hold
<1>3. CASE Restore \/ Forget
  <2>1. daemon'.at \in {"restore", "drop"}
    BY <1>0, <1>3 DEF Restore, Forget, Hold, Daemons
  <2> QED
    BY <1>1, <2>1
<1>4. CASE Drop
  <2>1. \/ daemon.build \in Builds /\ daemon' = Recover(daemon.build, journal)
        \/ daemon' = [Off EXCEPT !.build = daemon.build, !.at = "up"]
    BY <1>0, <1>4 DEF Drop, Hold
  <2>2. CASE daemon.build \in Builds /\ daemon' = Recover(daemon.build, journal)
    BY <1>0, <1>1, <2>2, RecoverFacts
  <2>3. CASE daemon' = [Off EXCEPT !.build = daemon.build, !.at = "up"]
    BY <1>1, <2>3, OffType DEF Daemons
  <2> QED
    BY <2>1, <2>2, <2>3
<1>5. CASE Prune
  <2>1. daemon'.at \in {"settle", "record"}
    BY <1>5, PruneFacts
  <2> QED
    BY <1>1, <2>1
<1>6. CASE Record
  <2>1. daemon'.at = "record"
    BY <1>0, <1>6, RecordFacts DEF Daemons
  <2> QED
    BY <1>1, <2>1
<1>7. CASE Open
  <2> DEFINE n == [id |-> daemon.id, digest |-> Digest[daemon.build], open |-> TRUE,
                   past |-> FALSE, entries |-> daemon.entries]
  <2>1. /\ Unrecorded = {} /\ n \in journal' /\ daemon' = [daemon EXCEPT !.at = "apply"]
    BY <1>7 DEF Open, Hold
  <2>2. daemon'.work = daemon.work /\ n.open /\ n.entries = daemon.entries
    BY <1>0, <2>1 DEF Daemons
  <2>3. \A w \in daemon.work : \E entry \in ToSet(daemon.entries) : entry.path = w.to
    <3>1. \A w \in daemon.work : \E i \in DOMAIN daemon.entries : daemon.entries[i].path = w.to
      BY <2>1 DEF Unrecorded
    <3>2. \A i \in DOMAIN daemon.entries : daemon.entries[i] \in ToSet(daemon.entries)
      BY DEF ToSet
    <3> QED
      BY <3>1, <3>2
  <2> HIDE DEF n
  <2> QED
    BY <2>1, <2>2, <2>3 DEF Named
<1>8. CASE Apply
  <2>1. PICK w \in daemon.work : daemon' = [daemon EXCEPT !.work = @ \ {w}]
    BY <1>8, ApplyFacts
  <2>2. daemon.at = "apply" /\ journal' = journal
    BY <1>8, ApplyFacts
  <2>3. daemon'.work \subseteq daemon.work
    BY <1>0, <2>1 DEF Daemons
  <2> QED
    BY <2>2, <2>3 DEF Named
<1>9. CASE Settle
  <2>1. daemon'.at = "up"
    BY <1>9, OffType DEF Settle, Hold, Daemons
  <2> QED
    BY <1>1, <2>1
<1>10. CASE Fail \/ Collide
  <2>1. daemon.build \in Builds /\ Thrown
    BY <1>0, <1>10 DEF Fail, Collide
  <2> QED
    BY <1>1, <2>1, ThrownFacts
<1>11. ASSUME NEW p \in Paths, Edit(p) PROVE Named'
  BY <1>1, <1>11 DEF Edit
<1>12. CASE Commit
  <2>1. daemon'.at = "up"
    BY <1>0, <1>12 DEF Commit, Hold, Daemons
  <2> QED
    BY <1>1, <2>1
<1>13. CASE Week
  BY <1>1, <1>13 DEF Week
<1>14. CASE Crash
  BY <1>1, <1>14, OffType DEF Crash, Hold, Off
<1>15. CASE UNCHANGED vars
  BY <1>15 DEF vars, Named
<1> QED
  BY <1>2, <1>3, <1>4, <1>5, <1>6, <1>7, <1>8, <1>9, <1>10, <1>11, <1>12, <1>13, <1>14, <1>15
     DEF Next, DaemonStep

\* A step of a plan changes files of the address it goes to, at one of theirs.
LEMMA ApplyTouches ==
    ASSUME IInv, Finishing, Apply, NEW p \in Paths, disk'[p] # disk[p]
    PROVE  \E w \in daemon.work : \E q \in Kin(daemon.build, p) : q \in Inside(w.to)
<1>1. PICK w \in daemon.work :
        disk' = IF w.kind = "write" THEN [disk EXCEPT ![w.to] = w.says] ELSE After(disk, w)
  BY ApplyFacts
<1>2. /\ daemon.build \in Builds /\ w \in Works /\ disk \in [Paths -> Says]
      /\ w.kind # "write" => Pairs(daemon.build, w.from, w.to)
      /\ w.kind = "write" => w.to \in Paths
  BY ApplyFacts DEF IInv, RecordTrue, WorkOf, TypeOK, Daemons
<1>3. p \in Kin(daemon.build, p)
  BY <1>2, KinFacts
<1>4. CASE w.kind = "write"
  <2>1. p = w.to
    BY <1>1, <1>2, <1>4
  <2>2. p \in Inside(w.to)
    <3>1. p[1] \in Trees /\ p[2] \in LeavesOf[p[1]]
      BY PathShape
    <3>2. p[2] # All
      BY <3>1, PathsAssumption
    <3> QED
      BY <2>1, <3>2 DEF Inside
  <2> QED
    BY <1>3, <2>2
<1>5. CASE w.kind # "write" /\ p \in Inside(w.to)
  BY <1>3, <1>5
<1>6. CASE w.kind # "write" /\ p \notin Inside(w.to)
  <2>1. After(disk, w)[p] = IF w.kind = "rename" /\ p \in Inside(w.from) THEN 0 ELSE disk[p]
    BY <1>6 DEF After
  <2>2. p \in Inside(w.from)
    BY <1>1, <1>6, <2>1
  <2>3. Taken(daemon.build, daemon.work, disk) /\ daemon.work \in SUBSET Works
    BY ApplyFacts DEF Finishing, Laid, IInv, TypeOK, Daemons
  <2>4. PICK l \in Layout[daemon.build] :
            /\ \A n : <<l.from, n>> \in Inside(w.from) => <<l.to, n>> \in Inside(w.to)
            /\ \A q \in Inside(w.from) : q[1] = l.from
    BY <1>2, <1>6, <2>3, MoveFacts
  <2>5. p = <<l.from, p[2]>>
    BY <2>2, <2>4, PathShape
  <2>6. <<l.to, p[2]>> \in Inside(w.to)
    BY <2>2, <2>4, <2>5
  <2>7. <<l.to, p[2]>> \in Kin(daemon.build, p)
    BY <1>2, <2>2, <2>4, OtherEnd
  <2> QED
    BY <2>6, <2>7
<1> QED
  BY <1>4, <1>5, <1>6

\* The journal is written ahead of the files: what a boot changes, a later one
\* finds named in an open episode.
THEOREM JournalWrittenAhead == Spec => NamedAhead
<1> DEFINE A == daemon.at = "apply" =>
                    \A p \in Paths : disk'[p] # disk[p] =>
                        \E e \in journal : /\ e.open /\ e.digest = Digest[daemon.build]
                                           /\ \E entry \in ToSet(e.entries) :
                                                \E q \in Kin(daemon.build, p) : q \in Inside(entry.path)
           Together == IInv /\ Finishing /\ Named
<1>1. Init => Together
  BY InvInitially DEF Finishing, Named, Init, Off
<1>2. Together /\ [Next]_vars => Together'
  BY InvStep, FinishingStep, NamedStep
<1>3. Together /\ [Next]_vars => [A]_vars
  <2> SUFFICES ASSUME Together, [Next]_vars, daemon.at = "apply", NEW p \in Paths, disk'[p] # disk[p]
               PROVE  \E e \in journal : /\ e.open /\ e.digest = Digest[daemon.build]
                                         /\ \E entry \in ToSet(e.entries) :
                                                \E q \in Kin(daemon.build, p) : q \in Inside(entry.path)
    OBVIOUS
  <2>1. Apply
    <3>1. ASSUME NEW b \in Builds PROVE ~Boot(b)
      BY DEF Boot
    <3>2. ASSUME NEW r \in Paths PROVE ~Edit(r)
      BY DEF Edit
    <3>3. ~(Restore \/ Forget \/ Drop \/ Prune \/ Record \/ Commit \/ Week)
      BY DEF Restore, Forget, Drop, Prune, Record, Commit, Week
    <3>4. ~(Open \/ Collide \/ Fail \/ Settle \/ Crash \/ UNCHANGED vars)
      BY DEF Open, Collide, Fail, Thrown, Settle, Crash, vars
    <3> QED
      BY <3>1, <3>2, <3>3, <3>4 DEF Next, DaemonStep
  <2>2. PICK w \in daemon.work : \E q \in Kin(daemon.build, p) : q \in Inside(w.to)
    BY <2>1, ApplyTouches
  <2>3. PICK e \in journal : e.open /\ \E entry \in ToSet(e.entries) : entry.path = w.to
    BY DEF Named
  <2>4. e.digest = Digest[daemon.build]
    BY <2>3 DEF IInv, Standing, Running
  <2> QED
    BY <2>2, <2>3, <2>4
<1>4. NamedAhead <=> [][A]_vars
  BY DEF NamedAhead
<1> HIDE DEF A, Together
<1> QED
  BY <1>1, <1>2, <1>3, <1>4, PTL DEF Spec
=============================================================================
