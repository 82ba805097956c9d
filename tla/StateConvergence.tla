--------------------------- MODULE StateConvergence ---------------------------
(***************************************************************************)
(* An update converts the files of a sandbox under a write-ahead journal   *)
(* (store/evolution/state-convergence.ts and state-journal.ts): before a   *)
(* boot changes a file it copies it aside (its pre-image) and writes an    *)
(* open episode, and the episode commits once the build has booted all the *)
(* way.  A build that finds an episode of another conversion set puts its  *)
(* files back before it opens a store; one that finds its own resumes it.  *)
(*                                                                         *)
(* One action is one effect on the disk, and the process may die between   *)
(* any two.  A path is <<tree, leaf>>; a tree of Files is one file, any    *)
(* other a directory, whose own path is <<tree, All>>.  What a file says   *)
(* is a number, 0 when there is none.  A build is what it plans: trees put *)
(* at another address (Layout), documents copied from an earlier one       *)
(* (MovedFrom), files it deletes (Retired); Reads is what its stores read. *)
(*                                                                         *)
(* Left out: the ledger and the newest-run stamp, which decide nothing     *)
(* here; episodes this build cannot parse; effects, which no step has; an  *)
(* input or output error anywhere but while an episode is recorded and     *)
(* applied; guests, which write nothing; a copy cut off half way.          *)
(***************************************************************************)
EXTENDS Naturals, Sequences, FiniteSets, SequencesExt

CONSTANTS
    Builds,         \* the releases the host may boot here
    Digest,         \* [Builds -> conversion set]
    Trees, Files,   \* the addresses under the roots; those that are one file
    LeavesOf,       \* [Trees -> set of file names]
    Layout,         \* [Builds -> set of [mode, from, to]], trees regrouped
    MovedFrom,      \* [Builds -> set of [from, to]], documents by path
    Retired,        \* [Builds -> set of paths], what a content step deletes
    Reads,          \* [Builds -> set of paths], what its stores open
    First,          \* the build that ran here before any other
    All, None,
    MaxCrashes,     \* bound: times the process dies, an update included
    MaxFails,       \* bound: times applying a plan throws
    MaxEdits        \* bound: writes by the stores

Paths == UNION {{<<t, l>> : l \in LeavesOf[t]} : t \in Trees}
Inside(path) == IF path[2] = All THEN {<<path[1], l>> : l \in LeavesOf[path[1]]} ELSE {path}

ASSUME PathsAssumption ==
    /\ Files \subseteq Trees /\ First \in Builds
    /\ \A t \in Trees : All \notin LeavesOf[t]
    /\ \A t \in Files : \E l \in LeavesOf[t] : LeavesOf[t] = {l}
    /\ \A b \in Builds :
        /\ Retired[b] \cup Reads[b] \subseteq Paths
        /\ \A m \in MovedFrom[b] : m.from \in Paths /\ m.to \in Paths
        /\ \A l \in Layout[b] : /\ l.mode \in {"copy", "rename"} /\ l.from \in Trees /\ l.to \in Trees
                               /\ LeavesOf[l.from] = LeavesOf[l.to]
    /\ MaxCrashes \in Nat /\ MaxFails \in Nat /\ MaxEdits \in Nat

\* The address a tree has once a build has converted, and the addresses a file
\* may come from or go to.
Home(b, t) ==
    IF \E l \in Layout[b] : l.from = t THEN (CHOOSE l \in Layout[b] : l.from = t).to ELSE t
Kin(b, p) == {q \in Paths : Home(b, q[1]) = Home(b, p[1]) /\ q[2] = p[2]}

\* Files a plan may delete, at any of their addresses.
Leaving(b) == UNION {Kin(b, p) : p \in Retired[b] \cup {m.from : m \in MovedFrom[b]}}

\* A tree is regrouped to one address, which is not one emptied, and only
\* copies share theirs; stores open, and documents move to, addresses that stay;
\* builds of one conversion set convert the same files the same way.
ASSUME PlansAssumption ==
    /\ \A b \in Builds :
        /\ \A l \in Layout[b] : \A k \in Layout[b] :
            l.from # k.to /\ (l # k => l.from # k.from /\ (l.to = k.to => l.mode = "copy"))
        /\ \A p \in Reads[b] \cup {m.to : m \in MovedFrom[b]} : p \notin Leaving(b) /\ Home(b, p[1]) = p[1]
    /\ \A b \in Builds : \A c \in Builds : Digest[b] = Digest[c] =>
        Layout[b] = Layout[c] /\ MovedFrom[b] = MovedFrom[c] /\ Retired[b] = Retired[c]

VARIABLES
    disk,       \* [Paths -> Nat], what the volumes hold
    journal,    \* set of episodes, as last written
    images,     \* pre-images on the disk: [<<episode, path>> -> Nat], partial
    seen,       \* earlier addresses the journal knows: [Paths -> stage], partial
    daemon,     \* the running process: its build, where it is, what it holds
    before,     \* history: the disk as the open episode found it, and the edits
    ids, crashes, fails, edits

vars == <<disk, journal, images, seen, daemon, before, ids, crashes, fails, edits>>

Off == [build |-> None, at |-> "off", work |-> {}, entries |-> <<>>, id |-> 0,
        resumed |-> FALSE, then |-> "off", vouched |-> FALSE, saw |-> {}]

Exists(d, path) == \E p \in Inside(path) : d[p] # 0
-----------------------------------------------------------------------------
\* Planning: reads only.

Whole(t) == IF t \in Files THEN CHOOSE l \in LeavesOf[t] : TRUE ELSE All

\* A tree goes whole to a free address; of two directories, the entries the
\* second lacks.
Placed(d, p) ==
    LET op(l) == [kind |-> p.mode, from |-> <<p.from, l>>, to |-> <<p.to, l>>, says |-> 0]
        lacking == {l \in LeavesOf[p.from] : d[<<p.from, l>>] # 0 /\ d[<<p.to, l>>] = 0}
    IN  IF ~Exists(d, <<p.from, Whole(p.from)>>) THEN {}
        ELSE IF ~Exists(d, <<p.to, Whole(p.to)>>) THEN {op(Whole(p.from))}
        ELSE IF p.from \in Files \/ p.to \in Files THEN {}
        ELSE {op(l) : l \in lacking}

Source(op, p) == <<op.from[1], p[2]>>

\* The disk after a tree or a file was copied or renamed.
After(d, op) ==
    [p \in Paths |->
        IF p \in Inside(op.to) THEN d[Source(op, p)]
        ELSE IF op.kind = "rename" /\ p \in Inside(op.from) THEN 0
        ELSE d[p]]

Layouts(b, d) == UNION {Placed(d, p) : p \in Layout[b]}

\* Where a file's bytes are before the copies and renames (sourceOf).
SourceOf(work, path) ==
    LET over == {op \in work : op.kind # "write" /\ path \in Inside(op.to)}
    IN  IF over = {} THEN path ELSE Source(CHOOSE op \in over : TRUE, path)

MovedAway(work, path) == \E op \in work : op.kind = "rename" /\ path \in Inside(op.from)

\* The volumes as the layout steps will leave them.
Overlay(b, d) ==
    LET ops == Layouts(b, d)
    IN  [p \in Paths |-> IF MovedAway(ops, p) THEN 0 ELSE d[SourceOf(ops, p)]]

\* A moved document is copied into place and its earlier copy removed a grace
\* window after it was first seen; a content step then deletes what retired.
Writes(b, d) ==
    LET o == Overlay(b, d)
        write(p, v) == [kind |-> "write", from |-> p, to |-> p, says |-> v]
        into == {write(m.to, o[m.from]) : m \in {x \in MovedFrom[b] : o[x.to] = 0 /\ o[x.from] # 0}}
        aged == {write(m.from, 0) :
                    m \in {x \in MovedFrom[b] : o[x.from] # 0 /\ x.from \in DOMAIN seen /\ seen[x.from] = "past"}}
        gone == {write(p, 0) : p \in {x \in Retired[b] : o[x] # 0}}
    IN  into \cup aged \cup gone

NewlySeen(b, d) ==
    {m.from : m \in {x \in MovedFrom[b] : Overlay(b, d)[x.from] # 0 /\ x.from \notin DOMAIN seen}}

Plan(b, d) == Layouts(b, d) \cup Writes(b, d)

\* applyPlan goes by copies, renames, writes; an episode records the renames
\* first.  Within a kind the order is the tables', and any here.
Applying == [copy |-> 1, rename |-> 2, write |-> 3]
Recording == [rename |-> 1, copy |-> 2, write |-> 3]
Due(work, order) == {w \in work : \A x \in work : order[w.kind] <= order[x.kind]}
-----------------------------------------------------------------------------
\* Episodes.

\* The journal is an array; with one episode open at most (OneOpen) the order
\* of its episodes decides nothing.
OpenOf(digest) == {e \in journal : e.open /\ e.digest = digest}
Without(id) == {e \in journal : e.id # id}
Dropped(id) == [k \in {x \in DOMAIN images : x[1] # id} |-> images[k]]

Init ==
    /\ disk = [p \in Paths |-> IF p \in Reads[First] THEN 1 ELSE 0]
    /\ journal = {} /\ images = <<>> /\ seen = <<>>
    /\ daemon = Off
    /\ before = [disk |-> disk, edits |-> 0]
    /\ ids = 0 /\ crashes = 0 /\ fails = 0 /\ edits = 0

Hold(d) == daemon' = d
Kept == UNCHANGED <<crashes, fails, edits>>

\* Mutant: another build's episode is left as it is.
RecoverNone(b, j) == [Off EXCEPT !.build = b, !.at = "prune"]

\* Which episode this boot puts back next, or on to pruning and planning.
Recover(b, j) ==
    LET others == {e \in j : e.open /\ e.digest # Digest[b]}
        e == CHOOSE x \in others : TRUE
    IN  IF others = {} THEN [Off EXCEPT !.build = b, !.at = "prune"]
        ELSE [Off EXCEPT !.build = b, !.at = "restore", !.id = e.id, !.entries = e.entries,
                         !.then = "recover"]

Boot(b) ==
    /\ daemon.at = "off"
    /\ Hold(Recover(b, journal))
    /\ UNCHANGED <<disk, journal, images, seen, before, ids>> /\ Kept

\* Newest entry first: renamed back unless its address is taken again, removed
\* when it was not there, copied back from its pre-image otherwise.
PutBack(entry) ==
    CASE entry.moved ->
            IF Exists(disk, entry.from) THEN disk
            ELSE After(disk, [kind |-> "rename", from |-> entry.path, to |-> entry.from])
      [] ~entry.moved /\ ~entry.image -> [p \in Paths |-> IF p \in Inside(entry.path) THEN 0 ELSE disk[p]]
      [] ~entry.moved /\ entry.image -> [disk EXCEPT ![entry.path] = images[<<daemon.id, entry.path>>]]

\* Mutant: each pre-image goes as its file is put back.
RestoreDrops ==
    /\ daemon.at = "restore" /\ daemon.entries # <<>>
    /\ disk' = PutBack(Last(daemon.entries))
    /\ Hold([daemon EXCEPT !.entries = Front(@)])
    /\ images' = [k \in {x \in DOMAIN images : x # <<daemon.id, Last(daemon.entries).path>>} |-> images[k]]
    /\ UNCHANGED <<journal, seen, before, ids>> /\ Kept

\* Mutant: oldest entry first.
RestoreOldest ==
    /\ daemon.at = "restore" /\ daemon.entries # <<>>
    /\ disk' = PutBack(Head(daemon.entries))
    /\ Hold([daemon EXCEPT !.entries = Tail(@)])
    /\ UNCHANGED <<journal, images, seen, before, ids>> /\ Kept

Restore ==
    /\ daemon.at = "restore" /\ daemon.entries # <<>>
    /\ disk' = PutBack(Last(daemon.entries))
    /\ Hold([daemon EXCEPT !.entries = Front(@)])
    /\ UNCHANGED <<journal, images, seen, before, ids>> /\ Kept

\* The journal forgets the episode only once everything is back ...
Forget ==
    /\ daemon.at = "restore" /\ daemon.entries = <<>>
    /\ journal' = Without(daemon.id)
    /\ Hold([daemon EXCEPT !.at = "drop"])
    /\ UNCHANGED <<disk, images, seen, before, ids>> /\ Kept

\* ... and its pre-images go only once it is forgotten.
Drop ==
    /\ daemon.at = "drop"
    /\ images' = Dropped(daemon.id)
    /\ Hold(IF daemon.then = "recover" THEN Recover(daemon.build, journal)
            ELSE [Off EXCEPT !.build = daemon.build, !.at = "up"])
    /\ UNCHANGED <<disk, journal, seen, before, ids>> /\ Kept

\* pruneEpisodes drops the pre-images of committed episodes past the grace
\* window; then the plan, and which episode it is applied under.
Prune ==
    /\ daemon.at = "prune"
    /\ LET past == {e.id : e \in {x \in journal : ~x.open /\ x.past}}
           b == daemon.build
           mine == OpenOf(Digest[b])
           work == Plan(b, disk)
           e == CHOOSE x \in mine : TRUE
       IN  /\ images' = [k \in {x \in DOMAIN images : x[1] \notin past} |-> images[k]]
           /\ Hold([daemon EXCEPT
                    !.at = IF work = {} THEN "settle" ELSE "record",
                    !.work = work,
                    !.saw = NewlySeen(b, disk),
                    !.resumed = mine # {},
                    !.id = IF mine = {} THEN ids + 1 ELSE e.id,
                    !.entries = IF mine = {} THEN <<>> ELSE e.entries])
           /\ ids' = IF mine = {} /\ work # {} THEN ids + 1 ELSE ids
    /\ UNCHANGED <<disk, journal, seen, before>> /\ Kept

\* What the episode has not recorded yet.
Unrecorded ==
    {w \in daemon.work : \A i \in DOMAIN daemon.entries : daemon.entries[i].path # w.to}

CopiedAside(key, says) ==
    [k \in DOMAIN images \cup {key} |-> IF k = key THEN says ELSE images[k]]

Record ==
    /\ daemon.at = "record"
    /\ \E w \in Due(Unrecorded, Recording) :
        LET from == SourceOf(daemon.work, w.to)
            image == w.kind = "write" /\ disk[from] # 0
            entry == [path |-> w.to, from |-> w.from, moved |-> w.kind = "rename", image |-> image]
        IN  /\ images' = IF image
                         THEN CopiedAside(<<daemon.id, w.to>>, disk[from])
                         ELSE images
            /\ Hold([daemon EXCEPT !.entries = Append(@, entry)])
    /\ UNCHANGED <<disk, journal, seen, before, ids>> /\ Kept

PrunedJournal == {e \in journal : e.open \/ ~e.past}

\* A copy never overwrites (cp with errorOnExist): of two trees that go to one
\* address, the second throws.
Blocked(w) == w.kind = "copy" /\ Exists(disk, w.to)

\* The journal names the episode before a single target is written.
Open ==
    /\ daemon.at = "record" /\ Unrecorded = {}
    /\ journal' = {e \in PrunedJournal : e.id # daemon.id}
                    \cup {[id |-> daemon.id, digest |-> Digest[daemon.build], open |-> TRUE,
                           past |-> FALSE, entries |-> daemon.entries]}
    /\ before' = IF daemon.resumed THEN before ELSE [disk |-> disk, edits |-> edits]
    /\ Hold([daemon EXCEPT !.at = "apply"])
    /\ UNCHANGED <<disk, images, seen, ids>> /\ Kept

Apply ==
    /\ daemon.at = "apply"
    /\ \E w \in Due(daemon.work, Applying) :
        /\ ~Blocked(w)
        /\ disk' = IF w.kind = "write" THEN [disk EXCEPT ![w.to] = w.says] ELSE After(disk, w)
        /\ Hold([daemon EXCEPT !.work = @ \ {w}])
    /\ UNCHANGED <<journal, images, seen, before, ids>> /\ Kept

WithSeen(paths) ==
    [p \in DOMAIN seen \cup paths |-> IF p \in paths THEN "new" ELSE seen[p]]

\* Mutants: settling does not wait for the plan; only a boot that had work may
\* commit.
SettleAtOnce ==
    /\ daemon.at \in {"settle", "apply"}
    /\ seen' = WithSeen(daemon.saw)
    /\ journal' = PrunedJournal
    /\ Hold([Off EXCEPT !.build = daemon.build, !.at = "up", !.vouched = TRUE])
    /\ UNCHANGED <<disk, images, before, ids>> /\ Kept
SettleWorked ==
    /\ \/ daemon.at = "settle"
       \/ daemon.at = "apply" /\ daemon.work = {}
    /\ seen' = WithSeen(daemon.saw)
    /\ journal' = PrunedJournal
    /\ Hold([Off EXCEPT !.build = daemon.build, !.at = "up", !.vouched = daemon.at = "apply"])
    /\ UNCHANGED <<disk, images, before, ids>> /\ Kept

\* Nothing left to apply: the journal is written again for the addresses first
\* seen now and what was pruned, and this boot may commit.
Settle ==
    /\ \/ daemon.at = "settle"
       \/ daemon.at = "apply" /\ daemon.work = {}
    /\ seen' = WithSeen(daemon.saw)
    /\ journal' = PrunedJournal
    /\ Hold([Off EXCEPT !.build = daemon.build, !.at = "up", !.vouched = TRUE])
    /\ UNCHANGED <<disk, images, before, ids>> /\ Kept

\* Recording or applying throws.  A new episode not yet in the journal takes
\* its copies with it; whatever the journal names open of this conversion set
\* is put back at once, and this boot vouches for nothing.
Thrown ==
    /\ LET unnamed == daemon.at = "record" /\ ~daemon.resumed
           mine == OpenOf(Digest[daemon.build])
           e == CHOOSE x \in mine : TRUE
       IN  /\ images' = IF unnamed THEN Dropped(daemon.id) ELSE images
           /\ Hold(IF mine = {} THEN [Off EXCEPT !.build = daemon.build, !.at = "up"]
                   ELSE [Off EXCEPT !.build = daemon.build, !.at = "restore", !.id = e.id,
                                    !.entries = e.entries, !.then = "up"])
    /\ UNCHANGED <<disk, journal, seen, before, ids, crashes, edits>>

Fail ==
    /\ daemon.at \in {"record", "apply"} /\ fails < MaxFails
    /\ fails' = fails + 1
    /\ Thrown

Collide ==
    /\ daemon.at = "apply" /\ \E w \in Due(daemon.work, Applying) : Blocked(w)
    /\ UNCHANGED fails
    /\ Thrown

\* The stores are open, and write what they read.
Edit(p) ==
    /\ daemon.at = "up" /\ p \in Reads[daemon.build] /\ edits < MaxEdits
    /\ edits' = edits + 1
    /\ disk' = [disk EXCEPT ![p] = edits + 2]
    /\ UNCHANGED <<journal, images, seen, daemon, before, ids, crashes, fails>>

\* The build has booted all the way: only the episode it converged itself.
Commit ==
    /\ daemon.at = "up" /\ daemon.vouched
    /\ LET mine == OpenOf(Digest[daemon.build])
           e == CHOOSE x \in mine : TRUE
       IN  journal' = IF mine = {} THEN journal
                      ELSE (journal \ {e}) \cup {[e EXCEPT !.open = FALSE]}
    /\ Hold([daemon EXCEPT !.vouched = FALSE])
    /\ UNCHANGED <<disk, images, seen, before, ids>> /\ Kept

\* A grace window passes.
Week ==
    /\ daemon.at = "off"
    /\ \/ \E p \in DOMAIN seen : seen[p] = "new"
       \/ \E e \in journal : ~e.open /\ ~e.past
    /\ seen' = [p \in DOMAIN seen |-> "past"]
    /\ journal' = {[e EXCEPT !.past = ~e.open] : e \in journal}
    /\ UNCHANGED <<disk, images, daemon, before, ids>> /\ Kept

\* Killed, rolled back or updated: the process is gone, wherever it was.
Crash ==
    /\ daemon.at # "off" /\ crashes < MaxCrashes
    /\ crashes' = crashes + 1
    /\ Hold(Off)
    /\ UNCHANGED <<disk, journal, images, seen, before, ids, fails, edits>>

DaemonStep == Restore \/ Forget \/ Drop \/ Prune \/ Record \/ Open \/ Apply \/ Collide \/ Settle \/ Commit

Next ==
    \/ \E b \in Builds : Boot(b)
    \/ DaemonStep
    \/ Fail
    \/ \E p \in Paths : Edit(p)
    \/ Week
    \/ Crash

Spec == Init /\ [][Next]_vars

\* The host starts the sandbox again after it died, and a running boot goes on
\* to its end; which build it starts, a failure and a death are never due.
Fairness == WF_vars(DaemonStep) /\ WF_vars(\E b \in Builds : Boot(b))
FairSpec == Spec /\ Fairness
-----------------------------------------------------------------------------
\* What converging promises.

Says == 0 .. MaxEdits + 1
Addresses == Paths \cup Trees \X {All}
Works == [kind : {"copy", "rename", "write"}, from : Addresses, to : Addresses, says : Says]
Entries == [path : Addresses, from : Addresses, moved : BOOLEAN, image : BOOLEAN]
Episodes ==
    [id : Nat, digest : {Digest[b] : b \in Builds}, open : BOOLEAN, past : BOOLEAN, entries : Seq(Entries)]
Daemons ==
    [build : Builds \cup {None}, at : {"off", "restore", "drop", "prune", "record", "apply", "settle", "up"},
     work : SUBSET Works, entries : Seq(Entries), id : Nat, resumed : BOOLEAN,
     then : {"off", "recover", "up"}, vouched : BOOLEAN, saw : SUBSET Paths]

TypeOK ==
    /\ disk \in [Paths -> Says]
    /\ journal \subseteq Episodes /\ \A e \in journal : e.id \in 1 .. ids
    /\ DOMAIN images \subseteq (1 .. ids) \X Paths /\ \A k \in DOMAIN images : images[k] \in Says
    /\ DOMAIN seen \subseteq Paths /\ \A p \in DOMAIN seen : seen[p] \in {"new", "past"}
    /\ daemon \in Daemons
    /\ before \in [disk : [Paths -> Says], edits : 0 .. MaxEdits]
    /\ ids \in Nat /\ crashes \in 0 .. MaxCrashes /\ fails \in 0 .. MaxFails /\ edits \in 0 .. MaxEdits

\* Whatever died when, at most one episode is open: the put-back after a
\* failure and the commit at the end of a boot each take the first they find.
OneOpen == Cardinality({e \in journal : e.open}) <= 1

\* Every pre-image an open episode names is on the disk and is the file as it
\* was before that episode began, at its address or at one the regrouping
\* brings there, through any number of resumed boots: the bytes a rollback
\* needs are never the half-converted ones.
ImagesTrue ==
    \A e \in journal : e.open =>
        \A entry \in ToSet(e.entries) : entry.image =>
            /\ <<e.id, entry.path>> \in DOMAIN images
            /\ \E b \in Builds : Digest[b] = e.digest
                /\ \E p \in Kin(b, entry.path) : images[<<e.id, entry.path>>] = before.disk[p]

\* Files an episode renamed each to a path that it deleted as well. It has one entry
\* for a path, the rename's, so none of these has a pre-image and a put-back loses
\* them: PutBackAsWas is the promise it breaks.
Unimaged(e) ==
    {entry.from : entry \in {x \in ToSet(e.entries) :
        x.moved /\ \E b \in Builds : Digest[b] = e.digest
                                     /\ x.path \in Retired[b] \cup {m.from : m \in MovedFrom[b]}}}

\* When the journal forgets an episode, every file the running build's stores
\* are about to open is what it was before the episode, or what a store has
\* written since, but for those: wherever the update, or an earlier put-back, was
\* cut off, and whatever was written into a tree after it was renamed.
PutBackWhole ==
    [][\A e \in journal :
        e.open /\ e.id \notin {x.id : x \in journal'} =>
            \A p \in Reads[daemon.build] \ Unimaged(e) :
                disk[p] = before.disk[p] \/ disk[p] > before.edits + 1]_vars

\* An episode commits only over a finished conversion: what the build retired
\* is gone, and whatever an earlier address holds, its stores find at theirs.
Converged(b) ==
    /\ \A p \in Retired[b] : disk[p] = 0
    /\ \A m \in MovedFrom[b] : disk[m.from] # 0 => disk[m.to] # 0
    /\ \A p \in Layout[b] : \A l \in LeavesOf[p.from] :
            disk[<<p.from, l>>] # 0 /\ <<p.to, l>> \in Reads[b] => disk[<<p.to, l>>] # 0
CommitsWhole ==
    [][\A e \in journal : e.open /\ (\E x \in journal' : x.id = e.id /\ ~x.open) =>
            Digest[daemon.build] = e.digest /\ Converged(daemon.build)]_vars

\* No episode stays open for good: it commits, or is put back.
EpisodeCloses == (\E e \in journal : e.open) ~> (\A e \in journal : ~e.open)

\* What state-journal.ts says of a put-back ("Puts every file an episode touched
\* back as it was"), of every file, whichever build reads it.
PutBackAsWas ==
    [][\A e \in journal : e.open /\ e.id \notin {x.id : x \in journal'} =>
        \A entry \in ToSet(e.entries) : \A p \in Inside(entry.from) : disk[p] = before.disk[p]]_vars
=============================================================================
