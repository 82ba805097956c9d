-------------------------- MODULE Admission_proofs --------------------------
(***************************************************************************)
(* What a conversation owes its senders, for any messages, number of turns,*)
(* restarts and presses: a message is carried to the model by one turn and *)
(* its re-runs, none is lost, none waits and goes, what was taken back is  *)
(* not said, and so every step keeps the promise of MessageDelivery, each  *)
(* of them for as long as no restart lost the message's id. It rests       *)
(* on where each message can be (MessageSound), which rests on how the     *)
(* runs stand (RunsSound), on recovery going first (RecoveryAlone) and on  *)
(* what the record has the ids of (IdsKept).                               *)
(***************************************************************************)
EXTENDS Admission, TurnQueue_proofs

\* What waits, as admission keeps it: whole messages in a row, all at revision 0.
Waits(q) ==
    /\ Keeps(q)
    /\ \A i \in DOMAIN q.items : q.items[i].revision = 0
    /\ Ids(q.items) \subseteq MessageIds

RunShape ==
    [stage : OpenStages \cup {"none", "done", "ended", "cut"}, batch : Seq(MessageIds),
     told : SUBSET MessageIds, keeps : BOOLEAN, unrun : BOOLEAN, stopping : BOOLEAN,
     origin : 0..MaxRun]

OpShape ==
    [step : {"free", "start", "steer", "take", "deliver"},
     from : {"none", "door", "queue", "again", "continuation"}, batch : Seq(MessageIds)]

Shapes ==
    /\ Waits(queue)
    /\ runs \in [Runs -> RunShape]
    /\ resuming \in 0..MaxRun /\ left \in 0..MaxRun
    /\ row \in [run : 0..MaxRun, staged : 0..MaxRun]
    /\ op \in OpShape /\ asked \in BOOLEAN
    /\ receipts \subseteq MessageIds /\ recorded \subseteq MessageIds
    /\ named \subseteq MessageIds /\ forgotten \subseteq MessageIds
    /\ accepted \subseteq MessageIds /\ takenBack \subseteq MessageIds
    /\ heard \in [MessageIds -> SUBSET Runs]

Unspoken == {"none", "claimed", "begun"}

\* The turns told a message, those that ran nothing with it left out.
Tellers(id) == {r \in Runs : ~runs[r].unrun /\ id \in runs[r].told}

\* What a refusal has yet to hand back.
Handed == UNION {Named(runs[r].batch) : r \in HandBack}

\* What the lock is taking out of the queue, and what it is about to say.
Taking == IF op.step = "take" THEN Named(op.batch) ELSE {}
Going == IF op.step \in {"start", "steer"} THEN Named(op.batch) ELSE {}

\* The runs among themselves.
RunSound(r) ==
    /\ runs[r].stage = "none" => runs[r] = NoRun
    /\ Named(runs[r].batch) \subseteq runs[r].told
    /\ runs[r].stage # "none" => runs[r].origin \in Runs
    /\ runs[r].stage # "none" /\ runs[r].origin # r => runs[runs[r].origin].stage \notin Unspoken
    /\ runs[r].keeps => runs[r].origin = r
    /\ runs[r].unrun => runs[r].stage \in {"done", "ended"} /\ runs[r].told = Named(runs[r].batch)

\* Where what a run was told is kept.
RunKept(r) ==
    /\ r \in Running => row.run = r
    /\ runs[r].stage = "ended" /\ ~runs[r].unrun => runs[r].told \subseteq recorded
    /\ runs[r].stage = "cut" => r = left \/ runs[r].told \subseteq recorded
    /\ runs[r].stage \in OpenStages \cup {"done"} \/ r \in HandBack =>
         runs[r].told \subseteq receipts \cup recorded \cup Taking

RunsSound ==
    /\ \A r \in Runs : RunSound(r) /\ RunKept(r)
    /\ \A q, r \in Ongoing : q = r
    /\ resuming # 0 => runs[resuming].stage \in {"done", "ended"} /\ ~runs[resuming].unrun
    /\ row.run # 0 => runs[row.run].stage \notin {"none", "ended"}
    /\ op.step = "take" => \E r \in Runs : runs[r].stage = "claimed" /\ runs[r].told = Named(op.batch)

\* A boot recovers the run its row names before anything else goes on.
RecoveryAlone ==
    left # 0 =>
        /\ row.run = left /\ runs[left].stage = "cut"
        /\ op.step = "free" /\ ~asked /\ resuming = 0
        /\ \A r \in Runs : /\ runs[r].stage \notin OpenStages \cup {"done"}
                           /\ ~runs[r].keeps

\* What the lock is in the middle of.
OpSound ==
    /\ op.step \in {"start", "steer", "take"} => op.batch # << >>
    /\ op.step = "steer" \/ (op.step = "start" /\ op.from = "door") => Len(op.batch) = 1
    /\ op.step = "start" => op.from # "none"
    /\ op.step = "steer" => op.from \in {"door", "queue"}

\* Where one message is: with tellers of one origin, which alone has heard it,
\* or in one other place.
MessageSound(id) ==
    /\ \A q, r \in Tellers(id) : runs[q].origin = runs[r].origin
    /\ \A o \in heard[id] : /\ runs[o].stage \notin Unspoken
                            /\ \E r \in Tellers(id) : runs[r].origin = o
    /\ id \in recorded => \E r \in Tellers(id) : runs[r].stage \in {"done", "ended", "cut"}
    /\ id \in Ids(queue.items) /\ Tellers(id) # {} => id \in Taking
    /\ id \in Handed => id \notin Ids(queue.items) /\ Tellers(id) = {}
    /\ id \in Going => /\ Tellers(id) = {} /\ id \notin Handed /\ id \notin takenBack
                       /\ op.from = "door" => id \notin Ids(queue.items)
    /\ id \in takenBack => id \notin Ids(queue.items) /\ id \notin Handed /\ Tellers(id) = {}
    /\ id \in accepted =>
         \/ id \in Ids(queue.items) \cup takenBack \cup recorded
         \/ \E r \in Runs : /\ id \in runs[r].told
                            /\ \/ r \in Ongoing \cup HandBack
                               \/ runs[r].stage = "done" /\ ~runs[r].unrun
                               \/ left # 0 /\ r = left

\* The messages no restart has lost the id of.
Clear == MessageIds \ forgotten

\* What the record tells of is answered again unless a restart lost its id: it is
\* named there, or was joined behind another and is answered from memory. What
\* was lost is on the record, or is being put there.
IdsKept ==
    /\ \A id \in recorded : \/ id \in named
                            \/ \E r \in Runs : /\ runs[r].stage \in {"done", "ended", "cut"}
                                             /\ ~runs[r].unrun /\ id \in Behind(r)
    /\ recorded \ forgotten \subseteq receipts \cup named \cup Taking
    /\ left # 0 => Behind(left) \subseteq forgotten \cup named
    /\ forgotten \subseteq recorded \cup (IF left # 0 THEN runs[left].told ELSE {})

AdmissionInv ==
    /\ Shapes /\ RunsSound /\ RecoveryAlone /\ OpSound /\ IdsKept
    /\ \A id \in Clear : MessageSound(id)

-----------------------------------------------------------------------------
(* What the steps are made of.                                             *)

LEMMA Bounds == MaxRun \in Nat
BY AdmissionAssumption DEF AdmissionAssumption

LEMMA SaidIs ==
    ASSUME NEW id \in MessageIds
    PROVE  Said(id) \in Messages /\ Said(id).id = id
<1>1. \E m \in Messages : m.id = id
    BY DEF MessageIds
<1>2. QED BY <1>1 DEF Said

LEMMA NamedIs ==
    /\ Named(<< >>) = {}
    /\ \A id : Named(<<id>>) = {id}
    /\ \A batch \in Seq(MessageIds) : Named(batch) \subseteq MessageIds
<1>1. Named(<< >>) = {}
    BY DEF Named
<1>2. \A id : Named(<<id>>) = {id}
    <2>1. ASSUME NEW id PROVE Named(<<id>>) = {id}
        <3>1. DOMAIN <<id>> = {1} /\ <<id>>[1] = id
            OBVIOUS
        <3>2. QED BY <3>1 DEF Named
    <2>2. QED BY <2>1
<1>3. ASSUME NEW batch \in Seq(MessageIds) PROVE Named(batch) \subseteq MessageIds
    BY DEF Named
<1>4. QED BY <1>1, <1>2, <1>3

\* A batch of one names its first.
LEMMA NamedOne ==
    ASSUME NEW batch \in Seq(MessageIds), Len(batch) = 1
    PROVE  Named(batch) = {batch[1]} /\ batch[1] \in MessageIds
<1>1. DOMAIN batch = {1} /\ batch[1] \in MessageIds
    OBVIOUS
<1>2. QED BY <1>1 DEF Named

\* A queue compared without its revisions is the same queue.
LEMMA PlainWaits ==
    ASSUME NEW q, Keeps(q), Ids(q.items) \subseteq MessageIds
    PROVE  Waits(Plain(q)) /\ Ids(Plain(q).items) = Ids(q.items)
<1> DEFINE items == [i \in DOMAIN q.items |-> [q.items[i] EXCEPT !.revision = 0]]
<1>1. \A i \in DOMAIN q.items : /\ DOMAIN items[i] = DOMAIN q.items[i]
                                /\ items[i].id = q.items[i].id /\ items[i].revision = 0
    BY DEF Keeps, Whole, Fields
<1>2. items = [i \in DOMAIN q.items |-> items[i]]
    OBVIOUS
<1>3. DOMAIN Plain(q) = DOMAIN q /\ Plain(q).items = items
    BY DEF Plain, Keeps
<1> HIDE DEF items
<1>4. Whole(items) /\ Ids(items) = Ids(q.items)
    BY <1>1, <1>2, ChangedWhole DEF Keeps
<1>5. Keeps(Plain(q))
    BY <1>3, <1>4 DEF Keeps
<1>6. \A i \in DOMAIN Plain(q).items : Plain(q).items[i].revision = 0
    BY <1>1, <1>2, <1>3
<1>7. QED BY <1>3, <1>4, <1>5, <1>6 DEF Waits

\* What this daemon can answer again holds what it could, what the record names
\* and what waits.
LEMMA RememberedHolds ==
    ASSUME Shapes
    PROVE  /\ Remembered \subseteq MessageIds
           /\ receipts \subseteq Remembered /\ named \subseteq Remembered
           /\ Ids(queue.items) \subseteq Remembered
<1>1. \A r \in Ongoing : Names(r) \subseteq MessageIds
    BY DEF Ongoing, Shapes, RunShape, Names
<1>2. Ids(queue.items) \subseteq MessageIds /\ receipts \subseteq MessageIds
      /\ named \subseteq MessageIds
    BY DEF Shapes, Waits
<1>3. QED BY <1>1, <1>2 DEF Remembered

\* With nothing being taken, all that is recorded is answered again unless a
\* restart lost its id.
LEMMA RecordedHolds ==
    ASSUME AdmissionInv, Taking = {}
    PROVE  recorded \ forgotten \subseteq Remembered
<1>1. recorded \ forgotten \subseteq receipts \cup named
    BY DEF AdmissionInv, IdsKept
<1>2. QED BY <1>1 DEF Remembered

\* What is over with something run stays over, with the words it had.
OverStay ==
    \A q \in Runs : runs[q].stage \in {"done", "ended", "cut"} /\ ~runs[q].unrun =>
        /\ runs'[q].stage \in {"done", "ended", "cut"} /\ ~runs'[q].unrun
        /\ runs'[q].batch = runs[q].batch /\ runs'[q].told = runs[q].told

\* Ids are kept by a step that records nothing and takes nothing out of memory.
LEMMA IdsStay ==
    ASSUME AdmissionInv, OverStay,
           forgotten' = forgotten, recorded' = recorded, named' = named, left' = left,
           receipts \subseteq receipts', Taking \subseteq Taking' \cup receipts'
    PROVE  IdsKept'
<1>1. IdsKept
    BY DEF AdmissionInv
<1>2. ASSUME NEW id \in recorded, id \notin named
      PROVE  \E r \in Runs : /\ runs'[r].stage \in {"done", "ended", "cut"}
                            /\ ~runs'[r].unrun /\ id \in Behind(r)'
    <2>1. PICK r \in Runs : /\ runs[r].stage \in {"done", "ended", "cut"}
                           /\ ~runs[r].unrun /\ id \in Behind(r)
        BY <1>1, <1>2 DEF IdsKept
    <2>2. /\ runs'[r].stage \in {"done", "ended", "cut"} /\ ~runs'[r].unrun
          /\ runs'[r].batch = runs[r].batch
        BY <2>1 DEF OverStay
    <2>3. Behind(r)' = Behind(r)
        BY <2>2 DEF Behind
    <2>4. QED BY <2>1, <2>2, <2>3
<1>3. ASSUME left # 0
      PROVE  Behind(left)' = Behind(left) /\ runs'[left].told = runs[left].told
    <2>1. left \in Runs
        BY <1>3, Bounds DEF AdmissionInv, Shapes, Runs
    <2>2. runs[left].stage = "cut" /\ ~runs[left].unrun
        BY <1>3, <2>1 DEF AdmissionInv, RecoveryAlone, RunsSound, RunSound
    <2>3. runs'[left].batch = runs[left].batch /\ runs'[left].told = runs[left].told
        BY <2>1, <2>2 DEF OverStay
    <2>4. QED BY <2>3 DEF Behind
<1>4. recorded \ forgotten \subseteq receipts' \cup named \cup Taking'
    BY <1>1 DEF IdsKept
<1>5. forgotten \subseteq recorded \cup (IF left # 0 THEN runs'[left].told ELSE {})
    BY <1>1, <1>3 DEF IdsKept
<1>6. left # 0 => Behind(left)' \subseteq forgotten \cup named
    BY <1>1, <1>3 DEF IdsKept
<1>7. QED BY <1>2, <1>4, <1>5, <1>6 DEF IdsKept

\* A turn's record keeps them: memory has the words of a turn that ends here, and
\* what a cut one loses was lost when the daemon died.
LEMMA IdsWritten ==
    ASSUME AdmissionInv, OverStay, NEW r \in Runs, Writes(r), forgotten' = forgotten,
           receipts \subseteq receipts', Taking \subseteq Taking' \cup receipts',
           runs'[r].stage \in {"done", "ended", "cut"} /\ ~runs'[r].unrun,
           runs'[r].batch = runs[r].batch,
           \/ left = 0 /\ left' = 0 /\ runs[r].stage \in OpenStages \cup {"done"}
           \/ left = r /\ left' = 0
    PROVE  IdsKept'
<1>1. IdsKept /\ left' = 0
    BY DEF AdmissionInv
<1>2. recorded' = recorded \cup runs[r].told /\ named' = named \cup (runs[r].told \ Behind(r))
    BY DEF Writes, Names
<1>3. ASSUME NEW id \in recorded', id \notin named'
      PROVE  \E q \in Runs : /\ runs'[q].stage \in {"done", "ended", "cut"}
                            /\ ~runs'[q].unrun /\ id \in Behind(q)'
    <2>1. CASE id \in recorded
        <3>1. PICK q \in Runs : /\ runs[q].stage \in {"done", "ended", "cut"}
                               /\ ~runs[q].unrun /\ id \in Behind(q)
            BY <1>1, <1>2, <1>3, <2>1 DEF IdsKept
        <3>2. /\ runs'[q].stage \in {"done", "ended", "cut"} /\ ~runs'[q].unrun
              /\ runs'[q].batch = runs[q].batch
            BY <3>1 DEF OverStay
        <3>3. Behind(q)' = Behind(q)
            BY <3>2 DEF Behind
        <3>4. QED BY <3>1, <3>2, <3>3
    <2>2. CASE id \notin recorded
        <3>1. id \in Behind(r)
            BY <1>2, <1>3, <2>2
        <3>2. Behind(r)' = Behind(r)
            BY DEF Behind
        <3>3. QED BY <3>1, <3>2
    <2>3. QED BY <2>1, <2>2
<1>4. recorded' \ forgotten \subseteq receipts' \cup named' \cup Taking'
    <2>1. recorded \ forgotten \subseteq receipts \cup named \cup Taking
        BY <1>1 DEF IdsKept
    <2>2. CASE left = 0 /\ runs[r].stage \in OpenStages \cup {"done"}
        <3>1. runs[r].told \subseteq receipts \cup recorded \cup Taking
            BY <2>2 DEF AdmissionInv, RunsSound, RunKept
        <3>2. QED BY <1>2, <2>1, <3>1
    <2>3. CASE left = r
        <3>1. r # 0
            BY Bounds DEF Runs
        <3>2. Behind(r) \subseteq forgotten \cup named
            BY <1>1, <2>3, <3>1 DEF IdsKept
        <3>3. QED BY <1>2, <2>1, <3>2
    <2>4. QED BY <2>2, <2>3
<1>5. forgotten \subseteq recorded'
    <2>1. forgotten \subseteq recorded \cup (IF left # 0 THEN runs[left].told ELSE {})
        BY <1>1 DEF IdsKept
    <2>2. QED BY <1>2, <2>1
<1>6. QED BY <1>1, <1>3, <1>4, <1>5 DEF IdsKept

-----------------------------------------------------------------------------
(* The invariant holds at the start, and of every step that leaves the     *)
(* runs, the disk and what was heard as they were.                         *)

LEMMA InvAtStart == Init => AdmissionInv
<1> SUFFICES ASSUME Init PROVE AdmissionInv
    OBVIOUS
<1> USE Bounds
<1>1. Keeps(EmptyQueue) /\ EmptyQueue.items = << >>
    <2>1. EmptyQueue.items = << >> /\ {"items", "revision"} \subseteq DOMAIN EmptyQueue
        BY DEF EmptyQueue
    <2>2. InRow(<< >>)
        BY EmptySeq DEF InRow
    <2>3. QED BY <2>1, <2>2 DEF Keeps, Whole
<1>2. Waits(queue) /\ Ids(queue.items) = {}
    BY <1>1 DEF Init, Waits, Ids
<1>3. NoRun \in RunShape
    BY EmptySeq DEF NoRun, RunShape
<1>4. FreeLock \in OpShape
    BY EmptySeq DEF FreeLock, OpShape
<1>5. Shapes
    <2>1. runs \in [Runs -> RunShape] /\ heard \in [MessageIds -> SUBSET Runs]
        BY <1>3 DEF Init
    <2>2. resuming \in 0..MaxRun /\ left \in 0..MaxRun
          /\ row \in [run : 0..MaxRun, staged : 0..MaxRun]
        BY DEF Init
    <2>3. asked \in BOOLEAN /\ receipts = {} /\ recorded = {} /\ accepted = {} /\ takenBack = {}
          /\ named = {} /\ forgotten = {}
        BY DEF Init
    <2>4. op \in OpShape
        BY <1>4 DEF Init
    <2>5. QED BY <1>2, <2>1, <2>2, <2>3, <2>4 DEF Shapes
<1>6. \A r \in Runs : runs[r] = NoRun
    BY DEF Init
<1>7. Ongoing = {} /\ HandBack = {} /\ \A id \in MessageIds : Tellers(id) = {}
    BY <1>6 DEF Ongoing, HandBack, Tellers, NoRun, OpenStages
<1>8. Taking = {} /\ Going = {} /\ Handed = {}
    BY <1>7 DEF Init, FreeLock, Taking, Going, Handed
<1>9. RunsSound
    <2>1. ASSUME NEW r \in Runs PROVE RunSound(r) /\ RunKept(r)
        <3>1. RunSound(r)
            BY <1>6, NamedIs DEF RunSound, NoRun
        <3>2. RunKept(r)
            BY <1>6, <1>7 DEF RunKept, NoRun, Running, RunningStages, OpenStages
        <3>3. QED BY <3>1, <3>2
    <2>2. QED BY <1>7, <2>1 DEF Init, RunsSound, FreeLock
<1>10. RecoveryAlone /\ OpSound
    BY DEF Init, RecoveryAlone, OpSound, FreeLock
<1>11. \A id \in MessageIds : MessageSound(id)
    BY <1>2, <1>7, <1>8 DEF Init, MessageSound
<1>12. IdsKept
    BY DEF Init, IdsKept
<1>13. QED BY <1>5, <1>9, <1>10, <1>11, <1>12 DEF AdmissionInv, Clear

LEMMA RunsAlone ==
    ASSUME AdmissionInv,
           runs' = runs, left' = left, recorded' = recorded, heard' = heard, row' = row,
           named' = named, forgotten' = forgotten, resuming' \in {0, resuming},
           receipts \subseteq receipts', receipts' \subseteq MessageIds,
           Waits(queue)', (op \in OpShape)', asked' \in BOOLEAN, OpSound',
           op'.step = "take" => op' = op,
           Taking \subseteq Taking' \cup receipts',
           left # 0 => op'.step = "free" /\ ~asked',
           takenBack \subseteq takenBack', takenBack' \subseteq MessageIds,
           accepted' \subseteq MessageIds,
           \A id \in Clear :
               /\ id \in Ids(queue.items)' \ Ids(queue.items) =>
                    Tellers(id) = {} /\ id \notin Handed /\ id \notin takenBack'
               /\ id \in Ids(queue.items)' /\ id \in Taking => id \in Taking'
               /\ id \in Going' => /\ Tellers(id) = {} /\ id \notin Handed /\ id \notin takenBack'
                                   /\ (op.from = "door")' => id \notin Ids(queue.items)'
               /\ id \in takenBack' \ takenBack =>
                    id \in Ids(queue.items) \ Ids(queue.items)' /\ Tellers(id) = {}
               /\ id \in accepted' => id \in accepted \/ id \in Ids(queue.items)'
               /\ id \in accepted' /\ id \in Ids(queue.items) =>
                    id \in Ids(queue.items)' \/ id \in takenBack' \/ id \in Taking
    PROVE  AdmissionInv'
<1> USE Bounds
<1>1. /\ Ongoing' = Ongoing /\ HandBack' = HandBack /\ Running' = Running
      /\ Handed' = Handed /\ \A id : Tellers(id)' = Tellers(id)
    BY DEF Ongoing, HandBack, Running, Handed, Tellers
<1>2. Shapes'
    BY DEF AdmissionInv, Shapes
<1>3. RunsSound'
    <2>1. ASSUME NEW r \in Runs PROVE RunSound(r)' /\ RunKept(r)'
        <3>1. RunSound(r) /\ RunKept(r)
            BY DEF AdmissionInv, RunsSound
        <3>2. RunSound(r)'
            BY <3>1 DEF RunSound
        <3>3. RunKept(r)'
            BY <1>1, <3>1 DEF RunKept
        <3>4. QED BY <3>2, <3>3
    <2>2. \A q, r \in Ongoing : q = r
        BY DEF AdmissionInv, RunsSound
    <2>3. (resuming # 0 => runs[resuming].stage \in {"done", "ended"} /\ ~runs[resuming].unrun)'
        BY DEF AdmissionInv, RunsSound
    <2>4. (row.run # 0 => runs[row.run].stage \notin {"none", "ended"})'
        BY DEF AdmissionInv, RunsSound
    <2>5. (op.step = "take" =>
              \E r \in Runs : runs[r].stage = "claimed" /\ runs[r].told = Named(op.batch))'
        BY DEF AdmissionInv, RunsSound
    <2>6. QED BY <1>1, <2>1, <2>2, <2>3, <2>4, <2>5 DEF RunsSound
<1>4. RecoveryAlone'
    <2>1. RecoveryAlone
        BY DEF AdmissionInv
    <2>2. QED BY <2>1 DEF RecoveryAlone
<1>5. ASSUME NEW id \in Clear PROVE MessageSound(id)'
    <2>1. MessageSound(id) /\ id \in MessageIds
        BY DEF AdmissionInv, Clear
    <2>2. /\ (\A q, r \in Tellers(id) : runs[q].origin = runs[r].origin)'
          /\ (\A o \in heard[id] : /\ runs[o].stage \notin Unspoken
                                   /\ \E r \in Tellers(id) : runs[r].origin = o)'
          /\ (id \in recorded =>
                \E r \in Tellers(id) : runs[r].stage \in {"done", "ended", "cut"})'
        BY <1>1, <2>1 DEF MessageSound
    <2>3. (id \in Ids(queue.items) /\ Tellers(id) # {} => id \in Taking)'
        BY <1>1, <2>1 DEF MessageSound
    <2>4. (id \in Handed => id \notin Ids(queue.items) /\ Tellers(id) = {})'
        BY <1>1, <2>1 DEF MessageSound
    <2>5. (id \in Going => /\ Tellers(id) = {} /\ id \notin Handed /\ id \notin takenBack
                           /\ op.from = "door" => id \notin Ids(queue.items))'
        BY <1>1
    <2>6. (id \in takenBack => id \notin Ids(queue.items) /\ id \notin Handed /\ Tellers(id) = {})'
        BY <1>1, <2>1 DEF MessageSound
    <2>7. ASSUME id \in accepted'
          PROVE  \/ (id \in Ids(queue.items) \cup takenBack \cup recorded)'
                 \/ (\E r \in Runs : /\ id \in runs[r].told
                                     /\ \/ r \in Ongoing \cup HandBack
                                        \/ runs[r].stage = "done" /\ ~runs[r].unrun
                                        \/ left # 0 /\ r = left)'
        <3>1. CASE id \in Taking
            <4>1. op.step = "take" /\ id \in Named(op.batch)
                BY <3>1 DEF Taking
            <4>2. PICK r \in Runs : runs[r].stage = "claimed" /\ runs[r].told = Named(op.batch)
                BY <4>1 DEF AdmissionInv, RunsSound
            <4>3. r \in Ongoing' /\ id \in runs'[r].told
                BY <1>1, <4>1, <4>2 DEF Ongoing, OpenStages
            <4>4. QED BY <4>3
        <3>2. CASE id \notin Taking
            <4>1. CASE id \in Ids(queue.items) \/ id \in Ids(queue.items)'
                BY <2>7, <3>2, <4>1
            <4>2. CASE ~(id \in Ids(queue.items) \/ id \in Ids(queue.items)')
                <5>1. id \in accepted
                    BY <2>7, <4>2
                <5>2. \/ id \in takenBack \cup recorded
                      \/ \E r \in Runs : /\ id \in runs[r].told
                                         /\ \/ r \in Ongoing \cup HandBack
                                            \/ runs[r].stage = "done" /\ ~runs[r].unrun
                                            \/ left # 0 /\ r = left
                    BY <2>1, <4>2, <5>1 DEF MessageSound
                <5>3. QED BY <1>1, <5>2
            <4>3. QED BY <4>1, <4>2
        <3>3. QED BY <3>1, <3>2
    <2>8. QED BY <2>2, <2>3, <2>4, <2>5, <2>6, <2>7 DEF MessageSound
<1>6. IdsKept'
    BY IdsStay DEF OverStay
<1>7. QED BY <1>2, <1>3, <1>4, <1>5, <1>6 DEF AdmissionInv, Clear

-----------------------------------------------------------------------------
(* The steps that leave the runs as they were.                             *)

\* What is said new is nowhere yet, or a restart lost its id: a turn told it, or
\* its words to be handed back, would be remembered.
LEMMA SaidNew ==
    ASSUME AdmissionInv, ~EarlySends, LockFree, NEW id \in MessageIds, id \notin Remembered
    PROVE  /\ left = 0 /\ op.step = "free"
           /\ id \in Clear => Tellers(id) = {} /\ id \notin Handed
<1>1. left = 0 /\ op.step = "free" /\ Taking = {}
    BY DEF LockFree, Taking
<1> SUFFICES ASSUME id \in Clear PROVE Tellers(id) = {} /\ id \notin Handed
    BY <1>1
<1>2. id \notin receipts /\ id \notin recorded
    BY <1>1, RememberedHolds, RecordedHolds DEF AdmissionInv, Clear
<1>3. ASSUME NEW r \in Tellers(id) PROVE FALSE
    <2>1. r \in Runs /\ ~runs[r].unrun /\ id \in runs[r].told
        BY DEF Tellers
    <2>2. RunSound(r) /\ RunKept(r) /\ runs[r] \in RunShape
        BY <2>1 DEF AdmissionInv, RunsSound, Shapes
    <2>3. runs[r].stage # "none"
        BY <2>1, <2>2 DEF RunSound, NoRun
    <2>4. runs[r].stage \in OpenStages \cup {"done", "ended", "cut"}
        BY <2>2, <2>3 DEF RunShape
    <2>5. r \notin {0}
        BY <2>1, Bounds DEF Runs
    <2>6. runs[r].told \subseteq receipts \cup recorded
        BY <1>1, <2>1, <2>2, <2>4, <2>5 DEF RunKept
    <2>7. QED BY <1>2, <2>1, <2>6
<1>4. id \notin Handed
    <2>1. SUFFICES ASSUME NEW r \in HandBack, id \in Named(runs[r].batch) PROVE FALSE
        BY DEF Handed
    <2>2. r \in Runs
        BY DEF HandBack
    <2>3. RunSound(r) /\ RunKept(r)
        BY <2>2 DEF AdmissionInv, RunsSound
    <2>4. id \in receipts \cup recorded
        BY <1>1, <2>1, <2>3 DEF RunSound, RunKept
    <2>5. QED BY <1>2, <2>4
<1>5. QED BY <1>3, <1>4

\* Nothing is being recovered while the lock works or a drain waits for it.
LEMMA LockWorks ==
    ASSUME AdmissionInv, op.step # "free" \/ asked
    PROVE  left = 0
BY DEF AdmissionInv, RecoveryAlone

LEMMA SaySound == ASSUME AdmissionInv, ~EarlySends, NEW id \in MessageIds, Say(id) PROVE AdmissionInv'
<1>1. /\ LockFree /\ id \notin Remembered /\ id \notin takenBack
      /\ runs' = runs /\ left' = left /\ recorded' = recorded /\ heard' = heard /\ row' = row
      /\ named' = named /\ forgotten' = forgotten
      /\ resuming' = resuming /\ asked' = asked /\ takenBack' = takenBack /\ receipts' = Remembered
    BY DEF Say, turnVars, diskVars
<1>2. /\ left = 0 /\ op.step = "free"
      /\ id \in Clear => Tellers(id) = {} /\ id \notin Handed
    BY <1>1, SaidNew
<1>3. Shapes /\ asked \in BOOLEAN /\ Waits(queue) /\ accepted \subseteq MessageIds
      /\ takenBack \subseteq MessageIds /\ resuming \in {0, resuming}
    BY DEF AdmissionInv, Shapes
<1>4. receipts \subseteq Remembered /\ Remembered \subseteq MessageIds
      /\ id \notin Ids(queue.items)
    BY <1>1, <1>3, RememberedHolds
<1>5. Taking = {} /\ Going = {}
    BY <1>2 DEF Taking, Going
<1>6. CASE Joins(id)
    <2>1. /\ Waits(queue)' /\ Ids(queue.items)' = Ids(queue.items) \cup {id}
          /\ accepted' = accepted \cup {id}
        <3>1. queue' = Plain(Joined(queue, Said(id))) /\ accepted' = accepted \cup {id}
            BY <1>6 DEF Joins
        <3>2. Keeps(Joined(queue, Said(id)))
              /\ Ids(Joined(queue, Said(id)).items) = Ids(queue.items) \cup {id}
            BY <1>3, JoinedIds, SaidIs DEF Waits
        <3>3. Waits(queue') /\ Ids(queue'.items) = Ids(queue.items) \cup {id}
            BY <1>3, <3>1, <3>2, PlainWaits DEF Waits
        <3>4. QED BY <3>1, <3>3
    <2>2. op' = [step |-> "deliver", from |-> "queue", batch |-> << >>]
        BY <1>6 DEF Joins, Delivers, Step
    <2>3. (op \in OpShape)' /\ OpSound' /\ Taking' = {} /\ Going' = {}
        BY <2>2, EmptySeq DEF OpShape, OpSound, Taking, Going
    <2>4. QED BY <1>1, <1>2, <1>3, <1>4, <1>5, <2>1, <2>2, <2>3, RunsAlone
<1>7. CASE ~Joins(id)
    <2>1. /\ op' = [step |-> IF Ongoing # {} THEN "steer" ELSE "start", from |-> "door",
                    batch |-> <<id>>]
          /\ queue' = queue /\ accepted' = accepted
        BY <1>7 DEF Say, DeliverNow, Step
    <2>2. (op \in OpShape)' /\ OpSound' /\ Taking' = {} /\ Going' = {id}
        <3>1. <<id>> \in Seq(MessageIds) /\ Len(<<id>>) = 1 /\ <<id>> # << >>
            OBVIOUS
        <3>2. QED BY <2>1, <3>1, NamedIs DEF OpShape, OpSound, Taking, Going
    <2>3. op'.step # "take"
        BY <2>1
    <2>4. Waits(queue)' /\ Ids(queue.items)' = Ids(queue.items)
        BY <1>3, <2>1
    <2>5. QED BY <1>1, <1>2, <1>3, <1>4, <1>5, <2>1, <2>2, <2>3, <2>4, RunsAlone
<1>8. QED BY <1>6, <1>7

\* Steps that leave the lock's work, the queue's messages and what is known of
\* them alone.
LEMMA LockAlone ==
    ASSUME AdmissionInv, UNCHANGED <<runs, diskVars, heard, receipts, op, accepted, takenBack>>,
           resuming' \in {0, resuming}, asked' \in BOOLEAN, left # 0 => ~asked',
           Waits(queue)', Ids(queue.items)' = Ids(queue.items)
    PROVE  AdmissionInv'
<1>1. Shapes /\ OpSound /\ (left # 0 => op.step = "free")
    BY DEF AdmissionInv, RecoveryAlone
<1>2. /\ receipts \subseteq MessageIds /\ op \in OpShape /\ accepted \subseteq MessageIds
      /\ takenBack \subseteq MessageIds
    BY <1>1 DEF Shapes
<1>3. OpSound' /\ Taking' = Taking /\ Going' = Going
    BY <1>1 DEF OpSound, Taking, Going
<1>4. \A id \in Clear :
         id \in Going => /\ Tellers(id) = {} /\ id \notin Handed /\ id \notin takenBack
                         /\ op.from = "door" => id \notin Ids(queue.items)
    BY DEF AdmissionInv, MessageSound
<1>5. QED BY <1>1, <1>2, <1>3, <1>4, RunsAlone DEF diskVars

LEMMA BookSound ==
    ASSUME AdmissionInv, ~EarlySends, NEW id \in MessageIds, Book(id) PROVE AdmissionInv'
<1>1. /\ LockFree /\ id \notin Remembered /\ id \notin takenBack
      /\ runs' = runs /\ left' = left /\ recorded' = recorded /\ heard' = heard /\ row' = row
      /\ named' = named /\ forgotten' = forgotten
      /\ resuming' = resuming /\ asked' = asked /\ takenBack' = takenBack /\ op' = op
      /\ receipts' = Remembered \cup {id} /\ accepted' = accepted \cup {id}
      /\ queue' = Plain(Scheduled(queue, Said(id), [until |-> 1, after |-> NoConv]))
    BY DEF Book, diskVars, Kept
<1>2. /\ left = 0 /\ op.step = "free"
      /\ id \in Clear => Tellers(id) = {} /\ id \notin Handed
    BY <1>1, SaidNew
<1>3. Shapes /\ asked \in BOOLEAN /\ Waits(queue) /\ accepted \subseteq MessageIds
      /\ takenBack \subseteq MessageIds /\ resuming \in {0, resuming} /\ op \in OpShape /\ OpSound
    BY DEF AdmissionInv, Shapes
<1>4. receipts \subseteq Remembered /\ Remembered \subseteq MessageIds
      /\ id \notin Ids(queue.items)
    BY <1>1, <1>3, RememberedHolds
<1>5. Taking = {} /\ Going = {} /\ Taking' = {} /\ Going' = {}
    BY <1>1, <1>2 DEF Taking, Going
<1>6. Waits(queue)' /\ Ids(queue.items)' = Ids(queue.items) \cup {id}
    <2> DEFINE q == Scheduled(queue, Said(id), [until |-> 1, after |-> NoConv])
    <2>1. Keeps(q) /\ Ids(q.items) = Ids(queue.items) \cup {id}
        BY <1>3, ScheduledIds, SaidIs DEF Waits
    <2> HIDE DEF q
    <2>2. Waits(Plain(q)) /\ Ids(Plain(q).items) = Ids(queue.items) \cup {id}
        BY <1>3, <2>1, PlainWaits DEF Waits
    <2>3. queue' = Plain(q)
        BY <1>1 DEF q
    <2>4. QED BY <2>2, <2>3
<1>7. OpSound'
    BY <1>1, <1>3 DEF OpSound
<1>8. QED BY <1>1, <1>2, <1>3, <1>4, <1>5, <1>6, <1>7, RunsAlone

\* Letting a hold or bookings go moves no message.
LEMMA ReleasedWaits ==
    ASSUME Waits(queue), NEW ids
    PROVE  /\ Waits(Plain(Released(queue, ids)))
           /\ Ids(Plain(Released(queue, ids)).items) = Ids(queue.items)
<1> DEFINE q == Released(queue, ids)
<1>1. Keeps(q) /\ Ids(q.items) = Ids(queue.items)
    BY ReleasedIds DEF Waits
<1> HIDE DEF q
<1>2. Waits(Plain(q)) /\ Ids(Plain(q).items) = Ids(queue.items)
    BY <1>1, PlainWaits DEF Waits
<1>3. QED BY <1>2 DEF q

LEMMA BookedGoSound ==
    ASSUME AdmissionInv, NEW id \in MessageIds, BookedGo(id) PROVE AdmissionInv'
<1>1. /\ UNCHANGED <<runs, diskVars, heard, receipts, op, accepted, takenBack, resuming>>
      /\ asked' = TRUE /\ left = 0 /\ queue' = Plain(Released(queue, {id}))
    BY DEF BookedGo, turnVars, ghosts
<1>2. Waits(queue)
    BY DEF AdmissionInv, Shapes
<1>3. Waits(queue)' /\ Ids(queue.items)' = Ids(queue.items)
    BY <1>1, <1>2, ReleasedWaits
<1>4. QED BY <1>1, <1>3, LockAlone

LEMMA ReleaseSound == ASSUME AdmissionInv, ~EarlySends, Release PROVE AdmissionInv'
<1>1. /\ runs' = runs /\ row' = row /\ left' = left /\ recorded' = recorded /\ heard' = heard
      /\ named' = named /\ forgotten' = forgotten
      /\ receipts' = receipts /\ accepted' = accepted /\ takenBack' = takenBack
      /\ resuming' = resuming /\ asked' = asked /\ LockFree
      /\ queue' = Plain(Released(queue, Ids(queue.items)))
      /\ op' = [step |-> "deliver", from |-> "queue", batch |-> << >>]
    BY DEF Release, turnVars, diskVars, ghosts, Delivers, Step
<1>2. Shapes /\ Waits(queue) /\ asked \in BOOLEAN /\ receipts \subseteq MessageIds
      /\ accepted \subseteq MessageIds /\ takenBack \subseteq MessageIds
      /\ (left # 0 => ~asked)
    BY DEF AdmissionInv, Shapes, RecoveryAlone
<1>3. Waits(queue)' /\ Ids(queue.items)' = Ids(queue.items)
    <2>1. /\ Waits(Plain(Released(queue, Ids(queue.items))))
          /\ Ids(Plain(Released(queue, Ids(queue.items))).items) = Ids(queue.items)
        BY <1>2, ReleasedWaits
    <2>2. QED BY <1>1, <2>1
<1>4. (op \in OpShape)' /\ OpSound' /\ Taking' = {} /\ Going' = {} /\ Taking = {}
    BY <1>1, EmptySeq DEF OpShape, OpSound, Taking, Going, LockFree
<1>5. op'.step = "deliver"
    BY <1>1
<1>6. left = 0
    BY <1>1 DEF LockFree
<1>7. QED BY <1>1, <1>2, <1>3, <1>4, <1>5, <1>6, RunsAlone

LEMMA UnqueueSound ==
    ASSUME AdmissionInv, NEW id \in MessageIds, Unqueue(id) PROVE AdmissionInv'
<1>1. /\ runs' = runs /\ row' = row /\ left' = left /\ recorded' = recorded /\ heard' = heard
      /\ named' = named /\ forgotten' = forgotten
      /\ receipts' = receipts /\ op' = op /\ accepted' = accepted /\ resuming' = resuming
      /\ asked' = asked /\ takenBack' = takenBack \cup {id} /\ id \in Ids(queue.items)
      /\ op.step = "free" /\ queue' = Plain(Removed(queue, id, 0))
    BY DEF Unqueue, turnVars, diskVars, LockFree
<1>2. Shapes /\ Waits(queue) /\ asked \in BOOLEAN /\ receipts \subseteq MessageIds
      /\ accepted \subseteq MessageIds /\ takenBack \subseteq MessageIds /\ op \in OpShape
      /\ OpSound /\ (left # 0 => ~asked) /\ (id \in Clear => MessageSound(id))
    BY DEF AdmissionInv, Shapes, RecoveryAlone
<1>3. Waits(queue)' /\ Ids(queue.items)' = Ids(queue.items) \ {id}
    <2> DEFINE q == Removed(queue, id, 0)
    <2>1. \E i \in DOMAIN queue.items : queue.items[i].id = id /\ queue.items[i].revision = 0
        BY <1>1, <1>2 DEF Ids, Waits
    <2> DEFINE found == \E i \in DOMAIN queue.items :
                            queue.items[i].id = id /\ queue.items[i].revision = 0
    <2>2. /\ Keeps(q)
          /\ Ids(q.items) = IF found THEN Ids(queue.items) \ {id} ELSE Ids(queue.items)
        BY <1>2, RemovedIds DEF Waits
    <2> HIDE DEF q
    <2>3. Waits(Plain(q)) /\ Ids(Plain(q).items) = Ids(queue.items) \ {id}
        BY <1>2, <2>1, <2>2, PlainWaits DEF Waits
    <2>4. queue' = Plain(q)
        BY <1>1 DEF q
    <2>5. QED BY <2>3, <2>4
<1>4. Taking = {} /\ Taking' = {} /\ Going' = {} /\ OpSound'
    BY <1>1, <1>2 DEF OpSound, Taking, Going
<1>5. id \in Clear => Tellers(id) = {} /\ id \notin Handed
    BY <1>1, <1>2, <1>4 DEF MessageSound
<1>6. op'.step = "free"
    BY <1>1
<1>7. QED BY <1>1, <1>2, <1>3, <1>4, <1>5, <1>6, RunsAlone

\* What waits is in the queue, and what goes as one turn of it too.
LEMMA WaitingIds ==
    ASSUME Waits(queue), WaitingOf(queue) # << >>
    PROVE  /\ InRow(WaitingOf(queue))
           /\ Head(WaitingOf(queue)).id \in Ids(queue.items)
           /\ IdsOf(Together(WaitingOf(queue))) \in Seq(MessageIds)
           /\ IdsOf(Together(WaitingOf(queue))) # << >>
           /\ Named(IdsOf(Together(WaitingOf(queue)))) \subseteq Ids(queue.items)
<1> DEFINE w == WaitingOf(queue)
           t == Together(w)
           b == IdsOf(t)
<1>1. InRow(w) /\ Whole(w) /\ Ids(w) \subseteq Ids(queue.items)
    <2> DEFINE kept == {i \in DOMAIN queue.items : ~IsBooked(queue.items[i])}
    <2>1. InRow(queue.items) /\ Whole(queue.items) /\ kept \subseteq DOMAIN queue.items
        BY DEF Waits, Keeps, Whole
    <2>2. w = Only(queue.items, kept)
        BY DEF WaitingOf
    <2> HIDE DEF kept, w
    <2>3. Whole(w) /\ Ids(w) = {queue.items[i].id : i \in kept}
        BY <2>1, <2>2, OnlyWhole
    <2>4. Ids(w) \subseteq Ids(queue.items)
        BY <2>1, <2>3 DEF Ids
    <2>5. QED BY <2>3, <2>4 DEF Whole
<1> HIDE DEF w
<1>2. /\ InRow(t) /\ t # << >>
      /\ \A i \in DOMAIN t : i \in DOMAIN w /\ t[i] = w[i]
    BY <1>1, TogetherHead DEF w
<1> HIDE DEF t
<1>3. Head(w).id \in Ids(w)
    <2>1. w \in Seq({w[i] : i \in DOMAIN w}) /\ w # << >>
        BY <1>1 DEF InRow, w
    <2>2. 1 \in DOMAIN w /\ Head(w) = w[1]
        BY <2>1
    <2>3. QED BY <2>2 DEF Ids
<1>4. Len(t) \in Nat /\ DOMAIN t = 1..Len(t) /\ Len(t) # 0
    BY <1>2, RowShape
<1>5. b = [i \in 1..Len(t) |-> t[i].id]
    BY <1>4 DEF IdsOf
<1>6. \A i \in DOMAIN t : t[i].id \in Ids(queue.items)
    BY <1>1, <1>2 DEF Ids
<1>7. Ids(queue.items) \subseteq MessageIds
    BY DEF Waits
<1> HIDE DEF b
<1>8. b = [i \in 1..Len(t) |-> b[i]] /\ \A i \in 1..Len(t) : b[i] \in Ids(queue.items)
    BY <1>4, <1>5, <1>6
<1>9. b \in Seq(MessageIds) /\ DOMAIN b = 1..Len(t)
    <2>1. b \in [1..Len(t) -> MessageIds]
        BY <1>7, <1>8
    <2>2. QED BY <1>4, <2>1, SeqDef
<1>10. b # << >>
    BY <1>4, <1>9
<1>11. Named(b) \subseteq Ids(queue.items)
    BY <1>8, <1>9 DEF Named
<1>12. QED BY <1>1, <1>3, <1>9, <1>10, <1>11 DEF b, t, w

\* What waits while the lock is about to deliver is nowhere else.
LEMMA WaitingElsewhere ==
    ASSUME AdmissionInv, op.step \in {"free", "deliver"},
           NEW id \in Ids(queue.items) \cap Clear
    PROVE  Tellers(id) = {} /\ id \notin Handed /\ id \notin takenBack
<1>1. Taking = {} /\ id \in MessageIds
    BY DEF Taking, AdmissionInv, Shapes, Waits
<1>2. QED BY <1>1 DEF AdmissionInv, MessageSound

LEMMA DeliverSound == ASSUME AdmissionInv, Deliver PROVE AdmissionInv'
<1>1. /\ runs' = runs /\ row' = row /\ left' = left /\ recorded' = recorded /\ heard' = heard
      /\ named' = named /\ forgotten' = forgotten
      /\ receipts' = Remembered /\ accepted' = accepted /\ takenBack' = takenBack
      /\ resuming' = resuming /\ asked' = asked /\ queue' = queue /\ op.step = "deliver"
    BY DEF Deliver, diskVars, ghosts, Kept
<1>2. Shapes /\ Waits(queue) /\ asked \in BOOLEAN /\ accepted \subseteq MessageIds
      /\ takenBack \subseteq MessageIds /\ resuming \in {0, resuming}
    BY DEF AdmissionInv, Shapes
<1>3. left = 0
    BY <1>1, LockWorks
<1>4. receipts \subseteq Remembered /\ Remembered \subseteq MessageIds
    BY <1>2, RememberedHolds
<1>5. \A id \in Ids(queue.items) \cap Clear :
         Tellers(id) = {} /\ id \notin Handed /\ id \notin takenBack
    BY <1>1, WaitingElsewhere
<1>6. /\ (op \in OpShape)' /\ OpSound' /\ op'.step # "take"
      /\ Named(op.batch)' \subseteq Ids(queue.items) /\ op'.from # "door"
    <2> DEFINE items == WaitingOf(queue)
               head == Head(items)
    <2>1. CASE op' = FreeLock
        BY <2>1, EmptySeq, NamedIs DEF FreeLock, OpShape, OpSound
    <2>2. CASE op' # FreeLock
        <3>1. items # << >>
            BY <2>2 DEF Deliver, HeldQueue
        <3>2. /\ head.id \in Ids(queue.items) /\ head.id \in MessageIds
              /\ IdsOf(Together(items)) \in Seq(MessageIds) /\ IdsOf(Together(items)) # << >>
              /\ Named(IdsOf(Together(items))) \subseteq Ids(queue.items)
            BY <1>2, <3>1, WaitingIds DEF Waits
        <3>3. \/ op' = [step |-> "start", from |-> "continuation", batch |-> <<head.id>>]
              \/ op' = [step |-> "steer", from |-> "queue", batch |-> <<head.id>>]
              \/ op' = [step |-> "start", from |-> "queue", batch |-> IdsOf(Together(items))]
            BY <2>2 DEF Deliver
        <3> HIDE DEF items, head
        <3>4. <<head.id>> \in Seq(MessageIds) /\ <<head.id>> # << >> /\ Len(<<head.id>>) = 1
              /\ Named(<<head.id>>) = {head.id}
            BY <3>2, NamedIs
        <3> DEFINE b == IdsOf(Together(items))
        <3> HIDE DEF b
        <3>5. CASE op' = [step |-> "start", from |-> "continuation", batch |-> <<head.id>>]
            BY <3>2, <3>4, <3>5 DEF OpShape, OpSound
        <3>6. CASE op' = [step |-> "steer", from |-> "queue", batch |-> <<head.id>>]
            BY <3>2, <3>4, <3>6 DEF OpShape, OpSound
        <3>7. CASE op' = [step |-> "start", from |-> "queue", batch |-> b]
            <4>1. b \in Seq(MessageIds) /\ b # << >> /\ Named(b) \subseteq Ids(queue.items)
                BY <3>2 DEF b
            <4>2. QED BY <3>7, <4>1 DEF OpShape, OpSound
        <3>8. QED BY <3>3, <3>5, <3>6, <3>7 DEF b
    <2>3. QED BY <2>1, <2>2
<1>7. Taking = {} /\ Taking' = {} /\ Going' \subseteq Ids(queue.items)
    BY <1>1, <1>6 DEF Taking, Going
<1>8. Waits(queue)' /\ Ids(queue.items)' = Ids(queue.items)
    BY <1>1, <1>2
<1>9. \A id \in Clear :
         id \in Going' => /\ Tellers(id) = {} /\ id \notin Handed /\ id \notin takenBack'
                          /\ (op.from = "door")' => id \notin Ids(queue.items)'
    BY <1>1, <1>5, <1>6, <1>7
<1>10. QED BY <1>1, <1>2, <1>3, <1>4, <1>6, <1>7, <1>8, <1>9, RunsAlone

LEMMA TakeSound == ASSUME AdmissionInv, Take PROVE AdmissionInv'
<1>1. /\ runs' = runs /\ row' = row /\ left' = left /\ recorded' = recorded /\ heard' = heard
      /\ named' = named /\ forgotten' = forgotten
      /\ receipts' = Remembered \cup Named(op.batch) /\ accepted' = accepted
      /\ takenBack' = takenBack /\ resuming' = resuming /\ asked' = asked /\ op.step = "take"
      /\ queue' = Plain(Taken(queue, Named(op.batch)))
      /\ op' = [step |-> "deliver", from |-> "queue", batch |-> << >>]
    BY DEF Take, turnVars, diskVars, ghosts, Kept, Delivers, Step
<1>2. Shapes /\ Waits(queue) /\ asked \in BOOLEAN /\ accepted \subseteq MessageIds
      /\ takenBack \subseteq MessageIds /\ op \in OpShape /\ resuming \in {0, resuming}
    BY DEF AdmissionInv, Shapes
<1>3. left = 0
    BY <1>1, LockWorks
<1>4. receipts \subseteq Remembered /\ Remembered \subseteq MessageIds
      /\ Named(op.batch) \subseteq MessageIds
    BY <1>2, RememberedHolds, NamedIs DEF OpShape
<1>5. Waits(queue)' /\ Ids(queue.items)' = Ids(queue.items) \ Named(op.batch)
    <2> DEFINE q == Taken(queue, Named(op.batch))
    <2>1. Keeps(q) /\ Ids(q.items) = Ids(queue.items) \ Named(op.batch)
        BY <1>2, TakenIds DEF Waits
    <2> HIDE DEF q
    <2>2. Waits(Plain(q)) /\ Ids(Plain(q).items) = Ids(queue.items) \ Named(op.batch)
        BY <1>2, <2>1, PlainWaits DEF Waits
    <2>3. queue' = Plain(q)
        BY <1>1 DEF q
    <2>4. QED BY <2>2, <2>3
<1>6. /\ (op \in OpShape)' /\ OpSound' /\ op'.step = "deliver"
      /\ Taking = Named(op.batch) /\ Taking' = {} /\ Going' = {}
    BY <1>1, EmptySeq DEF OpShape, OpSound, Taking, Going
<1>7. QED BY <1>1, <1>2, <1>3, <1>4, <1>5, <1>6, RunsAlone

\* A steer or a start from the door is of one message, which is nowhere else,
\* unless a restart lost its id.
LEMMA DoorOne ==
    ASSUME AdmissionInv, op.step = "steer" \/ (op.step = "start" /\ op.from = "door")
    PROVE  /\ op.batch[1] \in MessageIds /\ Named(op.batch) = {op.batch[1]}
           /\ Going = {op.batch[1]} /\ left = 0
           /\ op.batch[1] \in Clear =>
                /\ Tellers(op.batch[1]) = {}
                /\ op.batch[1] \notin Handed /\ op.batch[1] \notin takenBack
                /\ op.from = "door" => op.batch[1] \notin Ids(queue.items)
<1>1. op.batch \in Seq(MessageIds) /\ Len(op.batch) = 1
    BY DEF AdmissionInv, Shapes, OpShape, OpSound
<1>2. op.batch[1] \in MessageIds /\ Named(op.batch) = {op.batch[1]}
    BY <1>1, NamedOne
<1>3. Going = {op.batch[1]}
    BY <1>2 DEF Going
<1>4. left = 0
    BY LockWorks
<1>5. QED BY <1>2, <1>3, <1>4 DEF AdmissionInv, MessageSound

\* Joining the queue at the lock's end, of a message that is nowhere else.
LEMMA JoinsWaits ==
    ASSUME Waits(queue), NEW id \in MessageIds, Joins(id)
    PROVE  /\ Waits(queue)' /\ Ids(queue.items)' = Ids(queue.items) \cup {id}
           /\ accepted' = accepted \cup {id}
           /\ (op \in OpShape)' /\ OpSound' /\ op'.step = "deliver" /\ Taking' = {} /\ Going' = {}
<1>1. queue' = Plain(Joined(queue, Said(id))) /\ accepted' = accepted \cup {id}
      /\ op' = [step |-> "deliver", from |-> "queue", batch |-> << >>]
    BY DEF Joins, Delivers, Step
<1>2. Keeps(Joined(queue, Said(id)))
      /\ Ids(Joined(queue, Said(id)).items) = Ids(queue.items) \cup {id}
    BY JoinedIds, SaidIs DEF Waits
<1>3. Waits(queue') /\ Ids(queue'.items) = Ids(queue.items) \cup {id}
    BY <1>1, <1>2, PlainWaits DEF Waits
<1>4. (op \in OpShape)' /\ OpSound' /\ op'.step = "deliver" /\ Taking' = {} /\ Going' = {}
    BY <1>1, EmptySeq DEF OpShape, OpSound, Taking, Going
<1>5. QED BY <1>1, <1>3, <1>4

\* What comes of a start that finds the conversation busy, and of a steer that
\* finds nobody to take it.
LEMMA BusySound ==
    ASSUME AdmissionInv, op.step \in {"start", "steer"},
           IF op.from = "door" THEN Joins(op.batch[1])
           ELSE op' = FreeLock /\ UNCHANGED <<queue, accepted>>,
           UNCHANGED <<runs, diskVars, heard, receipts, takenBack, resuming, asked>>
    PROVE  AdmissionInv'
<1>1. Shapes /\ Waits(queue) /\ asked \in BOOLEAN /\ accepted \subseteq MessageIds
      /\ takenBack \subseteq MessageIds /\ receipts \subseteq MessageIds
      /\ resuming \in {0, resuming} /\ Taking = {} /\ left = 0
    BY LockWorks DEF AdmissionInv, Shapes, Taking
<1>2. CASE op.from = "door"
    <2>1. /\ op.batch[1] \in MessageIds
          /\ op.batch[1] \in Clear => /\ Tellers(op.batch[1]) = {}
                                     /\ op.batch[1] \notin Handed /\ op.batch[1] \notin takenBack
        BY <1>2, DoorOne
    <2>2. /\ Waits(queue)' /\ Ids(queue.items)' = Ids(queue.items) \cup {op.batch[1]}
          /\ accepted' = accepted \cup {op.batch[1]}
          /\ (op \in OpShape)' /\ OpSound' /\ op'.step = "deliver" /\ Taking' = {} /\ Going' = {}
        BY <1>1, <1>2, <2>1, JoinsWaits
    <2>3. QED BY <1>1, <2>1, <2>2, RunsAlone DEF diskVars
<1>3. CASE op.from # "door"
    <2>1. op' = FreeLock /\ UNCHANGED <<queue, accepted>>
        BY <1>3
    <2>2. (op \in OpShape)' /\ OpSound' /\ op'.step = "free" /\ Taking' = {} /\ Going' = {}
        BY <2>1, EmptySeq DEF FreeLock, OpShape, OpSound, Taking, Going
    <2>3. Waits(queue)' /\ Ids(queue.items)' = Ids(queue.items) /\ accepted' = accepted
        BY <1>1, <2>1
    <2>4. QED BY <1>1, <2>2, <2>3, RunsAlone DEF diskVars
<1>4. QED BY <1>2, <1>3

LEMMA StartBusySound == ASSUME AdmissionInv, StartBusy PROVE AdmissionInv'
BY BusySound DEF StartBusy, turnVars

LEMMA StartArchivedSound == ASSUME AdmissionInv, StartArchived PROVE AdmissionInv'
<1>1. /\ runs' = runs /\ row' = row /\ left' = left /\ recorded' = recorded /\ heard' = heard
      /\ named' = named /\ forgotten' = forgotten
      /\ receipts' = receipts /\ takenBack' = takenBack /\ resuming' = resuming /\ asked' = asked
      /\ op.step = "start"
    BY DEF StartArchived, diskVars
<1>2. Shapes /\ Waits(queue) /\ asked \in BOOLEAN /\ accepted \subseteq MessageIds
      /\ takenBack \subseteq MessageIds /\ receipts \subseteq MessageIds /\ OpSound
      /\ op \in OpShape
      /\ resuming \in {0, resuming} /\ Taking = {} /\ left = 0
    BY <1>1, LockWorks DEF AdmissionInv, Shapes, Taking
<1>3. CASE /\ op.from = "queue" /\ op' = [op EXCEPT !.from = "again"]
           /\ UNCHANGED <<queue, accepted>>
    <2>1. /\ op'.step = "start" /\ op'.from = "again" /\ op'.batch = op.batch
          /\ (op \in OpShape)'
        BY <1>1, <1>2, <1>3 DEF OpShape
    <2>2. OpSound' /\ Taking' = {} /\ Going' = Going
        BY <1>1, <1>2, <2>1 DEF OpSound, Taking, Going
    <2>3. \A id \in Clear :
             id \in Going => Tellers(id) = {} /\ id \notin Handed /\ id \notin takenBack
        BY DEF AdmissionInv, MessageSound
    <2>4. Waits(queue)' /\ Ids(queue.items)' = Ids(queue.items) /\ accepted' = accepted
        BY <1>2, <1>3
    <2>5. QED BY <1>1, <1>2, <2>1, <2>2, <2>3, <2>4, RunsAlone
<1>4. CASE op' = FreeLock /\ UNCHANGED <<queue, accepted>>
    <2>1. (op \in OpShape)' /\ OpSound' /\ op'.step = "free" /\ Taking' = {} /\ Going' = {}
        BY <1>4, EmptySeq DEF FreeLock, OpShape, OpSound, Taking, Going
    <2>2. Waits(queue)' /\ Ids(queue.items)' = Ids(queue.items) /\ accepted' = accepted
        BY <1>2, <1>4
    <2>3. QED BY <1>1, <1>2, <2>1, <2>2, RunsAlone
<1>5. CASE /\ queue' = Plain(Moved(queue, Without(queue.items, Named(op.batch)), HoldOf(queue)))
           /\ accepted' = accepted \ Named(op.batch)
           /\ Delivers
    <2>1. op' = [step |-> "deliver", from |-> "queue", batch |-> << >>]
        BY <1>5 DEF Delivers, Step
    <2>2. (op \in OpShape)' /\ OpSound' /\ op'.step = "deliver" /\ Taking' = {} /\ Going' = {}
        BY <2>1, EmptySeq DEF OpShape, OpSound, Taking, Going
    <2>3. Waits(queue)' /\ Ids(queue.items)' = Ids(queue.items) \ Named(op.batch)
        <3> DEFINE q == Moved(queue, Without(queue.items, Named(op.batch)), HoldOf(queue))
        <3>1. Keeps(q) /\ Ids(q.items) = Ids(queue.items) \ Named(op.batch)
            BY <1>2, DroppedIds DEF Waits
        <3> HIDE DEF q
        <3>2. Waits(Plain(q)) /\ Ids(Plain(q).items) = Ids(queue.items) \ Named(op.batch)
            BY <1>2, <3>1, PlainWaits DEF Waits
        <3>3. queue' = Plain(q)
            BY <1>5 DEF q
        <3>4. QED BY <3>2, <3>3
    <2>4. accepted' \subseteq MessageIds
        BY <1>2, <1>5
    <2>5. \A id \in Clear :
             id \in accepted' => id \in accepted /\ id \notin Named(op.batch)
        BY <1>5
    <2>6. QED BY <1>1, <1>2, <2>2, <2>3, <2>4, <2>5, RunsAlone
<1>6. QED BY <1>3, <1>4, <1>5 DEF StartArchived

\* Presses, passes and promises that move no message and no turn.
LEMMA AsideSound ==
    ASSUME AdmissionInv,
           \/ GiveUp \/ Reopens \/ RewindLeased \/ RewindReleased \/ Archive \/ Unarchive
           \/ \E r \in Runs : CardUp(r) \/ CardAnswered(r)
    PROVE  AdmissionInv'
<1>1. Waits(queue) /\ asked \in BOOLEAN /\ (left # 0 => ~asked) /\ runs \in [Runs -> RunShape]
    BY DEF AdmissionInv, Shapes, RecoveryAlone
<1>2. CASE GiveUp \/ RewindLeased \/ RewindReleased \/ Archive \/ Unarchive
    <2>1. /\ UNCHANGED <<runs, diskVars, heard, receipts, op, accepted, takenBack, queue, asked>>
          /\ resuming' \in {0, resuming}
        BY <1>2 DEF GiveUp, RewindLeased, RewindReleased, Archive, Unarchive, ghosts
    <2>2. Waits(queue)' /\ Ids(queue.items)' = Ids(queue.items)
        BY <1>1, <2>1
    <2>3. QED BY <1>1, <2>1, <2>2, LockAlone
<1>3. CASE Reopens
    <2>1. /\ UNCHANGED <<runs, diskVars, heard, receipts, op, accepted, takenBack, queue>>
          /\ resuming' = resuming /\ left = 0 /\ asked' \in BOOLEAN
        BY <1>1, <1>3 DEF Reopens, ghosts
    <2>2. Waits(queue)' /\ Ids(queue.items)' = Ids(queue.items)
        BY <1>1, <2>1
    <2>3. QED BY <1>1, <2>1, <2>2, LockAlone
<1>4. ASSUME NEW r \in Runs, CardUp(r) \/ CardAnswered(r) PROVE AdmissionInv'
    <2>1. /\ UNCHANGED <<diskVars, heard, receipts, op, accepted, takenBack, queue, resuming>>
          /\ runs' = [runs EXCEPT ![r] = runs[r]] /\ runs[r].stage = "talking"
          /\ asked' \in {asked, TRUE}
        BY <1>4 DEF CardUp, CardAnswered, Turns, diskVars
    <2>2. runs' = runs
        BY <1>1, <2>1
    <2>3. left = 0
        BY <2>1 DEF AdmissionInv, RecoveryAlone, OpenStages
    <2>4. Waits(queue)' /\ Ids(queue.items)' = Ids(queue.items)
        BY <1>1, <2>1
    <2>5. QED BY <1>1, <2>1, <2>2, <2>3, <2>4, LockAlone
<1>5. QED BY <1>2, <1>3, <1>4

-----------------------------------------------------------------------------
(* The steps that claim the conversation for a run.                        *)

LEMMA RunFacts ==
    ASSUME AdmissionInv, NEW r \in Runs
    PROVE  /\ runs[r] \in RunShape /\ RunSound(r) /\ RunKept(r)
           /\ runs[r].stage = "none" => runs[r] = NoRun
           /\ Named(runs[r].batch) \subseteq runs[r].told
BY DEF AdmissionInv, Shapes, RunsSound, RunSound

\* A run claimed for words that are nowhere else, or for those of a turn run
\* again: who told what to whom, and the runs among themselves.
LEMMA ClaimSound ==
    ASSUME AdmissionInv, NEW r \in Runs, NEW batch \in Seq(MessageIds), NEW keeps \in BOOLEAN,
           NEW origin \in Runs, Claim(r, batch, keeps, origin), heard' = heard,
           \/ origin = r /\ \A id \in Named(batch) \cap Clear : Tellers(id) = {}
           \/ ~keeps /\ \E q \in Runs : /\ runs[q].stage \in {"done", "ended", "cut"}
                                        /\ ~runs[q].unrun
                                        /\ batch = runs[q].batch /\ origin = runs[q].origin
    PROVE  /\ runs' \in [Runs -> RunShape]
           /\ runs[r] = NoRun /\ \A q \in Runs \ {r} : runs'[q] = runs[q]
           /\ runs'[r].stage = "claimed" /\ runs'[r].told = Named(batch) /\ runs'[r].batch = batch
           /\ ~runs'[r].unrun
           /\ Ongoing = {} /\ Ongoing' = {r} /\ Running' = {}
           /\ HandBack' = HandBack /\ Handed' = Handed
           /\ \A id : Tellers(id)' = Tellers(id) \cup (IF id \in Named(batch) THEN {r} ELSE {})
           /\ \A q \in Runs : RunSound(q)'
           /\ (row \in [run : 0..MaxRun, staged : 0..MaxRun])'
           /\ (row.run # 0 => runs[row.run].stage \notin {"none", "ended"})'
           /\ \A id \in Clear :
                 /\ (\A q, s \in Tellers(id) : runs[q].origin = runs[s].origin)'
                 /\ (\A o \in heard[id] : /\ runs[o].stage \notin Unspoken
                                          /\ \E q \in Tellers(id) : runs[q].origin = o)'
           /\ OverStay
<1> USE Bounds
<1>1. /\ runs[r].stage = "none" /\ Ongoing = {} /\ Shapes
      /\ runs' = [runs EXCEPT ![r] = [NoRun EXCEPT !.stage = "claimed", !.batch = batch,
                                        !.told = Named(batch), !.keeps = keeps, !.origin = origin]]
    BY DEF Claim, Unused, AdmissionInv
<1>2. runs[r] = NoRun
    BY <1>1, RunFacts
<1>3. /\ runs'[r] = [stage |-> "claimed", batch |-> batch, told |-> Named(batch), keeps |-> keeps,
                     unrun |-> FALSE, stopping |-> FALSE, origin |-> origin]
      /\ \A q \in Runs \ {r} : runs'[q] = runs[q]
      /\ DOMAIN runs' = Runs /\ runs' = [q \in Runs |-> runs'[q]]
    BY <1>1 DEF Shapes, NoRun
<1>4. runs'[r] \in RunShape
    BY <1>3, NamedIs DEF RunShape, OpenStages, Runs
<1>5. runs' \in [Runs -> RunShape]
    BY <1>1, <1>3, <1>4 DEF Shapes
<1>6. Ongoing' = {r} /\ Running' = {}
    <2>1. \A q \in Runs \ {r} : runs[q].stage \notin OpenStages
        BY <1>1 DEF Ongoing
    <2>2. r \in Ongoing' /\ r \notin Running'
        BY <1>3 DEF Ongoing, Running, OpenStages, RunningStages
    <2>3. \A q \in Runs \ {r} : q \notin Ongoing' /\ q \notin Running'
        BY <1>3, <2>1 DEF Ongoing, Running, OpenStages, RunningStages
    <2>4. Ongoing' \subseteq Runs /\ Running' \subseteq Runs
        BY DEF Ongoing, Running
    <2>5. QED BY <2>2, <2>3, <2>4
<1>7. HandBack' = HandBack /\ Handed' = Handed
    <2>1. r \notin HandBack' /\ r \notin HandBack
        BY <1>1, <1>3 DEF HandBack
    <2>2. \A q \in Runs \ {r} : q \in HandBack' <=> q \in HandBack
        BY <1>3 DEF HandBack
    <2>3. HandBack' \subseteq Runs /\ HandBack \subseteq Runs
        BY DEF HandBack
    <2>4. HandBack' = HandBack
        <3>1. HandBack' \subseteq HandBack
            BY <2>1, <2>2, <2>3
        <3>2. HandBack \subseteq HandBack'
            BY <2>1, <2>2, <2>3
        <3>3. QED BY <3>1, <3>2
    <2>5. \A q \in HandBack : runs'[q] = runs[q]
        BY <1>3, <2>1, <2>3
    <2>6. {Named(runs[q].batch) : q \in HandBack}' = {Named(runs[q].batch) : q \in HandBack}
        BY <2>4, <2>5
    <2>7. QED BY <2>4, <2>6 DEF Handed
<1>8. \A id : Tellers(id)' = Tellers(id) \cup (IF id \in Named(batch) THEN {r} ELSE {})
    <2>1. \A id : r \notin Tellers(id)
        BY <1>2 DEF Tellers, NoRun
    <2>2. \A id : r \in Tellers(id)' <=> id \in Named(batch)
        BY <1>3 DEF Tellers
    <2>3. \A id : \A q \in Runs \ {r} : q \in Tellers(id)' <=> q \in Tellers(id)
        BY <1>3 DEF Tellers
    <2>4. \A id : Tellers(id)' \subseteq Runs /\ Tellers(id) \subseteq Runs
        BY DEF Tellers
    <2>5. QED BY <2>1, <2>2, <2>3, <2>4
<1>9. origin # r => runs[origin].stage \notin Unspoken
    <2>1. CASE origin = r
        BY <2>1
    <2>2. CASE origin # r
        <3>1. PICK q \in Runs : runs[q].stage \in {"done", "ended", "cut"} /\ origin = runs[q].origin
            BY <2>2
        <3>2. RunSound(q)
            BY RunFacts
        <3>3. QED BY <3>1, <3>2 DEF RunSound, Unspoken
    <2>3. QED BY <2>1, <2>2
<1>10. ~keeps \/ origin = r
    OBVIOUS
<1>11. ASSUME NEW q \in Runs PROVE RunSound(q)'
    <2>1. CASE q = r
        BY <1>3, <1>9, <1>10, <2>1 DEF RunSound, Unspoken
    <2>2. CASE q # r
        <3>1. RunSound(q) /\ runs'[q] = runs[q]
            BY <1>3, <2>2, RunFacts
        <3>2. runs[q].stage # "none" /\ runs[q].origin # q => runs[q].origin \in Runs \ {r}
            BY <1>1, <3>1 DEF RunSound, Unspoken
        <3>3. QED BY <1>3, <3>1, <3>2 DEF RunSound
    <2>3. QED BY <2>1, <2>2
<1>12. /\ (row \in [run : 0..MaxRun, staged : 0..MaxRun])'
       /\ (row.run # 0 => runs[row.run].stage \notin {"none", "ended"})'
    <2>1. row \in [run : 0..MaxRun, staged : 0..MaxRun] /\ r \in 0..MaxRun
        BY <1>1 DEF Shapes, Runs
    <2>2. row' = [row EXCEPT !.run = r] \/ row' = [row EXCEPT !.staged = r]
        BY DEF Claim
    <2>3. (row \in [run : 0..MaxRun, staged : 0..MaxRun])' /\ row'.run \in {row.run, r}
        BY <2>1, <2>2
    <2>4. row.run # 0 => row.run \in Runs \ {r}
        BY <1>1, <2>1 DEF AdmissionInv, RunsSound, Runs
    <2>5. row.run # 0 => runs[row.run].stage \notin {"none", "ended"}
        BY DEF AdmissionInv, RunsSound
    <2>6. QED BY <1>3, <2>3, <2>4, <2>5
<1>13. ASSUME NEW id \in Clear
       PROVE  /\ (\A q, s \in Tellers(id) : runs[q].origin = runs[s].origin)'
              /\ (\A o \in heard[id] : /\ runs[o].stage \notin Unspoken
                                       /\ \E q \in Tellers(id) : runs[q].origin = o)'
    <2>1. /\ \A q, s \in Tellers(id) : runs[q].origin = runs[s].origin
          /\ \A o \in heard[id] : /\ runs[o].stage \notin Unspoken
                                  /\ \E q \in Tellers(id) : runs[q].origin = o
          /\ heard[id] \subseteq Runs
        BY <1>1 DEF AdmissionInv, MessageSound, Shapes, Clear
    <2>2. r \notin Tellers(id) /\ Tellers(id) \subseteq Runs
        BY <1>2 DEF Tellers, NoRun
    <2>3. id \in Named(batch) => \A q \in Tellers(id) : runs[q].origin = origin
        <3>1. CASE origin = r /\ \A i \in Named(batch) \cap Clear : Tellers(i) = {}
            BY <3>1
        <3>2. CASE \E q \in Runs : /\ runs[q].stage \in {"done", "ended", "cut"}
                                   /\ ~runs[q].unrun
                                   /\ batch = runs[q].batch /\ origin = runs[q].origin
            <4>1. PICK q \in Runs : ~runs[q].unrun /\ batch = runs[q].batch
                                    /\ origin = runs[q].origin
                BY <3>2
            <4>2. id \in Named(batch) => q \in Tellers(id)
                BY <4>1, RunFacts DEF Tellers
            <4>3. QED BY <2>1, <4>1, <4>2
        <3>3. QED BY <3>1, <3>2
    <2>4. \A q \in Tellers(id) : runs'[q].origin = runs[q].origin
        BY <1>3, <2>2
    <2>5. runs'[r].origin = origin
        BY <1>3
    <2>6. \A o \in heard[id] : o # r
        BY <1>1, <2>1 DEF Unspoken
    <2>7. \A o \in heard[id] : runs'[o].stage = runs[o].stage
        BY <1>3, <2>1, <2>6
    <2>8. (\A q, s \in Tellers(id) : runs[q].origin = runs[s].origin)'
        BY <1>8, <2>1, <2>3, <2>4, <2>5
    <2>9. (\A o \in heard[id] : /\ runs[o].stage \notin Unspoken
                                /\ \E q \in Tellers(id) : runs[q].origin = o)'
        BY <1>8, <2>1, <2>4, <2>7
    <2>10. QED BY <2>8, <2>9
<1>14. QED
    <2>1. runs'[r].stage = "claimed" /\ runs'[r].told = Named(batch) /\ runs'[r].batch = batch
          /\ ~runs'[r].unrun
        BY <1>3
    <2>2. OverStay
        BY <1>2, <1>3 DEF OverStay, NoRun
    <2>3. QED BY <1>1, <1>2, <1>3, <1>5, <1>6, <1>7, <1>8, <1>11, <1>12, <1>13, <2>1, <2>2

\* What a run under way, or one with words to hand back, was told, and a taken
\* batch, before and after a claim: the other runs' words stay where they were.
LEMMA ClaimKeeps ==
    ASSUME AdmissionInv, NEW r \in Runs, runs[r] = NoRun,
           \A q \in Runs \ {r} : runs'[q] = runs[q], Ongoing = {}, Running' = {},
           HandBack' = HandBack, recorded \subseteq recorded', receipts \subseteq receipts',
           left # 0 => left' = left \/ runs[left].told \subseteq recorded',
           Taking = {},
           NEW q \in Runs \ {r}
    PROVE  RunKept(q)'
<1>1. runs'[q] = runs[q] /\ RunKept(q)
    BY RunFacts
<1>2. q \notin Ongoing /\ q # 0
    BY Bounds DEF Runs
<1>3. runs[q].stage \notin OpenStages
    BY <1>2 DEF Ongoing
<1>4. (runs[q].stage = "cut" => q = left \/ runs[q].told \subseteq recorded)'
    BY <1>1, <1>2 DEF RunKept
<1>5. (runs[q].stage \in OpenStages \cup {"done"} \/ q \in HandBack =>
         runs[q].told \subseteq receipts \cup recorded \cup Taking)'
    <2>1. runs[q].stage = "done" \/ q \in HandBack => runs[q].told \subseteq receipts \cup recorded
        BY <1>1 DEF RunKept
    <2>2. QED BY <1>1, <1>3, <2>1
<1>6. (runs[q].stage = "ended" /\ ~runs[q].unrun => runs[q].told \subseteq recorded)'
    BY <1>1 DEF RunKept
<1>7. QED BY <1>4, <1>5, <1>6 DEF RunKept

\* A message accepted and not touched by a claim is where it was.
Placed(id) ==
    \/ id \in Ids(queue.items) \cup takenBack \cup recorded
    \/ \E r \in Runs : /\ id \in runs[r].told
                       /\ \/ r \in Ongoing \cup HandBack
                          \/ runs[r].stage = "done" /\ ~runs[r].unrun
                          \/ left # 0 /\ r = left

LEMMA StartClaimsSound ==
    ASSUME AdmissionInv, NEW r \in Runs, StartClaims(r) PROVE AdmissionInv'
<1> USE Bounds
<1> DEFINE batch == op.batch
           keeps == op.from # "continuation" /\ IsPerson(op.batch[1])
<1>1. /\ op.step = "start" /\ Claim(r, batch, keeps, r)
      /\ queue' = queue /\ resuming' = resuming /\ asked' = asked /\ recorded' = recorded
      /\ left' = left /\ takenBack' = takenBack /\ heard' = heard
      /\ named' = named /\ forgotten' = forgotten
      /\ accepted' = accepted \cup Named(batch)
    BY DEF StartClaims, tally
<1>2. Shapes /\ batch \in Seq(MessageIds) /\ left = 0 /\ batch # << >>
      /\ Named(batch) \subseteq MessageIds /\ Taking = {} /\ Going = Named(batch)
    BY <1>1, LockWorks, NamedIs DEF AdmissionInv, Shapes, OpShape, OpSound, Taking, Going
<1>3. \A id \in Named(batch) \cap Clear :
          /\ Tellers(id) = {} /\ id \notin Handed /\ id \notin takenBack
          /\ op.from = "door" => id \notin Ids(queue.items)
    BY <1>2 DEF AdmissionInv, MessageSound
<1>4. keeps \in BOOLEAN
    BY DEF IsPerson
<1> HIDE DEF batch, keeps
<1>5. /\ runs' \in [Runs -> RunShape]
      /\ runs[r] = NoRun /\ \A q \in Runs \ {r} : runs'[q] = runs[q]
      /\ runs'[r].stage = "claimed" /\ runs'[r].told = Named(batch) /\ runs'[r].batch = batch
      /\ ~runs'[r].unrun
      /\ Ongoing = {} /\ Ongoing' = {r} /\ Running' = {}
      /\ HandBack' = HandBack /\ Handed' = Handed
      /\ \A id : Tellers(id)' = Tellers(id) \cup (IF id \in Named(batch) THEN {r} ELSE {})
      /\ \A q \in Runs : RunSound(q)'
      /\ (row \in [run : 0..MaxRun, staged : 0..MaxRun])'
      /\ (row.run # 0 => runs[row.run].stage \notin {"none", "ended"})'
      /\ \A id \in Clear :
            /\ (\A q, s \in Tellers(id) : runs[q].origin = runs[s].origin)'
            /\ (\A o \in heard[id] : /\ runs[o].stage \notin Unspoken
                                     /\ \E q \in Tellers(id) : runs[q].origin = o)'
      /\ OverStay
    BY <1>1, <1>2, <1>3, <1>4, ClaimSound
<1>6. /\ (op \in OpShape)' /\ OpSound' /\ Going' = {}
      /\ receipts \subseteq receipts' /\ receipts' \subseteq MessageIds
      /\ \/ op.from = "door" /\ op'.step = "free" /\ Taking' = {} /\ Named(batch) \subseteq receipts'
         \/ op.from # "door" /\ op'.step = "take" /\ op'.batch = batch /\ Taking' = Named(batch)
    <2>1. CASE op.from = "door"
        <3>1. op' = FreeLock /\ receipts' = Remembered \cup Named(batch)
            BY <2>1 DEF StartClaims, Kept, batch
        <3>2. (op \in OpShape)' /\ OpSound' /\ Going' = {} /\ Taking' = {} /\ op'.step = "free"
            BY <3>1, EmptySeq DEF FreeLock, OpShape, OpSound, Taking, Going
        <3>3. receipts \subseteq Remembered /\ Remembered \subseteq MessageIds
            BY <1>2, RememberedHolds
        <3>4. QED BY <1>2, <2>1, <3>1, <3>2, <3>3
    <2>2. CASE op.from # "door"
        <3>1. op' = [step |-> "take", from |-> "queue", batch |-> batch] /\ receipts' = receipts
            BY <2>2 DEF StartClaims, Step, batch
        <3>2. (op \in OpShape)' /\ OpSound' /\ Going' = {} /\ Taking' = Named(batch)
              /\ op'.step = "take" /\ op'.batch = batch
            BY <1>2, <3>1 DEF OpShape, OpSound, Taking, Going
        <3>3. receipts \subseteq MessageIds
            BY <1>2 DEF Shapes
        <3>4. QED BY <2>2, <3>1, <3>2, <3>3
    <2>3. QED BY <2>1, <2>2
<1>7. Shapes'
    <2>1. Waits(queue)' /\ Ids(queue.items)' = Ids(queue.items)
        BY <1>1, <1>2 DEF Shapes
    <2>2. accepted' \subseteq MessageIds
        BY <1>1, <1>2 DEF Shapes
    <2>3. QED BY <1>1, <1>2, <1>5, <1>6, <2>1, <2>2 DEF Shapes
<1>8. RunsSound'
    <2>1. RunKept(r)'
        <3>1. r \notin HandBack
            BY <1>5 DEF HandBack, NoRun
        <3>2. QED BY <1>5, <1>6, <3>1 DEF RunKept
    <2>2. \A q \in Runs \ {r} : RunKept(q)'
        BY <1>1, <1>2, <1>5, <1>6, ClaimKeeps
    <2>3. resuming # 0 => resuming \in Runs \ {r} /\ runs[resuming].stage \in {"done", "ended"}
                          /\ ~runs[resuming].unrun
        BY <1>2, <1>5 DEF AdmissionInv, RunsSound, Shapes, NoRun, Runs
    <2>4. (resuming # 0 => runs[resuming].stage \in {"done", "ended"} /\ ~runs[resuming].unrun)'
        BY <1>1, <1>5, <2>3
    <2>5. (op.step = "take" =>
              \E q \in Runs : runs[q].stage = "claimed" /\ runs[q].told = Named(op.batch))'
        BY <1>5, <1>6
    <2>6. \A q, s \in Ongoing' : q = s
        BY <1>5
    <2>7. QED BY <1>5, <2>1, <2>2, <2>4, <2>5, <2>6 DEF RunsSound
<1>9. RecoveryAlone'
    BY <1>1, <1>2 DEF RecoveryAlone
<1>10. ASSUME NEW id \in Clear PROVE MessageSound(id)'
    <2>1. MessageSound(id)
        BY DEF AdmissionInv
    <2>2. Ids(queue.items)' = Ids(queue.items)
        BY <1>1
    <2>3. (id \in recorded => \E q \in Tellers(id) : runs[q].stage \in {"done", "ended", "cut"})'
        <3>1. \A q \in Tellers(id) : q \in Runs \ {r}
            BY <1>5 DEF Tellers, NoRun
        <3>2. QED BY <1>1, <1>5, <2>1, <3>1 DEF MessageSound
    <2>4. (id \in Ids(queue.items) /\ Tellers(id) # {} => id \in Taking)'
        BY <1>2, <1>3, <1>5, <1>6, <2>1, <2>2 DEF MessageSound
    <2>5. (id \in Handed => id \notin Ids(queue.items) /\ Tellers(id) = {})'
        BY <1>3, <1>5, <2>1, <2>2 DEF MessageSound
    <2>6. (id \in takenBack => id \notin Ids(queue.items) /\ id \notin Handed /\ Tellers(id) = {})'
        BY <1>1, <1>3, <1>5, <2>1, <2>2 DEF MessageSound
    <2>7. ASSUME id \in accepted' PROVE Placed(id)'
        <3>1. CASE id \in Named(batch)
            <4>1. r \in Ongoing' /\ id \in runs'[r].told
                BY <1>5, <3>1
            <4>2. QED BY <4>1 DEF Placed
        <3>2. CASE id \notin Named(batch)
            <4>1. id \in accepted
                BY <1>1, <2>7, <3>2
            <4>2. Placed(id)
                BY <2>1, <4>1 DEF MessageSound, Placed
            <4>3. CASE id \in Ids(queue.items) \cup takenBack \cup recorded
                BY <1>1, <2>2, <4>3 DEF Placed
            <4>4. CASE \E q \in Runs : /\ id \in runs[q].told
                                       /\ \/ q \in Ongoing \cup HandBack
                                          \/ runs[q].stage = "done" /\ ~runs[q].unrun
                                          \/ left # 0 /\ q = left
                <5>1. PICK q \in Runs : /\ id \in runs[q].told
                                        /\ \/ q \in HandBack
                                           \/ runs[q].stage = "done" /\ ~runs[q].unrun
                    BY <1>2, <1>5, <4>4
                <5>2. q # r
                    BY <1>5, <5>1 DEF NoRun
                <5>3. runs'[q] = runs[q]
                    BY <1>5, <5>2
                <5>4. QED BY <1>5, <5>1, <5>3 DEF Placed
            <4>5. QED BY <4>2, <4>3, <4>4 DEF Placed
        <3>3. QED BY <3>1, <3>2
    <2>8. QED BY <1>5, <1>6, <2>3, <2>4, <2>5, <2>6, <2>7 DEF MessageSound, Placed
<1>11. IdsKept'
    BY <1>1, <1>2, <1>5, <1>6, IdsStay
<1>12. QED BY <1>1, <1>6, <1>7, <1>8, <1>9, <1>10, <1>11 DEF AdmissionInv, Clear

\* A turn run again by the daemon: a promise carried on, or a cut turn whose
\* words are on the record once it is recovered.
LEMMA AgainSound ==
    ASSUME AdmissionInv, NEW r \in Runs, NEW q \in Runs,
           runs[q].stage \in {"done", "ended", "cut"}, ~runs[q].unrun,
           Claim(r, runs[q].batch, FALSE, runs[q].origin),
           UNCHANGED <<queue, op, receipts, accepted, takenBack, heard, resuming>>,
           asked' \in BOOLEAN, left' = 0, left = 0 \/ q = left, runs[q].stage = "cut" => q = left,
           forgotten' = forgotten, IF left = 0 THEN Unwritten ELSE Writes(left)
    PROVE  AdmissionInv'
<1> USE Bounds
<1> DEFINE batch == runs[q].batch
<1>1. Shapes /\ RunSound(q) /\ RunKept(q) /\ runs[q] \in RunShape /\ q # 0
    BY RunFacts DEF AdmissionInv, Runs
<1>2. /\ batch \in Seq(MessageIds) /\ Named(batch) \subseteq runs[q].told
      /\ runs[q].told \subseteq MessageIds /\ runs[q].origin \in Runs
    BY <1>1 DEF RunShape, RunSound
<1> HIDE DEF batch
<1>3. /\ runs' \in [Runs -> RunShape]
      /\ runs[r] = NoRun /\ \A s \in Runs \ {r} : runs'[s] = runs[s]
      /\ runs'[r].stage = "claimed" /\ runs'[r].told = Named(batch) /\ runs'[r].batch = batch
      /\ ~runs'[r].unrun
      /\ Ongoing = {} /\ Ongoing' = {r} /\ Running' = {}
      /\ HandBack' = HandBack /\ Handed' = Handed
      /\ \A id : Tellers(id)' = Tellers(id) \cup (IF id \in Named(batch) THEN {r} ELSE {})
      /\ \A s \in Runs : RunSound(s)'
      /\ (row \in [run : 0..MaxRun, staged : 0..MaxRun])'
      /\ (row.run # 0 => runs[row.run].stage \notin {"none", "ended"})'
      /\ \A id \in Clear :
            /\ (\A p, s \in Tellers(id) : runs[p].origin = runs[s].origin)'
            /\ (\A o \in heard[id] : /\ runs[o].stage \notin Unspoken
                                     /\ \E s \in Tellers(id) : runs[s].origin = o)'
      /\ OverStay
    <2>1. Claim(r, batch, FALSE, runs[q].origin)
        BY DEF batch
    <2>2. \E s \in Runs : /\ runs[s].stage \in {"done", "ended", "cut"} /\ ~runs[s].unrun
                          /\ batch = runs[s].batch /\ runs[q].origin = runs[s].origin
        BY DEF batch
    <2>3. QED BY <1>2, <2>1, <2>2, ClaimSound
\* Nothing is being taken: whose words those were would be under way.
<1>4. op.step # "take"
    <2>1. SUFFICES ASSUME op.step = "take" PROVE FALSE
        OBVIOUS
    <2>2. \E s \in Runs : runs[s].stage = "claimed"
        BY <2>1 DEF AdmissionInv, RunsSound
    <2>3. QED BY <1>3, <2>2 DEF Ongoing, OpenStages
<1>5. Taking = {} /\ Taking' = {} /\ Going' = Going
    BY <1>4 DEF Taking, Going
<1>6. /\ recorded \subseteq recorded' /\ (left # 0 => runs[left].told \subseteq recorded')
      /\ recorded' \subseteq recorded \cup runs[q].told
      /\ named' \subseteq named \cup runs[q].told
    BY DEF Unwritten, Writes, Names
<1>7. runs[q].told \subseteq receipts \cup recorded'
    BY <1>1, <1>5, <1>6 DEF RunKept
\* Who first told a message is still among its tellers, so nobody new is told.
<1>8. \A id : id \in Named(batch) => q \in Tellers(id)
    BY <1>2 DEF Tellers
<1>9. Shapes'
    <2>1. recorded' \subseteq MessageIds /\ named' \subseteq MessageIds
        BY <1>1, <1>2, <1>6 DEF Shapes
    <2>2. Waits(queue)'
        BY <1>1 DEF Shapes
    <2>3. QED BY <1>1, <1>3, <2>1, <2>2 DEF Shapes
<1>10. RunsSound'
    <2>1. RunKept(r)'
        <3>1. r \notin HandBack
            BY <1>3 DEF HandBack, NoRun
        <3>2. Named(batch) \subseteq receipts' \cup recorded'
            BY <1>2, <1>7
        <3>3. QED BY <1>3, <3>1, <3>2 DEF RunKept
    <2>2. ASSUME NEW s \in Runs \ {r} PROVE RunKept(s)'
        BY <1>3, <1>5, <1>6, ClaimKeeps
    <2>3. resuming # 0 => resuming \in Runs \ {r} /\ runs[resuming].stage \in {"done", "ended"}
                          /\ ~runs[resuming].unrun
        BY <1>1, <1>3 DEF AdmissionInv, RunsSound, Shapes, NoRun, Runs
    <2>4. (resuming # 0 => runs[resuming].stage \in {"done", "ended"} /\ ~runs[resuming].unrun)'
        BY <1>3, <2>3
    <2>5. op'.step # "take"
        BY <1>4
    <2>6. \A p, s \in Ongoing' : p = s
        BY <1>3
    <2>7. QED BY <1>3, <2>1, <2>2, <2>4, <2>5, <2>6 DEF RunsSound
<1>11. RecoveryAlone' /\ OpSound'
    BY DEF RecoveryAlone, AdmissionInv, OpSound
<1>12. ASSUME NEW id \in Clear PROVE MessageSound(id)'
    <2>1. MessageSound(id) /\ Ids(queue.items)' = Ids(queue.items) /\ op' = op
        BY DEF AdmissionInv
    <2>2. Tellers(id)' = {} <=> Tellers(id) = {}
        BY <1>3, <1>8
    <2>3. (id \in recorded => \E s \in Tellers(id) : runs[s].stage \in {"done", "ended", "cut"})'
        <3>1. \A s \in Tellers(id) : s \in Runs \ {r} /\ s \in Tellers(id)'
            BY <1>3 DEF Tellers, NoRun
        <3>2. CASE id \in recorded
            BY <1>3, <2>1, <3>1, <3>2 DEF MessageSound
        <3>3. CASE id \notin recorded
            <4>1. ASSUME id \in recorded' PROVE q \in Tellers(id)
                BY <1>6, <3>3, <4>1 DEF Tellers
            <4>2. QED BY <1>3, <3>1, <4>1
        <3>4. QED BY <3>2, <3>3
    <2>4. (id \in Ids(queue.items) /\ Tellers(id) # {} => id \in Taking)'
        BY <1>5, <2>1, <2>2 DEF MessageSound
    <2>5. (id \in Handed => id \notin Ids(queue.items) /\ Tellers(id) = {})'
        BY <1>3, <2>1, <2>2 DEF MessageSound
    <2>6. (id \in Going => /\ Tellers(id) = {} /\ id \notin Handed /\ id \notin takenBack
                           /\ op.from = "door" => id \notin Ids(queue.items))'
        BY <1>3, <1>5, <2>1, <2>2 DEF MessageSound
    <2>7. (id \in takenBack => id \notin Ids(queue.items) /\ id \notin Handed /\ Tellers(id) = {})'
        BY <1>3, <2>1, <2>2 DEF MessageSound
    <2>8. ASSUME id \in accepted' PROVE Placed(id)'
        <3>1. Placed(id)
            BY <2>1, <2>8 DEF MessageSound, Placed
        <3>2. CASE id \in Ids(queue.items) \cup takenBack \cup recorded
            BY <1>6, <2>1, <3>2 DEF Placed
        <3>3. CASE \E s \in Runs : /\ id \in runs[s].told
                                   /\ \/ s \in Ongoing \cup HandBack
                                      \/ runs[s].stage = "done" /\ ~runs[s].unrun
                                      \/ left # 0 /\ s = left
            <4>1. PICK s \in Runs : /\ id \in runs[s].told
                                    /\ \/ s \in HandBack
                                       \/ runs[s].stage = "done" /\ ~runs[s].unrun
                                       \/ left # 0 /\ s = left
                BY <1>3, <3>3
            <4>2. CASE left # 0 /\ s = left
                BY <1>6, <4>1, <4>2 DEF Placed
            <4>3. CASE s \in HandBack \/ (runs[s].stage = "done" /\ ~runs[s].unrun)
                <5>1. s # r
                    BY <1>3, <4>3 DEF NoRun, HandBack
                <5>2. runs'[s] = runs[s]
                    BY <1>3, <5>1
                <5>3. QED BY <1>3, <4>1, <4>3, <5>2 DEF Placed
            <4>4. QED BY <4>1, <4>2, <4>3
        <3>4. QED BY <3>1, <3>2, <3>3 DEF Placed
    <2>9. QED BY <1>3, <2>3, <2>4, <2>5, <2>6, <2>7, <2>8 DEF MessageSound, Placed
<1>13. (op \in OpShape)'
    BY <1>1 DEF Shapes
<1>14. IdsKept'
    <2>1. CASE left = 0
        BY <1>3, <1>5, <2>1, IdsStay DEF Unwritten
    <2>2. CASE left # 0
        <3>1. q = left /\ q # r
            BY <1>3, <2>2 DEF NoRun
        <3>2. /\ runs'[q].stage \in {"done", "ended", "cut"} /\ ~runs'[q].unrun
              /\ runs'[q].batch = runs[q].batch
            BY <1>3, <3>1
        <3>3. QED BY <1>3, <1>5, <2>2, <3>1, <3>2, IdsWritten
    <2>3. QED BY <2>1, <2>2
<1>15. QED BY <1>9, <1>10, <1>11, <1>12, <1>14 DEF AdmissionInv, Clear

LEMMA CarryOnSound == ASSUME AdmissionInv, NEW r \in Runs, CarryOn(r) PROVE AdmissionInv'
<1>1. /\ Claim(r, runs[resuming].batch, FALSE, runs[resuming].origin) /\ resuming # 0
      /\ UNCHANGED <<queue, op, receipts, accepted, takenBack, heard, resuming, asked, left,
                     forgotten>>
      /\ Unwritten
    BY DEF CarryOn, ghosts, Unwritten
<1>2. /\ resuming \in Runs /\ asked \in BOOLEAN
      /\ runs[resuming].stage \in {"done", "ended"} /\ ~runs[resuming].unrun /\ left = 0
    BY <1>1, Bounds DEF AdmissionInv, Shapes, RunsSound, RecoveryAlone, Runs
<1>3. QED BY <1>1, <1>2, AgainSound

LEMMA RecoverRerunsSound ==
    ASSUME AdmissionInv, NEW r \in Runs, RecoverReruns(r) PROVE AdmissionInv'
<1>1. /\ Claim(r, runs[left].batch, FALSE, runs[left].origin) /\ left # 0 /\ left' = 0
      /\ UNCHANGED <<queue, op, receipts, accepted, takenBack, heard, resuming>>
      /\ Writes(left) /\ forgotten' = forgotten /\ asked' \in BOOLEAN
    BY DEF RecoverReruns, Recovered, ghosts
<1>2. left \in Runs /\ runs[left].stage = "cut"
    BY <1>1, Bounds DEF AdmissionInv, Shapes, RecoveryAlone, Runs
<1>3. ~runs[left].unrun
    <2>1. RunSound(left) /\ runs[left] \in RunShape
        BY <1>2, RunFacts
    <2>2. QED BY <1>2, <2>1 DEF RunSound, RunShape
<1>4. QED BY <1>1, <1>2, <1>3, AgainSound

LEMMA RecoverRecordsSound == ASSUME AdmissionInv, RecoverRecords PROVE AdmissionInv'
<1> USE Bounds
<1>1. /\ left # 0 /\ left' = 0 /\ row' = [row EXCEPT !.run = 0]
      /\ runs' = runs /\ queue' = queue /\ op' = op /\ receipts' = receipts /\ accepted' = accepted
      /\ takenBack' = takenBack /\ heard' = heard /\ resuming' = resuming
      /\ Writes(left) /\ recorded' = recorded \cup runs[left].told
      /\ forgotten' = forgotten /\ asked' \in BOOLEAN
    BY DEF RecoverRecords, Recovered, ghosts, Writes
<1>2. /\ left \in Runs /\ runs[left].stage = "cut" /\ op.step = "free" /\ resuming = 0
      /\ \A r \in Runs : runs[r].stage \notin OpenStages \cup {"done"} /\ ~runs[r].keeps
    BY <1>1 DEF AdmissionInv, Shapes, RecoveryAlone, Runs
<1>3. ~runs[left].unrun /\ runs[left].told \subseteq MessageIds
    <2>1. RunSound(left) /\ runs[left] \in RunShape
        BY <1>2, RunFacts
    <2>2. QED BY <1>2, <2>1 DEF RunSound, RunShape
<1>4. Ongoing = {} /\ HandBack = {} /\ Running = {}
    BY <1>2 DEF Ongoing, HandBack, Running, OpenStages, RunningStages
<1>5. /\ Ongoing' = {} /\ HandBack' = {} /\ Running' = {} /\ Handed' = Handed
      /\ \A id : Tellers(id)' = Tellers(id)
    BY <1>1, <1>4 DEF Ongoing, HandBack, Running, Handed, Tellers
<1>6. Taking = {} /\ Taking' = {} /\ Going' = {}
    BY <1>1, <1>2 DEF Taking, Going
<1>7. Shapes'
    <2>1. Shapes
        BY DEF AdmissionInv
    <2>2. (row \in [run : 0..MaxRun, staged : 0..MaxRun])' /\ row'.run = 0
        BY <1>1, <2>1 DEF Shapes
    <2>3. recorded' \subseteq MessageIds /\ named' \subseteq MessageIds
        BY <1>1, <1>3, <2>1 DEF Shapes, Writes, Names
    <2>4. Waits(queue)'
        BY <1>1, <2>1 DEF Shapes
    <2>5. QED BY <1>1, <2>1, <2>2, <2>3, <2>4 DEF Shapes
<1>8. RunsSound'
    <2>1. ASSUME NEW r \in Runs PROVE RunSound(r)' /\ RunKept(r)'
        <3>1. RunSound(r) /\ RunKept(r)
            BY RunFacts
        <3>2. RunSound(r)'
            BY <1>1, <3>1 DEF RunSound
        <3>3. RunKept(r)'
            BY <1>1, <1>2, <1>5, <3>1 DEF RunKept
        <3>4. QED BY <3>2, <3>3
    <2>2. row'.run = 0
        BY <1>1 DEF AdmissionInv, Shapes
    <2>3. QED BY <1>1, <1>2, <1>5, <2>1, <2>2 DEF RunsSound
<1>9. RecoveryAlone' /\ OpSound'
    BY <1>1 DEF RecoveryAlone, AdmissionInv, OpSound
<1>10. ASSUME NEW id \in Clear PROVE MessageSound(id)'
    <2>1. MessageSound(id)
        BY DEF AdmissionInv
    <2>2. id \in runs[left].told => left \in Tellers(id)
        BY <1>2, <1>3 DEF Tellers
    <2>3. /\ (\A q, r \in Tellers(id) : runs[q].origin = runs[r].origin)'
          /\ (\A o \in heard[id] : /\ runs[o].stage \notin Unspoken
                                   /\ \E r \in Tellers(id) : runs[r].origin = o)'
          /\ (id \in recorded =>
                \E r \in Tellers(id) : runs[r].stage \in {"done", "ended", "cut"})'
        BY <1>1, <1>2, <1>5, <2>1, <2>2 DEF MessageSound
    <2>4. /\ (id \in Ids(queue.items) /\ Tellers(id) # {} => id \in Taking)'
          /\ (id \in Handed => id \notin Ids(queue.items) /\ Tellers(id) = {})'
          /\ (id \in takenBack =>
                id \notin Ids(queue.items) /\ id \notin Handed /\ Tellers(id) = {})'
        BY <1>1, <1>5, <1>6, <2>1 DEF MessageSound
    <2>5. ASSUME id \in accepted' PROVE Placed(id)'
        BY <1>1, <1>2, <1>4, <2>1, <2>5 DEF MessageSound, Placed
    <2>6. QED BY <1>6, <2>3, <2>4, <2>5 DEF MessageSound, Placed
<1>11. IdsKept'
    <2>1. OverStay
        BY <1>1 DEF OverStay
    <2>2. QED BY <1>1, <1>2, <1>3, <1>6, <2>1, IdsWritten
<1>12. QED BY <1>1, <1>7, <1>8, <1>9, <1>10, <1>11 DEF AdmissionInv, Clear

-----------------------------------------------------------------------------
(* The steps that move one run on.                                         *)

\* A run whose words are being taken out of the queue is the one claimed last.
LEMMA TakeClaims ==
    ASSUME AdmissionInv, op.step = "take"
    PROVE  Running = {}
<1>1. PICK s \in Runs : runs[s].stage = "claimed"
    BY DEF AdmissionInv, RunsSound
<1>2. s \in Ongoing /\ s \notin Running /\ Running \subseteq Ongoing
    BY <1>1 DEF Ongoing, Running, OpenStages, RunningStages
<1>3. QED BY <1>2 DEF AdmissionInv, RunsSound

\* One run moves on, its words and where they came from unchanged.
MovesOn(r, x) ==
    /\ runs' = [runs EXCEPT ![r] = x]
    /\ x \in RunShape
    /\ x.batch = runs[r].batch /\ x.told = runs[r].told /\ x.keeps = runs[r].keeps
    /\ x.unrun = runs[r].unrun /\ x.origin = runs[r].origin
    /\ runs[r].stage \in OpenStages \cup {"done"}
    /\ x.stage \in RunningStages \cup {"done", "ended"}
    /\ runs[r].stage \in {"claimed", "begun"} \/ x.stage # "begun"
    /\ runs[r].stage = "done" => x.stage \in {"done", "ended"}

LEMMA MovesOnRuns ==
    ASSUME AdmissionInv, NEW r \in Runs, NEW x, MovesOn(r, x)
    PROVE  /\ runs' \in [Runs -> RunShape] /\ runs'[r] = x
           /\ \A q \in Runs \ {r} : runs'[q] = runs[q]
           /\ HandBack' = HandBack /\ Handed' = Handed
           /\ Ongoing' \subseteq Ongoing
           /\ \A id : Tellers(id)' = Tellers(id)
           /\ (\A q \in Runs : RunSound(q)') /\ OverStay
<1>1. runs' \in [Runs -> RunShape] /\ runs'[r] = x /\ \A q \in Runs \ {r} : runs'[q] = runs[q]
    BY DEF MovesOn, AdmissionInv, Shapes
<1>2. \A q \in Runs : /\ runs'[q].batch = runs[q].batch /\ runs'[q].told = runs[q].told
                      /\ runs'[q].keeps = runs[q].keeps /\ runs'[q].unrun = runs[q].unrun
                      /\ runs'[q].origin = runs[q].origin
    BY <1>1 DEF MovesOn
<1>3. RunSound(r) /\ runs[r] \in RunShape
    BY RunFacts
<1>4. \A q \in Runs : q \in HandBack' <=> q \in HandBack
    <2>1. r \in HandBack' <=> r \in HandBack
        <3>1. runs[r].unrun => runs[r].stage = "done" /\ x.stage \in {"done", "ended"}
            BY <1>3 DEF MovesOn, RunSound, OpenStages
        <3>2. r \in HandBack' => r \in HandBack
            BY <1>1, <1>2, <3>1 DEF HandBack
        <3>3. r \in HandBack => r \in HandBack'
            BY <1>1, <1>2, <3>1 DEF HandBack
        <3>4. QED BY <3>2, <3>3
    <2>2. \A q \in Runs \ {r} : q \in HandBack' <=> q \in HandBack
        BY <1>1 DEF HandBack
    <2>3. QED BY <2>1, <2>2
<1>5. HandBack' = HandBack
    <2>1. HandBack \subseteq Runs /\ HandBack' \subseteq Runs
        BY DEF HandBack
    <2>2. HandBack' \subseteq HandBack
        BY <1>4, <2>1
    <2>3. HandBack \subseteq HandBack'
        BY <1>4, <2>1
    <2>4. QED BY <2>2, <2>3
<1>6. Handed' = Handed
    <2>1. \A q \in HandBack : runs'[q].batch = runs[q].batch
        BY <1>2 DEF HandBack
    <2>2. {Named(runs[q].batch) : q \in HandBack}' = {Named(runs[q].batch) : q \in HandBack}
        BY <1>5, <2>1
    <2>3. QED BY <2>2 DEF Handed
<1>7. Ongoing' \subseteq Ongoing
    BY <1>1 DEF Ongoing, MovesOn, OpenStages, RunningStages
<1>8. \A id : Tellers(id)' = Tellers(id)
    BY <1>2 DEF Tellers
<1>9. \A q \in Runs : runs[q].stage \notin Unspoken => runs'[q].stage \notin Unspoken
    <2>1. runs[r].stage \notin Unspoken => x.stage \notin Unspoken
        BY DEF MovesOn, Unspoken, RunningStages
    <2>2. QED BY <1>1, <2>1
<1>10. ASSUME NEW q \in Runs PROVE RunSound(q)'
    <2>1. RunSound(q)
        BY RunFacts
    <2>2. (runs[q].stage = "none" => runs[q] = NoRun)'
        BY <1>1, <2>1 DEF RunSound, MovesOn, RunningStages
    <2>3. runs'[q].stage = "none" <=> runs[q].stage = "none"
        BY <1>1 DEF MovesOn, RunningStages, OpenStages
    <2>4. (runs[q].stage # "none" => runs[q].origin \in Runs)'
          /\ (runs[q].stage # "none" /\ runs[q].origin # q =>
                 runs[runs[q].origin].stage \notin Unspoken)'
        BY <1>2, <1>9, <2>1, <2>3 DEF RunSound
    <2>5. (runs[q].unrun => runs[q].stage \in {"done", "ended"}
                            /\ runs[q].told = Named(runs[q].batch))'
        BY <1>1, <1>2, <2>1 DEF RunSound, MovesOn, OpenStages
    <2>6. QED BY <1>2, <2>1, <2>2, <2>4, <2>5 DEF RunSound
<1>11. OverStay
    <2>1. runs[r].stage = "done" => x.stage \in {"done", "ended"}
        BY DEF MovesOn
    <2>2. runs[r].stage \in OpenStages \cup {"done"}
        BY DEF MovesOn
    <2>3. QED BY <1>1, <1>2, <2>1, <2>2 DEF OverStay, OpenStages
<1>12. QED BY <1>1, <1>5, <1>6, <1>7, <1>8, <1>10, <1>11

\* A run moves on beside a lock and a queue that stay as they were.
LEMMA MovesOnSound ==
    ASSUME AdmissionInv, NEW r \in Runs, NEW x, MovesOn(r, x),
           UNCHANGED <<op, receipts, accepted, takenBack, heard, left>>,
           Waits(queue)', Ids(queue.items)' = Ids(queue.items), asked' \in BOOLEAN,
           op.step = "take" => runs[r].stage = "done",
           resuming' \in {0, resuming, r}, resuming' = r => x.stage \in {"done", "ended"} /\ ~x.unrun,
           forgotten' = forgotten,
           IF x.stage = "ended" /\ ~x.unrun THEN Writes(r) ELSE Unwritten,
           (row \in [run : 0..MaxRun, staged : 0..MaxRun])',
           (row.run # 0 => runs[row.run].stage \notin {"none", "ended"})',
           \A q \in Runs : (q \in Running => row.run = q)'
    PROVE  AdmissionInv'
<1> USE Bounds
<1>1. /\ runs' \in [Runs -> RunShape] /\ runs'[r] = x
      /\ \A q \in Runs \ {r} : runs'[q] = runs[q]
      /\ HandBack' = HandBack /\ Handed' = Handed
      /\ Ongoing' \subseteq Ongoing
      /\ \A id : Tellers(id)' = Tellers(id)
      /\ (\A q \in Runs : RunSound(q)') /\ OverStay
    BY MovesOnRuns
<1>2. left = 0 /\ Shapes /\ RunSound(r) /\ RunKept(r) /\ runs[r] \in RunShape
    BY RunFacts DEF AdmissionInv, RecoveryAlone, MovesOn
<1>3. Taking' = Taking /\ Going' = Going /\ OpSound'
    BY DEF Taking, Going, OpSound, AdmissionInv
<1>4. /\ recorded' = recorded \cup (IF x.stage = "ended" /\ ~x.unrun THEN x.told ELSE {})
       /\ named' \subseteq named \cup x.told
    BY DEF Writes, Unwritten, Names, MovesOn
<1>5. Shapes'
    <2>1. recorded' \subseteq MessageIds /\ named' \subseteq MessageIds
        BY <1>2, <1>4 DEF Shapes, MovesOn, RunShape
    <2>2. resuming' \in 0..MaxRun
        BY <1>2 DEF Shapes, Runs
    <2>3. QED BY <1>1, <1>2, <2>1, <2>2 DEF Shapes
<1>6. RunsSound'
    <2>1. RunKept(r)'
        <3>1. (runs[r].stage = "ended" /\ ~runs[r].unrun => runs[r].told \subseteq recorded)'
            BY <1>1, <1>4
        <3>2. x.stage # "cut"
            BY DEF MovesOn, RunningStages
        <3>3. x.told \subseteq receipts \cup recorded \cup Taking
            BY <1>2 DEF RunKept, MovesOn
        <3>4. QED BY <1>1, <1>3, <1>4, <3>1, <3>2, <3>3 DEF RunKept
    <2>2. ASSUME NEW q \in Runs \ {r} PROVE RunKept(q)'
        <3>1. RunKept(q) /\ runs'[q] = runs[q]
            BY <1>1, RunFacts
        <3>2. QED BY <1>1, <1>3, <1>4, <3>1 DEF RunKept
    <2>3. \A p, q \in Ongoing' : p = q
        BY <1>1 DEF AdmissionInv, RunsSound
    <2>4. (resuming # 0 => runs[resuming].stage \in {"done", "ended"} /\ ~runs[resuming].unrun)'
        <3>1. CASE resuming' = r
            BY <1>1, <3>1
        <3>2. CASE resuming' = resuming /\ resuming' # r /\ resuming # 0
            <4>1. resuming \in Runs \ {r}
                BY <1>2, <3>2 DEF Shapes, Runs
            <4>2. QED BY <1>1, <3>2, <4>1 DEF AdmissionInv, RunsSound
        <3>3. QED BY <3>1, <3>2
    <2>5. (op.step = "take" =>
              \E q \in Runs : runs[q].stage = "claimed" /\ runs[q].told = Named(op.batch))'
        <3>1. SUFFICES ASSUME op.step = "take"
                       PROVE  \E q \in Runs : /\ runs'[q].stage = "claimed"
                                              /\ runs'[q].told = Named(op.batch)
            OBVIOUS
        <3>2. PICK q \in Runs : runs[q].stage = "claimed" /\ runs[q].told = Named(op.batch)
            BY <3>1 DEF AdmissionInv, RunsSound
        <3>3. q # r
            BY <3>1, <3>2
        <3>4. QED BY <1>1, <3>2, <3>3
    <2>6. QED BY <1>1, <2>1, <2>2, <2>3, <2>4, <2>5 DEF RunsSound
<1>7. RecoveryAlone'
    BY <1>2 DEF RecoveryAlone
<1>8. ASSUME NEW id \in Clear PROVE MessageSound(id)'
    <2>1. MessageSound(id) /\ Tellers(id) \subseteq Runs /\ heard[id] \subseteq Runs
        BY <1>2 DEF AdmissionInv, Tellers, Shapes, Clear
    <2>2. \A q \in Runs : runs'[q].origin = runs[q].origin
        BY <1>1 DEF MovesOn
    <2>3. \A q \in Runs : runs[q].stage \notin Unspoken => runs'[q].stage \notin Unspoken
        <3>1. runs[r].stage \notin Unspoken => x.stage \notin Unspoken
            BY DEF MovesOn, Unspoken, RunningStages
        <3>2. QED BY <1>1, <3>1
    <2>4. /\ (\A p, q \in Tellers(id) : runs[p].origin = runs[q].origin)'
          /\ (\A o \in heard[id] : /\ runs[o].stage \notin Unspoken
                                   /\ \E q \in Tellers(id) : runs[q].origin = o)'
        BY <1>1, <2>1, <2>2, <2>3 DEF MessageSound
    <2>5. (id \in recorded => \E q \in Tellers(id) : runs[q].stage \in {"done", "ended", "cut"})'
        <3>1. CASE id \in recorded
            <4>1. PICK q \in Tellers(id) : runs[q].stage \in {"done", "ended", "cut"}
                BY <2>1, <3>1 DEF MessageSound
            <4>2. runs'[q].stage \in {"done", "ended", "cut"}
                BY <1>1, <2>1, <4>1 DEF MovesOn, OpenStages
            <4>3. QED BY <1>1, <4>2
        <3>2. CASE id \notin recorded
            <4>1. id \in recorded' => x.stage = "ended" /\ ~x.unrun /\ id \in x.told
                BY <1>4, <3>2
            <4>2. id \in recorded' => r \in Tellers(id)
                BY <4>1 DEF Tellers, MovesOn
            <4>3. QED BY <1>1, <4>1, <4>2
        <3>3. QED BY <3>1, <3>2
    <2>6. /\ (id \in Ids(queue.items) /\ Tellers(id) # {} => id \in Taking)'
          /\ (id \in Handed => id \notin Ids(queue.items) /\ Tellers(id) = {})'
          /\ (id \in Going => /\ Tellers(id) = {} /\ id \notin Handed /\ id \notin takenBack
                              /\ op.from = "door" => id \notin Ids(queue.items))'
          /\ (id \in takenBack =>
                id \notin Ids(queue.items) /\ id \notin Handed /\ Tellers(id) = {})'
        BY <1>1, <1>3, <2>1 DEF MessageSound
    <2>7. ASSUME id \in accepted' PROVE Placed(id)'
        <3>1. Placed(id)
            BY <2>1, <2>7 DEF MessageSound, Placed
        <3>2. CASE id \in Ids(queue.items) \cup takenBack \cup recorded
            BY <1>4, <3>2 DEF Placed
        <3>3. CASE \E q \in Runs : /\ id \in runs[q].told
                                   /\ \/ q \in Ongoing \cup HandBack
                                      \/ runs[q].stage = "done" /\ ~runs[q].unrun
                                      \/ left # 0 /\ q = left
            <4>1. PICK q \in Runs : /\ id \in runs[q].told
                                    /\ \/ q \in Ongoing \cup HandBack
                                       \/ runs[q].stage = "done" /\ ~runs[q].unrun
                BY <1>2, <3>3
            <4>2. CASE q # r
                <5>1. runs'[q] = runs[q] /\ (q \in Ongoing => q \in Ongoing')
                    BY <1>1, <4>2 DEF Ongoing
                <5>2. QED BY <1>1, <4>1, <5>1 DEF Placed
            <4>3. CASE q = r
                <5>1. id \in x.told
                    BY <4>1, <4>3 DEF MovesOn
                <5>2. CASE r \in HandBack
                    BY <1>1, <5>1, <5>2 DEF Placed
                <5>3. CASE r \notin HandBack
                    <6>1. ~x.unrun
                        BY <1>2, <4>1, <4>3, <5>3 DEF Ongoing, OpenStages, MovesOn, RunSound
                    <6>2. CASE x.stage = "ended"
                        BY <1>4, <5>1, <6>1, <6>2 DEF Placed
                    <6>3. CASE x.stage = "done"
                        BY <1>1, <5>1, <6>1, <6>3 DEF Placed
                    <6>4. CASE x.stage \in RunningStages
                        <7>1. r \in Ongoing'
                            BY <1>1, <6>4 DEF Ongoing, OpenStages, RunningStages
                        <7>2. QED BY <1>1, <5>1, <7>1 DEF Placed
                    <6>5. QED BY <6>2, <6>3, <6>4 DEF MovesOn
                <5>4. QED BY <5>2, <5>3
            <4>4. QED BY <4>2, <4>3
        <3>4. QED BY <3>1, <3>2, <3>3 DEF Placed
    <2>8. QED BY <2>4, <2>5, <2>6, <2>7 DEF MessageSound, Placed
<1>9. (op \in OpShape)'
    BY <1>2 DEF Shapes
<1>10. IdsKept'
    <2>1. CASE x.stage = "ended" /\ ~x.unrun
        BY <1>1, <1>2, <1>3, <2>1, IdsWritten DEF MovesOn
    <2>2. CASE ~(x.stage = "ended" /\ ~x.unrun)
        BY <1>1, <1>3, <2>2, IdsStay DEF Unwritten
    <2>3. QED BY <2>1, <2>2
<1>11. QED BY <1>3, <1>5, <1>6, <1>7, <1>8, <1>10 DEF AdmissionInv, Clear

LEMMA BeginTurnSound == ASSUME AdmissionInv, NEW r \in Runs, BeginTurn(r) PROVE AdmissionInv'
<1> USE Bounds
<1>1. /\ runs[r].stage = "claimed" /\ op.step # "take" /\ Shapes
      /\ UNCHANGED <<op, receipts, accepted, takenBack, heard, left, queue, asked, recorded,
                     named, forgotten>>
    BY DEF BeginTurn, Turns, AdmissionInv
<1>2. Waits(queue)' /\ Ids(queue.items)' = Ids(queue.items) /\ asked' \in BOOLEAN
      /\ runs[r] \in RunShape /\ row \in [run : 0..MaxRun, staged : 0..MaxRun]
      /\ (row.run # 0 => runs[row.run].stage \notin {"none", "ended"})
    BY <1>1 DEF Shapes, AdmissionInv, RunsSound
\* No other run is under way.
<1>3. r \in Ongoing /\ \A q \in Runs \ {r} : q \notin Ongoing
    BY <1>1 DEF Ongoing, OpenStages, AdmissionInv, RunsSound
<1>4. CASE archived \/ rewinding
    <2> DEFINE x == [runs[r] EXCEPT !.stage = "done"]
    <2>1. runs' = [runs EXCEPT ![r] = x] /\ resuming' = resuming /\ row' = row
        BY <1>4 DEF BeginTurn, Turns
    <2>2. /\ x \in RunShape /\ x.stage = "done" /\ x.batch = runs[r].batch
          /\ x.told = runs[r].told /\ x.keeps = runs[r].keeps
          /\ x.unrun = runs[r].unrun /\ x.origin = runs[r].origin
        BY <1>2 DEF RunShape
    <2> HIDE DEF x
    <2>3. MovesOn(r, x)
        BY <1>1, <2>1, <2>2 DEF MovesOn, OpenStages, RunningStages
    <2>4. /\ runs'[r] = x /\ \A q \in Runs \ {r} : runs'[q] = runs[q]
          /\ Ongoing' \subseteq Ongoing
        BY <2>3, MovesOnRuns
    <2>5. \A q \in Runs : (q \in Running => row.run = q)'
        BY <1>3, <2>2, <2>4 DEF Running, RunningStages, Ongoing, OpenStages
    <2>6. (row.run # 0 => runs[row.run].stage \notin {"none", "ended"})'
        BY <1>2, <2>1, <2>2, <2>4 DEF Runs
    <2>7. IF x.stage = "ended" /\ ~x.unrun THEN Writes(r) ELSE Unwritten
        BY <1>1, <2>2 DEF Unwritten
    <2>8. resuming' # r
        BY <1>1, <2>1 DEF AdmissionInv, RunsSound, Runs
    <2>9. QED BY <1>1, <1>2, <2>1, <2>3, <2>5, <2>6, <2>7, <2>8, MovesOnSound
<1>5. CASE ~(archived \/ rewinding)
    <2> DEFINE x == [runs[r] EXCEPT !.stage = "begun"]
    <2>1. runs' = [runs EXCEPT ![r] = x] /\ resuming' = 0 /\ row' = [run |-> r, staged |-> 0]
        BY <1>5 DEF BeginTurn, Turns
    <2>2. /\ x \in RunShape /\ x.stage = "begun" /\ x.batch = runs[r].batch
          /\ x.told = runs[r].told /\ x.keeps = runs[r].keeps
          /\ x.unrun = runs[r].unrun /\ x.origin = runs[r].origin
        BY <1>2 DEF RunShape, OpenStages
    <2> HIDE DEF x
    <2>3. MovesOn(r, x)
        BY <1>1, <2>1, <2>2 DEF MovesOn, OpenStages, RunningStages
    <2>4. /\ runs'[r] = x /\ \A q \in Runs \ {r} : runs'[q] = runs[q]
          /\ Ongoing' \subseteq Ongoing
        BY <2>3, MovesOnRuns
    <2>5. \A q \in Runs : (q \in Running => row.run = q)'
        BY <1>3, <2>1, <2>4 DEF Running, RunningStages, Ongoing, OpenStages
    <2>6. /\ (row \in [run : 0..MaxRun, staged : 0..MaxRun])'
          /\ (row.run # 0 => runs[row.run].stage \notin {"none", "ended"})'
        BY <2>1, <2>2, <2>4 DEF Runs
    <2>7. IF x.stage = "ended" /\ ~x.unrun THEN Writes(r) ELSE Unwritten
        BY <1>1, <2>2 DEF Unwritten
    <2>8. resuming' # r
        BY <2>1 DEF Runs
    <2>9. QED BY <1>1, <1>2, <2>1, <2>3, <2>5, <2>6, <2>7, <2>8, MovesOnSound
<1>6. QED BY <1>4, <1>5

\* A run under way moves on or ends, and the row and the queue's messages stay.
LEMMA UnderWaySound ==
    ASSUME AdmissionInv, NEW r \in Runs, runs[r].stage \in RunningStages,
           NEW stage \in RunningStages \cup {"done"}, stage # "begun" \/ runs[r].stage = "begun",
           NEW stops \in BOOLEAN,
           runs' = [runs EXCEPT ![r] = [runs[r] EXCEPT !.stage = stage, !.stopping = stops]],
           UNCHANGED <<op, receipts, accepted, takenBack, heard, left, asked, recorded, row,
                     named, forgotten>>,
           Waits(queue)', Ids(queue.items)' = Ids(queue.items),
           resuming' = resuming \/ (resuming' = r /\ stage = "done")
    PROVE  AdmissionInv'
<1> USE Bounds
<1> DEFINE x == [runs[r] EXCEPT !.stage = stage, !.stopping = stops]
<1>1. /\ runs[r] \in RunShape /\ RunSound(r) /\ RunKept(r) /\ Shapes /\ asked' \in BOOLEAN
      /\ row \in [run : 0..MaxRun, staged : 0..MaxRun]
      /\ (row.run # 0 => runs[row.run].stage \notin {"none", "ended"})
    BY RunFacts DEF AdmissionInv, Shapes, RunsSound
<1>2. /\ x \in RunShape /\ x.stage = stage /\ x.batch = runs[r].batch
      /\ x.told = runs[r].told /\ x.keeps = runs[r].keeps
      /\ x.unrun = runs[r].unrun /\ x.origin = runs[r].origin
    BY <1>1 DEF RunShape, OpenStages, RunningStages
<1>3. runs' = [runs EXCEPT ![r] = x]
    OBVIOUS
<1> HIDE DEF x
<1>4. MovesOn(r, x)
    BY <1>2, <1>3 DEF MovesOn, OpenStages, RunningStages
<1>5. runs'[r] = x /\ \A q \in Runs \ {r} : runs'[q] = runs[q]
    BY <1>4, MovesOnRuns
<1>6. op.step # "take" /\ ~x.unrun
    <2>1. r \in Running
        BY DEF Running
    <2>2. op.step # "take"
        BY <2>1, TakeClaims
    <2>3. QED BY <1>1, <1>2, <2>2 DEF RunSound, RunningStages
<1>7. \A q \in Runs : (q \in Running => row.run = q)'
    <2>1. \A q \in Runs : q \in Running => row.run = q
        BY DEF AdmissionInv, RunsSound, RunKept
    <2>2. \A q \in Runs : q \in Running' => q \in Running
        BY <1>2, <1>5 DEF Running
    <2>3. QED BY <2>1, <2>2
<1>8. (row.run # 0 => runs[row.run].stage \notin {"none", "ended"})'
    BY <1>1, <1>2, <1>5 DEF Runs, RunningStages
<1>9. IF x.stage = "ended" /\ ~x.unrun THEN Writes(r) ELSE Unwritten
    BY <1>2 DEF RunningStages, Unwritten
<1>10. resuming' = r => x.stage = "done"
    BY <1>2 DEF AdmissionInv, RunsSound, Runs, RunningStages
<1>11. QED BY <1>1, <1>4, <1>6, <1>7, <1>8, <1>9, <1>10, MovesOnSound

LEMMA CloseTurnSound == ASSUME AdmissionInv, NEW r \in Runs, CloseTurn(r) PROVE AdmissionInv'
<1>1. /\ runs[r].stage = "talking"
      /\ runs' = [runs EXCEPT ![r] = [runs[r] EXCEPT !.stage = "closing"]]
      /\ UNCHANGED <<op, receipts, accepted, takenBack, heard, left, asked, recorded, row, queue,
                     resuming, named, forgotten>>
    BY DEF CloseTurn, Turns
<1>2. runs[r] \in RunShape /\ Waits(queue)
    BY DEF AdmissionInv, Shapes
<1>3. [runs[r] EXCEPT !.stage = "closing"]
        = [runs[r] EXCEPT !.stage = "closing", !.stopping = runs[r].stopping]
      /\ runs[r].stopping \in BOOLEAN
    BY <1>2 DEF RunShape
<1>4. Waits(queue)' /\ Ids(queue.items)' = Ids(queue.items)
    BY <1>1, <1>2
<1>5. QED BY <1>1, <1>3, <1>4, UnderWaySound DEF RunningStages

LEMMA SettleTurnSound == ASSUME AdmissionInv, NEW r \in Runs, SettleTurn(r) PROVE AdmissionInv'
<1>1. /\ runs[r].stage \in RunningStages
      /\ runs' = [runs EXCEPT ![r] = [runs[r] EXCEPT !.stage = "done"]]
      /\ UNCHANGED <<op, receipts, accepted, takenBack, heard, left, asked, recorded, row, queue,
                     named, forgotten>>
      /\ resuming' = resuming \/ resuming' = r
    BY DEF SettleTurn, Turns, RunningStages
<1>2. runs[r] \in RunShape /\ Waits(queue)
    BY DEF AdmissionInv, Shapes
<1>3. [runs[r] EXCEPT !.stage = "done"]
        = [runs[r] EXCEPT !.stage = "done", !.stopping = runs[r].stopping]
      /\ runs[r].stopping \in BOOLEAN
    BY <1>2 DEF RunShape
<1>4. Waits(queue)' /\ Ids(queue.items)' = Ids(queue.items)
    BY <1>1, <1>2
<1>5. QED BY <1>1, <1>3, <1>4, UnderWaySound DEF RunningStages

LEMMA StopTurnSound == ASSUME AdmissionInv, NEW r \in Runs, StopTurn(r) PROVE AdmissionInv'
<1>1. /\ runs[r].stage \in RunningStages
      /\ runs' = [runs EXCEPT ![r] = [runs[r] EXCEPT !.stopping = TRUE]]
      /\ UNCHANGED <<op, receipts, accepted, takenBack, heard, left, asked, recorded, row, resuming,
                     named, forgotten>>
      /\ queue' = IF Held(queue, "stopped") = queue THEN queue ELSE Plain(Held(queue, "stopped"))
    BY DEF StopTurn, Turns
<1>2. runs[r] \in RunShape /\ Waits(queue)
    BY DEF AdmissionInv, Shapes
<1>3. [runs[r] EXCEPT !.stopping = TRUE]
        = [runs[r] EXCEPT !.stage = runs[r].stage, !.stopping = TRUE]
    BY <1>2 DEF RunShape
<1>4. Waits(queue)' /\ Ids(queue.items)' = Ids(queue.items)
    <2> DEFINE q == Held(queue, "stopped")
    <2>1. Keeps(q) /\ Ids(q.items) = Ids(queue.items)
        BY <1>2, HeldIds DEF Waits
    <2> HIDE DEF q
    <2>2. Waits(Plain(q)) /\ Ids(Plain(q).items) = Ids(queue.items)
        BY <1>2, <2>1, PlainWaits DEF Waits
    <2>3. queue' = queue \/ queue' = Plain(q)
        BY <1>1 DEF q
    <2>4. QED BY <1>2, <2>2, <2>3
<1>5. QED BY <1>1, <1>3, <1>4, UnderWaySound

LEMMA EndTurnSound == ASSUME AdmissionInv, NEW r \in Runs, EndTurn(r) PROVE AdmissionInv'
<1> USE Bounds
<1> DEFINE x == [runs[r] EXCEPT !.stage = "ended"]
<1>1. /\ runs[r].stage = "done" /\ runs' = [runs EXCEPT ![r].stage = "ended"]
      /\ IF runs[r].unrun THEN Unwritten ELSE Writes(r)
      /\ row' = [run |-> IF row.run = r THEN 0 ELSE row.run,
                 staged |-> IF row.staged = r THEN 0 ELSE row.staged]
      /\ UNCHANGED <<op, receipts, accepted, takenBack, heard, left, queue, resuming,
                     forgotten>>
      /\ asked' = TRUE
    BY DEF EndTurn, ghosts
<1>2. /\ runs[r] \in RunShape /\ Shapes /\ row \in [run : 0..MaxRun, staged : 0..MaxRun]
      /\ (row.run # 0 => runs[row.run].stage \notin {"none", "ended"})
      /\ \A q \in Runs : q \in Running => row.run = q
      /\ Waits(queue)
    BY DEF AdmissionInv, Shapes, RunsSound, RunKept
<1>3. /\ x \in RunShape /\ x.stage = "ended" /\ x.batch = runs[r].batch
      /\ x.told = runs[r].told /\ x.keeps = runs[r].keeps
      /\ x.unrun = runs[r].unrun /\ x.origin = runs[r].origin
    BY <1>2 DEF RunShape
<1>4. runs' = [runs EXCEPT ![r] = x]
    BY <1>1, <1>2 DEF Shapes
<1> HIDE DEF x
<1>5. MovesOn(r, x)
    BY <1>1, <1>3, <1>4 DEF MovesOn, OpenStages, RunningStages
<1>6. runs'[r] = x /\ \A q \in Runs \ {r} : runs'[q] = runs[q]
    BY <1>5, MovesOnRuns
<1>7. (row \in [run : 0..MaxRun, staged : 0..MaxRun])'
    BY <1>1, <1>2
<1>8. row'.run # 0 => row'.run = row.run /\ row.run \in Runs \ {r}
    BY <1>1, <1>2 DEF Runs
<1>9. (row.run # 0 => runs[row.run].stage \notin {"none", "ended"})'
    BY <1>2, <1>6, <1>8
<1>10. \A q \in Runs : (q \in Running => row.run = q)'
    <2>1. \A q \in Runs : q \in Running' => q \in Running /\ q # r
        BY <1>3, <1>6 DEF Running, RunningStages
    <2>2. \A q \in Runs : q \in Running /\ q # r => row'.run = q
        BY <1>1, <1>2
    <2>3. QED BY <2>1, <2>2
<1>11. IF x.stage = "ended" /\ ~x.unrun THEN Writes(r) ELSE Unwritten
    BY <1>1, <1>3
<1>12. resuming' = r => x.stage \in {"done", "ended"} /\ ~x.unrun
    BY <1>1, <1>3 DEF AdmissionInv, RunsSound, Runs
<1>13. QED BY <1>1, <1>2, <1>5, <1>7, <1>9, <1>10, <1>11, <1>12, MovesOnSound

\* Continuations a turn makes moot leave the queue, and nothing else does.
LEMMA SupersededWaits ==
    ASSUME Waits(queue),
           queue' = IF Superseded(queue) = queue THEN queue ELSE Plain(Superseded(queue))
    PROVE  Waits(queue)' /\ Ids(queue.items)' \subseteq Ids(queue.items)
<1> DEFINE q == Superseded(queue)
<1>1. Keeps(q) /\ Ids(q.items) \subseteq Ids(queue.items)
    BY SupersededIds DEF Waits
<1>2. queue' = queue \/ queue' = Plain(q)
    OBVIOUS
<1> HIDE DEF q
<1>3. Ids(queue.items) \subseteq MessageIds
    BY DEF Waits
<1>4. Waits(Plain(q)) /\ Ids(Plain(q).items) = Ids(q.items)
    BY <1>1, <1>3, PlainWaits
<1>5. QED BY <1>1, <1>2, <1>4

LEMMA TalkSound == ASSUME AdmissionInv, NEW r \in Runs, Talk(r) PROVE AdmissionInv'
<1> USE Bounds
<1> DEFINE x == [runs[r] EXCEPT !.stage = "talking"]
<1>1. /\ runs[r].stage = "begun" /\ runs' = [runs EXCEPT ![r] = x]
      /\ UNCHANGED <<op, receipts, takenBack, left, asked, recorded, row, resuming,
                     named, forgotten>>
      /\ queue' = IF Superseded(queue) = queue THEN queue ELSE Plain(Superseded(queue))
      /\ accepted' = accepted \ (Ids(queue.items) \ Ids(queue'.items))
      /\ heard' = [id \in MessageIds |-> IF id \in runs[r].told
                                         THEN heard[id] \cup {runs[r].origin} ELSE heard[id]]
    BY DEF Talk, Turns
<1>2. /\ runs[r] \in RunShape /\ RunSound(r) /\ RunKept(r) /\ Shapes /\ OpSound
      /\ asked \in BOOLEAN /\ Waits(queue)
    BY RunFacts DEF AdmissionInv, Shapes
<1>3. /\ x \in RunShape /\ x.stage = "talking" /\ x.batch = runs[r].batch
      /\ x.told = runs[r].told /\ x.keeps = runs[r].keeps
      /\ x.unrun = runs[r].unrun /\ x.origin = runs[r].origin
    BY <1>2 DEF RunShape, OpenStages
<1>4. runs' = [runs EXCEPT ![r] = x]
    BY <1>1
<1> HIDE DEF x
<1>5. MovesOn(r, x)
    BY <1>1, <1>3, <1>4 DEF MovesOn, OpenStages, RunningStages
<1>6. /\ runs' \in [Runs -> RunShape] /\ runs'[r] = x
      /\ \A q \in Runs \ {r} : runs'[q] = runs[q]
      /\ HandBack' = HandBack /\ Handed' = Handed
      /\ Ongoing' \subseteq Ongoing
      /\ \A id : Tellers(id)' = Tellers(id)
      /\ (\A q \in Runs : RunSound(q)') /\ OverStay
    BY <1>5, MovesOnRuns
<1>7. r \in Running /\ r \in Ongoing /\ r \in Running' /\ r \in Ongoing' /\ ~runs[r].unrun
    BY <1>1, <1>2, <1>3, <1>6 DEF Running, Ongoing, OpenStages, RunningStages, RunSound
<1>8. op.step # "take" /\ left = 0 /\ row.run = r
    BY <1>2, <1>7, TakeClaims DEF AdmissionInv, RecoveryAlone, Ongoing, RunKept
<1>9. Ongoing = {r} /\ Ongoing' = {r} /\ Running' = {r}
    <2>1. Ongoing \subseteq {r}
        BY <1>7 DEF AdmissionInv, RunsSound
    <2>2. Running' \subseteq Ongoing'
        BY DEF Running, Ongoing, OpenStages, RunningStages
    <2>3. QED BY <1>6, <1>7, <2>1, <2>2
<1>10. Taking = {} /\ Taking' = {} /\ Going' = Going /\ OpSound'
    BY <1>1, <1>2, <1>8 DEF Taking, Going, OpSound
<1>11. Waits(queue)' /\ Ids(queue.items)' \subseteq Ids(queue.items)
    BY <1>1, <1>2, SupersededWaits
<1>12. runs[r].origin \in Runs /\ runs'[runs[r].origin].stage \notin Unspoken
    <2>1. runs[r].origin \in Runs
          /\ (runs[r].origin # r => runs[runs[r].origin].stage \notin Unspoken)
        BY <1>1, <1>2 DEF RunSound
    <2>2. QED BY <1>3, <1>6, <2>1 DEF Unspoken
<1>13. Shapes'
    <2>1. heard' \in [MessageIds -> SUBSET Runs]
        BY <1>1, <1>2, <1>12 DEF Shapes
    <2>2. accepted' \subseteq MessageIds
        BY <1>1, <1>2 DEF Shapes
    <2>3. QED BY <1>1, <1>2, <1>6, <1>11, <2>1, <2>2 DEF Shapes
<1>14. RunsSound'
    <2>1. ASSUME NEW q \in Runs PROVE RunKept(q)'
        <3>1. CASE q = r
            BY <1>1, <1>2, <1>3, <1>6, <1>7, <1>8, <1>10, <3>1
               DEF RunKept, OpenStages
        <3>2. CASE q # r
            <4>1. RunKept(q) /\ runs'[q] = runs[q] /\ q \notin Running'
                BY <1>6, <1>9, <3>2, RunFacts
            <4>2. QED BY <1>1, <1>6, <1>10, <4>1 DEF RunKept
        <3>3. QED BY <3>1, <3>2
    <2>2. (resuming # 0 => runs[resuming].stage \in {"done", "ended"} /\ ~runs[resuming].unrun)'
        <3>1. resuming # 0 => resuming \in Runs \ {r}
            BY <1>1, <1>2 DEF AdmissionInv, RunsSound, Shapes, Runs
        <3>2. QED BY <1>1, <1>6, <3>1 DEF AdmissionInv, RunsSound
    <2>3. (row.run # 0 => runs[row.run].stage \notin {"none", "ended"})'
        BY <1>1, <1>3, <1>6, <1>8
    <2>4. QED BY <1>1, <1>6, <1>8, <1>9, <2>1, <2>2, <2>3 DEF RunsSound
<1>15. RecoveryAlone'
    BY <1>1, <1>8 DEF RecoveryAlone
<1>16. ASSUME NEW id \in Clear PROVE MessageSound(id)'
    <2>1. MessageSound(id) /\ Tellers(id) \subseteq Runs /\ heard[id] \subseteq Runs
        BY <1>2 DEF AdmissionInv, Tellers, Shapes, Clear
    <2>2. \A q \in Runs : runs'[q].origin = runs[q].origin
        BY <1>3, <1>6
    <2>3. \A q \in Runs : runs[q].stage \notin Unspoken => runs'[q].stage \notin Unspoken
        BY <1>3, <1>6 DEF Unspoken
    <2>4. (\A p, q \in Tellers(id) : runs[p].origin = runs[q].origin)'
        BY <1>6, <2>1, <2>2 DEF MessageSound
    <2>5. (\A o \in heard[id] : /\ runs[o].stage \notin Unspoken
                                /\ \E q \in Tellers(id) : runs[q].origin = o)'
        <3>1. ASSUME NEW o \in heard'[id]
              PROVE  runs'[o].stage \notin Unspoken /\ \E q \in Tellers(id) : runs[q].origin = o
            <4>1. CASE o \in heard[id]
                BY <2>1, <2>3, <4>1 DEF MessageSound
            <4>2. CASE o \notin heard[id]
                <5>1. id \in runs[r].told /\ o = runs[r].origin
                    BY <1>1, <4>2 DEF Clear
                <5>2. r \in Tellers(id)
                    BY <1>7, <5>1 DEF Tellers
                <5>3. QED BY <1>12, <5>1, <5>2
            <4>3. QED BY <4>1, <4>2
        <3>2. QED BY <1>6, <2>1, <2>2, <3>1
    <2>6. (id \in recorded => \E q \in Tellers(id) : runs[q].stage \in {"done", "ended", "cut"})'
        BY <1>1, <1>6, <2>1 DEF MessageSound
    <2>7. /\ (id \in Ids(queue.items) /\ Tellers(id) # {} => id \in Taking)'
          /\ (id \in Handed => id \notin Ids(queue.items) /\ Tellers(id) = {})'
          /\ (id \in Going => /\ Tellers(id) = {} /\ id \notin Handed /\ id \notin takenBack
                              /\ op.from = "door" => id \notin Ids(queue.items))'
          /\ (id \in takenBack =>
                id \notin Ids(queue.items) /\ id \notin Handed /\ Tellers(id) = {})'
        BY <1>1, <1>6, <1>10, <1>11, <2>1 DEF MessageSound
    <2>8. ASSUME id \in accepted' PROVE Placed(id)'
        <3>1. id \in accepted /\ (id \in Ids(queue.items) => id \in Ids(queue.items)')
            BY <1>1, <2>8 DEF Clear
        <3>2. Placed(id)
            BY <2>1, <3>1 DEF MessageSound, Placed
        <3>3. CASE id \in Ids(queue.items) \cup takenBack \cup recorded
            BY <1>1, <3>1, <3>3 DEF Placed
        <3>4. CASE \E q \in Runs : /\ id \in runs[q].told
                                   /\ \/ q \in Ongoing \cup HandBack
                                      \/ runs[q].stage = "done" /\ ~runs[q].unrun
                                      \/ left # 0 /\ q = left
            <4>1. PICK q \in Runs : /\ id \in runs[q].told
                                    /\ \/ q \in Ongoing \cup HandBack
                                       \/ runs[q].stage = "done" /\ ~runs[q].unrun
                BY <1>8, <3>4
            <4>2. id \in runs'[q].told
                BY <1>3, <1>6, <4>1
            <4>3. CASE q \in Ongoing \cup HandBack
                BY <1>6, <1>9, <4>2, <4>3 DEF Placed
            <4>4. CASE runs[q].stage = "done" /\ ~runs[q].unrun
                <5>1. runs'[q] = runs[q]
                    BY <1>1, <1>6, <4>4
                <5>2. QED BY <4>2, <4>4, <5>1 DEF Placed
            <4>5. QED BY <4>1, <4>3, <4>4
        <3>5. QED BY <3>2, <3>3, <3>4 DEF Placed
    <2>9. QED BY <2>4, <2>5, <2>6, <2>7, <2>8 DEF MessageSound, Placed
<1>17. IdsKept'
    BY <1>1, <1>6, <1>10, IdsStay
<1>18. QED BY <1>1, <1>10, <1>13, <1>14, <1>15, <1>16, <1>17 DEF AdmissionInv, Clear

\* A refusal before the model saw a word: whoever told these words first is this
\* run, and nobody else was told them.
LEMMA TurnedAwaySound == ASSUME AdmissionInv, NEW r \in Runs, TurnedAway(r) PROVE AdmissionInv'
<1> USE Bounds
<1> DEFINE x == [runs[r] EXCEPT !.stage = "done", !.unrun = runs[r].keeps]
<1>1. /\ runs[r].stage \in {"claimed", "begun"} /\ op.step # "take"
      /\ runs[r].told = Named(runs[r].batch) /\ runs' = [runs EXCEPT ![r] = x]
      /\ UNCHANGED <<op, receipts, takenBack, left, asked, row, resuming, queue, accepted, heard,
                     forgotten>>
      /\ IF runs[r].keeps THEN Unwritten ELSE Writes(r)
      /\ recorded' = IF runs[r].keeps THEN recorded ELSE recorded \cup runs[r].told
      /\ named' \subseteq named \cup runs[r].told
    BY DEF TurnedAway, Turns, Writes, Unwritten, Names
<1>2. /\ runs[r] \in RunShape /\ RunSound(r) /\ RunKept(r) /\ Shapes /\ OpSound
      /\ asked \in BOOLEAN /\ Waits(queue)
    BY RunFacts DEF AdmissionInv, Shapes
<1>3. /\ x \in RunShape /\ x.stage = "done" /\ x.batch = runs[r].batch
      /\ x.told = runs[r].told /\ x.keeps = runs[r].keeps
      /\ x.unrun = runs[r].keeps /\ x.origin = runs[r].origin
    BY <1>2 DEF RunShape
<1>4. runs' = [runs EXCEPT ![r] = x]
    BY <1>1
<1> HIDE DEF x
<1>5. runs' \in [Runs -> RunShape] /\ runs'[r] = x /\ \A q \in Runs \ {r} : runs'[q] = runs[q]
    BY <1>2, <1>3, <1>4 DEF Shapes
<1>6. r \in Ongoing /\ ~runs[r].unrun /\ left = 0
    BY <1>1, <1>2 DEF Ongoing, OpenStages, RunSound, AdmissionInv, RecoveryAlone
<1>7. Ongoing = {r} /\ Ongoing' = {} /\ Running' = {}
    <2>1. Ongoing \subseteq {r}
        BY <1>6 DEF AdmissionInv, RunsSound
    <2>2. Ongoing' \subseteq Ongoing \ {r}
        BY <1>3, <1>5 DEF Ongoing, OpenStages
    <2>3. Running' \subseteq Ongoing'
        BY DEF Running, Ongoing, OpenStages, RunningStages
    <2>4. QED BY <1>6, <2>1, <2>2, <2>3
<1>8. Taking = {} /\ Taking' = {} /\ Going' = Going /\ OpSound'
    BY <1>1, <1>2 DEF Taking, Going, OpSound
<1>9. runs[r].told \subseteq receipts \cup recorded /\ runs[r].told \subseteq MessageIds
    BY <1>1, <1>2, <1>8 DEF RunKept, OpenStages, RunShape
<1>10. \A q \in Runs : q \in HandBack' <=> q \in HandBack \/ (q = r /\ runs[r].keeps)
    <2>1. r \notin HandBack
        BY <1>1 DEF HandBack
    <2>2. r \in HandBack' <=> runs[r].keeps
        BY <1>3, <1>5 DEF HandBack
    <2>3. \A q \in Runs \ {r} : q \in HandBack' <=> q \in HandBack
        BY <1>5 DEF HandBack
    <2>4. QED BY <2>1, <2>2, <2>3
<1>11. \A id : id \in Handed' => id \in Handed \/ (id \in runs[r].told /\ runs[r].keeps)
    <2>1. ASSUME NEW id, id \in Handed' PROVE id \in Handed \/ (id \in runs[r].told /\ runs[r].keeps)
        <3>1. PICK q \in HandBack' : id \in Named(runs'[q].batch)
            BY <2>1 DEF Handed
        <3>2. q \in Runs
            BY <3>1 DEF HandBack
        <3>3. runs'[q].batch = runs[q].batch
            BY <1>3, <1>5, <3>2
        <3>4. CASE q \in HandBack
            BY <3>1, <3>3, <3>4 DEF Handed
        <3>5. CASE q \notin HandBack
            BY <1>1, <1>10, <3>1, <3>2, <3>3, <3>5
        <3>6. QED BY <3>4, <3>5
    <2>2. QED BY <2>1
<1>12. \A id : Tellers(id)' = IF runs[r].keeps THEN Tellers(id) \ {r} ELSE Tellers(id)
    <2>1. \A id : \A q \in Runs \ {r} : q \in Tellers(id)' <=> q \in Tellers(id)
        BY <1>5 DEF Tellers
    <2>2. \A id : runs[r].keeps => r \notin Tellers(id)'
        BY <1>3, <1>5 DEF Tellers
    <2>3. \A id : ~runs[r].keeps => (r \in Tellers(id)' <=> r \in Tellers(id))
        BY <1>3, <1>5, <1>6 DEF Tellers
    <2>4. \A id : Tellers(id) \subseteq Runs /\ Tellers(id)' \subseteq Runs
        BY DEF Tellers
    <2>5. ASSUME NEW id PROVE Tellers(id)' = IF runs[r].keeps THEN Tellers(id) \ {r} ELSE Tellers(id)
        <3>1. \A q : q \in Tellers(id)'
                       <=> q \in (IF runs[r].keeps THEN Tellers(id) \ {r} ELSE Tellers(id))
            BY <2>1, <2>2, <2>3, <2>4
        <3>2. QED BY <3>1
    <2>6. QED BY <2>5
\* A keeper is its words' origin, and nobody runs again what it has not said.
<1>13. ASSUME NEW id \in Clear, runs[r].keeps, r \in Tellers(id) PROVE Tellers(id) = {r}
    <2>1. runs[r].origin = r
        BY <1>2, <1>13 DEF RunSound
    <2>2. ASSUME NEW q \in Tellers(id), q # r PROVE FALSE
        <3>1. q \in Runs /\ RunSound(q)
            BY RunFacts DEF Tellers
        <3>2. runs[q].origin = r
            BY <1>13, <2>1 DEF AdmissionInv, MessageSound
        <3>3. runs[q].stage # "none"
            BY <3>1, NamedIs DEF Tellers, RunSound, NoRun
        <3>4. QED BY <1>1, <2>2, <3>1, <3>2, <3>3 DEF RunSound, Unspoken
    <2>3. QED BY <1>13, <2>2
<1>14. ASSUME NEW q \in Runs PROVE RunSound(q)'
    <2>1. CASE q = r
        <3>1. runs[r].origin \in Runs
              /\ (runs[r].origin # r => runs[runs[r].origin].stage \notin Unspoken)
            BY <1>1, <1>2 DEF RunSound
        <3>2. runs[r].origin # r => runs'[runs[r].origin].stage \notin Unspoken
            BY <1>5, <3>1
        <3>3. QED BY <1>1, <1>2, <1>3, <1>5, <2>1, <3>1, <3>2 DEF RunSound
    <2>2. CASE q # r
        <3>1. RunSound(q) /\ runs'[q] = runs[q]
            BY <1>5, <2>2, RunFacts
        <3>2. runs[q].stage # "none" /\ runs[q].origin # q => runs[q].origin \in Runs \ {r}
            BY <1>1, <3>1 DEF RunSound, Unspoken
        <3>3. QED BY <1>5, <3>1, <3>2 DEF RunSound
    <2>3. QED BY <2>1, <2>2
<1>15. Shapes'
    <2>1. recorded' \subseteq MessageIds /\ named' \subseteq MessageIds
        BY <1>1, <1>2, <1>9 DEF Shapes
    <2>2. Waits(queue)'
        BY <1>1, <1>2
    <2>3. QED BY <1>1, <1>2, <1>5, <2>1, <2>2 DEF Shapes
<1>16. RunsSound'
    <2>1. ASSUME NEW q \in Runs PROVE RunKept(q)'
        <3>1. CASE q = r
            BY <1>1, <1>3, <1>5, <1>7, <1>9, <3>1 DEF RunKept
        <3>2. CASE q # r
            <4>1. RunKept(q) /\ runs'[q] = runs[q] /\ q \notin Running'
                  /\ (q \in HandBack' => q \in HandBack)
                BY <1>5, <1>7, <1>10, <3>2, RunFacts
            <4>2. QED BY <1>1, <1>8, <4>1 DEF RunKept
        <3>3. QED BY <3>1, <3>2
    <2>2. (resuming # 0 => runs[resuming].stage \in {"done", "ended"} /\ ~runs[resuming].unrun)'
        <3>1. resuming # 0 => resuming \in Runs \ {r}
            BY <1>1, <1>2 DEF AdmissionInv, RunsSound, Shapes, Runs
        <3>2. QED BY <1>1, <1>5, <3>1 DEF AdmissionInv, RunsSound
    <2>3. (row.run # 0 => runs[row.run].stage \notin {"none", "ended"})'
        <3>1. row.run # 0 => row.run \in Runs /\ runs[row.run].stage \notin {"none", "ended"}
            BY <1>2 DEF AdmissionInv, RunsSound, Shapes, Runs
        <3>2. QED BY <1>1, <1>3, <1>5, <3>1
    <2>4. QED BY <1>1, <1>7, <1>14, <2>1, <2>2, <2>3 DEF RunsSound
<1>17. RecoveryAlone'
    BY <1>1, <1>6 DEF RecoveryAlone
<1>18. ASSUME NEW id \in Clear PROVE MessageSound(id)'
    <2>1. MessageSound(id) /\ Tellers(id) \subseteq Runs /\ heard[id] \subseteq Runs
        BY <1>2 DEF AdmissionInv, Tellers, Shapes, Clear
    <2>2. \A q \in Runs : runs'[q].origin = runs[q].origin
        BY <1>3, <1>5
    <2>3. \A q \in Runs : runs[q].stage \notin Unspoken => runs'[q].stage = runs[q].stage
        BY <1>1, <1>5 DEF Unspoken
    <2>4. Tellers(id)' \subseteq Tellers(id)
        BY <1>12
    <2>5. (\A p, q \in Tellers(id) : runs[p].origin = runs[q].origin)'
        BY <2>1, <2>2, <2>4 DEF MessageSound
    <2>6. (\A o \in heard[id] : /\ runs[o].stage \notin Unspoken
                                /\ \E q \in Tellers(id) : runs[q].origin = o)'
        <3>1. ASSUME NEW o \in heard[id]
              PROVE  runs'[o].stage \notin Unspoken /\ \E q \in Tellers(id)' : runs[q].origin = o
            <4>1. runs[o].stage \notin Unspoken /\ o \in Runs
                BY <2>1 DEF MessageSound
            <4>2. PICK q \in Tellers(id) : runs[q].origin = o
                BY <2>1 DEF MessageSound
            <4>3. ~runs[r].keeps \/ q # r
                BY <1>1, <1>2, <4>1, <4>2 DEF RunSound, Unspoken
            <4>4. q \in Tellers(id)'
                BY <1>12, <4>3
            <4>5. QED BY <2>3, <4>1, <4>2, <4>4
        <3>2. QED BY <1>1, <2>1, <2>2, <2>4, <3>1
    <2>7. (id \in recorded => \E q \in Tellers(id) : runs[q].stage \in {"done", "ended", "cut"})'
        <3>1. CASE id \in recorded
            <4>1. PICK q \in Tellers(id) : runs[q].stage \in {"done", "ended", "cut"}
                BY <2>1, <3>1 DEF MessageSound
            <4>2. q # r
                BY <1>1, <4>1
            <4>3. q \in Tellers(id)' /\ runs'[q] = runs[q]
                BY <1>5, <1>12, <2>1, <4>2
            <4>4. QED BY <4>1, <4>3
        <3>2. CASE id \notin recorded
            <4>1. id \in recorded' => ~runs[r].keeps /\ r \in Tellers(id)'
                BY <1>1, <1>6, <1>12, <3>2 DEF Tellers
            <4>2. QED BY <1>3, <1>5, <4>1
        <3>3. QED BY <3>1, <3>2
    <2>8. (id \in Ids(queue.items) /\ Tellers(id) # {} => id \in Taking)'
        BY <1>1, <1>8, <2>1, <2>4 DEF MessageSound
    <2>9. id \in Handed' =>
             id \notin Ids(queue.items) /\ Tellers(id)' = {} /\ id \notin Going /\ id \notin takenBack
        <3>1. CASE id \in Handed
            BY <2>1, <2>4, <3>1 DEF MessageSound
        <3>2. CASE id \notin Handed
            <4>1. id \in Handed' => runs[r].keeps /\ r \in Tellers(id)
                BY <1>6, <1>11, <3>2 DEF Tellers
            <4>2. id \in Handed' => Tellers(id)' = {}
                BY <1>12, <1>13, <4>1
            <4>3. QED BY <1>8, <2>1, <4>1, <4>2 DEF MessageSound
        <3>3. QED BY <3>1, <3>2
    <2>10. (id \in Handed => id \notin Ids(queue.items) /\ Tellers(id) = {})'
        BY <1>1, <2>9
    <2>11. (id \in Going => /\ Tellers(id) = {} /\ id \notin Handed /\ id \notin takenBack
                            /\ op.from = "door" => id \notin Ids(queue.items))'
        BY <1>1, <1>8, <2>1, <2>4, <2>9 DEF MessageSound
    <2>12. (id \in takenBack =>
              id \notin Ids(queue.items) /\ id \notin Handed /\ Tellers(id) = {})'
        BY <1>1, <2>1, <2>4, <2>9 DEF MessageSound
    <2>13. ASSUME id \in accepted' PROVE Placed(id)'
        <3>1. Placed(id)
            BY <1>1, <2>1, <2>13 DEF MessageSound, Placed
        <3>2. CASE id \in Ids(queue.items) \cup takenBack \cup recorded
            BY <1>1, <3>2 DEF Placed
        <3>3. CASE \E q \in Runs : /\ id \in runs[q].told
                                   /\ \/ q \in Ongoing \cup HandBack
                                      \/ runs[q].stage = "done" /\ ~runs[q].unrun
                                      \/ left # 0 /\ q = left
            <4>1. PICK q \in Runs : /\ id \in runs[q].told
                                    /\ \/ q = r \/ q \in HandBack
                                       \/ runs[q].stage = "done" /\ ~runs[q].unrun
                BY <1>6, <1>7, <3>3
            <4>2. CASE q = r
                <5>1. id \in runs'[r].told
                    BY <1>3, <1>5, <4>1, <4>2
                <5>2. CASE runs[r].keeps
                    <6>1. r \in HandBack'
                        BY <1>10, <5>2
                    <6>2. QED BY <5>1, <6>1 DEF Placed
                <5>3. CASE ~runs[r].keeps
                    BY <1>1, <4>1, <4>2, <5>3 DEF Placed
                <5>4. QED BY <5>2, <5>3
            <4>3. CASE q # r
                BY <1>5, <1>10, <4>1, <4>3 DEF Placed
            <4>4. QED BY <4>2, <4>3
        <3>4. QED BY <3>1, <3>2, <3>3 DEF Placed
    <2>14. QED BY <2>5, <2>6, <2>7, <2>8, <2>10, <2>11, <2>12, <2>13 DEF MessageSound, Placed
<1>19. IdsKept'
    <2>1. OverStay
        BY <1>1, <1>5 DEF OverStay
    <2>2. CASE runs[r].keeps
        BY <1>1, <1>8, <2>1, <2>2, IdsStay DEF Unwritten
    <2>3. CASE ~runs[r].keeps
        BY <1>1, <1>3, <1>5, <1>6, <1>8, <2>1, <2>3, IdsWritten DEF OpenStages
    <2>4. QED BY <2>2, <2>3
<1>20. QED BY <1>1, <1>8, <1>15, <1>16, <1>17, <1>18, <1>19 DEF AdmissionInv, Clear

-----------------------------------------------------------------------------
(* A steer, a drain and a restart.                                         *)

\* Words the live turn took: nobody else was told them.
LEMMA SteerTaken ==
    ASSUME AdmissionInv, op.step = "steer",
           NEW id \in MessageIds, id = op.batch[1], NEW r \in Running, NEW hears,
           hears \subseteq {runs[r].origin}, hears # {} => runs[r].stage = "talking",
           runs' = [runs EXCEPT ![r] = [runs[r] EXCEPT !.told = runs[r].told \cup {id}]],
           heard' = [heard EXCEPT ![id] = heard[id] \cup hears],
           queue' = IF op.from = "queue" THEN Plain(Taken(queue, {id})) ELSE queue,
           receipts' = Remembered \cup {id}, accepted' = accepted \cup {id},
           IF op.from = "queue" THEN Delivers ELSE op' = FreeLock,
           UNCHANGED <<asked, recorded, row, left, takenBack, resuming, named, forgotten>>
    PROVE  AdmissionInv'
<1> USE Bounds
<1>1. Shapes /\ Waits(queue) /\ asked \in BOOLEAN /\ OpSound
    BY DEF AdmissionInv, Shapes
<1>2. /\ Going = {id} /\ left = 0 /\ Taking = {}
      /\ id \in Clear => /\ Tellers(id) = {} /\ id \notin Handed /\ id \notin takenBack
                         /\ op.from = "door" => id \notin Ids(queue.items)
    BY DoorOne DEF Taking
<1>3. r \in Runs /\ r \in Ongoing /\ runs[r].stage \in RunningStages /\ Ongoing = {r}
    <2>1. r \in Runs /\ r \in Ongoing /\ runs[r].stage \in RunningStages
        BY DEF Running, Ongoing, OpenStages, RunningStages
    <2>2. Ongoing \subseteq {r}
        BY <2>1 DEF AdmissionInv, RunsSound
    <2>3. QED BY <2>1, <2>2
<1>6. RunSound(r) /\ RunKept(r) /\ runs[r] \in RunShape /\ runs \in [Runs -> RunShape]
    BY <1>1, <1>3, RunFacts DEF Shapes
<1>7. /\ runs' \in [Runs -> RunShape]
      /\ runs'[r] = [runs[r] EXCEPT !.told = runs[r].told \cup {id}]
      /\ \A q \in Runs \ {r} : runs'[q] = runs[q]
    <2>1. /\ runs'[r] = [runs[r] EXCEPT !.told = runs[r].told \cup {id}]
          /\ \A q \in Runs \ {r} : runs'[q] = runs[q]
        BY <1>3, <1>6
    <2>2. runs'[r] \in RunShape
        <3> DEFINE words == runs[r].told \cup {id}
        <3>1. words \in SUBSET MessageIds
            BY <1>6 DEF RunShape
        <3> HIDE DEF words
        <3>2. [runs[r] EXCEPT !.told = words] \in RunShape
            BY <1>6, <3>1 DEF RunShape
        <3>3. QED BY <2>1, <3>2 DEF words
    <2>3. QED BY <1>6, <2>1, <2>2
<1>8. /\ runs'[r].told = runs[r].told \cup {id} /\ runs'[r].stage = runs[r].stage
      /\ runs'[r].batch = runs[r].batch /\ runs'[r].keeps = runs[r].keeps
      /\ runs'[r].unrun = runs[r].unrun /\ runs'[r].origin = runs[r].origin
      /\ ~runs[r].unrun /\ runs[r].stage # "none"
    BY <1>3, <1>6, <1>7 DEF RunShape, RunSound, RunningStages
<1>9. \A q \in Runs : /\ runs'[q].stage = runs[q].stage /\ runs'[q].batch = runs[q].batch
                      /\ runs'[q].keeps = runs[q].keeps /\ runs'[q].unrun = runs[q].unrun
                      /\ runs'[q].origin = runs[q].origin
                      /\ runs[q].told \subseteq runs'[q].told
    BY <1>7, <1>8
<1>10. Ongoing' = {r} /\ Running' = Running /\ HandBack' = HandBack /\ Handed' = Handed
    <2>1. Ongoing' = Ongoing /\ Running' = Running /\ HandBack' = HandBack
        BY <1>9 DEF Ongoing, Running, HandBack
    <2>2. {Named(runs[q].batch) : q \in HandBack}' = {Named(runs[q].batch) : q \in HandBack}
        BY <1>9, <2>1 DEF HandBack
    <2>3. QED BY <1>3, <2>1, <2>2 DEF Handed
<1>11. /\ \A m : m # id => Tellers(m)' = Tellers(m)
       /\ id \in Clear => Tellers(id)' = {r}
    <2>1. ASSUME NEW m, m # id PROVE Tellers(m)' = Tellers(m)
        BY <1>7, <1>8, <2>1 DEF Tellers
    <2>2. id \in Clear => Tellers(id)' \subseteq {r}
        <3>1. ASSUME NEW q \in Runs \ {r}, q \in Tellers(id)', id \in Clear PROVE FALSE
            BY <1>2, <1>7, <3>1 DEF Tellers
        <3>2. Tellers(id)' \subseteq Runs
            BY DEF Tellers
        <3>3. QED BY <3>1, <3>2
    <2>3. r \in Tellers(id)'
        BY <1>3, <1>8 DEF Tellers
    <2>4. QED BY <2>1, <2>2, <2>3
<1>12. /\ Waits(queue)' /\ Ids(queue.items) \ {id} \subseteq Ids(queue.items)'
       /\ Ids(queue.items)' \subseteq Ids(queue.items)
       /\ id \in Clear => id \notin Ids(queue.items)'
       /\ (op \in OpShape)' /\ OpSound' /\ Taking' = {} /\ Going' = {} /\ op'.step # "take"
    <2>1. CASE op.from = "queue"
        <3>1. op' = [step |-> "deliver", from |-> "queue", batch |-> << >>]
            BY <2>1 DEF Delivers, Step
        <3>2. (op \in OpShape)' /\ OpSound' /\ Taking' = {} /\ Going' = {} /\ op'.step # "take"
            BY <3>1, EmptySeq DEF OpShape, OpSound, Taking, Going
        <3> DEFINE q == Taken(queue, {id})
        <3>3. Keeps(q) /\ Ids(q.items) = Ids(queue.items) \ {id}
            BY <1>1, TakenIds DEF Waits
        <3>4. queue' = Plain(q)
            BY <2>1
        <3> HIDE DEF q
        <3>5. Waits(Plain(q)) /\ Ids(Plain(q).items) = Ids(queue.items) \ {id}
            BY <1>1, <3>3, PlainWaits DEF Waits
        <3>6. QED BY <3>2, <3>4, <3>5
    <2>2. CASE op.from # "queue"
        <3>1. op' = FreeLock /\ queue' = queue
            BY <2>2
        <3>2. (op \in OpShape)' /\ OpSound' /\ Taking' = {} /\ Going' = {} /\ op'.step # "take"
            BY <3>1, EmptySeq DEF FreeLock, OpShape, OpSound, Taking, Going
        <3>3. id \in Clear => id \notin Ids(queue.items)
            \* From anywhere but the queue, a steer is from the door.
            BY <1>1, <1>2, <2>2 DEF OpSound
        <3>4. QED BY <1>1, <3>1, <3>2, <3>3
    <2>3. QED BY <2>1, <2>2
<1>13. receipts \subseteq receipts' /\ receipts' \subseteq MessageIds /\ id \in receipts'
    BY <1>1, RememberedHolds
<1>14. Shapes'
    <2>1. runs[r].origin \in Runs
        BY <1>6, <1>8 DEF RunSound
    <2>2. heard' \in [MessageIds -> SUBSET Runs]
        BY <1>1, <2>1 DEF Shapes
    <2>3. accepted' \subseteq MessageIds
        BY <1>1, <1>2  DEF Shapes
    <2>4. QED BY <1>1, <1>7, <1>12, <1>13, <2>2, <2>3 DEF Shapes
<1>15. RunsSound'
    <2>1. ASSUME NEW q \in Runs PROVE RunSound(q)' /\ RunKept(q)'
        <3>1. RunSound(q) /\ RunKept(q)
            BY RunFacts
        <3>2. CASE q = r
            <4>1. RunSound(r)'
                BY <1>6, <1>8, <1>9 DEF RunSound
            <4>2. RunKept(r)'
                <5>1. runs[r].told \subseteq receipts \cup recorded
                    BY <1>2, <1>3, <1>6 DEF RunKept, OpenStages, RunningStages
                <5>2. QED BY <1>1, <1>3, <1>6, <1>8, <1>10, <1>13, <5>1 DEF RunKept, RunningStages
            <4>3. QED BY <3>2, <4>1, <4>2
        <3>3. CASE q # r
            <4>1. runs'[q] = runs[q]
                BY <1>7, <3>3
            <4>2. RunSound(q)'
                BY <1>9, <3>1, <4>1 DEF RunSound
            <4>3. RunKept(q)'
                BY <1>1, <1>2, <1>10, <1>13, <3>1, <4>1 DEF RunKept
            <4>4. QED BY <4>2, <4>3
        <3>4. QED BY <3>2, <3>3
    <2>2. (resuming # 0 => runs[resuming].stage \in {"done", "ended"} /\ ~runs[resuming].unrun)'
        <3>1. resuming # 0 => resuming \in Runs
            BY <1>1 DEF Shapes, Runs
        <3>2. QED BY <1>1, <1>9, <3>1 DEF AdmissionInv, RunsSound
    <2>3. (row.run # 0 => runs[row.run].stage \notin {"none", "ended"})'
        <3>1. row.run # 0 => row.run \in Runs
            BY <1>1 DEF Shapes, Runs
        <3>2. QED BY <1>1, <1>9, <3>1 DEF AdmissionInv, RunsSound
    <2>4. QED BY <1>10, <1>12, <2>1, <2>2, <2>3 DEF RunsSound
<1>16. RecoveryAlone'
    BY <1>1, <1>2 DEF RecoveryAlone
<1>17. ASSUME NEW m \in Clear PROVE MessageSound(m)'
    <2>1. MessageSound(m) /\ Tellers(m) \subseteq Runs /\ heard[m] \subseteq Runs
        BY <1>1 DEF AdmissionInv, Tellers, Shapes, Clear
    <2>2. CASE m = id
        <3>1. heard[id] = {} /\ id \notin recorded
            BY <1>2, <2>1, <2>2 DEF MessageSound
        <3>2. heard'[id] = hears
            BY <1>1, <1>2, <3>1 DEF Shapes
        <3>3. (\A o \in heard[id] : /\ runs[o].stage \notin Unspoken
                                    /\ \E q \in Tellers(id) : runs[q].origin = o)'
            <4>1. ASSUME NEW o \in hears
                  PROVE  runs'[o].stage \notin Unspoken /\ runs'[r].origin = o
                <5>1. o = runs[r].origin /\ runs[r].stage = "talking"
                    OBVIOUS
                <5>2. o \in Runs /\ runs[o].stage \notin Unspoken
                    BY <1>6, <1>8, <5>1 DEF RunSound, Unspoken
                <5>3. QED BY <1>9, <5>1, <5>2
            <4>2. QED BY <1>11, <2>2, <3>2, <4>1
        <3>4. Placed(id)'
            <4>1. r \in Ongoing' /\ id \in runs'[r].told
                BY <1>8, <1>10
            <4>2. QED BY <1>3, <4>1 DEF Placed
        <3>5. id \notin recorded' /\ id \notin Ids(queue.items)' /\ id \notin Handed'
              /\ id \notin Going' /\ id \notin takenBack'
            BY <1>1, <1>2, <1>10, <1>12, <2>2, <3>1
        <3>6. (\A p, q \in Tellers(id) : runs[p].origin = runs[q].origin)'
            BY <1>11, <2>2
        <3>7. MessageSound(id)'
            BY <3>3, <3>4, <3>5, <3>6 DEF MessageSound, Placed
        <3>8. QED BY <2>2, <3>7
    <2>3. CASE m # id
        <3>1. Tellers(m)' = Tellers(m) /\ heard'[m] = heard[m]
            BY <1>1, <1>11, <2>3 DEF Shapes, Clear
        <3>2. /\ (\A q, p \in Tellers(m) : runs[q].origin = runs[p].origin)'
              /\ (\A o \in heard[m] : /\ runs[o].stage \notin Unspoken
                                      /\ \E q \in Tellers(m) : runs[q].origin = o)'
              /\ (m \in recorded =>
                    \E q \in Tellers(m) : runs[q].stage \in {"done", "ended", "cut"})'
            BY <1>1, <1>9, <2>1, <3>1 DEF MessageSound
        <3>3. /\ (m \in Ids(queue.items) /\ Tellers(m) # {} => m \in Taking)'
              /\ (m \in Handed => m \notin Ids(queue.items) /\ Tellers(m) = {})'
              /\ (m \in takenBack =>
                    m \notin Ids(queue.items) /\ m \notin Handed /\ Tellers(m) = {})'
            BY <1>1, <1>2, <1>10, <1>12, <2>1, <3>1 DEF MessageSound
        <3>4. ASSUME m \in accepted' PROVE Placed(m)'
            <4>1. Placed(m)
                BY <2>1, <2>3, <3>4 DEF MessageSound, Placed
            <4>2. CASE m \in Ids(queue.items) \cup takenBack \cup recorded
                BY <1>1, <1>12, <2>3, <4>2 DEF Placed
            <4>3. CASE \E q \in Runs : /\ m \in runs[q].told
                                       /\ \/ q \in Ongoing \cup HandBack
                                          \/ runs[q].stage = "done" /\ ~runs[q].unrun
                                          \/ left # 0 /\ q = left
                BY <1>1, <1>3, <1>9, <1>10, <4>3 DEF Placed
            <4>4. QED BY <4>1, <4>2, <4>3 DEF Placed
        <3>5. QED BY <1>12, <3>2, <3>3, <3>4 DEF MessageSound, Placed
    <2>4. QED BY <2>2, <2>3
<1>18. IdsKept'
    <2>1. OverStay
        BY <1>3, <1>7 DEF OverStay, RunningStages
    <2>2. QED BY <1>2, <1>12, <1>13, <2>1, IdsStay
<1>19. QED BY <1>12, <1>14, <1>15, <1>16, <1>17, <1>18 DEF AdmissionInv, Clear

LEMMA SteerSound == ASSUME AdmissionInv, Steer PROVE AdmissionInv'
<1> DEFINE taker == {r \in Running : runs[r].stage # "closing"}
<1>1. /\ op.step = "steer"
      /\ UNCHANGED <<asked, recorded, row, left, takenBack, resuming, named, forgotten>>
    BY DEF Steer, diskVars
<1>2. PICK id \in MessageIds : id = op.batch[1]
    BY <1>1, DoorOne
<1>3. CASE taker = {}
    <2>1. /\ IF op.from = "door" THEN Joins(op.batch[1])
             ELSE op' = FreeLock /\ UNCHANGED <<queue, accepted>>
          /\ UNCHANGED <<runs, receipts, heard>>
        BY <1>3 DEF Steer
    <2>2. UNCHANGED <<runs, diskVars, heard, receipts, takenBack, resuming, asked>>
        BY <1>1, <2>1 DEF Steer
    <2>3. QED BY <1>1, <2>1, <2>2, BusySound
<1>4. CASE taker # {}
    <2>1. PICK r \in taker : TRUE
        BY <1>4
    <2>2. r \in Running /\ taker = {r}
        <3>1. r \in Running /\ taker \subseteq Ongoing /\ r \in Ongoing
            BY <2>1 DEF Running, Ongoing, OpenStages, RunningStages
        <3>2. \A q \in Ongoing : q = r
            BY <3>1 DEF AdmissionInv, RunsSound
        <3>3. QED BY <2>1, <3>1, <3>2
    <2> DEFINE listening == {q \in taker : runs[q].stage = "talking" /\ ~runs[q].stopping}
    <2>3. PICK hears : hears = {runs[q].origin : q \in listening}
        OBVIOUS
    <2>4. /\ runs' = [q \in Runs |-> IF q \in taker
                                     THEN [runs[q] EXCEPT !.told = runs[q].told \cup {id}]
                                     ELSE runs[q]]
          /\ heard' = [heard EXCEPT ![id] = heard[id] \cup hears]
          /\ queue' = IF op.from = "queue" THEN Plain(Taken(queue, {id})) ELSE queue
          /\ receipts' = Remembered \cup {id}
          /\ accepted' = accepted \cup {id}
          /\ IF op.from = "queue" THEN Delivers ELSE op' = FreeLock
        BY <1>2, <1>4, <2>3 DEF Steer, Kept
    <2>5. hears \subseteq {runs[r].origin} /\ (hears # {} => runs[r].stage = "talking")
        BY <2>2, <2>3
    <2> HIDE DEF taker
    <2>6. runs' = [runs EXCEPT ![r] = [runs[r] EXCEPT !.told = runs[r].told \cup {id}]]
        <3>1. r \in Runs /\ runs \in [Runs -> RunShape]
            BY <2>2 DEF Running, AdmissionInv, Shapes
        <3>2. QED BY <2>2, <2>4, <3>1
    <2>7. QED BY <1>1, <1>2, <2>2, <2>4, <2>5, <2>6, SteerTaken
<1>5. QED BY <1>3, <1>4

\* What a turn to be handed back was started with.
Words(r) == [i \in DOMAIN runs[r].batch |-> Said(runs[r].batch[i])]

\* The queue with what the first turns were refused with handed back, as far as
\* the m-th.
Refills(f, m) ==
    /\ f = [n \in 0..m |-> f[n]]
    /\ f[0] = queue
    /\ \A n \in 1..m : f[n] = IF n \in HandBack THEN Returned(f[n - 1], Words(n)) ELSE f[n - 1]

LEMMA RefillsExist == \E f : Refills(f, MaxRun)
<1> USE Bounds
<1> DEFINE S == {m \in Nat : \E f : Refills(f, m)}
<1>1. 0 \in S
    <2>1. Refills([n \in 0..0 |-> queue], 0)
        BY DEF Refills
    <2>2. QED BY <2>1
<1>2. ASSUME NEW m \in S PROVE m + 1 \in S
    <2>1. PICK f : Refills(f, m)
        BY DEF S
    <2> DEFINE g == [n \in 0..(m + 1) |->
                        IF n <= m THEN f[n]
                        ELSE IF n \in HandBack THEN Returned(f[m], Words(n)) ELSE f[m]]
    <2>2. /\ m \in Nat /\ f[0] = queue
          /\ \A n \in 1..m :
                f[n] = IF n \in HandBack THEN Returned(f[n - 1], Words(n)) ELSE f[n - 1]
        BY <2>1 DEF Refills
    <2>3. g = [n \in 0..(m + 1) |-> g[n]]
        OBVIOUS
    <2>4. g[0] = queue
        BY <2>2
    <2>5. ASSUME NEW n \in 1..(m + 1)
          PROVE  g[n] = IF n \in HandBack THEN Returned(g[n - 1], Words(n)) ELSE g[n - 1]
        <3>1. g[n - 1] = f[n - 1]
            BY <2>2
        <3>2. CASE n = m + 1
            BY <2>2, <3>1, <3>2
        <3>3. CASE n # m + 1
            <4>1. n \in 1..m
                BY <2>2, <3>3
            <4>2. g[n] = f[n]
                BY <4>1
            <4>3. QED BY <2>2, <3>1, <4>1, <4>2
        <3>4. QED BY <3>2, <3>3
    <2>6. Refills(g, m + 1)
        <3> HIDE DEF g
        <3>1. QED BY <2>3, <2>4, <2>5 DEF Refills
    <2>7. QED BY <2>2, <2>6
<1>3. S = Nat
    <2> HIDE DEF S
    <2>1. S \subseteq Nat
        BY DEF S
    <2>2. QED BY <1>1, <1>2, <2>1, Inductive
<1>4. QED BY <1>3

\* The words of a turn are whole messages in a row, named as its batch is.
LEMMA WordsInRow ==
    ASSUME Shapes, NEW r \in Runs
    PROVE  InRow(Words(r)) /\ Ids(Words(r)) = Named(runs[r].batch)
<1>1. runs[r].batch \in Seq(MessageIds)
    BY DEF Shapes, RunShape
<1>2. /\ Len(runs[r].batch) \in Nat /\ DOMAIN runs[r].batch = 1..Len(runs[r].batch)
      /\ \A i \in DOMAIN runs[r].batch : runs[r].batch[i] \in MessageIds
    BY <1>1
<1>3. Words(r) = [i \in 1..Len(runs[r].batch) |-> Words(r)[i]]
    BY <1>2 DEF Words
<1>4. InRow(Words(r))
    BY <1>2, <1>3, RowShape
<1>5. \A i \in DOMAIN runs[r].batch : Words(r)[i].id = runs[r].batch[i]
    BY <1>2, SaidIs DEF Words
<1>6. DOMAIN Words(r) = DOMAIN runs[r].batch
    BY DEF Words
<1>7. QED BY <1>4, <1>5, <1>6 DEF Ids, Named

\* Every word a refusal turned away is in the queue again, and nothing else is.
LEMMA HandedWaits ==
    ASSUME Shapes, Drain
    PROVE  Waits(queue)' /\ Ids(queue.items)' = Ids(queue.items) \cup Handed
<1> USE Bounds
<1> DEFINE Body(g) == [r \in 0..MaxRun |->
                          IF r = 0 THEN queue
                          ELSE IF r \in HandBack THEN Returned(g[r - 1], Words(r)) ELSE g[r - 1]]
           after == CHOOSE g : g = Body(g)
<1>1. PICK f : Refills(f, MaxRun)
    BY RefillsExist
<1>2. f = Body(f)
    <2>1. \A n \in 0..MaxRun : n # 0 => n \in 1..MaxRun
        OBVIOUS
    <2>2. \A n \in 0..MaxRun :
             f[n] = IF n = 0 THEN queue
                    ELSE IF n \in HandBack THEN Returned(f[n - 1], Words(n)) ELSE f[n - 1]
        BY <1>1, <2>1 DEF Refills
    <2>3. Body(f) = [n \in 0..MaxRun |-> f[n]]
        BY <2>2
    <2>4. f = [n \in 0..MaxRun |-> f[n]]
        BY <1>1 DEF Refills
    <2>5. QED BY <2>3, <2>4
<1>3. after = Body(after)
    <2> HIDE DEF Body
    <2>1. QED BY <1>2
<1>4. /\ after[0] = queue
      /\ \A n \in 1..MaxRun :
            after[n] = IF n \in HandBack THEN Returned(after[n - 1], Words(n)) ELSE after[n - 1]
    <2> HIDE DEF after
    <2>1. \A n \in 0..MaxRun :
             after[n] = IF n = 0 THEN queue
                        ELSE IF n \in HandBack THEN Returned(after[n - 1], Words(n))
                        ELSE after[n - 1]
        BY <1>3
    <2>2. QED BY <2>1
<1>5. queue' = IF HandBack = {} THEN queue ELSE Plain(after[MaxRun])
    BY DEF Drain, Words
<1> HIDE DEF after, Body
<1> DEFINE Back(n) == UNION {Named(runs[r].batch) : r \in {q \in HandBack : q <= n}}
           S == {n \in Nat : n <= MaxRun =>
                               /\ Keeps(after[n])
                               /\ Ids(after[n].items) = Ids(queue.items) \cup Back(n)}
<1>6. \A q \in HandBack : q \in Runs /\ q \in Nat /\ 0 < q /\ q <= MaxRun
    BY DEF HandBack, Runs
<1>7. 0 \in S
    <2>1. \A q \in HandBack : ~(q <= 0)
        BY <1>6
    <2>2. Back(0) = {}
        BY <2>1
    <2>3. QED BY <1>4, <2>2 DEF Shapes, Waits
<1>8. ASSUME NEW n \in S PROVE n + 1 \in S
    <2>1. n \in Nat
        BY DEF S
    <2>2. CASE n + 1 <= MaxRun
        <3>1. Keeps(after[n]) /\ Ids(after[n].items) = Ids(queue.items) \cup Back(n)
            BY <2>1, <2>2 DEF S
        <3>2. n + 1 \in 1..MaxRun /\ n + 1 \in Runs /\ (n + 1) - 1 = n
            BY <2>1, <2>2 DEF Runs
        <3>3. CASE n + 1 \in HandBack
            <4>1. after[n + 1] = Returned(after[n], Words(n + 1))
                BY <1>4, <3>2, <3>3
            <4>2. InRow(Words(n + 1)) /\ Ids(Words(n + 1)) = Named(runs[n + 1].batch)
                BY <3>2, WordsInRow
            <4>3. /\ Keeps(after[n + 1])
                  /\ Ids(after[n + 1].items) = Ids(after[n].items) \cup Named(runs[n + 1].batch)
                BY <3>1, <4>1, <4>2, ReturnedIds
            <4>4. {q \in HandBack : q <= n + 1} = {q \in HandBack : q <= n} \cup {n + 1}
                <5>1. \A q \in HandBack : q <= n + 1 <=> q <= n \/ q = n + 1
                    BY <1>6, <2>1
                <5>2. QED BY <3>3, <5>1
            <4>5. Back(n + 1) = Back(n) \cup Named(runs[n + 1].batch)
                BY <4>4
            <4>6. QED BY <2>1, <3>1, <4>3, <4>5
        <3>4. CASE n + 1 \notin HandBack
            <4>1. after[n + 1] = after[n]
                BY <1>4, <3>2, <3>4
            <4>2. {q \in HandBack : q <= n + 1} = {q \in HandBack : q <= n}
                <5>1. \A q \in HandBack : q <= n + 1 <=> q <= n
                    BY <1>6, <2>1, <3>4
                <5>2. QED BY <5>1
            <4>3. QED BY <2>1, <3>1, <4>1, <4>2
        <3>5. QED BY <3>3, <3>4
    <2>3. QED BY <2>1, <2>2
<1>9. MaxRun \in S
    <2>1. S \subseteq Nat
        OBVIOUS
    <2> HIDE DEF S
    <2>2. QED BY <1>7, <1>8, <2>1, Inductive
<1>10. Back(MaxRun) = Handed
    <2>1. {q \in HandBack : q <= MaxRun} = HandBack
        BY <1>6
    <2>2. QED BY <2>1 DEF Handed
<1>11. Keeps(after[MaxRun]) /\ Ids(after[MaxRun].items) = Ids(queue.items) \cup Handed
    BY <1>9, <1>10
<1>12. Waits(queue) /\ Ids(queue.items) \subseteq MessageIds /\ Handed \subseteq MessageIds
    <2>1. \A r \in HandBack : Named(runs[r].batch) \subseteq MessageIds
        BY <1>6, NamedIs DEF Shapes, RunShape
    <2>2. QED BY <2>1 DEF Shapes, Waits, Handed
<1>13. Waits(Plain(after[MaxRun])) /\ Ids(Plain(after[MaxRun]).items) = Ids(queue.items) \cup Handed
    BY <1>11, <1>12, PlainWaits
<1>14. CASE HandBack = {}
    BY <1>5, <1>12, <1>14 DEF Handed
<1>15. CASE HandBack # {}
    BY <1>5, <1>13, <1>15
<1>16. QED BY <1>14, <1>15

\* A run's account after a step that leaves every run the words, the batch and
\* the origin it had, and takes nobody's stage back to before its words.
LEMMA SameRuns ==
    ASSUME Shapes, runs' \in [Runs -> RunShape],
           \A q \in Runs : /\ runs'[q].told = runs[q].told /\ runs'[q].batch = runs[q].batch
                           /\ runs'[q].unrun = runs[q].unrun /\ runs'[q].origin = runs[q].origin
                           /\ runs'[q].keeps => runs[q].keeps
                           /\ runs[q].stage = "none" => runs'[q] = runs[q]
                           /\ runs'[q].stage = "none" => runs[q].stage = "none"
                           /\ runs[q].stage \notin Unspoken => runs'[q].stage \notin Unspoken
                           /\ runs[q].unrun => runs'[q].stage \in {"done", "ended"},
           NEW r \in Runs, RunSound(r)
    PROVE  RunSound(r)'
<1>1. runs[r].stage # "none" => runs[r].origin \in Runs
    BY DEF RunSound
<1>2. runs'[r].stage = "none" => runs'[r] = NoRun
    BY DEF RunSound
<1>3. QED BY <1>1, <1>2 DEF RunSound

LEMMA DrainSound == ASSUME AdmissionInv, Drain PROVE AdmissionInv'
<1> USE Bounds
<1>1. /\ asked /\ op.step = "free" /\ asked' = FALSE /\ Shapes
      /\ runs' = [r \in Runs |-> IF runs[r].stage \in {"done", "ended"}
                                 THEN [runs[r] EXCEPT !.keeps = FALSE] ELSE runs[r]]
      /\ receipts' = Remembered \cup Handed
      /\ op' = [step |-> "deliver", from |-> "queue", batch |-> << >>]
      /\ UNCHANGED <<resuming, row, recorded, left, accepted, takenBack, heard, named, forgotten>>
    BY DEF Drain, AdmissionInv, Kept, Handed, Delivers, Step, diskVars, ghosts
<1>2. left = 0 /\ Taking = {} /\ Taking' = {} /\ Going' = {} /\ (op \in OpShape)' /\ OpSound'
    BY <1>1, LockWorks, EmptySeq DEF Taking, Going, OpShape, OpSound
<1>3. Waits(queue)' /\ Ids(queue.items)' = Ids(queue.items) \cup Handed
    BY <1>1, HandedWaits
<1>4. ASSUME NEW q \in Runs
      PROVE  /\ runs'[q] \in RunShape
             /\ runs'[q].told = runs[q].told /\ runs'[q].batch = runs[q].batch
             /\ runs'[q].unrun = runs[q].unrun /\ runs'[q].origin = runs[q].origin
             /\ runs'[q].stage = runs[q].stage /\ (runs'[q].keeps => runs[q].keeps)
             /\ (runs[q].stage \in {"done", "ended"} => ~runs'[q].keeps)
             /\ (runs[q].stage = "none" => runs'[q] = runs[q])
             /\ RunSound(q) /\ RunKept(q)
    <2>1. runs[q] \in RunShape /\ RunSound(q) /\ RunKept(q)
        BY RunFacts
    <2>2. CASE runs[q].stage \in {"done", "ended"}
        <3>1. runs'[q] = [runs[q] EXCEPT !.keeps = FALSE]
            BY <1>1, <2>2
        <3>2. QED BY <2>1, <2>2, <3>1 DEF RunShape
    <2>3. CASE runs[q].stage \notin {"done", "ended"}
        <3>1. runs'[q] = runs[q]
            BY <1>1, <2>3
        <3>2. QED BY <2>1, <2>3, <3>1
    <2>4. QED BY <2>2, <2>3
<1>5. runs' \in [Runs -> RunShape]
    BY <1>1, <1>4
<1>6. Ongoing' = Ongoing /\ Running' = Running /\ HandBack' = {} /\ Handed' = {}
    <2>1. Ongoing' = Ongoing /\ Running' = Running
        BY <1>4 DEF Ongoing, Running
    <2>2. HandBack' = {}
        BY <1>4 DEF HandBack
    <2>3. QED BY <2>1, <2>2 DEF Handed
<1>7. \A id : Tellers(id)' = Tellers(id)
    BY <1>4 DEF Tellers
<1>8. Handed \subseteq MessageIds /\ Remembered \subseteq MessageIds /\ receipts \subseteq Remembered
    <2>1. Ids(queue.items)' \subseteq MessageIds
        BY <1>3 DEF Waits
    <2>2. QED BY <1>1, <1>3, <2>1, RememberedHolds
<1>9. Shapes'
    BY <1>1, <1>2, <1>3, <1>5, <1>8 DEF Shapes
<1>10. RunsSound'
    <2>1. ASSUME NEW r \in Runs PROVE RunSound(r)' /\ RunKept(r)'
        <3>1. RunSound(r)'
            <4>1. \A q \in Runs :
                     /\ runs[q].stage = "none" => runs'[q] = runs[q]
                     /\ runs'[q].stage = "none" => runs[q].stage = "none"
                     /\ runs[q].stage \notin Unspoken => runs'[q].stage \notin Unspoken
                     /\ runs[q].unrun => runs'[q].stage \in {"done", "ended"}
                BY <1>4 DEF RunSound
            <4>2. QED BY <1>1, <1>4, <1>5, <4>1, SameRuns
        <3>2. RunKept(r)'
            <4>1. /\ (r \in Running => row.run = r)'
                  /\ (runs[r].stage = "ended" /\ ~runs[r].unrun => runs[r].told \subseteq recorded)'
                  /\ (runs[r].stage = "cut" => r = left \/ runs[r].told \subseteq recorded)'
                <5>1. /\ RunKept(r) /\ runs'[r].stage = runs[r].stage
                      /\ runs'[r].told = runs[r].told /\ runs'[r].unrun = runs[r].unrun
                    BY <1>4
                <5>2. QED BY <1>1, <1>6, <5>1 DEF RunKept
            <4>2. (runs[r].stage \in OpenStages \cup {"done"} \/ r \in HandBack =>
                     runs[r].told \subseteq receipts \cup recorded \cup Taking)'
                BY <1>1, <1>2, <1>4, <1>6, <1>8 DEF RunKept
            <4>3. QED BY <4>1, <4>2 DEF RunKept
        <3>3. QED BY <3>1, <3>2
    <2>2. (resuming # 0 => runs[resuming].stage \in {"done", "ended"} /\ ~runs[resuming].unrun)'
        <3>1. resuming # 0 => resuming \in Runs
            BY <1>1 DEF Shapes, Runs
        <3>2. QED BY <1>1, <1>4, <3>1 DEF AdmissionInv, RunsSound
    <2>3. (row.run # 0 => runs[row.run].stage \notin {"none", "ended"})'
        <3>1. row.run # 0 => row.run \in Runs
            BY <1>1 DEF Shapes, Runs
        <3>2. QED BY <1>1, <1>4, <3>1 DEF AdmissionInv, RunsSound
    <2>4. (\A q, r \in Ongoing : q = r)'
        BY <1>6 DEF AdmissionInv, RunsSound
    <2>5. QED BY <1>1, <2>1, <2>2, <2>3, <2>4 DEF RunsSound
<1>11. RecoveryAlone'
    BY <1>1, <1>2 DEF RecoveryAlone
<1>12. ASSUME NEW id \in Clear PROVE MessageSound(id)'
    <2>1. MessageSound(id) /\ Tellers(id) \subseteq Runs /\ heard[id] \subseteq Runs
        BY <1>1 DEF AdmissionInv, Tellers, Shapes, Clear
    <2>2. /\ (\A q, r \in Tellers(id) : runs[q].origin = runs[r].origin)'
          /\ (\A o \in heard[id] : /\ runs[o].stage \notin Unspoken
                                   /\ \E r \in Tellers(id) : runs[r].origin = o)'
          /\ (id \in recorded =>
                \E r \in Tellers(id) : runs[r].stage \in {"done", "ended", "cut"})'
        BY <1>1, <1>4, <1>7, <2>1 DEF MessageSound
    <2>3. (id \in Ids(queue.items) /\ Tellers(id) # {} => id \in Taking)'
        BY <1>2, <1>3, <1>7, <2>1 DEF MessageSound
    <2>4. (id \in takenBack =>
              id \notin Ids(queue.items) /\ id \notin Handed /\ Tellers(id) = {})'
        BY <1>1, <1>3, <1>6, <1>7, <2>1 DEF MessageSound
    <2>5. ASSUME id \in accepted' PROVE Placed(id)'
        <3>1. Placed(id)
            BY <1>1, <2>1, <2>5 DEF MessageSound, Placed
        <3>2. CASE id \in Ids(queue.items) \cup takenBack \cup recorded
            BY <1>1, <1>3, <3>2 DEF Placed
        <3>3. CASE \E r \in Runs : /\ id \in runs[r].told
                                   /\ \/ r \in Ongoing \cup HandBack
                                      \/ runs[r].stage = "done" /\ ~runs[r].unrun
                                      \/ left # 0 /\ r = left
            <4>1. PICK r \in Runs : /\ id \in runs[r].told
                                    /\ \/ r \in Ongoing \cup HandBack
                                       \/ runs[r].stage = "done" /\ ~runs[r].unrun
                BY <1>2, <3>3
            <4>2. CASE r \in HandBack
                <5>1. runs[r].told = Named(runs[r].batch)
                    BY <1>4, <4>2 DEF HandBack, RunSound
                <5>2. id \in Handed
                    BY <4>1, <4>2, <5>1 DEF Handed
                <5>3. QED BY <1>3, <5>2 DEF Placed
            <4>3. CASE r \notin HandBack
                BY <1>4, <1>6, <4>1, <4>3 DEF Placed
            <4>4. QED BY <4>2, <4>3
        <3>4. QED BY <3>1, <3>2, <3>3 DEF Placed
    <2>6. QED BY <1>2, <1>6, <2>2, <2>3, <2>4, <2>5 DEF MessageSound, Placed
<1>13. IdsKept'
    <2>1. OverStay
        BY <1>4 DEF OverStay
    <2>2. receipts \subseteq receipts'
        BY <1>1, <1>8
    <2>3. QED BY <1>1, <1>2, <2>1, <2>2, IdsStay
<1>14. QED BY <1>1, <1>2, <1>9, <1>10, <1>11, <1>12, <1>13 DEF AdmissionInv, Clear

\* A restart between writes: what a run was told is recorded, or in the row the
\* next boot recovers.
LEMMA RebootSound == ASSUME AdmissionInv, Reboot PROVE AdmissionInv'
<1> USE Bounds
<1>1. /\ ~BetweenWrites /\ Shapes
      /\ runs' = [r \in Runs |-> IF runs[r].stage \in {"none", "ended"}
                                 THEN [runs[r] EXCEPT !.keeps = FALSE]
                                 ELSE [runs[r] EXCEPT !.stage = "cut", !.keeps = FALSE]]
      /\ resuming' = 0 /\ receipts' = {} /\ op' = FreeLock
      /\ row' = [row EXCEPT !.staged = 0] /\ left' = row.run
      /\ asked' = (row.run = 0 /\ queue.items # << >>)
      /\ UNCHANGED <<queue, recorded, named, accepted, takenBack, heard>>
      /\ forgotten' = forgotten
                         \cup ((UNION {Behind(r) : r \in {q \in Runs : ~runs[q].unrun}}) \ named)
    BY DEF Reboot, AdmissionInv, ghosts
<1>2. /\ Taking = {} /\ Taking' = {} /\ Going' = {} /\ (op \in OpShape)' /\ OpSound'
      /\ row' \in [run : 0..MaxRun, staged : 0..MaxRun] /\ row'.run = row.run
      /\ left' \in 0..MaxRun /\ Waits(queue)' /\ op.step # "take"
    <2>1. op.step # "take" /\ Taking = {}
        BY <1>1 DEF BetweenWrites, Taking
    <2>2. Taking' = {} /\ Going' = {} /\ (op \in OpShape)' /\ OpSound'
        BY <1>1, EmptySeq DEF Taking, Going, OpShape, OpSound, FreeLock
    <2>3. row \in [run : 0..MaxRun, staged : 0..MaxRun] /\ Waits(queue)
        BY <1>1 DEF Shapes
    <2>4. /\ row' \in [run : 0..MaxRun, staged : 0..MaxRun] /\ row'.run = row.run
          /\ left' \in 0..MaxRun
        <3>1. row' = [row EXCEPT !.staged = 0] /\ left' = row.run
            BY <1>1
        <3>2. ASSUME NEW w \in [run : 0..MaxRun, staged : 0..MaxRun]
              PROVE  /\ [w EXCEPT !.staged = 0] \in [run : 0..MaxRun, staged : 0..MaxRun]
                     /\ [w EXCEPT !.staged = 0].run = w.run /\ w.run \in 0..MaxRun
            OBVIOUS
        <3>3. QED BY <2>3, <3>1, <3>2
    <2>5. Waits(queue)'
        BY <1>1, <2>3
    <2>6. QED BY <2>1, <2>2, <2>4, <2>5
<1>3. ASSUME NEW q \in Runs
      PROVE  /\ runs'[q] \in RunShape
             /\ runs'[q].told = runs[q].told /\ runs'[q].batch = runs[q].batch
             /\ runs'[q].unrun = runs[q].unrun /\ runs'[q].origin = runs[q].origin
             /\ runs'[q].stage = IF runs[q].stage \in {"none", "ended"} THEN runs[q].stage ELSE "cut"
             /\ ~runs'[q].keeps
             /\ (runs[q].stage = "none" => runs'[q] = runs[q])
             /\ (runs[q].unrun => runs[q].stage = "ended" /\ ~runs[q].keeps)
             /\ RunSound(q) /\ RunKept(q)
    <2>1. runs[q] \in RunShape /\ RunSound(q) /\ RunKept(q)
          /\ (runs[q].stage = "none" => runs[q] = NoRun)
        BY RunFacts
    <2>2. runs[q].unrun => runs[q].stage = "ended" /\ ~runs[q].keeps
        BY <1>1, <2>1 DEF BetweenWrites, RunSound
    <2>3. CASE runs[q].stage \in {"none", "ended"}
        <3>1. runs'[q] = [runs[q] EXCEPT !.keeps = FALSE]
            BY <1>1, <2>3
        <3>2. runs[q].stage = "none" => runs'[q] = runs[q]
            <4>1. ASSUME NEW x \in RunShape, x.keeps = FALSE PROVE [x EXCEPT !.keeps = FALSE] = x
                BY <4>1 DEF RunShape
            <4>2. NoRun.keeps = FALSE
                BY DEF NoRun
            <4>3. QED BY <2>1, <3>1, <4>1, <4>2
        <3>3. QED BY <2>1, <2>2, <2>3, <3>1, <3>2 DEF RunShape
    <2>4. CASE runs[q].stage \notin {"none", "ended"}
        <3>1. runs'[q] = [runs[q] EXCEPT !.stage = "cut", !.keeps = FALSE]
            BY <1>1, <2>4
        <3>2. QED BY <2>1, <2>2, <2>4, <3>1 DEF RunShape
    <2>5. QED BY <2>3, <2>4
<1>4. runs' \in [Runs -> RunShape]
    BY <1>1, <1>3
<1>5. Ongoing' = {} /\ Running' = {} /\ HandBack' = {} /\ Handed' = {}
    <2>1. Ongoing' = {} /\ Running' = {}
        BY <1>3 DEF Ongoing, Running, OpenStages, RunningStages
    <2>2. HandBack' = {}
        BY <1>3 DEF HandBack
    <2>3. QED BY <2>1, <2>2 DEF Handed
<1>6. \A id : Tellers(id)' = Tellers(id)
    BY <1>3 DEF Tellers
\* What a run not over was told: the next boot recovers it, or it is recorded.
<1>7. ASSUME NEW q \in Runs, runs[q].stage \notin {"none", "ended"}
      PROVE  q = left' \/ runs[q].told \subseteq recorded
    <2>1. CASE runs[q].stage \in {"claimed", "done"}
        BY <1>1, <2>1 DEF BetweenWrites
    <2>2. CASE runs[q].stage \in RunningStages
        <3>1. row.run = q
            BY <1>3, <2>2 DEF RunKept, Running
        <3>2. QED BY <1>1, <3>1
    <2>3. CASE runs[q].stage = "cut"
        <3>1. q = left \/ runs[q].told \subseteq recorded
            BY <1>3, <2>3 DEF RunKept
        <3>2. q = left => row.run = left
            BY DEF AdmissionInv, RecoveryAlone, Runs
        <3>3. QED BY <1>1, <3>1, <3>2
    <2>4. runs[q].stage \in {"claimed", "done", "cut"} \cup RunningStages
        BY <1>3, <1>7, RunFacts DEF RunShape, OpenStages, RunningStages
    <2>5. QED BY <2>1, <2>2, <2>3, <2>4
<1>8. Shapes' /\ (row.run # 0 => row.run \in Runs /\ runs[row.run].stage \notin {"none", "ended"})
    <2>1. Shapes'
        <3>1. \A r \in Runs : Behind(r) \subseteq MessageIds
            <4>1. \A r \in Runs : Behind(r) \subseteq Named(runs[r].batch)
                BY DEF Behind, Named
            <4>2. \A r \in Runs : Named(runs[r].batch) \subseteq MessageIds
                BY <1>1, NamedIs DEF Shapes, RunShape
            <4>3. QED BY <4>1, <4>2
        <3>2. forgotten' \subseteq MessageIds
            BY <1>1, <3>1 DEF Shapes
        <3>3. QED BY <1>1, <1>2, <1>4, <3>2 DEF Shapes
    <2>2. row \in [run : 0..MaxRun, staged : 0..MaxRun]
          /\ (row.run # 0 => runs[row.run].stage \notin {"none", "ended"})
        BY DEF AdmissionInv, Shapes, RunsSound
    <2>3. row.run # 0 => row.run \in Runs
        BY <2>2 DEF Runs
    <2>4. QED BY <2>1, <2>2, <2>3
<1>9. RunsSound'
    <2>1. ASSUME NEW r \in Runs PROVE RunSound(r)' /\ RunKept(r)'
        <3>1. \A q \in Runs : /\ runs'[q].stage = "none" => runs[q].stage = "none"
                              /\ runs[q].stage \notin Unspoken => runs'[q].stage \notin Unspoken
                              /\ runs[q].unrun => runs'[q].stage \in {"done", "ended"}
            BY <1>3 DEF Unspoken
        <3>2. RunSound(r)'
            BY <1>1, <1>3, <1>4, <3>1, SameRuns
        <3>3. RunKept(r)'
            <4>1. (runs[r].stage = "cut" => r = left \/ runs[r].told \subseteq recorded)'
                BY <1>1, <1>3, <1>7
            <4>2. (runs[r].stage = "ended" /\ ~runs[r].unrun => runs[r].told \subseteq recorded)'
                <5>1. /\ RunKept(r) /\ runs'[r].told = runs[r].told
                      /\ runs'[r].unrun = runs[r].unrun
                      /\ (runs'[r].stage = "ended" => runs[r].stage = "ended")
                    BY <1>3
                <5>2. QED BY <1>1, <5>1 DEF RunKept
            <4>3. (runs[r].stage \notin OpenStages \cup {"done"})'
                BY <1>3 DEF OpenStages
            <4>4. QED BY <1>5, <4>1, <4>2, <4>3 DEF RunKept
        <3>4. QED BY <3>2, <3>3
    <2>2. (row.run # 0 => runs[row.run].stage \notin {"none", "ended"})'
        <3>1. row.run # 0 => runs'[row.run].stage \notin {"none", "ended"}
            BY <1>3, <1>8
        <3>2. QED BY <1>2, <3>1
    <2>3. QED BY <1>1, <1>5, <2>1, <2>2 DEF RunsSound, FreeLock
<1>10. RecoveryAlone'
    <2>2. row.run # 0 => runs'[row.run].stage = "cut"
        BY <1>3, <1>8
    <2>3. \A r \in Runs : runs'[r].stage \notin OpenStages \cup {"done"} /\ ~runs'[r].keeps
        BY <1>3 DEF OpenStages
    <2>4. QED BY <1>1, <1>2, <2>2, <2>3 DEF RecoveryAlone, FreeLock
<1>11. ASSUME NEW id \in MessageIds, id \notin forgotten' PROVE MessageSound(id)'
    <2>1. MessageSound(id) /\ Tellers(id) \subseteq Runs /\ heard[id] \subseteq Runs
        BY <1>1, <1>11 DEF AdmissionInv, Tellers, Shapes, Clear
    <2>2. (\A q, r \in Tellers(id) : runs[q].origin = runs[r].origin)'
        BY <1>3, <1>6, <2>1 DEF MessageSound
    <2>3. (\A o \in heard[id] : /\ runs[o].stage \notin Unspoken
                                /\ \E r \in Tellers(id) : runs[r].origin = o)'
        <3>1. ASSUME NEW o \in heard[id]
              PROVE  runs'[o].stage \notin Unspoken /\ \E r \in Tellers(id)' : runs'[r].origin = o
            <4>1. o \in Runs /\ runs[o].stage \notin Unspoken
                BY <2>1 DEF MessageSound
            <4>2. PICK r \in Tellers(id) : runs[r].origin = o
                BY <2>1 DEF MessageSound
            <4>3. runs'[o].stage \notin Unspoken
                BY <1>3, <4>1 DEF Unspoken
            <4>4. r \in Tellers(id)' /\ runs'[r].origin = o
                BY <1>3, <1>6, <2>1, <4>2
            <4>5. QED BY <4>3, <4>4
        <3>2. QED BY <1>1, <3>1
    <2>4. (id \in recorded => \E r \in Tellers(id) : runs[r].stage \in {"done", "ended", "cut"})'
        <3>1. ASSUME id \in recorded
              PROVE  \E r \in Tellers(id)' : runs'[r].stage \in {"done", "ended", "cut"}
            <4>1. PICK r \in Tellers(id) : runs[r].stage \in {"done", "ended", "cut"}
                BY <2>1, <3>1 DEF MessageSound
            <4>2. r \in Tellers(id)' /\ runs'[r].stage \in {"done", "ended", "cut"}
                BY <1>3, <1>6, <2>1, <4>1
            <4>3. QED BY <4>2
        <3>2. QED BY <1>1, <3>1
    <2>5. (id \in Ids(queue.items) /\ Tellers(id) # {} => id \in Taking)'
        BY <1>1, <1>2, <1>6, <2>1 DEF MessageSound
    <2>6. (id \in takenBack =>
              id \notin Ids(queue.items) /\ id \notin Handed /\ Tellers(id) = {})'
        BY <1>1, <1>5, <1>6, <2>1 DEF MessageSound
    <2>7. ASSUME id \in accepted' PROVE Placed(id)'
        <3>1. Placed(id)
            BY <1>1, <2>1, <2>7 DEF MessageSound, Placed
        <3>2. CASE id \in Ids(queue.items) \cup takenBack \cup recorded
            BY <1>1, <3>2 DEF Placed
        <3>3. CASE \E r \in Runs : /\ id \in runs[r].told
                                   /\ \/ r \in Ongoing \cup HandBack
                                      \/ runs[r].stage = "done" /\ ~runs[r].unrun
                                      \/ left # 0 /\ r = left
            <4>1. PICK r \in Runs : /\ id \in runs[r].told
                                    /\ \/ r \in Ongoing \cup HandBack
                                       \/ runs[r].stage = "done" /\ ~runs[r].unrun
                                       \/ left # 0 /\ r = left
                BY <3>3
            <4>2. r \notin HandBack
                BY <1>3 DEF HandBack
            <4>3. left # 0 /\ r = left => runs[r].stage = "cut"
                BY DEF AdmissionInv, RecoveryAlone
            <4>4. runs[r].stage \notin {"none", "ended"}
                BY <4>1, <4>2, <4>3 DEF Ongoing, OpenStages
            <4>5. r = left' \/ id \in recorded
                BY <1>7, <4>1, <4>4
            <4>6. r # 0 /\ id \in runs'[r].told
                BY <1>3, <4>1 DEF Runs
            <4>7. QED BY <1>1, <4>5, <4>6 DEF Placed
        <3>4. QED BY <3>1, <3>2, <3>3 DEF Placed
    <2>8. QED BY <1>2, <1>5, <2>2, <2>3, <2>4, <2>5, <2>6, <2>7 DEF MessageSound, Placed
\* What was joined behind another and is on no row is lost with the memory of it.
<1>12. IdsKept'
    <2>1. /\ \A r \in Runs : Behind(r)' = Behind(r) /\ Behind(r) \subseteq runs[r].told
          /\ forgotten \subseteq forgotten'
          /\ \A r \in Runs : ~runs[r].unrun => Behind(r) \subseteq forgotten' \cup named
        <3>1. \A r \in Runs : Behind(r)' = Behind(r)
            BY <1>3 DEF Behind
        <3>2. \A r \in Runs : Behind(r) \subseteq runs[r].told
            <4>1. \A r \in Runs : Behind(r) \subseteq Named(runs[r].batch)
                BY DEF Behind, Named
            <4>2. QED BY <4>1, RunFacts
        <3>3. QED BY <1>1, <3>1, <3>2
    <2>2. IdsKept
        BY DEF AdmissionInv
    <2>3. ASSUME NEW id \in recorded, id \notin named
          PROVE  /\ id \in forgotten'
                 /\ \E r \in Runs : /\ runs'[r].stage \in {"done", "ended", "cut"}
                                   /\ ~runs'[r].unrun /\ id \in Behind(r)'
        <3>1. PICK r \in Runs : /\ runs[r].stage \in {"done", "ended", "cut"}
                               /\ ~runs[r].unrun /\ id \in Behind(r)
            BY <2>2, <2>3 DEF IdsKept
        <3>2. runs'[r].stage \in {"done", "ended", "cut"} /\ ~runs'[r].unrun
            BY <1>3, <3>1
        <3>3. QED BY <2>1, <2>3, <3>1, <3>2
    <2>4. (left # 0 => Behind(left) \subseteq forgotten \cup named)'
        <3>1. ASSUME NEW q \in Runs, q = left' PROVE Behind(q)' \subseteq forgotten' \cup named
            <4>1. runs[q].stage \notin {"none", "ended"}
                <5>1. q = row.run
                    BY <1>1, <3>1
                <5>2. q # 0
                    BY DEF Runs
                <5>3. QED BY <1>8, <5>1, <5>2
            <4>2. ~runs[q].unrun
                BY <1>3, <4>1
            <4>3. QED BY <2>1, <4>2
        <3>2. left' # 0 => left' \in Runs
            BY <1>1, <1>8
        <3>3. QED BY <1>1, <3>1, <3>2
    <2>5. ASSUME NEW id \in forgotten'
          PROVE  id \in recorded \/ (left' # 0 /\ id \in runs'[left'].told)
        <3>1. CASE id \in forgotten
            <4>1. id \in recorded \/ (left # 0 /\ id \in runs[left].told)
                BY <2>2, <3>1 DEF IdsKept
            <4>2. left # 0 => left' = left /\ left \in Runs
                BY <1>1, <1>8 DEF AdmissionInv, RecoveryAlone
            <4>3. QED BY <1>3, <4>1, <4>2
        <3>2. CASE id \notin forgotten
            <4>1. PICK r \in Runs : ~runs[r].unrun /\ id \in Behind(r)
                BY <1>1, <2>5, <3>2
            <4>2. id \in runs[r].told
                BY <2>1, <4>1
            <4>3. runs[r].stage # "none"
                BY <4>2, RunFacts DEF NoRun
            <4>4. CASE runs[r].stage = "ended"
                BY <1>3, <4>1, <4>2, <4>4 DEF RunKept
            <4>5. CASE runs[r].stage # "ended"
                <5>1. r = left' \/ runs[r].told \subseteq recorded
                    BY <1>7, <4>3, <4>5
                <5>2. r # 0
                    BY DEF Runs
                <5>3. QED BY <1>3, <4>2, <5>1, <5>2
            <4>6. QED BY <4>4, <4>5
        <3>3. QED BY <3>1, <3>2
    <2>6. recorded' = recorded /\ named' = named
        BY <1>1
    <2>7. (\A id \in recorded : \/ id \in named
                                \/ \E r \in Runs : /\ runs[r].stage \in {"done", "ended", "cut"}
                                                 /\ ~runs[r].unrun /\ id \in Behind(r))'
        BY <2>3, <2>6
    <2>8. (recorded \ forgotten \subseteq receipts \cup named \cup Taking)'
        BY <2>3, <2>6
    <2>9. (forgotten \subseteq recorded \cup (IF left # 0 THEN runs[left].told ELSE {}))'
        BY <2>5, <2>6
    <2>10. QED BY <2>4, <2>7, <2>8, <2>9 DEF IdsKept
<1>13. QED BY <1>2, <1>8, <1>9, <1>10, <1>11, <1>12 DEF AdmissionInv, Clear

-----------------------------------------------------------------------------
(* Every step.                                                             *)

LEMMA InvStutters == ASSUME AdmissionInv, UNCHANGED vars PROVE AdmissionInv'
<1>1. /\ UNCHANGED <<runs, left, recorded, heard, row, resuming, receipts, queue, op, asked,
                     takenBack, accepted, named, forgotten>>
    BY DEF vars, turnVars, diskVars, ghosts
<1>2. Shapes /\ Waits(queue) /\ OpSound
    BY DEF AdmissionInv, Shapes
<1>3. Shapes' /\ OpSound'
    BY <1>1, <1>2 DEF Shapes, OpSound
<1>4. Ongoing' = Ongoing /\ HandBack' = HandBack /\ Handed' = Handed /\ Running' = Running
      /\ Taking' = Taking /\ Going' = Going /\ \A id : Tellers(id)' = Tellers(id)
    BY <1>1 DEF Ongoing, HandBack, Handed, Running, Taking, Going, Tellers
<1>5. RunsSound'
    <2>1. ASSUME NEW r \in Runs PROVE RunSound(r)' /\ RunKept(r)'
        <3>1. RunSound(r) /\ RunKept(r)
            BY RunFacts
        <3>2. QED BY <1>1, <1>4, <3>1 DEF RunSound, RunKept
    <2>2. RunsSound
        BY DEF AdmissionInv
    <2>3. QED BY <1>1, <1>4, <2>1, <2>2 DEF RunsSound
<1>6. RecoveryAlone'
    BY <1>1 DEF AdmissionInv, RecoveryAlone
<1>7. ASSUME NEW id \in Clear PROVE MessageSound(id)'
    <2>1. MessageSound(id)
        BY DEF AdmissionInv
    <2>2. QED BY <1>1, <1>4, <2>1 DEF MessageSound
<1>8. IdsKept'
    <2>1. OverStay
        BY <1>1 DEF OverStay
    <2>2. QED BY <1>1, <1>4, <2>1, IdsStay
<1>9. QED BY <1>1, <1>3, <1>5, <1>6, <1>7, <1>8 DEF AdmissionInv, Clear

LEMMA InvSteps == ASSUME AdmissionInv, ~EarlySends, [Next]_vars PROVE AdmissionInv'
<1>1. CASE UNCHANGED vars
    BY <1>1, InvStutters
<1>2. CASE Sender
    <2>1. CASE Release
        BY <2>1, ReleaseSound
    <2>2. CASE \E id \in MessageIds : Say(id) \/ Book(id) \/ BookedGo(id) \/ Unqueue(id)
        BY <2>2, SaySound, BookSound, BookedGoSound, UnqueueSound
    <2>3. QED BY <1>2, <2>1, <2>2 DEF Sender
<1>3. CASE LockStep
    <2>1. CASE \E r \in Runs : StartClaims(r)
        BY <2>1, StartClaimsSound
    <2>2. CASE Drain \/ Deliver \/ Steer \/ Take \/ StartBusy \/ StartArchived
        BY <2>2, DrainSound, DeliverSound, SteerSound, TakeSound, StartBusySound,
           StartArchivedSound
    <2>3. QED BY <1>3, <2>1, <2>2 DEF LockStep
<1>4. CASE People
    <2>1. CASE \E r \in Runs : StopTurn(r)
        BY <2>1, StopTurnSound
    <2>2. CASE Archive \/ Unarchive \/ RewindLeased \/ \E r \in Runs : CardUp(r) \/ CardAnswered(r)
        BY <2>2, AsideSound
    <2>3. QED BY <1>4, <2>1, <2>2 DEF People
<1>5. CASE Passes
    <2>1. CASE GiveUp \/ Reopens \/ RewindReleased
        BY <2>1, AsideSound
    <2>2. CASE RecoverRecords
        BY <2>2, RecoverRecordsSound
    <2>3. CASE \E r \in Runs : CarryOn(r) \/ RecoverReruns(r)
        BY <2>3, CarryOnSound, RecoverRerunsSound
    <2>4. QED BY <1>5, <2>1, <2>2, <2>3 DEF Passes
<1>6. CASE Reboot
    BY <1>6, RebootSound
<1>7. CASE \E r \in Runs : TurnStep(r)
    BY <1>7, BeginTurnSound, TurnedAwaySound, TalkSound, CloseTurnSound, SettleTurnSound,
       EndTurnSound DEF TurnStep
<1>8. QED BY <1>1, <1>2, <1>3, <1>4, <1>5, <1>6, <1>7 DEF Next

LEMMA InvAlways == ~EarlySends => (Spec => []AdmissionInv)
<1> SUFFICES ASSUME ~EarlySends PROVE Spec => []AdmissionInv
    OBVIOUS
<1>1. AdmissionInv /\ [Next]_vars => AdmissionInv'
    BY InvSteps
<1>2. QED BY <1>1, InvAtStart, PTL DEF Spec

\* As far as messages wait for a boot to recover the turn it cut, every message
\* sent again after a lost answer, queued, handed back, let go, steered or cut by a
\* restart is carried to the model by one turn and that turn's re-runs, unless a
\* restart lost its id, which it does only of words joined behind others
\* (turn-admission.ts: "gets back instead of a second delivery").
THEOREM OneDelivery == ~EarlySends => (Spec => []DeliveredOnce)
<1>1. ASSUME AdmissionInv PROVE DeliveredOnce
    <2> SUFFICES ASSUME NEW id \in MessageIds \ forgotten PROVE Cardinality(heard[id]) <= 1
        BY DEF DeliveredOnce
    <2>1. \A o, p \in heard[id] : o = p
        <3>1. \A o \in heard[id] : \E r \in Tellers(id) : runs[r].origin = o
            BY <1>1 DEF AdmissionInv, MessageSound, Clear
        <3>2. \A q, r \in Tellers(id) : runs[q].origin = runs[r].origin
            BY <1>1 DEF AdmissionInv, MessageSound, Clear
        <3>3. QED BY <3>1, <3>2
    <2>2. CASE heard[id] = {}
        BY <2>2, FS_EmptySet
    <2>3. CASE heard[id] # {}
        <3>1. PICK o \in heard[id] : TRUE
            BY <2>3
        <3>2. heard[id] = {o}
            BY <2>1, <3>1
        <3>3. Cardinality({o}) = 1
            BY FS_Singleton
        <3>4. QED BY <3>2, <3>3
    <2>4. QED BY <2>2, <2>3
<1>2. AdmissionInv => DeliveredOnce
    BY <1>1
<1>3. QED BY <1>2, InvAlways, PTL

\* A message taken is somewhere, and in one place: no message is lost between the
\* queue, the turns, their hand-backs, the record and a restart, nor goes while it
\* still waits, but for one sent again since a restart lost its id (turn-admission.ts takes a batch off the queue only once a run has
\* claimed it).
THEOREM WordsStay == ~EarlySends => (Spec => []WordsKept)
<1>1. ASSUME AdmissionInv PROVE WordsKept
    <2>1. ASSUME NEW id \in accepted
          PROVE  \/ id \in Ids(queue.items) \cup takenBack \cup recorded
                 \/ \E r \in Ongoing \cup HandBack \cup ({left} \ {0}) : id \in runs[r].told
                 \/ \E r \in Runs : runs[r].stage = "done" /\ id \in runs[r].told
        <3>1. CASE id \in Clear
            <4>1. Placed(id)
                BY <1>1, <3>1 DEF AdmissionInv, MessageSound, Placed
            <4>2. QED BY <4>1 DEF Placed
        <3>2. CASE id \in forgotten
            BY <1>1, <3>2 DEF AdmissionInv, IdsKept
        <3>3. id \in MessageIds
            BY <1>1 DEF AdmissionInv, Shapes
        <3>4. QED BY <3>1, <3>2, <3>3 DEF Clear
    <2>2. ASSUME NEW r \in Ongoing, op.step # "take", NEW id \in runs[r].told,
                 id \in Ids(queue.items), id \notin forgotten
          PROVE  FALSE
        <3>1. r \in Runs /\ ~runs[r].unrun /\ id \in MessageIds
            BY <1>1, <2>2 DEF Ongoing, OpenStages, AdmissionInv, RunsSound, RunSound, Shapes, Waits
        <3>2. r \in Tellers(id) /\ Taking = {}
            BY <2>2, <3>1 DEF Tellers, Taking
        <3>3. QED BY <1>1, <2>2, <3>1, <3>2 DEF AdmissionInv, MessageSound, Clear
    <2>3. NoneLost
        BY <2>1 DEF NoneLost
    <2>4. WaitsOrGoes
        BY <2>2 DEF WaitsOrGoes
    <2>5. QED BY <2>3, <2>4 DEF WordsKept
<1>2. AdmissionInv => WordsKept
    BY <1>1
<1>3. QED BY <1>2, InvAlways, PTL

-----------------------------------------------------------------------------
(* What a person took back, and the promise to the senders.                *)

\* Only a turn's first words to the model, and a steer it takes, are heard.
LEMMA HeardMoves ==
    ASSUME AdmissionInv, [Next]_vars, ~Steer, \A r \in Runs : ~Talk(r)
    PROVE  heard' = heard
<1>1. CASE UNCHANGED vars
    BY <1>1 DEF vars, ghosts
<1>2. CASE Sender
    BY <1>2 DEF Sender, Say, Book, BookedGo, Unqueue, Release, ghosts
<1>3. CASE LockStep
    BY <1>3 DEF LockStep, Drain, Deliver, Take, StartBusy, StartArchived, StartClaims, ghosts
<1>4. CASE People
    BY <1>4 DEF People, Archive, Unarchive, RewindLeased, CardUp, CardAnswered, StopTurn, ghosts
<1>5. CASE Passes
    BY <1>5 DEF Passes, GiveUp, Reopens, RewindReleased, RecoverRecords, CarryOn, RecoverReruns,
                Recovered, ghosts
<1>6. CASE Reboot
    BY <1>6 DEF Reboot, ghosts
<1>7. CASE \E r \in Runs : TurnStep(r)
    BY <1>7 DEF TurnStep, BeginTurn, TurnedAway, CloseTurn, SettleTurn, EndTurn, ghosts
<1>8. QED BY <1>1, <1>2, <1>3, <1>4, <1>5, <1>6, <1>7 DEF Next

\* What is heard stays heard, and grows by what the turn that talks was told, or
\* the message steered into it.
LEMMA HeardGrows ==
    ASSUME AdmissionInv, [Next]_vars, NEW id \in MessageIds
    PROVE  /\ heard[id] \subseteq heard'[id]
           /\ heard'[id] # heard[id] =>
                \/ \E r \in Runs : runs[r].stage = "begun" /\ id \in runs[r].told
                \/ id \in Going
<1>1. heard \in [MessageIds -> SUBSET Runs]
    BY DEF AdmissionInv, Shapes
<1>2. CASE heard' = heard
    BY <1>2
<1>3. CASE Steer
    <2>1. op.step = "steer"
        BY <1>3 DEF Steer
    <2>2. PICK m \in MessageIds : m = op.batch[1] /\ Going = {m}
        BY <2>1, DoorOne
    <2>3. heard' = heard \/ \E more : heard' = [heard EXCEPT ![m] = heard[m] \cup more]
        BY <1>3, <2>2 DEF Steer
    <2>4. CASE \E more : heard' = [heard EXCEPT ![m] = heard[m] \cup more]
        BY <1>1, <2>2, <2>4
    <2>5. QED BY <1>2, <2>3, <2>4
<1>4. CASE \E r \in Runs : Talk(r)
    <2>1. PICK r \in Runs : Talk(r)
        BY <1>4
    <2>2. /\ runs[r].stage = "begun"
          /\ heard'[id] = IF id \in runs[r].told THEN heard[id] \cup {runs[r].origin} ELSE heard[id]
        BY <2>1 DEF Talk
    <2>3. QED BY <2>2
<1>5. QED BY <1>2, <1>3, <1>4, HeardMoves

\* What a person took back is never said, as long as no restart lost its id: no
\* turn that talks was told it, and no steer has it in hand (turn-admission.ts, removeQueued under the conversation's
\* lock).
THEOREM TakenBackStays == ~EarlySends => (Spec => TakenBackUnsaid)
<1> SUFFICES ASSUME ~EarlySends PROVE Spec => TakenBackUnsaid
    OBVIOUS
<1>1. ASSUME AdmissionInv, [Next]_vars PROVE [\A id \in takenBack \ forgotten : heard'[id] = heard[id]]_vars
    <2>1. ASSUME NEW id \in takenBack \ forgotten PROVE heard'[id] = heard[id]
        <3>1. id \in MessageIds /\ Tellers(id) = {} /\ id \notin Going
            BY <1>1 DEF AdmissionInv, Shapes, MessageSound, Clear
        <3>2. ASSUME NEW r \in Runs, runs[r].stage = "begun", id \in runs[r].told PROVE FALSE
            <4>1. ~runs[r].unrun
                BY <1>1, <3>2, RunFacts DEF RunSound
            <4>2. QED BY <3>1, <3>2, <4>1 DEF Tellers
        <3>3. QED BY <1>1, <3>1, <3>2, HeardGrows
    <2>2. QED BY <2>1
<1>2. AdmissionInv /\ [Next]_vars => [\A id \in takenBack \ forgotten : heard'[id] = heard[id]]_vars
    BY <1>1
<1>3. Spec => []AdmissionInv
    BY InvAlways
<1>4. QED BY <1>2, <1>3, PTL DEF Spec, TakenBackUnsaid

\* A message some turn has, or is to hand back; one a turn has for good; one that
\* waits and is not being taken.
InHand(id) == Tellers(id) # {} \/ id \in Handed
Spent(id) == heard[id] # {} \/ id \in recorded
Still(id) == id \in Ids(queue.items) /\ id \notin Taking

\* Where a sender sees a message, told by where it is.
Seen(id) ==
    /\ At[id] \in {"unsaid", "waiting", "carried", "over", "back"}
    /\ At[id] = "waiting" <=> Still(id)
    /\ At[id] = "over" <=> Spent(id)
    /\ At[id] = "carried" <=> InHand(id) /\ ~Spent(id)
    /\ At[id] = "back" <=> id \in takenBack
    /\ Spent(id) => InHand(id)

AllSeen ==
    \A id \in MessageIds : IF id \in forgotten THEN At[id] = "forgotten" ELSE Seen(id)

LEMMA InvSees == AdmissionInv => AllSeen
<1> SUFFICES ASSUME AdmissionInv, NEW id \in Clear PROVE Seen(id)
    BY DEF AllSeen, At, Clear
<1>1. MessageSound(id) /\ Tellers(id) \subseteq Runs
    BY DEF AdmissionInv, Tellers
<1>2. Spent(id) => Tellers(id) # {}
    BY <1>1 DEF MessageSound, Spent
<1>3. Still(id) => ~InHand(id) /\ id \notin takenBack
    BY <1>1 DEF MessageSound, Still, InHand
<1>4. id \in takenBack => ~InHand(id) /\ ~Still(id)
    BY <1>1 DEF MessageSound, Still, InHand
<1>5. Carried(id) => InHand(id)
    <2>1. ASSUME NEW r \in Runs, id \in runs[r].told, r \in HandBack PROVE id \in Handed
        <3>1. runs[r].told = Named(runs[r].batch)
            BY <2>1, RunFacts DEF RunSound, HandBack
        <3>2. QED BY <2>1, <3>1 DEF Handed
    <2>2. ASSUME NEW r \in Runs, id \in runs[r].told,
                 runs[r].stage \in OpenStages \/ r = left \/ (runs[r].stage = "done" /\ ~runs[r].unrun)
          PROVE  r \in Tellers(id)
        <3>1. r = left => runs[r].stage = "cut"
            BY Bounds DEF AdmissionInv, RecoveryAlone, Runs
        <3>2. ~runs[r].unrun
            BY <2>2, <3>1, RunFacts DEF RunSound, OpenStages
        <3>3. QED BY <2>2, <3>2 DEF Tellers
    <2>3. QED BY <2>1, <2>2 DEF Carried, InHand
<1>6. InHand(id) => Carried(id) \/ Spent(id)
    <2>1. CASE id \in Handed
        <3>1. PICK r \in HandBack : id \in Named(runs[r].batch)
            BY <2>1 DEF Handed
        <3>2. r \in Runs /\ id \in runs[r].told
            BY <3>1, RunFacts DEF HandBack
        <3>3. QED BY <3>1, <3>2 DEF Carried
    <2>2. CASE Tellers(id) # {}
        <3>1. PICK r \in Runs : ~runs[r].unrun /\ id \in runs[r].told
            BY <2>2 DEF Tellers
        <3>2. RunSound(r) /\ RunKept(r) /\ runs[r] \in RunShape
            BY RunFacts
        <3>3. CASE runs[r].stage = "none"
            BY <3>1, <3>2, <3>3 DEF RunSound, NoRun
        <3>4. CASE runs[r].stage \in {"ended", "cut"}
            BY <3>1, <3>2, <3>4 DEF RunKept, Carried, Spent
        <3>5. CASE runs[r].stage \in OpenStages \cup {"done"}
            BY <3>1, <3>5 DEF Carried
        <3>6. QED BY <3>2, <3>3, <3>4, <3>5 DEF RunShape
    <2>3. QED BY <2>1, <2>2 DEF InHand
<1>7. At[id] = IF Still(id) THEN "waiting" ELSE IF Spent(id) THEN "over"
               ELSE IF Carried(id) THEN "carried" ELSE IF id \in takenBack THEN "back" ELSE "unsaid"
    BY DEF At, Still, Spent, Taking, Clear
<1>8. Spent(id) => InHand(id)
    BY <1>2 DEF InHand
<1>9. QED BY <1>3, <1>4, <1>5, <1>6, <1>7, <1>8 DEF Seen

\* Turns that keep what they were told keep it in hand.
LEMMA TurnsKeep ==
    ASSUME \A q \in Runs : /\ runs[q].told \subseteq runs'[q].told
                           /\ runs'[q].unrun => runs[q].unrun
                           /\ q \in HandBack => q \in HandBack' /\ runs'[q].batch = runs[q].batch,
           NEW id, InHand(id)
    PROVE  InHand(id)'
<1>1. CASE id \in Handed
    <2>1. PICK q \in HandBack : id \in Named(runs[q].batch)
        BY <1>1 DEF Handed
    <2>2. q \in Runs
        BY DEF HandBack
    <2>3. q \in HandBack' /\ runs'[q].batch = runs[q].batch
        BY <2>2
    <2>4. id \in Handed'
        BY <2>1, <2>3 DEF Handed
    <2>5. QED BY <2>4 DEF InHand
<1>2. CASE Tellers(id) # {}
    <2>1. PICK q \in Runs : ~runs[q].unrun /\ id \in runs[q].told
        BY <1>2 DEF Tellers
    <2>2. q \in Tellers(id)'
        BY <2>1 DEF Tellers
    <2>3. QED BY <2>2 DEF InHand
<1>3. QED BY <1>1, <1>2 DEF InHand

\* The same of a step that moves one turn on.
LEMMA TurnKeeps ==
    ASSUME AdmissionInv, NEW r \in Runs, NEW x, runs' = [runs EXCEPT ![r] = x],
           runs[r].told \subseteq x.told, x.unrun => runs[r].unrun,
           r \in HandBack => /\ x.stage \in {"done", "ended"} /\ x.keeps /\ x.unrun
                             /\ x.batch = runs[r].batch,
           NEW id, InHand(id)
    PROVE  InHand(id)'
<1>1. runs \in [Runs -> RunShape]
    BY DEF AdmissionInv, Shapes
<1>2. runs'[r] = x /\ \A q \in Runs \ {r} : runs'[q] = runs[q]
    BY <1>1
<1>3. ASSUME NEW q \in Runs
      PROVE  /\ runs[q].told \subseteq runs'[q].told
             /\ runs'[q].unrun => runs[q].unrun
             /\ q \in HandBack => q \in HandBack' /\ runs'[q].batch = runs[q].batch
    <2>1. CASE q = r
        BY <1>2, <2>1 DEF HandBack
    <2>2. CASE q # r
        BY <1>2, <2>2 DEF HandBack
    <2>3. QED BY <2>1, <2>2
<1>4. QED BY <1>3, TurnsKeep

\* A turn claimed was nobody's before.
LEMMA ClaimInHand ==
    ASSUME AdmissionInv, NEW r \in Runs, NEW batch, NEW keeps, NEW origin,
           Claim(r, batch, keeps, origin), NEW id, InHand(id)
    PROVE  InHand(id)'
<1>1. runs[r].stage = "none" /\ runs[r] = NoRun
    BY RunFacts DEF Claim, Unused
<1> DEFINE x == [NoRun EXCEPT !.stage = "claimed", !.batch = batch,
                              !.told = Named(batch), !.keeps = keeps, !.origin = origin]
<1>2. runs' = [runs EXCEPT ![r] = x]
    BY DEF Claim
<1>3. x.unrun = FALSE
    BY DEF NoRun
<1>4. runs[r].told = {} /\ r \notin HandBack
    BY <1>1 DEF NoRun, HandBack
<1> HIDE DEF x
<1>5. QED BY <1>2, <1>3, <1>4, TurnKeeps

\* The steps that leave every turn what it was.
LEMMA TurnsAside ==
    ASSUME AdmissionInv, runs' = runs, NEW id, InHand(id)
    PROVE  InHand(id)'
<1>1. HandBack' = HandBack
    BY DEF HandBack
<1>2. QED BY <1>1, TurnsKeep

\* A steer tells the live turn more, and leaves every other what it was.
LEMMA SteerInHand ==
    ASSUME AdmissionInv, Steer, NEW id, InHand(id)
    PROVE  InHand(id)'
<1>1. PICK m, taker : /\ m = op.batch[1]
                      /\ taker = {r \in Running : runs[r].stage # "closing"}
    OBVIOUS
<1>2. runs' = runs \/ runs' = [r \in Runs |-> IF r \in taker
                                              THEN [runs[r] EXCEPT !.told = runs[r].told \cup {m}]
                                              ELSE runs[r]]
    BY <1>1 DEF Steer
<1>3. CASE runs' = runs
    BY <1>3, TurnsAside
<1>4. CASE runs' # runs
    <2>1. runs' = [r \in Runs |-> IF r \in taker
                                  THEN [runs[r] EXCEPT !.told = runs[r].told \cup {m}]
                                  ELSE runs[r]]
        BY <1>2, <1>4
    <2>2. ASSUME NEW q \in Runs
          PROVE  /\ runs[q].told \subseteq runs'[q].told /\ runs'[q].unrun = runs[q].unrun
                 /\ runs'[q].stage = runs[q].stage /\ runs'[q].keeps = runs[q].keeps
                 /\ runs'[q].batch = runs[q].batch
        <3>1. runs[q] \in RunShape
            BY RunFacts
        <3>2. CASE q \in taker
            <4>1. runs'[q] = [runs[q] EXCEPT !.told = runs[q].told \cup {m}]
                BY <2>1, <3>2
            <4>2. QED BY <3>1, <4>1 DEF RunShape
        <3>3. CASE q \notin taker
            <4>1. runs'[q] = runs[q]
                BY <2>1, <3>3
            <4>2. QED BY <4>1
        <3>4. QED BY <3>2, <3>3
    <2>3. HandBack' = HandBack
        BY <2>2 DEF HandBack
    <2>4. QED BY <2>2, <2>3, TurnsKeep
<1>5. QED BY <1>3, <1>4

\* The steps of one turn under way, but for a refusal, and its end.
LEMMA TurnInHand ==
    ASSUME AdmissionInv, NEW r \in Runs,
           \/ BeginTurn(r) \/ Talk(r) \/ CloseTurn(r) \/ SettleTurn(r) \/ EndTurn(r)
           \/ StopTurn(r) \/ CardUp(r) \/ CardAnswered(r),
           NEW id, InHand(id)
    PROVE  InHand(id)'
<1>1. runs[r] \in RunShape /\ RunSound(r)
    BY RunFacts
<1>2. CASE CardUp(r) \/ CardAnswered(r)
    <2>1. runs' = [runs EXCEPT ![r] = runs[r]]
        BY <1>2 DEF CardUp, CardAnswered, Turns
    <2>2. runs' = runs
        BY <2>1 DEF AdmissionInv, Shapes
    <2>3. QED BY <2>2, TurnsAside
<1>3. CASE EndTurn(r)
    <2>1. runs[r].stage = "done" /\ runs' = [runs EXCEPT ![r] = [runs[r] EXCEPT !.stage = "ended"]]
        BY <1>3 DEF EndTurn
    <2> DEFINE x == [runs[r] EXCEPT !.stage = "ended"]
    <2>2. x.told = runs[r].told /\ x.unrun = runs[r].unrun /\ x.batch = runs[r].batch
          /\ x.stage = "ended" /\ x.keeps = runs[r].keeps
        BY <1>1 DEF RunShape
    <2>3. runs' = [runs EXCEPT ![r] = x]
        BY <2>1
    <2> HIDE DEF x
    <2>4. r \in HandBack => x.keeps /\ x.unrun
        BY <2>2 DEF HandBack
    <2>5. QED BY <2>2, <2>3, <2>4, TurnKeeps
<1>4. CASE BeginTurn(r) \/ Talk(r) \/ CloseTurn(r) \/ SettleTurn(r)
    <2>1. PICK stage : runs' = [runs EXCEPT ![r] = [runs[r] EXCEPT !.stage = stage]]
        BY <1>4 DEF BeginTurn, Talk, CloseTurn, SettleTurn, Turns
    <2>2. r \notin HandBack
        BY <1>1, <1>4 DEF BeginTurn, Talk, CloseTurn, SettleTurn, HandBack, RunningStages
    <2> DEFINE x == [runs[r] EXCEPT !.stage = stage]
    <2>3. x.told = runs[r].told /\ x.unrun = runs[r].unrun
        BY <1>1 DEF RunShape
    <2>4. runs' = [runs EXCEPT ![r] = x]
        BY <2>1
    <2> HIDE DEF x
    <2>5. QED BY <2>2, <2>3, <2>4, TurnKeeps
<1>5. CASE StopTurn(r)
    <2> DEFINE x == [runs[r] EXCEPT !.stopping = TRUE]
    <2>1. runs' = [runs EXCEPT ![r] = x] /\ r \notin HandBack
        BY <1>5 DEF StopTurn, Turns, HandBack, RunningStages
    <2>2. x.told = runs[r].told /\ x.unrun = runs[r].unrun
        BY <1>1 DEF RunShape
    <2> HIDE DEF x
    <2>3. QED BY <2>1, <2>2, TurnKeeps
<1>6. QED BY <1>2, <1>3, <1>4, <1>5

\* A refusal's words are the turn's no more, and its to hand back.
LEMMA TurnedAwayInHand ==
    ASSUME AdmissionInv, NEW r \in Runs, TurnedAway(r), NEW id, InHand(id)
    PROVE  InHand(id)'
<1> DEFINE x == [runs[r] EXCEPT !.stage = "done", !.unrun = runs[r].keeps]
<1>1. /\ runs' = [runs EXCEPT ![r] = x] /\ runs[r].stage \in {"claimed", "begun"}
      /\ runs[r].told = Named(runs[r].batch)
    BY DEF TurnedAway, Turns
<1>2. /\ x.stage = "done" /\ x.batch = runs[r].batch /\ x.told = runs[r].told
      /\ x.keeps = runs[r].keeps /\ x.unrun = runs[r].keeps /\ r \notin HandBack
    BY <1>1, RunFacts DEF RunShape, HandBack
<1> HIDE DEF x
<1>3. runs'[r] = x /\ \A q \in Runs \ {r} : runs'[q] = runs[q]
    BY <1>1 DEF AdmissionInv, Shapes
<1>4. CASE runs[r].keeps /\ id \in runs[r].told
    <2>1. r \in HandBack' /\ id \in Named(runs'[r].batch)
        BY <1>1, <1>2, <1>3, <1>4 DEF HandBack
    <2>2. id \in Handed'
        BY <2>1 DEF Handed
    <2>3. QED BY <2>2 DEF InHand
<1>5. CASE ~runs[r].keeps
    BY <1>1, <1>2, <1>5, TurnKeeps
<1>6. CASE id \notin runs[r].told
    <2>1. CASE id \in Handed
        <3>1. PICK q \in HandBack : id \in Named(runs[q].batch)
            BY <2>1 DEF Handed
        <3>2. q \in Runs \ {r}
            BY <1>2 DEF HandBack
        <3>3. q \in HandBack' /\ runs'[q] = runs[q]
            BY <1>3, <3>2 DEF HandBack
        <3>4. id \in Handed'
            BY <3>1, <3>3 DEF Handed
        <3>5. QED BY <3>4 DEF InHand
    <2>2. CASE Tellers(id) # {}
        <3>1. PICK q \in Runs : ~runs[q].unrun /\ id \in runs[q].told
            BY <2>2 DEF Tellers
        <3>2. q \in Tellers(id)'
            BY <1>3, <1>6, <3>1 DEF Tellers
        <3>3. QED BY <3>2 DEF InHand
    <2>3. QED BY <2>1, <2>2 DEF InHand
<1>7. QED BY <1>4, <1>5, <1>6

\* A restart falls with nothing to hand back.
LEMMA RebootInHand ==
    ASSUME AdmissionInv, Reboot, NEW id, InHand(id)
    PROVE  InHand(id)'
<1>1. /\ ~BetweenWrites
      /\ runs' = [r \in Runs |-> IF runs[r].stage \in {"none", "ended"}
                                 THEN [runs[r] EXCEPT !.keeps = FALSE]
                                 ELSE [runs[r] EXCEPT !.stage = "cut", !.keeps = FALSE]]
    BY DEF Reboot
<1>2. HandBack = {}
    BY <1>1 DEF BetweenWrites, HandBack
<1>3. ASSUME NEW q \in Runs
      PROVE  runs'[q].told = runs[q].told /\ runs'[q].unrun = runs[q].unrun
    <2>1. runs[q] \in RunShape
        BY RunFacts
    <2>2. runs'[q] = [runs[q] EXCEPT !.keeps = FALSE]
          \/ runs'[q] = [runs[q] EXCEPT !.stage = "cut", !.keeps = FALSE]
        BY <1>1
    <2>3. QED BY <2>1, <2>2 DEF RunShape
<1>4. QED BY <1>2, <1>3, TurnsKeep

\* A drain puts what was to be handed back in the queue again.
LEMMA DrainInHand ==
    ASSUME AdmissionInv, Drain, NEW id, InHand(id)
    PROVE  InHand(id)' \/ Still(id)'
<1>1. CASE id \in Handed
    <2>1. Ids(queue.items)' = Ids(queue.items) \cup Handed
        BY HandedWaits DEF AdmissionInv
    <2>2. Taking' = {}
        BY DEF Drain, Delivers, Step, Taking
    <2>3. QED BY <1>1, <2>1, <2>2 DEF Still
<1>2. CASE Tellers(id) # {}
    <2>1. PICK q \in Runs : ~runs[q].unrun /\ id \in runs[q].told
        BY <1>2 DEF Tellers
    <2>2. runs'[q].told = runs[q].told /\ runs'[q].unrun = runs[q].unrun
        <3>1. runs'[q] = runs[q] \/ runs'[q] = [runs[q] EXCEPT !.keeps = FALSE]
            BY DEF Drain
        <3>2. QED BY <3>1, RunFacts DEF RunShape
    <2>3. q \in Tellers(id)'
        BY <2>1, <2>2 DEF Tellers
    <2>4. QED BY <2>3 DEF InHand
<1>3. QED BY <1>1, <1>2 DEF InHand

\* What is in hand stays in hand, or waits again.
LEMMA InHandSteps ==
    ASSUME AdmissionInv, [Next]_vars, NEW id, InHand(id)
    PROVE  InHand(id)' \/ Still(id)'
<1>1. CASE UNCHANGED vars
    <2>1. runs' = runs
        BY <1>1 DEF vars, turnVars
    <2>2. QED BY <2>1, TurnsAside
<1>2. CASE Sender
    <2>1. runs' = runs
        BY <1>2 DEF Sender, Say, Book, BookedGo, Unqueue, Release, turnVars
    <2>2. QED BY <2>1, TurnsAside
<1>3. CASE LockStep
    <2>1. CASE Deliver \/ Take \/ StartBusy \/ StartArchived
        <3>1. runs' = runs
            BY <2>1 DEF Deliver, Take, StartBusy, StartArchived, turnVars
        <3>2. QED BY <3>1, TurnsAside
    <2>2. CASE \E r \in Runs : StartClaims(r)
        BY <2>2, ClaimInHand DEF StartClaims
    <2>3. QED BY <1>3, <2>1, <2>2, DrainInHand, SteerInHand DEF LockStep
<1>4. CASE People
    <2>1. CASE Archive \/ Unarchive \/ RewindLeased
        <3>1. runs' = runs
            BY <2>1 DEF Archive, Unarchive, RewindLeased
        <3>2. QED BY <3>1, TurnsAside
    <2>2. QED BY <1>4, <2>1, TurnInHand DEF People
<1>5. CASE Passes
    <2>1. CASE GiveUp \/ Reopens \/ RewindReleased \/ RecoverRecords
        <3>1. runs' = runs
            BY <2>1 DEF GiveUp, Reopens, RewindReleased, RecoverRecords
        <3>2. QED BY <3>1, TurnsAside
    <2>2. CASE \E r \in Runs : CarryOn(r) \/ RecoverReruns(r)
        BY <2>2, ClaimInHand DEF CarryOn, RecoverReruns
    <2>3. QED BY <1>5, <2>1, <2>2 DEF Passes
<1>6. CASE Reboot
    BY <1>6, RebootInHand
<1>7. CASE \E r \in Runs : TurnStep(r)
    BY <1>7, TurnInHand, TurnedAwayInHand DEF TurnStep
<1>8. QED BY <1>1, <1>2, <1>3, <1>4, <1>5, <1>6, <1>7 DEF Next

\* What is on the record stays there, what was taken back, and what is forgotten;
\* only what waited is taken back, and only what a turn had is forgotten.
LEMMA BooksGrow ==
    ASSUME AdmissionInv, [Next]_vars
    PROVE  /\ recorded \subseteq recorded' /\ takenBack \subseteq takenBack'
           /\ forgotten \subseteq forgotten'
           /\ \A id \in takenBack' \ takenBack : Still(id)
           /\ \A id \in forgotten' \ forgotten : InHand(id)
<1>1. CASE UNCHANGED vars
    BY <1>1 DEF vars, diskVars, ghosts
<1>2. CASE Sender
    <2>1. CASE \E id \in MessageIds : Unqueue(id)
        <3>1. PICK id \in MessageIds : Unqueue(id)
            BY <2>1
        <3>2. /\ recorded' = recorded /\ forgotten' = forgotten /\ takenBack' = takenBack \cup {id}
              /\ id \in Ids(queue.items) /\ op.step = "free"
            BY <3>1 DEF Unqueue, LockFree, diskVars
        <3>3. QED BY <3>2 DEF Still, Taking
    <2>2. CASE Release \/ \E id \in MessageIds : Say(id) \/ Book(id) \/ BookedGo(id)
        BY <2>2 DEF Say, Book, BookedGo, Release, diskVars, ghosts
    <2>3. QED BY <1>2, <2>1, <2>2 DEF Sender
<1>3. CASE LockStep
    BY <1>3 DEF LockStep, Drain, Deliver, Steer, Take, StartBusy, StartArchived, StartClaims,
                diskVars, ghosts
<1>4. CASE People
    BY <1>4 DEF People, Archive, Unarchive, RewindLeased, CardUp, CardAnswered, StopTurn, Turns,
                diskVars, ghosts
<1>5. CASE Passes
    BY <1>5 DEF Passes, GiveUp, Reopens, RewindReleased, RecoverRecords, CarryOn, RecoverReruns,
                Recovered, Writes, diskVars, ghosts
<1>6. CASE Reboot
    <2>1. /\ UNCHANGED <<recorded, takenBack>> /\ forgotten \subseteq forgotten'
          /\ forgotten' \ forgotten \subseteq UNION {Behind(r) : r \in {q \in Runs : ~runs[q].unrun}}
        BY <1>6 DEF Reboot, ghosts
    <2>2. ASSUME NEW id \in forgotten' \ forgotten PROVE InHand(id)
        <3>1. PICK r \in Runs : ~runs[r].unrun /\ id \in Behind(r)
            BY <2>1
        <3>2. id \in runs[r].told
            BY <3>1, RunFacts DEF Behind, Named
        <3>3. r \in Tellers(id)
            BY <3>1, <3>2 DEF Tellers
        <3>4. QED BY <3>3 DEF InHand
    <2>3. QED BY <2>1, <2>2
<1>7. CASE \E r \in Runs : TurnStep(r)
    BY <1>7 DEF TurnStep, BeginTurn, TurnedAway, Talk, CloseTurn, SettleTurn, EndTurn, Turns, Writes,
                Unwritten, ghosts
<1>8. QED BY <1>1, <1>2, <1>3, <1>4, <1>5, <1>6, <1>7 DEF Next

LEMMA PromiseAtStart == Init => Promise!Init
<1> SUFFICES ASSUME Init PROVE At = [id \in MessageIds |-> "unsaid"]
    BY DEF Promise!Init
<1>1. /\ Ids(queue.items) = {} /\ recorded = {} /\ takenBack = {}
      /\ forgotten = {}
      /\ \A id \in MessageIds : heard[id] = {}
    BY DEF Init, EmptyQueue, Ids
<1>2. \A r \in Runs : runs[r].told = {}
    BY DEF Init, NoRun
<1>3. \A id \in MessageIds : ~Carried(id)
    BY <1>2 DEF Carried
<1>4. QED BY <1>1, <1>3 DEF At

LEMMA PromiseSteps ==
    AdmissionInv /\ AllSeen /\ AllSeen' /\ [Next]_vars => [Promise!Next]_At
<1> SUFFICES ASSUME AdmissionInv, AllSeen, AllSeen', [Next]_vars PROVE Promise!Next
    OBVIOUS
<1>1. ASSUME NEW id \in MessageIds
      PROVE  /\ At'[id] \in Promise!Places
             /\ At'[id] = At[id] \/ <<At[id], At'[id]>> \in Promise!Moves
    <2>1. /\ forgotten \subseteq forgotten'
          /\ id \in forgotten' \ forgotten => InHand(id)
        BY BooksGrow
    <2>2. /\ id \in forgotten => At[id] = "forgotten"
          /\ id \notin forgotten => Seen(id)
        BY DEF AllSeen
    <2>3. /\ id \in forgotten' => At'[id] = "forgotten"
          /\ id \notin forgotten' => Seen(id)'
        BY DEF AllSeen
    <2>4. CASE id \in forgotten
        BY <2>1, <2>2, <2>3, <2>4 DEF Promise!Places
    <2>5. CASE id \in forgotten' \ forgotten
        <3>1. At[id] \in {"carried", "over"}
            BY <2>1, <2>2, <2>5 DEF Seen
        <3>2. QED BY <2>3, <2>5, <3>1 DEF Promise!Places, Promise!Moves
    <2>6. CASE id \notin forgotten'
        <3>1. Seen(id) /\ Seen(id)'
            BY <2>1, <2>2, <2>3, <2>6
        <3>2. Spent(id) => Spent(id)'
            BY HeardGrows, BooksGrow DEF Spent
        <3>3. InHand(id) => InHand(id)' \/ Still(id)'
            BY InHandSteps
        <3>4. id \in takenBack => id \in takenBack'
            BY BooksGrow
        <3>5. id \in takenBack' => id \in takenBack \/ Still(id)
            BY BooksGrow
        <3>6. At'[id] \in {"unsaid", "waiting", "carried", "over", "back"}
            BY <3>1 DEF Seen
        <3>7. CASE At[id] = "over"
            <4>1. At'[id] = "over"
                BY <3>1, <3>2, <3>7 DEF Seen
            <4>2. QED BY <3>6, <3>7, <4>1 DEF Promise!Places
        <3>8. CASE At[id] = "back"
            <4>1. At'[id] = "back"
                BY <3>1, <3>4, <3>8 DEF Seen
            <4>2. QED BY <3>6, <3>8, <4>1 DEF Promise!Places
        <3>9. CASE At[id] = "carried"
            <4>1. At'[id] \in {"carried", "waiting", "over"}
                BY <3>1, <3>3, <3>9 DEF Seen
            <4>2. QED BY <3>6, <3>9, <4>1 DEF Promise!Places, Promise!Moves
        <3>10. CASE At[id] = "unsaid"
            <4>1. At'[id] # "back"
                BY <3>1, <3>5, <3>10 DEF Seen
            <4>2. QED BY <3>6, <3>10, <4>1 DEF Promise!Places, Promise!Moves
        <3>11. CASE At[id] = "waiting"
            BY <3>6, <3>11 DEF Promise!Places, Promise!Moves
        <3>12. At[id] \in {"unsaid", "waiting", "carried", "over", "back"}
            BY <3>1 DEF Seen
        <3>13. QED BY <3>7, <3>8, <3>9, <3>10, <3>11, <3>12
    <2>7. QED BY <2>4, <2>5, <2>6
<1>2. At' = [id \in MessageIds |-> At'[id]]
    BY DEF At
<1>3. At' \in [MessageIds -> Promise!Places]
    BY <1>1, <1>2
<1>4. QED BY <1>1, <1>3 DEF Promise!Next

\* Admission does what a conversation promises its senders (MessageDelivery):
\* what was taken waits or is carried, comes back from a turn that ran nothing,
\* is taken back or dropped while it waits, and never waits or goes again once a
\* turn has it for good, whatever turns, presses and restarts come between, until
\* a restart loses the id of words that were joined behind others.
THEOREM PromiseKept == ~EarlySends => (Spec => KeepsPromise)
<1> SUFFICES ASSUME ~EarlySends PROVE Spec => KeepsPromise
    OBVIOUS
<1>1. Spec => []AdmissionInv
    BY InvAlways
<1>2. QED BY <1>1, InvSees, PromiseAtStart, PromiseSteps, PTL DEF Spec, KeepsPromise, Promise!Spec

\* Every part of the state has its type.
THEOREM TypesKept == ~EarlySends => (Spec => []TypeOK)
<1>1. ASSUME AdmissionInv PROVE TypeOK
    <2>1. Ids(queue.items) \subseteq MessageIds
        BY <1>1 DEF AdmissionInv, Shapes, Waits
    <2>2. ASSUME NEW r \in Runs
          PROVE  runs[r].stage \in OpenStages \cup {"none", "done", "ended", "cut"}
        BY <1>1, RunFacts DEF RunShape
    <2>3. /\ resuming \in 0..MaxRun /\ left \in 0..MaxRun
          /\ row.run \in 0..MaxRun /\ row.staged \in 0..MaxRun
        BY <1>1 DEF AdmissionInv, Shapes
    <2>4. op.step \in {"free", "start", "steer", "take", "deliver"}
        BY <1>1 DEF AdmissionInv, Shapes, OpShape
    <2>5. {receipts, recorded, named, accepted, takenBack, forgotten}
              \subseteq SUBSET MessageIds
        BY <1>1 DEF AdmissionInv, Shapes
    <2>6. QED BY <2>1, <2>2, <2>3, <2>4, <2>5 DEF TypeOK
<1>2. AdmissionInv => TypeOK
    BY <1>1
<1>3. QED BY <1>2, InvAlways, PTL

=============================================================================
