---------------------------- MODULE RunLog_proofs ----------------------------
(***************************************************************************)
(* What holds of a conversation's record for any number of runs, boots and *)
(* refused writes, while a turn starts only once the last is on the record *)
(* (~Overtakes): whatever a run drew is found by a boot, and it is written *)
(* down once and in order.                                                 *)
(***************************************************************************)
EXTENDS RunLog, TLAPS

KeptLogs == [name : Runs, head : Runs \cup {0}, by : SUBSET Runs]

\* One whose head reads.
ReadLogs == {k \in KeptLogs : k.head # 0}

Typed ==
    /\ stage \in [Runs -> Stages]
    /\ log \in [head : Runs \cup {0}, by : SUBSET Runs]
    /\ opened \subseteq Runs
    /\ kept \subseteq KeptLogs
    /\ todo \in [Runs -> SUBSET ReadLogs]
    /\ record \in Seq(Runs)
    /\ row \in [run : Runs \cup {0}, settled : BOOLEAN]

-----------------------------------------------------------------------------
(* The inductive invariant: one run is in hand at a time, the journal row  *)
(* names it, and every run before it is written down or set aside.         *)

Idle == {"none", "ended"}

InHand(r) == stage[r] \notin Idle

OneInHand ==
    \A r \in Runs :
        /\ stage[r] = "none" => r \notin opened
        /\ stage[r] # "none" => \A q \in Runs : q < r => stage[q] = "ended"
        /\ InHand(r) => row.run = r
        /\ row.run = r => stage[r] # "none" /\ \A q \in Runs : q > r => stage[q] = "none"

Down(r) == Contains(record, r) \/ \E k \in kept : k.head = r

\* What each stage says of where the run's rows are.
PutDown ==
    \A r \in Runs :
        /\ stage[r] \in {"recorded", "closed", "recovered"} => Contains(record, r)
        /\ stage[r] = "aside" => Down(r)
        /\ stage[r] = "ended" /\ r \in opened => Down(r)
        /\ stage[r] \in {"finished", "recording", "refused"} => r \in opened
        /\ stage[r] \in {"running", "finished", "recording", "refused"} /\ r \in opened
              => log.head = r /\ log.by = {r}

IInv == Typed /\ OneInHand /\ PutDown /\ NoRunLost
-----------------------------------------------------------------------------
(* Facts the steps share. *)

\* A run in hand is the only one, and the row's.
LEMMA Alone ==
    ASSUME Typed, OneInHand, NEW r \in Runs, InHand(r)
    PROVE  /\ row.run = r
           /\ \A q \in Runs : q # r => stage[q] \in Idle /\ row.run # q
BY DEF Typed, OneInHand, InHand, Idle, Runs

\* What an append leaves on the record.
LEMMA Appended ==
    ASSUME NEW s \in Seq(Runs), NEW x \in Runs
    PROVE  /\ Append(s, x) \in Seq(Runs)
           /\ \A q \in Runs : Contains(Append(s, x), q) <=> Contains(s, q) \/ q = x
<1>1. /\ Len(Append(s, x)) = Len(s) + 1 /\ Len(s) \in Nat
      /\ \A i \in 1..Len(s) : Append(s, x)[i] = s[i]
      /\ Append(s, x)[Len(s) + 1] = x
    OBVIOUS
<1>2. ASSUME NEW q \in Runs
      PROVE  Contains(Append(s, x), q) <=> Contains(s, q) \/ q = x
    <2>1. CASE q = x
        BY <1>1, <2>1 DEF Contains
    <2>2. CASE q # x
        BY <1>1, <2>2 DEF Contains
    <2>3. QED BY <2>1, <2>2
<1>3. QED BY <1>2

\* The stamp on the last turn is that of a run on the record.
LEMMA StampIsThere ==
    ASSUME record \in Seq(Runs), NEW r, AlreadyRecorded(r)
    PROVE  Contains(record, r)
<1>1. Len(record) \in 1..Len(record)
    BY DEF AlreadyRecorded
<1>2. QED BY <1>1 DEF AlreadyRecorded, Contains, Last

-----------------------------------------------------------------------------
(* The steps. *)

LEMMA InitHolds == Init => IInv
<1> SUFFICES ASSUME Init PROVE IInv OBVIOUS
<1>1. Typed BY DEF Init, Typed, Stages, NoLog, NoRow
<1>2. OneInHand BY DEF Init, OneInHand, InHand, Idle, NoRow, Runs
<1>3. PutDown /\ NoRunLost BY DEF Init, PutDown, NoRunLost
<1>4. QED BY <1>1, <1>2, <1>3 DEF IInv

\* A run starts once every older one is written down or set aside.
LEMMA StartHolds ==
    ASSUME IInv, NEW r \in Runs, ~Overtakes, Start(r)
    PROVE  IInv'
<1> USE DEF IInv
<1>1. Typed' BY DEF Typed, Stages, Start, Moves
<1>2. /\ stage[r] = "none" /\ stage' = [stage EXCEPT ![r] = "running"]
      /\ row' = [run |-> r, settled |-> FALSE]
      /\ UNCHANGED <<log, opened, kept, record>>
    BY DEF Start, Moves
<1>3. \A q \in Runs : q < r => stage[q] = "ended"
    BY DEF Start
<1>4. \A q \in Runs : q > r => stage[q] = "none"
    BY <1>2 DEF OneInHand, Runs
<1>5. OneInHand'
    BY <1>2, <1>3, <1>4 DEF Typed, OneInHand, InHand, Idle, Runs
<1>6. PutDown'
    BY <1>2 DEF Typed, PutDown, Down, OneInHand
<1>7. \A q \in opened : Down(q)
    BY <1>2, <1>3, <1>4 DEF Typed, OneInHand, PutDown, Runs
<1>8. NoRunLost'
    BY <1>2, <1>7 DEF NoRunLost, Recoverable, Down
<1>9. QED BY <1>1, <1>5, <1>6, <1>8

\* A run that opens its log, draws, or finishes touches no other run's rows.
LEMMA DrawingHolds ==
    ASSUME IInv, NEW r \in Runs, OpenLog(r) \/ Draw(r) \/ Finish(r)
    PROVE  IInv'
<1> USE DEF IInv
<1>1. Typed' BY DEF Typed, Stages, OpenLog, Draw, Written, Finish, Moves
<1>2. stage[r] = "running" /\ InHand(r) /\ UNCHANGED <<kept, record, row>>
    BY DEF OpenLog, Draw, Finish, Moves, InHand, Idle
<1>3. row.run = r /\ \A q \in Runs : q # r => stage[q] \in Idle /\ row.run # q
    BY <1>2, Alone
<1>4. /\ \A q \in Runs : q # r => stage'[q] = stage[q]
      /\ stage'[r] \in {"running", "finished"} /\ (stage'[r] = "finished" => r \in opened)
      /\ opened' \subseteq opened \cup {r}
    BY <1>2 DEF Typed, OpenLog, Draw, Finish, Moves
<1>5. OneInHand'
    BY <1>2, <1>3, <1>4 DEF Typed, OneInHand, InHand, Idle
<1>6. r \in opened' => log'.head = r /\ log'.by = {r}
    <2>1. CASE OpenLog(r)
        BY <2>1 DEF OpenLog
    <2>2. CASE Draw(r)
        <3>1. r \in opened /\ log.head = r /\ log.by = {r}
            BY <1>2, <2>2 DEF Draw, PutDown
        <3>2. log' = [log EXCEPT !.by = @ \cup {r}]
            BY <2>2 DEF Draw, Written
        <3>3. QED BY <3>1, <3>2 DEF Typed
    <2>3. CASE Finish(r)
        BY <1>2, <2>3 DEF Finish, Moves, PutDown
    <2>4. QED BY <2>1, <2>2, <2>3
<1>7. PutDown'
    <2>1. \A q \in Runs : Down(q)' = Down(q) /\ Contains(record, q)' = Contains(record, q)
        BY <1>2 DEF Down
    <2>2. ASSUME NEW q \in Runs, q # r, stage[q] = "ended", q \in opened'
          PROVE  Down(q)'
        BY <1>4, <2>1, <2>2 DEF PutDown
    <2>3. r \in opened \/ stage'[r] # "finished"
        BY <1>4
    <2>4. opened \subseteq opened'
        BY DEF OpenLog, Draw, Finish
    <2>5. QED BY <1>3, <1>4, <1>6, <2>1, <2>2, <2>3, <2>4 DEF PutDown, Idle
<1>8. NoRunLost'
    BY <1>2, <1>3, <1>4, <1>6 DEF Typed, NoRunLost, Recoverable
<1>9. QED BY <1>1, <1>5, <1>7, <1>8

\* Settling and recovering begin by reading the kept logs.
LEMMA BeginsHolds ==
    ASSUME IInv, NEW r \in Runs, StartRecording(r) \/ StartRecovering(r)
    PROVE  IInv'
<1> USE DEF IInv
<1>1. Typed' BY DEF Typed, Stages, Settling, ReadLogs, StartRecording, StartRecovering, Begins, Moves
<1>2. /\ \/ stage[r] = "finished" /\ stage' = [stage EXCEPT ![r] = "recording"]
         \/ stage[r] = "cut" /\ stage' = [stage EXCEPT ![r] = "recovering"]
      /\ UNCHANGED <<log, opened, kept, record, row>>
    BY DEF StartRecording, StartRecovering, Begins, Moves
<1>3. OneInHand' BY <1>2 DEF Typed, OneInHand, InHand, Idle
<1>4. PutDown' BY <1>2 DEF Typed, PutDown, Down
<1>5. NoRunLost' BY <1>2 DEF NoRunLost, Recoverable
<1>6. QED BY <1>1, <1>3, <1>4, <1>5

\* While rows go down, what was on the record or kept stays one or the other.
LEMMA SettlingHolds ==
    ASSUME IInv, NEW r \in Runs, AppendKept(r) \/ RemoveKept(r) \/ AppendOwn(r)
    PROVE  IInv'
<1> USE DEF IInv
<1>1. /\ stage[r] \in Settling /\ InHand(r)
      /\ UNCHANGED <<log, opened, row>>
    BY DEF AppendKept, RemoveKept, AppendOwn, InHand, Settling, Idle
<1>2. /\ record' \in Seq(Runs)
      /\ \A q \in Runs : Contains(record, q) => Contains(record', q)
    <2>1. CASE record' = record
        BY <2>1 DEF Typed
    <2>2. ASSUME NEW x \in Runs, record' = Append(record, x)
          PROVE  /\ record' \in Seq(Runs)
                 /\ \A q \in Runs : Contains(record, q) => Contains(record', q)
        BY <2>2, Appended DEF Typed
    <2>3. \/ record' = record
          \/ \E x \in Runs : record' = Append(record, x)
        BY DEF Typed, KeptLogs, ReadLogs, AppendKept, RemoveKept, AppendOwn, Refused
    <2>4. QED BY <2>1, <2>2, <2>3
<1>3. /\ stage' = stage \/ stage' = [stage EXCEPT ![r] = stage'[r]]
      /\ stage'[r] \in {stage[r], IF stage[r] = "recording" THEN "refused" ELSE "waiting",
                        IF stage[r] = "recording" THEN "recorded" ELSE "recovered"}
      /\ stage' \in [Runs -> Stages]
    BY DEF Typed, Stages, Settling, AppendKept, RemoveKept, AppendOwn, Refused
<1>4. Typed'
    BY <1>1, <1>2, <1>3 DEF Typed, AppendKept, RemoveKept, AppendOwn, Refused
<1>5. \A q \in Runs : Down(q) => Down(q)'
    <2>1. CASE kept' = kept
        BY <1>2, <2>1 DEF Down
    <2>2. CASE RemoveKept(r)
        <3>1. PICK k \in todo[r] : /\ AlreadyRecorded(k.head) /\ kept' \in {kept, kept \ {k}}
                                 /\ UNCHANGED record
            BY <2>2 DEF RemoveKept
        <3>2. Contains(record, k.head)
            BY <3>1, StampIsThere DEF Typed
        <3>3. QED BY <3>1, <3>2 DEF Down
    <2>3. QED BY <2>1, <2>2 DEF AppendKept, AppendOwn
<1>6. stage'[r] \in {"recorded", "recovered"} => Contains(record', r)
    <2>1. CASE AppendKept(r) \/ RemoveKept(r)
        BY <1>1, <2>1 DEF Typed, AppendKept, RemoveKept, Refused, Settling
    <2>2. CASE AppendOwn(r) /\ record' = Append(record, r)
        BY <2>2, Appended DEF Typed
    <2>3. CASE AppendOwn(r) /\ AlreadyRecorded(r) /\ record' = record
        BY <2>3, StampIsThere DEF Typed
    <2>4. CASE AppendOwn(r) /\ Refused(r)
        BY <1>1, <2>4 DEF Typed, Refused, Settling
    <2>5. QED BY <2>1, <2>2, <2>3, <2>4 DEF AppendOwn
<1>7. OneInHand'
    BY <1>1, <1>3 DEF Typed, OneInHand, InHand, Settling, Idle
<1>8. PutDown'
    <2>1. \A q \in Runs : q # r => stage'[q] = stage[q]
        BY <1>3 DEF Typed
    <2>2. ASSUME NEW q \in Runs, q # r
          PROVE  /\ stage'[q] \notin {"recorded", "closed", "recovered", "aside", "finished",
                                      "recording", "refused", "running"}
                 /\ stage'[q] = "ended" /\ q \in opened' => Down(q)'
        BY <1>1, <1>5, <2>1, <2>2, Alone DEF PutDown, Idle
    <2>3. /\ stage'[r] \notin {"closed", "aside", "ended", "finished", "running"}
          /\ stage'[r] \in {"recording", "refused"} =>
                r \in opened' /\ log'.head = r /\ log'.by = {r}
        BY <1>1, <1>3 DEF PutDown, Settling
    <2>4. QED BY <1>6, <2>2, <2>3 DEF PutDown
<1>9. NoRunLost'
    BY <1>1, <1>2, <1>5 DEF Typed, NoRunLost, Recoverable, Down
<1>10. QED BY <1>4, <1>7, <1>8, <1>9

\* A log goes with a run on the record, or is kept under its name.
LEMMA CloseHolds ==
    ASSUME IInv, NEW r \in Runs, CloseRecorded(r) \/ CloseRefused(r)
    PROVE  IInv'
<1> USE DEF IInv
<1>1. Typed'
    BY DEF Typed, Stages, KeptLogs, CloseRecorded, CloseRefused, Moves, Written, NoLog
<1>2. /\ InHand(r) /\ stage[r] \in {"recorded", "refused"}
      /\ stage' = [stage EXCEPT ![r] = stage'[r]]
      /\ stage'[r] = IF stage[r] = "recorded" THEN "closed" ELSE "aside"
      /\ UNCHANGED <<opened, record, row>> /\ kept \subseteq kept'
    BY DEF Typed, CloseRecorded, CloseRefused, Moves, InHand, Idle
<1>3. \A q \in Runs : q # r => stage[q] \in Idle /\ stage'[q] = stage[q] /\ row.run # q
    BY <1>2, Alone DEF Typed
<1>4. \A q \in Runs : Down(q) => Down(q)'
    BY <1>2 DEF Down
<1>5. Down(r)'
    <2>1. CASE CloseRecorded(r)
        BY <2>1, <1>2 DEF CloseRecorded, Moves, PutDown, Down
    <2>2. CASE CloseRefused(r)
        <3>1. log.head = r
            BY <2>2 DEF CloseRefused, Moves, PutDown
        <3>2. [name |-> r, head |-> log.head, by |-> Written(r).by] \in kept'
            BY <2>2 DEF CloseRefused
        <3>3. QED BY <3>1, <3>2 DEF Down
    <2>3. QED BY <2>1, <2>2
<1>6. OneInHand' BY <1>2 DEF Typed, OneInHand, InHand, Idle
<1>7. PutDown'
    BY <1>2, <1>3, <1>4, <1>5 DEF Typed, PutDown, Idle
<1>8. NoRunLost'
    BY <1>2, <1>3, <1>4, <1>5 DEF Typed, NoRunLost, Recoverable, Down
<1>9. QED BY <1>1, <1>6, <1>7, <1>8

\* The journal row goes last, and a boot's log with it.
LEMMA EndHolds ==
    ASSUME IInv, NEW r \in Runs, EndJournal(r) \/ DropLog(r)
    PROVE  IInv'
<1> USE DEF IInv
<1>1. Typed'
    <2>1. CASE EndJournal(r)
        <3>1. row' \in {row, NoRow, [run |-> r, settled |-> TRUE]}
            BY <2>1 DEF EndJournal
        <3>2. stage' = [stage EXCEPT ![r] = "ended"]
            BY <2>1 DEF EndJournal, Moves
        <3>3. row' \in [run : Runs \cup {0}, settled : BOOLEAN]
            <4>1. NoRow \in [run : Runs \cup {0}, settled : BOOLEAN]
                BY DEF NoRow
            <4>2. [run |-> r, settled |-> TRUE] \in [run : Runs \cup {0}, settled : BOOLEAN]
                OBVIOUS
            <4>3. QED BY <3>1, <4>1, <4>2 DEF Typed
        <3>4. stage' \in [Runs -> Stages]
            BY <3>2 DEF Typed, Stages
        <3>5. QED BY <2>1, <3>3, <3>4 DEF Typed, EndJournal
    <2>2. CASE DropLog(r)
        BY <2>2 DEF Typed, Stages, DropLog, Moves, NoLog, NoRow
    <2>3. QED BY <2>1, <2>2
<1>2. /\ InHand(r) /\ stage[r] \in {"closed", "aside", "recovered"}
      /\ stage' = [stage EXCEPT ![r] = "ended"]
      /\ row'.run \in {0, r}
      /\ UNCHANGED <<opened, record, kept>>
    <2>1. InHand(r)
        BY DEF EndJournal, DropLog, Moves, InHand, Idle
    <2>2. row.run = r
        BY <2>1, Alone
    <2>3. row' \in {row, NoRow, [run |-> r, settled |-> TRUE]}
        BY DEF EndJournal, DropLog
    <2>4. row'.run \in {0, r}
        BY <2>2, <2>3 DEF NoRow
    <2>5. QED BY <2>1, <2>4 DEF EndJournal, DropLog, Moves
<1>3. \A q \in Runs : q # r => stage[q] \in Idle /\ stage'[q] = stage[q] /\ row.run # q
    BY <1>2, Alone DEF Typed
<1>4. /\ \A q \in Runs : Down(q)' = Down(q)
      /\ Down(r)
    BY <1>2 DEF PutDown, Down
<1>5. OneInHand'
    BY <1>2, <1>3, Alone DEF Typed, OneInHand, InHand, Idle, Runs
<1>6. PutDown'
    BY <1>2, <1>3, <1>4 DEF Typed, PutDown, Idle
<1>7. NoRunLost'
    BY <1>2, <1>3, <1>4 DEF Typed, NoRunLost, Recoverable, Down
<1>8. QED BY <1>1, <1>5, <1>6, <1>7

\* A death takes only what was in hand; the row names what the next boot finds.
LEMMA RebootHolds ==
    ASSUME IInv, Reboot
    PROVE  IInv'
<1> USE DEF IInv
<1>1. Typed' BY DEF Typed, Stages, Reboot
<1>2. /\ \A q \in Runs : stage'[q] \in {"none", "ended", "cut"}
      /\ \A q \in Runs : stage'[q] = "none" <=> stage[q] = "none"
      /\ \A q \in Runs : stage'[q] = "ended" <=> stage[q] = "ended" /\ row.run # q
      /\ UNCHANGED <<log, opened, kept, record, row>>
    BY DEF Typed, Reboot
<1>3. OneInHand' BY <1>2 DEF Typed, OneInHand, InHand, Idle, Runs
<1>4. PutDown' BY <1>2 DEF PutDown, Down
<1>5. NoRunLost' BY <1>2 DEF NoRunLost, Recoverable
<1>6. QED BY <1>1, <1>3, <1>4, <1>5

LEMMA NextHolds ==
    ASSUME IInv, ~Overtakes, [Next]_vars
    PROVE  IInv'
<1>1. CASE UNCHANGED vars
    BY <1>1 DEF vars, IInv, Typed, OneInHand, InHand, PutDown, Down, NoRunLost, Recoverable
<1>2. CASE Reboot BY <1>2, RebootHolds
<1>3. ASSUME NEW r \in Runs, RunStep(r) PROVE IInv'
    BY <1>3, StartHolds, DrawingHolds, BeginsHolds, SettlingHolds, CloseHolds, EndHolds DEF RunStep
<1>4. QED BY <1>1, <1>2, <1>3 DEF Next

-----------------------------------------------------------------------------
(* Why a run is written down once. An append is kept from repeating by the  *)
(* last turn's stamp alone: whatever may still be appended and is there     *)
(* already is the last, and what else waits to be appended is newer.        *)

\* A run whose rows no writer has put anywhere yet.
Unwritten == {"none", "running", "finished", "recording", "refused"}

OnRecordOnce == \A i, j \in DOMAIN record : record[i] = record[j] => i = j

\* The stamp tells of it, and everything kept is no older.
Stamped(r) == AlreadyRecorded(r) /\ \A k \in kept : r <= k.head

OnceInv ==
    /\ \A k \in kept : k.head \in Runs /\ stage[k.head] \notin Unwritten
    /\ stuck = {} =>
          /\ OnRecordOnce
          /\ \A r \in Runs : stage[r] \in Unwritten => ~Contains(record, r)
          /\ \A r \in Runs : stage[r] \in Settling => todo[r] = kept
          /\ \A k \in kept : Contains(record, k.head) => Stamped(k.head)
          /\ \A r \in Runs : row.run = r /\ Contains(record, r) => Stamped(r)

\* What an append leaves of a record that has each run once.
LEMMA AppendedOnce ==
    ASSUME record \in Seq(Runs), OnRecordOnce, NEW x \in Runs, ~Contains(record, x),
           record' = Append(record, x)
    PROVE  OnRecordOnce' /\ AlreadyRecorded(x)'
<1>1. /\ Len(record) \in Nat /\ Len(record') = Len(record) + 1
      /\ DOMAIN record = 1..Len(record) /\ DOMAIN record' = 1..Len(record')
      /\ \A i \in 1..Len(record) : record'[i] = record[i]
      /\ record'[Len(record) + 1] = x /\ record' # << >>
    OBVIOUS
<1>2. \A i \in 1..Len(record) : record[i] # x
    BY DEF Contains
<1>3. OnRecordOnce'
    <2> SUFFICES ASSUME NEW i \in DOMAIN record', NEW j \in DOMAIN record', record'[i] = record'[j]
                 PROVE  i = j
        BY DEF OnRecordOnce
    <2>1. CASE i \in 1..Len(record) /\ j \in 1..Len(record)
        BY <1>1, <2>1 DEF OnRecordOnce
    <2>2. CASE i = Len(record) + 1 \/ j = Len(record) + 1
        BY <1>1, <1>2, <2>2
    <2>3. QED BY <1>1, <2>1, <2>2
<1>4. AlreadyRecorded(x)'
    BY <1>1 DEF AlreadyRecorded, Last
<1>5. QED BY <1>3, <1>4

\* No log is kept of a run newer than the row's.
LEMMA KeptNoNewer ==
    ASSUME IInv, OnceInv, NEW r \in Runs, row.run = r
    PROVE  \A k \in kept : k.head <= r
<1>1. \A q \in Runs : q > r => stage[q] \in Unwritten
    BY DEF IInv, OneInHand, Unwritten
<1>2. QED BY <1>1 DEF OnceInv, Runs

\* Steps that write nothing down.
LEMMA OnceKept ==
    ASSUME IInv, OnceInv, NEW r \in Runs,
           \/ ~Overtakes /\ Start(r)
           \/ OpenLog(r) \/ Draw(r) \/ Finish(r)
           \/ StartRecording(r) \/ StartRecovering(r)
           \/ CloseRecorded(r) \/ EndJournal(r) \/ DropLog(r)
    PROVE  OnceInv'
<1>1. /\ UNCHANGED <<kept, record, stuck>>
      /\ stage' = [stage EXCEPT ![r] = stage'[r]]
      /\ stage'[r] \in Unwritten <=> stage[r] \in Unwritten
    BY DEF IInv, Typed, Start, OpenLog, Draw, Finish, StartRecording, StartRecovering, Begins, Moves,
           CloseRecorded, EndJournal, DropLog, Unwritten
<1>2. \A q \in Runs : stage'[q] \in Unwritten <=> stage[q] \in Unwritten
    BY <1>1 DEF IInv, Typed
<1>3. \A q : /\ Stamped(q)' = Stamped(q) /\ Contains(record, q)' = Contains(record, q)
    BY <1>1 DEF Stamped, AlreadyRecorded
<1>4. \/ row'.run \in {row.run, 0}
      \/ row'.run = r /\ (stage[r] \in Unwritten \/ row.run = r)
    <2>1. CASE Start(r)
        BY <2>1 DEF Start, Moves, Unwritten
    <2>2. CASE EndJournal(r)
        <3>1. row.run = r
            BY <2>2, Alone DEF IInv, EndJournal, Moves, InHand, Idle
        <3>2. row' \in {row, NoRow, [run |-> r, settled |-> TRUE]}
            BY <2>2 DEF EndJournal
        <3>3. QED BY <3>1, <3>2 DEF NoRow
    <2>3. CASE DropLog(r)
        BY <2>3 DEF DropLog, NoRow
    <2>4. QED BY <2>1, <2>2, <2>3 DEF OpenLog, Draw, Finish, StartRecording, StartRecovering, Begins,
                                      CloseRecorded
<1>5. ASSUME stuck = {}
      PROVE  /\ \A q \in Runs : stage'[q] \in Settling => todo'[q] = kept
             /\ \A q \in Runs : row'.run = q /\ Contains(record, q) => Stamped(q)
    <2>1. CASE StartRecording(r) \/ StartRecovering(r)
        <3>1. {k \in kept : k.head # 0} = kept
            BY DEF OnceInv, Runs
        <3>2. QED BY <1>5, <2>1, <3>1 DEF IInv, Typed, OnceInv, StartRecording, StartRecovering,
                                          Begins, Moves
    <2>2. ASSUME NEW q \in Runs, ~(StartRecording(r) \/ StartRecovering(r)), stage'[q] \in Settling
          PROVE  todo'[q] = kept
        BY <1>5, <2>2 DEF IInv, Typed, OnceInv, Settling, Start, OpenLog, Draw, Finish, Moves,
                          CloseRecorded, EndJournal, DropLog
    <2>3. \A q \in Runs : row'.run = q /\ Contains(record, q) => Stamped(q)
        BY <1>4, <1>5 DEF OnceInv, Runs
    <2>4. QED BY <2>1, <2>2, <2>3
<1>6. QED BY <1>1, <1>2, <1>3, <1>5 DEF OnceInv, OnRecordOnce

\* The record refuses: what was unwritten still is.
LEMMA OnceRefused ==
    ASSUME IInv, OnceInv, NEW r \in Runs, stage[r] \in Settling, Refused(r),
           UNCHANGED <<kept, row, stuck>>
    PROVE  OnceInv'
<1>1. /\ \A q \in Runs : stage'[q] \in Unwritten <=> stage[q] \in Unwritten
      /\ \A q \in Runs : stage'[q] \in Settling => q # r /\ stage[q] \in Settling
      /\ \A q \in Runs : q # r => todo'[q] = todo[q]
      /\ UNCHANGED record
    BY DEF IInv, Typed, Refused, Unwritten, Settling
<1>2. \A q : Stamped(q)' = Stamped(q)
    BY <1>1 DEF Stamped, AlreadyRecorded
<1>3. QED BY <1>1, <1>2 DEF OnceInv, OnRecordOnce

\* The oldest kept log goes down: were it there, the stamp would have told.
LEMMA OnceAppendKept ==
    ASSUME IInv, OnceInv, NEW r \in Runs, AppendKept(r)
    PROVE  OnceInv'
<1>1. CASE Refused(r)
    BY <1>1, OnceRefused DEF AppendKept
<1>2. ASSUME NEW k \in todo[r], Oldest(r, k), ~AlreadyRecorded(k.head),
             record' = Append(record, k.head), UNCHANGED <<stage, todo, kept, row, stuck>>,
             stuck = {}
      PROVE  OnceInv'
    <2>1. k \in kept /\ todo[r] = kept /\ stage[r] \in Settling
        BY <1>2 DEF AppendKept, OnceInv
    <2>2. k.head \in Runs /\ stage[k.head] \notin Unwritten /\ ~Contains(record, k.head)
        BY <1>2, <2>1 DEF OnceInv, Stamped
    <2>3. OnRecordOnce' /\ AlreadyRecorded(k.head)'
        BY <1>2, <2>2, AppendedOnce DEF IInv, Typed, OnceInv
    <2>4. \A q \in Runs : Contains(record, q)' <=> Contains(record, q) \/ q = k.head
        BY <1>2, <2>2, Appended DEF IInv, Typed
    <2>5. \A other \in kept : k.head <= other.head
        BY <1>2, <2>1 DEF Oldest
    <2>6. Stamped(k.head)'
        BY <1>2, <2>3, <2>5 DEF Stamped
    <2>7. row.run = r /\ k.head <= r
        BY <2>1, Alone, KeptNoNewer DEF IInv, InHand, Idle, Settling
    <2>8. \A other \in kept : ~Contains(record, other.head)
        <3> SUFFICES ASSUME NEW other \in kept, Contains(record, other.head) PROVE FALSE
            OBVIOUS
        <3>1. Stamped(other.head) /\ other.head \in Runs
            BY <1>2 DEF OnceInv
        <3>2. other.head = k.head
            BY <2>1, <2>2, <2>5, <3>1 DEF Stamped, Runs
        <3>3. QED BY <2>2, <3>2
    <2>9. ~Contains(record, r)
        <3> SUFFICES ASSUME Contains(record, r) PROVE FALSE OBVIOUS
        <3>1. Stamped(r) BY <1>2, <2>7 DEF OnceInv
        <3>2. k.head = r BY <2>1, <2>2, <2>7, <3>1 DEF Stamped, Runs
        <3>3. QED BY <2>2, <3>2
    <2>10. QED BY <1>2, <2>2, <2>3, <2>4, <2>6, <2>7, <2>8, <2>9 DEF OnceInv
<1>3. CASE stuck # {} /\ ~Refused(r)
    BY <1>3 DEF OnceInv, AppendKept
<1>4. QED BY <1>1, <1>2, <1>3 DEF AppendKept

\* A log goes once the last turn's stamp is its run's.
LEMMA OnceRemoveKept ==
    ASSUME IInv, OnceInv, NEW r \in Runs, RemoveKept(r)
    PROVE  OnceInv'
<1>1. PICK k \in todo[r] :
          /\ todo' = [todo EXCEPT ![r] = @ \ {k}]
          /\ \/ kept' = kept \ {k} /\ UNCHANGED stuck
             \/ stuck' = stuck \cup {k.head} /\ UNCHANGED kept
    BY DEF RemoveKept
<1>2. UNCHANGED <<stage, record, row>> /\ kept' \subseteq kept /\ stage[r] \in Settling
    BY <1>1 DEF RemoveKept
<1>3. \A q : Stamped(q) => Stamped(q)'
    BY <1>2 DEF Stamped, AlreadyRecorded
<1>4. ASSUME stuck' = {}
      PROVE  stuck = {} /\ kept' = kept \ {k}
    BY <1>1, <1>4
<1>5. ASSUME stuck' = {}, NEW q \in Runs, stage[q] \in Settling
      PROVE  todo'[q] = kept'
    <2>1. q = r
        BY <1>2, <1>5, Alone DEF IInv, InHand, Idle, Settling
    <2>2. QED BY <1>1, <1>2, <1>4, <1>5, <2>1 DEF OnceInv, IInv, Typed
<1>6. QED BY <1>2, <1>3, <1>4, <1>5 DEF OnceInv, OnRecordOnce

\* A run's own rows go down behind every kept log, and not where they are there.
LEMMA OnceAppendOwn ==
    ASSUME IInv, OnceInv, NEW r \in Runs, AppendOwn(r)
    PROVE  OnceInv'
<1>1. CASE Refused(r)
    BY <1>1, OnceRefused DEF AppendOwn
<1>2. CASE ~Refused(r)
    <2>1. /\ stage[r] \in Settling /\ todo[r] = {}
          /\ stage' = [stage EXCEPT ![r] = IF @ = "recording" THEN "recorded" ELSE "recovered"]
          /\ UNCHANGED <<todo, kept, row, stuck>>
          /\ record' = IF stage[r] = "recovering" /\ AlreadyRecorded(r) THEN record
                        ELSE Append(record, r)
        BY <1>2 DEF AppendOwn
    <2>2. /\ \A q \in Runs : stage'[q] \in Unwritten => q # r /\ stage[q] \in Unwritten
          /\ \A q \in Runs : stage'[q] \in Settling => q # r /\ stage[q] \in Settling
          /\ \A q \in Runs : stage[q] \notin Unwritten => stage'[q] \notin Unwritten
        BY <2>1 DEF IInv, Typed, Unwritten, Settling
    <2>3. row.run = r
        BY <2>1, Alone DEF IInv, InHand, Idle, Settling
    <2>4. CASE record' = record
        BY <2>1, <2>2, <2>4 DEF OnceInv, OnRecordOnce, Stamped, AlreadyRecorded
    <2>5. CASE stuck = {} /\ record' = Append(record, r)
                 /\ ~(stage[r] = "recovering" /\ AlreadyRecorded(r))
        <3>1. kept = {}
            BY <2>1, <2>5 DEF OnceInv
        <3>2. ~Contains(record, r)
            BY <2>1, <2>3, <2>5 DEF OnceInv, Stamped, Settling, Unwritten
        <3>3. OnRecordOnce' /\ AlreadyRecorded(r)'
            BY <2>5, <3>2, AppendedOnce DEF IInv, Typed, OnceInv
        <3>4. \A q \in Runs : Contains(record, q)' <=> Contains(record, q) \/ q = r
            BY <2>5, Appended DEF IInv, Typed
        <3>5. Stamped(r)'
            BY <2>1, <3>1, <3>3 DEF Stamped
        <3>6. QED BY <2>1, <2>2, <2>3, <2>5, <3>1, <3>3, <3>4, <3>5 DEF OnceInv
    <2>6. CASE stuck # {}
        BY <2>1, <2>2, <2>6 DEF OnceInv
    <2>7. QED BY <2>1, <2>4, <2>5, <2>6
<1>3. QED BY <1>1, <1>2

\* The log of a run the record refused is kept, and the run is not on it.
LEMMA OnceCloseRefused ==
    ASSUME IInv, OnceInv, NEW r \in Runs, CloseRefused(r)
    PROVE  OnceInv'
<1> DEFINE mine == [name |-> r, head |-> log.head, by |-> Written(r).by]
<1>1. /\ stage[r] = "refused" /\ stage' = [stage EXCEPT ![r] = "aside"]
      /\ kept' = kept \cup {mine}
      /\ UNCHANGED <<todo, record, row, stuck>>
    BY DEF CloseRefused, Moves
<1>2. mine.head = r
    BY <1>1 DEF IInv, PutDown
<1>3. row.run = r /\ \A k \in kept : k.head <= r
    BY <1>1, Alone, KeptNoNewer DEF IInv, InHand, Idle
<1>4. /\ \A q \in Runs : stage'[q] \in Unwritten => stage[q] \in Unwritten
      /\ \A q \in Runs : stage[q] \notin Unwritten => stage'[q] \notin Unwritten
      /\ stage'[r] \notin Unwritten
      /\ \A q \in Runs : stage'[q] \notin Settling
    BY <1>1, Alone DEF IInv, Typed, InHand, Idle, Unwritten, Settling
<1>5. stuck = {} => ~Contains(record, r)
    BY <1>1 DEF OnceInv, Unwritten
<1>6. \A k \in kept : Stamped(k.head) => Stamped(k.head)'
    BY <1>1, <1>2, <1>3 DEF Stamped, AlreadyRecorded
<1>7. \A k \in kept' : k \in kept \/ k.head = r
    BY <1>1, <1>2
<1> HIDE DEF mine
<1>8. QED BY <1>1, <1>3, <1>4, <1>5, <1>6, <1>7 DEF OnceInv, OnRecordOnce

LEMMA OnceReboot == ASSUME IInv, OnceInv, Reboot PROVE OnceInv'
<1>1. /\ \A q \in Runs : stage'[q] \in Unwritten => stage[q] \in Unwritten
      /\ \A q \in Runs : stage[q] \notin Unwritten => stage'[q] \notin Unwritten
      /\ \A q \in Runs : stage'[q] \notin Settling
      /\ UNCHANGED <<kept, record, row, stuck>>
    BY DEF IInv, Typed, Reboot, Unwritten, Settling
<1>2. QED BY <1>1 DEF OnceInv, OnRecordOnce, Stamped, AlreadyRecorded

LEMMA OnceNext ==
    ASSUME IInv, OnceInv, ~Overtakes, [Next]_vars
    PROVE  OnceInv'
<1>1. CASE UNCHANGED vars
    BY <1>1 DEF vars, OnceInv, OnRecordOnce, Stamped, AlreadyRecorded
<1>2. CASE Reboot BY <1>2, OnceReboot
<1>3. ASSUME NEW r \in Runs, RunStep(r) PROVE OnceInv'
    BY <1>3, OnceKept, OnceAppendKept, OnceRemoveKept, OnceAppendOwn, OnceCloseRefused DEF RunStep
<1>4. QED BY <1>1, <1>2, <1>3 DEF Next

-----------------------------------------------------------------------------
(* Why the record is in order: a writer passes every older log it kept before *)
(* its own rows go down, so nothing goes down ahead of an older run's.        *)

OrderInv ==
    /\ RecordInOrder
    /\ \A q \in Runs : Contains(record, q) => stage[q] # "none"
    /\ \A k \in kept : k.head \in Runs /\ stage[k.head] # "none"
    /\ \A k \in kept : \A q \in Runs :
          q > k.head /\ Contains(record, q) => Contains(record, k.head)
    /\ \A r \in Runs : stage[r] \in Settling =>
          /\ todo[r] \subseteq kept
          /\ \A k \in kept : k \in todo[r] \/ Contains(record, k.head)

\* What may go down next without leaving an older run behind.
LEMMA AppendedInOrder ==
    ASSUME record \in Seq(Runs), RecordInOrder, NEW x \in Runs, record' = Append(record, x),
           \/ Contains(record, x)
           \/ \A q \in Runs : q > x => ~Contains(record, q)
    PROVE  RecordInOrder'
<1>1. /\ Len(record) \in Nat /\ Len(record') = Len(record) + 1
      /\ DOMAIN record = 1..Len(record) /\ DOMAIN record' = 1..Len(record')
      /\ \A i \in 1..Len(record) : record'[i] = record[i] /\ record[i] \in Runs
      /\ record'[Len(record) + 1] = x
    OBVIOUS
<1> SUFFICES ASSUME NEW i \in DOMAIN record', NEW j \in DOMAIN record',
                    i < j, record'[i] > record'[j]
             PROVE  \E first \in 1..(i - 1) : record'[first] = record'[j]
    BY DEF RecordInOrder
<1>2. i \in 1..Len(record)
    BY <1>1
<1>3. CASE j \in 1..Len(record)
    <2>1. PICK first \in 1..(i - 1) : record[first] = record[j]
        BY <1>1, <1>2, <1>3 DEF RecordInOrder
    <2>2. first \in 1..Len(record)
        BY <1>1, <1>2
    <2>3. QED BY <1>1, <1>3, <2>1, <2>2
<1>4. CASE j = Len(record) + 1
    <2>1. record[i] > x /\ Contains(record, record[i])
        BY <1>1, <1>2, <1>4 DEF Contains
    <2>2. PICK p \in 1..Len(record) : record[p] = x
        BY <1>1, <1>2, <2>1 DEF Contains
    <2>3. CASE p < i
        BY <1>1, <1>2, <1>4, <2>2, <2>3
    <2>4. CASE i < p
        <3>1. PICK first \in 1..(i - 1) : record[first] = record[p]
            BY <1>1, <1>2, <2>1, <2>2, <2>4 DEF RecordInOrder
        <3>2. first \in 1..Len(record)
            BY <1>1, <1>2
        <3>3. QED BY <1>1, <1>4, <2>2, <3>1, <3>2
    <2>5. p # i
        BY <2>1, <2>2 DEF Runs
    <2>6. QED BY <1>1, <1>2, <2>3, <2>4, <2>5
<1>5. QED BY <1>1, <1>3, <1>4

\* Nothing newer than the row's run is anywhere.
LEMMA NothingNewer ==
    ASSUME IInv, OrderInv, NEW r \in Runs, row.run = r
    PROVE  /\ \A q \in Runs : q > r => ~Contains(record, q)
           /\ \A k \in kept : k.head <= r
BY DEF IInv, OneInHand, OrderInv, Runs

\* Steps that write nothing down.
LEMMA OrderKept ==
    ASSUME IInv, OrderInv, NEW r \in Runs,
           \/ Start(r) \/ OpenLog(r) \/ Draw(r) \/ Finish(r)
           \/ StartRecording(r) \/ StartRecovering(r)
           \/ CloseRecorded(r) \/ EndJournal(r) \/ DropLog(r)
    PROVE  OrderInv'
<1>1. /\ UNCHANGED <<kept, record>>
      /\ stage' = [stage EXCEPT ![r] = stage'[r]] /\ stage'[r] # "none"
    BY DEF IInv, Typed, Start, OpenLog, Draw, Finish, StartRecording, StartRecovering, Begins, Moves,
           CloseRecorded, EndJournal, DropLog
<1>2. \A q \in Runs : stage[q] # "none" => stage'[q] # "none"
    BY <1>1 DEF IInv, Typed
<1>3. CASE StartRecording(r) \/ StartRecovering(r)
    <2>1. {k \in kept : k.head # 0} = kept
        BY DEF OrderInv, Runs
    <2>2. \A q \in Runs : stage'[q] \in Settling => todo'[q] = kept \/ q # r
        BY <1>3, <2>1 DEF IInv, Typed, StartRecording, StartRecovering, Begins, Moves
    <2>3. \A q \in Runs : q # r => stage'[q] = stage[q] /\ todo'[q] = todo[q]
        BY <1>3 DEF IInv, Typed, StartRecording, StartRecovering, Begins, Moves
    <2>4. QED BY <1>1, <1>2, <2>2, <2>3 DEF OrderInv, RecordInOrder
<1>4. ASSUME ~(StartRecording(r) \/ StartRecovering(r))
      PROVE  \A q \in Runs : stage'[q] \in Settling => stage[q] \in Settling /\ todo'[q] = todo[q]
    BY <1>4 DEF IInv, Typed, Settling, Start, OpenLog, Draw, Finish, Moves,
                CloseRecorded, EndJournal, DropLog
<1>5. QED BY <1>1, <1>2, <1>3, <1>4 DEF OrderInv, RecordInOrder

\* The record refuses, or a kept log goes: what is on it stays.
LEMMA OrderUnmoved ==
    ASSUME IInv, OrderInv, NEW r \in Runs,
           \/ stage[r] \in Settling /\ Refused(r) /\ UNCHANGED kept
           \/ RemoveKept(r)
    PROVE  OrderInv'
<1>1. CASE stage[r] \in Settling /\ Refused(r) /\ UNCHANGED kept
    <2>1. /\ \A q \in Runs : stage'[q] \in Settling => stage[q] \in Settling /\ todo'[q] = todo[q]
          /\ \A q \in Runs : stage[q] # "none" => stage'[q] # "none"
          /\ UNCHANGED <<kept, record>>
        BY <1>1 DEF IInv, Typed, Refused, Settling
    <2>2. QED BY <2>1 DEF OrderInv, RecordInOrder
<1>2. CASE RemoveKept(r)
    <2>1. PICK k \in todo[r] : /\ AlreadyRecorded(k.head)
                             /\ todo' = [todo EXCEPT ![r] = @ \ {k}]
                             /\ kept' \in {kept, kept \ {k}}
        BY <1>2 DEF RemoveKept
    <2>2. Contains(record, k.head)
        BY <2>1, StampIsThere DEF IInv, Typed
    <2>3. stage[r] \in Settling /\ UNCHANGED <<stage, record>>
        BY <1>2 DEF RemoveKept
    <2>4. \A q \in Runs : stage[q] \in Settling => q = r
        BY <2>3, Alone DEF IInv, InHand, Idle, Settling
    <2>5. /\ todo'[r] \subseteq kept'
          /\ \A other \in kept' : other \in todo'[r] \/ Contains(record, other.head)
        BY <2>1, <2>2, <2>3 DEF IInv, Typed, OrderInv
    <2>6. QED BY <2>1, <2>3, <2>4, <2>5 DEF OrderInv, RecordInOrder
<1>3. QED BY <1>1, <1>2

\* Rows that go down are the oldest that wait to.
LEMMA OrderAppended ==
    ASSUME IInv, OrderInv, NEW r \in Runs, stage[r] \in Settling, NEW x \in Runs,
           record' = Append(record, x), UNCHANGED <<kept, todo>>,
           \A q \in Runs : stage[q] # "none" => stage'[q] # "none",
           \A q \in Runs : stage'[q] \in Settling => stage[q] \in Settling,
           x = r \/ \E k \in kept : k.head = x,
           x <= r,
           \A k \in kept : k.head < x => Contains(record, k.head)
    PROVE  OrderInv'
<1>1. \A q \in Runs : Contains(record, q)' <=> Contains(record, q) \/ q = x
    BY Appended DEF IInv, Typed
<1>2. row.run = r
    BY Alone DEF IInv, InHand, Idle, Settling
<1>3. Contains(record, x) \/ \A q \in Runs : q > x => ~Contains(record, q)
    BY <1>2, NothingNewer DEF OrderInv
<1>4. RecordInOrder'
    BY <1>3, AppendedInOrder DEF IInv, Typed, OrderInv
<1>5. \A k \in kept : \A q \in Runs :
          q > k.head /\ Contains(record, q)' => Contains(record, k.head)'
    BY <1>1 DEF OrderInv
<1>6. stage[x] # "none"
    BY DEF OrderInv, Settling
<1>7. QED BY <1>1, <1>4, <1>5, <1>6 DEF OrderInv

LEMMA OrderSettling ==
    ASSUME IInv, OrderInv, NEW r \in Runs, AppendKept(r) \/ AppendOwn(r)
    PROVE  OrderInv'
<1>1. stage[r] \in Settling /\ UNCHANGED kept /\ row.run = r
    <2>1. stage[r] \in Settling /\ UNCHANGED kept
        BY DEF AppendKept, AppendOwn
    <2>2. QED BY <2>1, Alone DEF IInv, InHand, Idle, Settling
<1>2. CASE Refused(r)
    BY <1>1, <1>2, OrderUnmoved
<1>3. ASSUME NEW k \in todo[r], Oldest(r, k), record' = Append(record, k.head),
             UNCHANGED <<stage, todo>>
      PROVE  OrderInv'
    <2>1. k \in kept /\ k.head \in Runs /\ k.head <= r
        BY <1>1, <1>3, NothingNewer DEF OrderInv
    <2>2. \A other \in kept : other.head < k.head => Contains(record, other.head)
        BY <1>1, <1>3, <2>1 DEF OrderInv, Oldest, Runs
    <2>3. QED BY <1>1, <1>3, <2>1, <2>2, OrderAppended
<1>4. ASSUME AppendOwn(r), ~Refused(r)
      PROVE  OrderInv'
    <2>1. /\ \A q \in Runs : stage[q] # "none" => stage'[q] # "none"
          /\ \A q \in Runs : stage'[q] \in Settling => stage[q] \in Settling
          /\ UNCHANGED todo /\ todo[r] = {} /\ record' \in {record, Append(record, r)}
        BY <1>4 DEF IInv, Typed, AppendOwn, Settling
    <2>2. \A k \in kept : Contains(record, k.head)
        BY <1>1, <2>1 DEF OrderInv
    <2>3. CASE record' = record
        BY <1>1, <2>1, <2>3 DEF OrderInv, RecordInOrder
    <2>4. CASE record' = Append(record, r)
        BY <1>1, <2>1, <2>2, <2>4, OrderAppended DEF Runs
    <2>5. QED BY <2>1, <2>3, <2>4
<1>5. QED BY <1>2, <1>3, <1>4 DEF AppendKept

LEMMA OrderCloseRefused ==
    ASSUME IInv, OrderInv, NEW r \in Runs, CloseRefused(r)
    PROVE  OrderInv'
<1> DEFINE mine == [name |-> r, head |-> log.head, by |-> Written(r).by]
<1>1. /\ stage[r] = "refused" /\ stage' = [stage EXCEPT ![r] = "aside"]
      /\ kept' = kept \cup {mine} /\ UNCHANGED record
    BY DEF CloseRefused, Moves
<1>2. mine.head = r
    BY <1>1 DEF IInv, PutDown
<1>3. row.run = r
    BY <1>1, Alone DEF IInv, InHand, Idle
<1>4. /\ \A q \in Runs : stage[q] # "none" => stage'[q] # "none"
      /\ stage'[r] # "none" /\ \A q \in Runs : stage'[q] \notin Settling
    BY <1>1, Alone DEF IInv, Typed, InHand, Idle, Settling
<1>5. \A k \in kept' : k \in kept \/ k.head = r
    BY <1>1, <1>2
<1> HIDE DEF mine
<1>6. QED BY <1>1, <1>3, <1>4, <1>5, NothingNewer DEF OrderInv, RecordInOrder

LEMMA OrderNext ==
    ASSUME IInv, OrderInv, [Next]_vars
    PROVE  OrderInv'
<1>1. CASE UNCHANGED vars
    BY <1>1 DEF vars, OrderInv, RecordInOrder
<1>2. CASE Reboot
    <2>1. /\ \A q \in Runs : stage[q] # "none" => stage'[q] # "none"
          /\ \A q \in Runs : stage'[q] \notin Settling
          /\ UNCHANGED <<kept, record>>
        BY <1>2 DEF IInv, Typed, Reboot, Settling
    <2>2. QED BY <2>1 DEF OrderInv, RecordInOrder
<1>3. ASSUME NEW r \in Runs, RunStep(r) PROVE OrderInv'
    BY <1>3, OrderKept, OrderUnmoved, OrderSettling, OrderCloseRefused DEF RunStep
<1>4. QED BY <1>1, <1>2, <1>3 DEF Next

-----------------------------------------------------------------------------
(* The theorems. *)

\* The inductive invariant holds in every behaviour.
LEMMA InvariantHolds == ASSUME ~Overtakes PROVE Spec => []IInv
BY InitHolds, NextHolds, PTL DEF Spec

LEMMA OrderHolds == ASSUME ~Overtakes PROVE Spec => []OrderInv
<1>1. Init => OrderInv
    BY DEF Init, OrderInv, RecordInOrder, Contains, Settling, Runs
<1>2. IInv /\ OrderInv /\ [Next]_vars => OrderInv'
    BY OrderNext
<1>3. QED BY <1>1, <1>2, InvariantHolds, PTL DEF Spec

LEMMA OnceHolds == ASSUME ~Overtakes PROVE Spec => []OnceInv
<1>1. Init => OnceInv
    BY DEF Init, OnceInv, OnRecordOnce, NoRow, Contains, Settling, Runs
<1>2. IInv /\ OnceInv /\ [Next]_vars => OnceInv'
    BY OnceNext
<1>3. QED BY <1>1, <1>2, InvariantHolds, PTL DEF Spec

\* Whatever a run drew is on the record, in a log, or in the rows its settled row
\* carries, at every point a crash may fall (startTurnRun).
THEOREM NothingDrawnIsLost == ASSUME ~Overtakes PROVE Spec => []NoRunLost
<1>1. IInv => NoRunLost BY DEF IInv
<1>2. QED BY <1>1, InvariantHolds, PTL

\* No run is written down twice, whatever crash falls between the append and what
\* clears it, while every kept log on the record could be removed (alreadyRecorded).
THEOREM WrittenDownOnce == ASSUME ~Overtakes PROVE Spec => []RecordedOnce
<1>1. OnceInv => RecordedOnce BY DEF OnceInv, OnRecordOnce, RecordedOnce
<1>2. QED BY <1>1, OnceHolds, PTL

\* The record keeps turns in order, refusals, crashes and logs that cannot be
\* removed notwithstanding (recordUnrecordedRuns).
THEOREM RecordKeepsOrder == ASSUME ~Overtakes PROVE Spec => []RecordInOrder
<1>1. OrderInv => RecordInOrder BY DEF OrderInv
<1>2. QED BY <1>1, OrderHolds, PTL

=============================================================================
