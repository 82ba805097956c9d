-------------------------------- MODULE RunLog --------------------------------
(***************************************************************************)
(* How a conversation's turns reach its record: the log a run writes as it *)
(* draws (running.jsonl), the logs kept of runs the record refused         *)
(* (unrecorded-<run>.jsonl), the record itself and the one journal row,    *)
(* over writers that may overlap and a daemon that may die between any two *)
(* writes. A run's rows are known by its number; a log by the head it      *)
(* opens with and the runs whose patches are in it.                        *)
(*                                                                         *)
(* Abstracted: a log's batches and a write of it that fails, after which a *)
(* run goes on unlogged; the provider's own session store, which a cut     *)
(* turn without a log is recovered from in part.                           *)
(***************************************************************************)
EXTENDS Naturals, Sequences, SequencesExt

CONSTANTS
    MaxRun,       \* bound: runs
    MaxBoots,     \* bound: restarts
    RecordsFail,  \* whether an append to the record may fail
    RemovesFail,  \* whether a kept log may fail to be removed
    Overtakes     \* whether a turn may start while an earlier one is not on the record

ASSUME RunLogAssumption ==
    /\ MaxRun \in Nat /\ MaxBoots \in Nat
    /\ RecordsFail \in BOOLEAN /\ RemovesFail \in BOOLEAN /\ Overtakes \in BOOLEAN

Runs == 1..MaxRun
NoLog == [head |-> 0, by |-> {}]
NoRow == [run |-> 0, settled |-> FALSE]

VARIABLES
    stage,  \* how far each run is
    log,    \* running.jsonl: the run of its head (0 for none that reads), who wrote to it
    opened, \* runs that have opened it
    kept,   \* the logs kept of runs the record missed, by the name each is under
    todo,   \* the kept logs a writer of the record has still to see to
    record, \* the record: the runs whose rows it took, in the order it took them
    row,    \* the conversation's journal row
    stuck,  \* ghost: runs on the record whose kept log could not be removed
    boots   \* restarts so far

vars == <<stage, log, opened, kept, todo, record, row, stuck, boots>>

\* Runs whose rows are being written down: as they settle, or at a boot.
Settling == {"recording", "recovering"}
Stages == Settling \cup {"none", "running", "finished", "recorded", "refused", "closed",
                         "aside", "recovered", "cut", "waiting", "ended"}

Init ==
    /\ stage = [r \in Runs |-> "none"]
    /\ log = NoLog /\ opened = {}
    /\ kept = {} /\ todo = [r \in Runs |-> {}]
    /\ record = << >>
    /\ row = NoRow
    /\ stuck = {} /\ boots = 0

Moves(r, from, to) == stage[r] = from /\ stage' = [stage EXCEPT ![r] = to]

\* The record's last turn carries its stamp.
AlreadyRecorded(r) == record # << >> /\ Last(record) = r

-----------------------------------------------------------------------------
(* A run.                                                                  *)

\* A conversation runs one turn at a time: the last one is done, its record
\* written or not.
Start(r) ==
    /\ \A q \in Runs : q < r => stage[q] \notin {"none", "running"}
    /\ Overtakes \/ \A q \in Runs : q < r => stage[q] = "ended"
    /\ Moves(r, "none", "running")
    /\ row' = [run |-> r, settled |-> FALSE]
    /\ UNCHANGED <<log, opened, kept, todo, record, stuck, boots>>

\* Its first write replaces any earlier run's log.
OpenLog(r) ==
    /\ stage[r] = "running" /\ r \notin opened
    /\ log' = [head |-> r, by |-> {r}]
    /\ opened' = opened \cup {r}
    /\ UNCHANGED <<stage, kept, todo, record, row, stuck, boots>>

\* Every write after it appends, to whatever file has the name by then: a file
\* made by the append alone opens with no head, and reads as none.
Written(r) == [log EXCEPT !.by = @ \cup {r}]

Draw(r) ==
    /\ stage[r] = "running" /\ r \in opened
    /\ log' = Written(r)
    /\ UNCHANGED <<stage, opened, kept, todo, record, row, stuck, boots>>

Finish(r) ==
    /\ r \in opened
    /\ Moves(r, "running", "finished")
    /\ UNCHANGED <<log, opened, kept, todo, record, row, stuck, boots>>

-----------------------------------------------------------------------------
(* Onto the record: whatever an earlier run could not write first, oldest  *)
(* first, then its own.                                                    *)

Begins(r, from, to) ==
    /\ Moves(r, from, to)
    /\ todo' = [todo EXCEPT ![r] = {k \in kept : k.head # 0}]
    /\ UNCHANGED <<log, opened, kept, record, row, stuck, boots>>

\* Mutant of StartRecording: an earlier run's kept log waits.
StartRecordingAlone(r) ==
    /\ Moves(r, "finished", "recording")
    /\ UNCHANGED <<log, opened, kept, todo, record, row, stuck, boots>>

StartRecording(r) == Begins(r, "finished", "recording")

\* At a boot, for the run the journal row names.
StartRecovering(r) == row.run = r /\ Begins(r, "cut", "recovering")

Oldest(r, k) == k \in todo[r] /\ \A other \in todo[r] : k.head <= other.head

Refused(r) ==
    /\ RecordsFail
    /\ stage' = [stage EXCEPT ![r] = IF @ = "recording" THEN "refused" ELSE "waiting"]
    /\ todo' = [todo EXCEPT ![r] = {}]
    /\ UNCHANGED record

AppendKept(r) ==
    /\ stage[r] \in Settling
    /\ \E k \in todo[r] :
          /\ Oldest(r, k) /\ ~AlreadyRecorded(k.head)
          /\ \/ record' = Append(record, k.head) /\ UNCHANGED <<stage, todo>>
             \/ Refused(r)
    /\ UNCHANGED <<log, opened, kept, row, stuck, boots>>

RemoveKept(r) ==
    /\ stage[r] \in Settling
    /\ \E k \in todo[r] :
          /\ Oldest(r, k) /\ AlreadyRecorded(k.head)
          /\ todo' = [todo EXCEPT ![r] = @ \ {k}]
          /\ \/ kept' = kept \ {k} /\ UNCHANGED stuck
             \/ RemovesFail /\ stuck' = stuck \cup {k.head} /\ UNCHANGED kept
    /\ UNCHANGED <<stage, log, opened, record, row, boots>>

\* Mutant of AppendOwn: written again after a crash that came behind the append.
AppendOwnAgain(r) ==
    /\ stage[r] \in Settling /\ todo[r] = {}
    /\ \/ /\ record' = Append(record, r)
          /\ stage' = [stage EXCEPT ![r] = IF @ = "recording" THEN "recorded" ELSE "recovered"]
          /\ UNCHANGED todo
       \/ Refused(r)
    /\ UNCHANGED <<log, opened, kept, row, stuck, boots>>

\* A settled run is written down; a recovered one only if it is not there yet.
AppendOwn(r) ==
    /\ stage[r] \in Settling /\ todo[r] = {}
    /\ LET there == stage[r] = "recovering" /\ AlreadyRecorded(r)
       IN  \/ /\ record' = IF there THEN record ELSE Append(record, r)
              /\ stage' = [stage EXCEPT ![r] = IF @ = "recording" THEN "recorded" ELSE "recovered"]
              /\ UNCHANGED todo
           \/ ~there /\ Refused(r)
    /\ UNCHANGED <<log, opened, kept, row, stuck, boots>>

-----------------------------------------------------------------------------
(* Behind the record: the log goes, or is kept under its run's name, and   *)
(* then the journal row.                                                   *)

\* What is still queued is written before the file is removed or renamed.
CloseRecorded(r) ==
    /\ Moves(r, "recorded", "closed")
    /\ log' = NoLog
    /\ UNCHANGED <<opened, kept, todo, record, row, stuck, boots>>

\* Mutant of CloseRefused: the log goes with the run, recorded or not.
CloseRefusedGone(r) ==
    /\ Moves(r, "refused", "aside")
    /\ log' = NoLog
    /\ UNCHANGED <<opened, kept, todo, record, row, stuck, boots>>

CloseRefused(r) ==
    /\ Moves(r, "refused", "aside")
    /\ log' = NoLog
    /\ kept' = kept \cup {[name |-> r, head |-> log.head, by |-> Written(r).by]}
    /\ UNCHANGED <<opened, todo, record, row, stuck, boots>>

\* Taken off the journal unless another run filed its own there since; one the
\* record refused is filed as settled, over whatever is there.
EndJournal(r) ==
    /\ \/ Moves(r, "closed", "ended") /\ row' = IF row.run = r THEN NoRow ELSE row
       \/ Moves(r, "aside", "ended") /\ row' = [run |-> r, settled |-> TRUE]
    /\ UNCHANGED <<log, opened, kept, todo, record, stuck, boots>>

\* A boot takes the log away where it is still this run's, then the row.
DropLog(r) ==
    /\ Moves(r, "recovered", "ended")
    /\ log' = IF log.head = r /\ ~row.settled THEN NoLog ELSE log
    /\ row' = NoRow
    /\ UNCHANGED <<opened, kept, todo, record, stuck, boots>>

\* The daemon dies; whatever was not done with is the next boot's, where the
\* row names it.
Reboot ==
    /\ boots < MaxBoots
    /\ boots' = boots + 1
    /\ stage' = [r \in Runs |-> IF stage[r] = "none" THEN "none"
                                ELSE IF stage[r] = "ended" /\ row.run # r THEN "ended" ELSE "cut"]
    /\ todo' = [r \in Runs |-> {}]
    /\ UNCHANGED <<log, opened, kept, record, row, stuck>>

RunStep(r) ==
    \/ Start(r) \/ OpenLog(r) \/ Draw(r) \/ Finish(r)
    \/ StartRecording(r) \/ StartRecovering(r)
    \/ AppendKept(r) \/ RemoveKept(r) \/ AppendOwn(r)
    \/ CloseRecorded(r) \/ CloseRefused(r) \/ EndJournal(r) \/ DropLog(r)

Next == Reboot \/ \E r \in Runs : RunStep(r)

Spec == Init /\ [][Next]_vars

-----------------------------------------------------------------------------
(* Properties.                                                             *)

\* What a boot reads of a run that drew: the record, a log kept of it, the
\* running log, or the rows its settled row carries.
Recoverable(r) ==
    \/ Contains(record, r)
    \/ \E k \in kept : k.head = r
    \/ row.run = r /\ (row.settled \/ log.head = r)

\* No run that drew anything is lost to a crash at any point: "the record goes
\* first and a crash can't lose both" (startTurnRun).
NoRunLost == \A r \in opened : Recoverable(r)

\* No run is written down twice (alreadyRecorded: "so a turn is never recorded
\* twice"), whatever crash falls between the append and what clears it, while
\* every kept log that reached the record could be removed.
RecordedOnce ==
    stuck = {} => \A i, j \in DOMAIN record : record[i] = record[j] => i = j

\* The record keeps turns in order: one it refused goes down before any newer
\* does for the first time (recordUnrecordedRuns).
RecordInOrder ==
    \A i, j \in DOMAIN record :
        i < j /\ record[i] > record[j] => \E first \in 1..(i - 1) : record[first] = record[j]

=============================================================================
