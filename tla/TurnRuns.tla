------------------------------- MODULE TurnRuns -------------------------------
(***************************************************************************)
(* One conversation's runs, from the turn accepted to its record written,  *)
(* over the conversation actor they tell: startTurnRun's pump, the turn    *)
(* placed and settled inside it, the journal row kept beside it, the       *)
(* re-run of a held turn, a land by hand, a rewind, and the daemon dying   *)
(* at any point and the next one recovering what it cut.                   *)
(*                                                                         *)
(* Abstracted: what a turn says; parked cards put back at a boot (a parked *)
(* turn is cut like any other here); the answers and instants the resume   *)
(* pass waits on, so it may judge any hold at any time; the saves other    *)
(* conversations ask for, which are Conversation's to show. A settle and   *)
(* the run's finish behind it are one step: between them all is refused    *)
(* busy.                                                                   *)
(***************************************************************************)
EXTENDS Conversation

CONSTANTS
    MAX_RESUME_ATTEMPTS,  \* re-runs a boot gives one turn
    MaxBoots,             \* bound: restarts
    RecordsFail,          \* whether what a turn drew, or a boot's own write of a row, may fail
    EarlyTurns,           \* whether a turn may start while a boot still recovers the last
    HandLands             \* whether finished work is landed by hand

ASSUME TurnRunsAssumption ==
    /\ MAX_RESUME_ATTEMPTS \in Nat /\ MaxBoots \in Nat
    /\ RecordsFail \in BOOLEAN /\ EarlyTurns \in BOOLEAN /\ HandLands \in BOOLEAN

VARIABLES
    runs,      \* how far each run is
    pass,      \* what the resume pass is in the middle of, across its awaits
    judged,    \* the hold it judged
    left,      \* the journal row the boot read before its gate opened
    recovery,  \* how far its recovery is
    boots      \* restarts so far

runVars == <<runs, pass, judged, left, recovery, boots>>
allVars == <<vars, runVars>>

\* A turn between its begin and its settle, and one not done yet.
LiveStages == {"begun", "going", "failing", "closing"}
OpenStages == LiveStages \cup {"accepted"}
Stages == OpenStages \cup {"none", "finished", "recorded", "unrecorded", "ended", "cut"}

NoRun == [stage |-> "none", attempts |-> 0, origin |-> 0, wall |-> "none"]

Live == {r \in Runs : runs[r].stage \in LiveStages}
Open == {r \in Runs : runs[r].stage \in OpenStages}

\* The next number a run is given.
Unused(r) == runs[r].stage = "none" /\ \A q \in Runs : q < r => runs[q].stage # "none"

RunsInit ==
    /\ Init
    /\ runs = [r \in Runs |-> NoRun]
    /\ pass = "none" /\ judged = NoHold
    /\ left = NoRow /\ recovery = "none" /\ boots = 0

Moves(r, from, to) ==
    /\ runs[r].stage = from
    /\ runs' = [runs EXCEPT ![r].stage = to]
    /\ UNCHANGED <<pass, judged, left, recovery, boots>>

-----------------------------------------------------------------------------
(* A run, from its claim to its record.                                    *)

\* Refused archived, refused busy while another run is not done; claimed, it is
\* told to the actor's journal at once.
Accept(r, attempts, origin) ==
    /\ Unused(r) /\ ~entry.archived /\ Open = {}
    /\ runs' = [runs EXCEPT ![r] = [stage |-> "accepted", attempts |-> attempts,
                                    origin |-> origin, wall |-> "none"]]
    /\ Journalled([run |-> r, settled |-> FALSE, attempts |-> attempts])

\* A person's turn, or one the sandbox starts for itself.
SendTurn(r) ==
    /\ EarlyTurns \/ recovery = "none"
    /\ Accept(r, 0, r)
    /\ UNCHANGED <<pass, judged, left, recovery, boots>>

\* Refused at a gate ahead of the begin, a privacy shield's over a runner: the
\* turn is held for a press unless its sender keeps the words.
TurnedAway(r) ==
    /\ "door" \in Reasons
    /\ Moves(r, "accepted", "finished")
    /\ TurnHeld("door", r, 0) \/ UNCHANGED vars

\* Its begin granted, or the save that opens the turn failing, which throws
\* ahead of everything that would have settled it.
BeginRun(r) ==
    /\ Begin
    /\ Moves(r, "accepted", IF dirty' THEN "finished" ELSE "begun")

BeginRefused(r) ==
    /\ entry.archived \/ phase # "idle"
    /\ Moves(r, "accepted", "finished")
    /\ UNCHANGED vars

\* The session it minted, folded into its row as it runs.
SessionMinted(r) ==
    /\ runs[r].stage = "going"
    /\ Journalled([run |-> r, settled |-> FALSE, attempts |-> runs[r].attempts])
    /\ UNCHANGED runVars

\* Placed and prepared: what was held is superseded.
GoOn(r) == Moves(r, "begun", "going") /\ ResumeSuperseded

\* The placement could not open, or the turn was stopped while it did.
OpenFails(r) == Moves(r, "begun", "closing") /\ ErrorFailed("failed")

Cut(r) ==
    /\ stopping # "none"
    /\ Moves(r, "begun", "closing") \/ Moves(r, "going", "closing")
    /\ UNCHANGED vars

\* A wall: its frame first, promising a resume or filing the failure, then, at
\* the turn's exit, the turn held for it. A full disk refuses at the placement.
Promised == {"stopped", "outage", "overflow", "auth"}

MeetsWall(r, reason) ==
    /\ runs[r].stage = "going" \/ (runs[r].stage = "begun" /\ reason = "door")
    /\ runs' = [runs EXCEPT ![r].stage = "failing", ![r].wall = reason]
    /\ UNCHANGED <<pass, judged, left, recovery, boots>>
    /\ \/ reason \in Promised /\ ErrorComing
       \/ reason # "overflow" /\ ErrorFailed(EndingOf(reason))

HeldAtExit(r) ==
    /\ Moves(r, "failing", "closing")
    /\ \E plan \in PlansOf(runs[r].wall) : TurnHeld(runs[r].wall, r, plan)

\* It ends clean, having got somewhere or not, or in a failure nothing holds.
EndsClean(r) == Moves(r, "going", "closing") /\ (GotSomewhere \/ UNCHANGED vars)

EndsFailed(r) == Moves(r, "going", "closing") /\ ErrorFailed("failed")

CloseRun(r) == Moves(r, "closing", "finished") /\ Settle

\* The settled rows onto the record, ahead of the journal's clear.
Record(r) ==
    /\ \/ Moves(r, "finished", "recorded")
       \/ RecordsFail /\ Moves(r, "finished", "unrecorded")
    /\ UNCHANGED vars

\* Mutant of EndJournal: a run the record refused is journalled as if in flight.
EndJournalUnsettled(r) ==
    \/ /\ Moves(r, "recorded", "ended")
       /\ Unjournalled(r) \/ (journal.row.run # r /\ UNCHANGED vars)
    \/ /\ Moves(r, "unrecorded", "ended")
       /\ Journalled([run |-> r, settled |-> FALSE, attempts |-> runs[r].attempts])

\* No longer in flight: off the journal, unless another run filed its own there
\* since; one whose record did not take it stays journalled as settled.
EndJournal(r) ==
    \/ /\ Moves(r, "recorded", "ended")
       /\ Unjournalled(r) \/ (journal.row.run # r /\ UNCHANGED vars)
    \/ /\ Moves(r, "unrecorded", "ended")
       /\ Journalled([run |-> r, settled |-> TRUE, attempts |-> runs[r].attempts])

-----------------------------------------------------------------------------
(* Beside the run.                                                         *)

StopRun == (\E ending \in {"stopped", "dismissed"} : Stop(ending)) /\ UNCHANGED runVars

\* Mutant of LandByHand: settled whatever runs under it.
LandByHandAnyway == HandLands /\ entry.known /\ Settle /\ UNCHANGED runVars

\* Asked with no await before the settle: only on a conversation at rest.
LandByHand ==
    /\ HandLands /\ entry.known /\ phase # "running"
    /\ Settle
    /\ UNCHANGED runVars

RewindRun == (RewindLeased \/ RewindReleased) /\ UNCHANGED runVars

\* A press asks whether a turn runs some awaits before the mark.
ArchiveRun == (\E archived \in BOOLEAN : Archived(archived)) /\ UNCHANGED runVars

-----------------------------------------------------------------------------
(* The resume pass, one at a time, each act naming the hold it judged.     *)

Passes(to) ==
    /\ pass' = to
    /\ UNCHANGED <<runs, judged, left, recovery, boots>>

Judges(to) ==
    /\ pass = "none" /\ recovery = "none" /\ ~held.fired
    /\ pass' = to /\ judged' = held
    /\ UNCHANGED <<runs, left, recovery, boots>>

\* The hold is stamped fired, or an outage's dropped, and the turn started
\* again behind an await.
FireHeld ==
    /\ held.reason \in {"limit", "stopped", "overflow"}
    /\ HeldFired(held.reason = "stopped")
    /\ Judges("fired")

FireOutage == held.reason = "outage" /\ ResumeDropped /\ Judges("fired")

\* A refused credential is minted again first, a call to its provider.
FireAuth == held.reason = "auth" /\ ~authFiring /\ AuthFiring(TRUE) /\ Judges("remint")

\* It threw, or the conversation is busy: asked again at a later pass.
RemintLater == pass = "remint" /\ AuthFiring(FALSE) /\ Passes("none")

\* Answered over by a conversation with no turn running, whether or not a wait
\* was left to end.
WaitEnded ==
    \/ Abandon
    \/ phase # "running" /\ ~(entry.known /\ resuming) /\ UNCHANGED vars

RemintDead == pass = "remint" /\ WaitEnded /\ Passes("reminted")

Rerun(r) ==
    /\ pass \in {"fired", "remint"}
    /\ pass' = IF pass = "fired" THEN "none" ELSE "reminted"
    /\ Accept(r, 0, r)
    /\ UNCHANGED <<judged, left, recovery, boots>>

RerunRefused ==
    /\ \/ pass = "fired" /\ (entry.archived \/ Open # {}) /\ Passes("none")
       \/ pass = "remint" /\ entry.archived /\ Passes("reminted")
    /\ UNCHANGED vars

\* The re-mint answered: its hold is dropped, whichever one stands by now.
DropReminted == pass = "reminted" /\ ResumeDropped /\ Passes("released")

RemintOver == pass = "released" /\ AuthFiring(FALSE) /\ Passes("none")

\* Past its deadline or its ladder: the card is told, and once that is saved
\* the hold it judged is let go or stood down.
GiveUp == held.reason \in {"auth", "outage", "stopped"} /\ WaitEnded /\ Judges("givenUp")

SpendGivenUp ==
    /\ pass = "givenUp"
    /\ Passes("none")
    /\ IF held # judged THEN UNCHANGED vars
       ELSE IF held.reason = "stopped" THEN LadderSpent
       ELSE ResumeDropped

\* The answer to how it ended is now to wait: the promise goes, the hold stays
\* for a press, whose turn starts as any does (SendTurn).
WithdrawResume ==
    /\ held.reason \in {"stopped", "outage"} /\ ~held.fired /\ pass = "none" /\ recovery = "none"
    /\ Abandon
    /\ UNCHANGED runVars

-----------------------------------------------------------------------------
(* The daemon dies, and the next one boots.                                *)

Reboot ==
    /\ boots < MaxBoots
    /\ boots' = boots + 1
    /\ Restart
    /\ runs' = [r \in Runs |-> IF runs[r].stage \in {"none", "ended"} THEN runs[r]
                               ELSE [runs[r] EXCEPT !.stage = "cut"]]
    /\ pass' = "none" /\ judged' = NoHold
    /\ left' = disk.row
    /\ recovery' = IF disk.row = NoRow THEN "none" ELSE "read"

\* The journal's rows as recovery writes them: past the actor, at once.
RowWritten(row) ==
    /\ disk' = [disk EXCEPT !.row = row]
    /\ UNCHANGED <<turnVars, landHeld, journal, resumeVars, queue, entry, dirty, owed, missed,
                   climbVars>>

Recovers(from, to) ==
    /\ recovery = from
    /\ recovery' = to
    /\ UNCHANGED <<runs, pass, judged, left, boots>>

\* What a cut turn drew is recorded before its row is spent or cleared; a record
\* that refuses keeps the row for the next boot. Whether an unsettled turn goes
\* again is the boot's policy, within its attempts.
RecordLeft ==
    /\ \/ Recovers("read", "clearing")
       \/ ~left.settled /\ left.attempts < MAX_RESUME_ATTEMPTS /\ Recovers("read", "spending")
       \/ RecordsFail /\ Recovers("read", "none")
    /\ UNCHANGED vars

ClearLeft ==
    /\ Recovers("clearing", "none")
    /\ RowWritten(NoRow) \/ (RecordsFail /\ UNCHANGED vars)

\* The attempt is on disk before the turn starts again; a row that cannot be
\* spent is dropped.
SpendLeft ==
    /\ Recovers("spending", "starting")
    /\ \/ RowWritten([left EXCEPT !.attempts = @ + 1])
       \/ RecordsFail /\ (RowWritten(NoRow) \/ UNCHANGED vars)

\* Mutant of RerunLeft: the re-run's row starts its attempts over.
RerunLeftAfresh(r) ==
    /\ recovery = "starting"
    /\ recovery' = "none"
    /\ Accept(r, 0, runs[left.run].origin)
    /\ UNCHANGED <<pass, judged, left, boots>>

RerunLeft(r) ==
    /\ recovery = "starting"
    /\ recovery' = "none"
    /\ Accept(r, left.attempts + 1, runs[left.run].origin)
    /\ UNCHANGED <<pass, judged, left, boots>>

RerunLeftRefused ==
    /\ entry.archived \/ Open # {}
    /\ Recovers("starting", "none")
    /\ UNCHANGED vars

-----------------------------------------------------------------------------

RunStep(r) ==
    \/ SendTurn(r) \/ TurnedAway(r) \/ BeginRun(r) \/ BeginRefused(r)
    \/ SessionMinted(r) \/ GoOn(r) \/ OpenFails(r) \/ Cut(r)
    \/ \E reason \in Reasons : MeetsWall(r, reason)
    \/ HeldAtExit(r) \/ EndsClean(r) \/ EndsFailed(r) \/ CloseRun(r)
    \/ Record(r) \/ EndJournal(r)
    \/ Rerun(r) \/ RerunLeft(r)

RunsNext ==
    \/ \E r \in Runs : RunStep(r)
    \/ StopRun \/ LandByHand \/ RewindRun \/ ArchiveRun
    \/ FireHeld \/ FireOutage \/ FireAuth \/ RerunRefused
    \/ RemintLater \/ RemintDead \/ DropReminted \/ RemintOver
    \/ GiveUp \/ SpendGivenUp \/ WithdrawResume
    \/ Reboot \/ RecordLeft \/ ClearLeft \/ SpendLeft \/ RerunLeftRefused

RunsSpec == RunsInit /\ [][RunsNext]_allVars

-----------------------------------------------------------------------------
(* Properties.                                                             *)

RunType == [stage : Stages, attempts : 0..MAX_RESUME_ATTEMPTS, origin : Runs \cup {0},
            wall : Reasons \cup {"none"}]

RunsTypeOK ==
    /\ runs \in [Runs -> RunType]
    /\ pass \in {"none", "fired", "remint", "reminted", "released", "givenUp"}
    /\ judged.reason \in Reasons \cup {"none"} /\ judged.run \in Runs \cup {0}
    /\ left \in RowType /\ left.attempts <= MAX_RESUME_ATTEMPTS
    /\ recovery \in {"none", "read", "clearing", "spending", "starting"}
    /\ boots \in 0..MaxBoots

\* The two records of whether a conversation runs agree, both ways
\* (conversations/invariant.ts): the actor's phase is `running` exactly while
\* one run is between its begin and its settle. A phase with no run answers
\* every later begin busy, and what waits never goes.
PhaseHasRun ==
    /\ (phase = "running") <=> (Live # {})
    /\ \A r, q \in Live : r = q

\* While a turn is in flight the row a crash would leave is that turn's, so a
\* boot carries on the newest run and never one that was done (onJournalled).
LiveRunOnDisk ==
    \A r \in Live : "row" \in missed \/ (IF owed # NoRow THEN owed.run ELSE disk.row.run) = r

\* A turn the daemon died under is run again at most MAX_RESUME_ATTEMPTS times,
\* however often the re-run takes the daemon down with it (spendAttempt).
RestartsBounded ==
    \A o \in Runs : Cardinality({r \in Runs : runs[r].origin = o}) <= 1 + MAX_RESUME_ATTEMPTS

\* No run is started again once its settle is on the record and its row cleared.
EndedStaysEnded ==
    [][\A r \in Runs : RerunLeft(r) => runs[left.run].stage # "ended"]_allVars

\* A card that says the daemon carries the turn on by itself is about a run in
\* flight, a hold the resume pass will come to, or a re-run on its way
\* (TurnRuntime.resuming: "a recovery the daemon is already running").
ResumingHasRecovery ==
    resuming => Open # {} \/ (held # NoHold /\ ~held.fired) \/ pass # "none"

\* What the pass drops behind an await is the hold it judged, never one made
\* since (stillHeld: "Asked right before acting, with no await in between").
HoldDroppedAsJudged == pass = "reminted" => held \in {NoHold, judged}

================================================================================
