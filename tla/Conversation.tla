---------------------------- MODULE Conversation ----------------------------
(***************************************************************************)
(* One conversation's actor: the state `decide` owns, the books its        *)
(* effects reach (the fleet's entry in memory, the journal row owed with   *)
(* it) and the database they are saved to. One action per event of         *)
(* conversation-decide.ts, its effects run in the order the actor runs     *)
(* them; the senders are any, in any order, so what holds here holds       *)
(* whoever calls. TurnRuns composes it with the runs that send the events. *)
(*                                                                         *)
(* Abstracted: the card's readings (usage, activity, checklist, proof),    *)
(* which no event branches on; broadcasts; a failure's words, of which the *)
(* kind of ending they file is kept. An effect chain is one step: its      *)
(* later effects run in the microtasks behind its save, so only a save     *)
(* that fails, which drops them, can be told from the chain done whole.    *)
(***************************************************************************)
EXTENDS TurnQueue

CONSTANTS
    MaxRun,              \* bound: runs are numbered from 1 in the order they were claimed
    Cards,               \* requests a turn may park on
    Reasons,             \* the walls this instance meets, of AllReasons
    Plans,               \* where a turn held for an allowance goes next, and when
    MaxLands,            \* bound: holders of the land lease at once; 0 leaves rewinds out too
    RETRY_LADDER_TRIES,  \* rungs the stop ladder has
    Messages,            \* what may be said: message records, told apart by id
    Bookings,            \* bookings a message may be given
    MaxRevision,         \* bound: changes to one queue
    Remints,             \* whether a credential is minted again
    WritesFail           \* whether a save may fail

AllReasons == {"limit", "door", "flagged", "stopped", "outage", "overflow", "auth"}

ASSUME ConversationAssumption ==
    /\ MaxRun \in Nat
    /\ MaxLands \in Nat
    /\ MaxRevision \in Nat
    /\ RETRY_LADDER_TRIES \in Nat
    /\ Reasons \subseteq AllReasons
    /\ Remints \in BOOLEAN /\ WritesFail \in BOOLEAN
    /\ \A b \in Bookings : /\ b = [until |-> b.until, after |-> b.after]
                            /\ b.until \in Nat
                            /\ (b.until > 0) # (b.after # NoConv)

Runs == 1..MaxRun
MessageIds == {m.id : m \in Messages}

Endings == {"idle", "interrupted", "stopped", "failed", "limited", "door", "flagged"}

\* The ending a turn files when this is what cut it.
EndingOf(reason) ==
    IF reason = "limit" THEN "limited"
    ELSE IF reason \in {"door", "flagged"} THEN reason ELSE "failed"

NoRow == [run |-> 0, settled |-> FALSE, attempts |-> 0]
NoJournal == [row |-> NoRow, written |-> FALSE]
NoHold == [reason |-> "none", run |-> 0, plan |-> 0, fired |-> FALSE, tries |-> 0]
NoStored == [reason |-> "none", run |-> 0, plan |-> 0, tries |-> 0]
NoEntry == [known |-> FALSE, ending |-> "idle", archived |-> FALSE,
            hold |-> NoStored, queue |-> EmptyQueue]
RestingEntry == [known |-> TRUE, ending |-> "idle", archived |-> FALSE,
                 hold |-> NoStored, queue |-> EmptyQueue]

VARIABLES
    phase,      \* the turn mutex: "idle", "running" or "rewinding"
    parked,     \* the cards the live turn is parked on
    stopping,   \* the stop or dismissal that landed on it, "none" without one
    resuming,   \* the card says the daemon carries the turn on by itself
    failure,    \* the ending its last failure files, "none" without one
    landing,    \* the card says its work is landing
    landHeld,   \* holders of the land lease, the one landing and those behind it
    journal,    \* the record a restart would resume, and whether it was written
    held,       \* the turn a wall stranded
    stopTries,  \* rungs spent without the run getting anywhere
    authFiring, \* a credential re-mint is in flight
    queue,      \* what waits to be said
    entry,      \* the fleet's entry, in memory
    dirty,      \* the entry changed since it was last saved
    owed,       \* the journal row that goes down with the entry's next save
    disk,       \* the database: the entry and the journal row
    missed,     \* ghost: what a failed save cost that nothing has repaired
    rungs,      \* ghost: ladder re-runs since one got somewhere
    forgot      \* ghost: how often since then a restart cost the daemon their count

turnVars == <<phase, parked, stopping, resuming, failure, landing>>
resumeVars == <<held, stopTries, authFiring>>
bookVars == <<entry, dirty, owed, disk, missed>>
climbVars == <<rungs, forgot>>
vars == <<turnVars, landHeld, journal, resumeVars, queue, bookVars, climbVars>>

-----------------------------------------------------------------------------
(* The hold the entry keeps.                                               *)

KeptHold(h) == h.reason \notin {"none", "auth"} /\ ~h.fired

StoredHold(h) ==
    IF KeptHold(h) THEN [reason |-> h.reason, run |-> h.run, plan |-> h.plan, tries |-> h.tries]
    ELSE NoStored

\* Whether an ending is still the wall that held the turn.
StandsBehind(reason, ending) ==
    \/ reason = "limit" /\ ending = "limited"
    \/ reason \in {"door", "flagged"} /\ ending = reason
    \/ /\ reason \in {"stopped", "outage", "overflow"}
       /\ ending \in {"failed", "door", "flagged", "idle"}

Restorable(e) == e.hold # NoStored /\ ~e.archived /\ StandsBehind(e.hold.reason, e.ending)

\* The entry as a boot reads it: a hold its ending no longer matches is taken off.
Restored(e) == IF Restorable(e) THEN e ELSE [e EXCEPT !.hold = NoStored]

\* Mutant of RestoredHold: the hold is made again with its ladder unclimbed.
RestoredAfresh(e) ==
    IF Restorable(e)
    THEN [reason |-> e.hold.reason, run |-> e.hold.run, plan |-> e.hold.plan,
          fired |-> FALSE, tries |-> 0]
    ELSE NoHold

RestoredHold(e) ==
    IF Restorable(e)
    THEN [reason |-> e.hold.reason, run |-> e.hold.run, plan |-> e.hold.plan,
          fired |-> FALSE, tries |-> e.hold.tries]
    ELSE NoHold

ComingBack(e) ==
    Restorable(e) /\ e.hold.reason \in {"stopped", "outage"} /\ e.ending = "idle"

-----------------------------------------------------------------------------
(* The books.                                                              *)

\* Mutant of HoldMoves: a hold taken away is not written.
HoldMade == held' # held /\ KeptHold(held')

HoldMoves == held' # held /\ (KeptHold(held) \/ KeptHold(held'))

HoldWritten(e) == IF e.known THEN [e EXCEPT !.hold = StoredHold(held')] ELSE e

QueueWritten(e) == IF e.known THEN [e EXCEPT !.queue = queue'] ELSE e

\* One save of the fleet: the entry and the row owed, together. `e` is the
\* entry as the effects ahead of the save leave it; a hold this event moved is
\* written onto it first, or, `late`, behind a save of the event's own, which
\* a failed save never reaches.
Saved(e, row, late) ==
    LET kept == IF HoldMoves THEN HoldWritten(e) ELSE e
    IN  \/ /\ entry' = kept
           /\ dirty' = FALSE
           /\ owed' = NoRow
           /\ disk' = [entry |-> kept, row |-> IF row = NoRow THEN disk.row ELSE row]
           /\ missed' = IF HoldMoves THEN missed \ {"hold"} ELSE missed
        \/ /\ WritesFail /\ e.known
           /\ entry' = IF late THEN e ELSE kept
           /\ dirty' = TRUE
           /\ owed' = row
           /\ missed' = IF ~HoldMoves THEN missed
                        ELSE IF late THEN missed \cup {"hold"} ELSE missed \ {"hold"}
           /\ UNCHANGED disk

\* keepLimitHold behind an event that saves nothing of its own.
HoldKept == IF HoldMoves THEN Saved(entry, owed, FALSE) ELSE UNCHANGED bookVars

\* A queue that moved is written onto the entry and saved; one that did not
\* writes nothing.
QueueKept == IF queue' # queue THEN Saved(QueueWritten(entry), owed, TRUE) ELSE HoldKept

Init ==
    /\ phase = "idle" /\ parked = {} /\ stopping = "none"
    /\ resuming = FALSE /\ failure = "none" /\ landing = FALSE
    /\ landHeld = 0
    /\ journal = NoJournal
    /\ held = NoHold /\ stopTries = 0 /\ authFiring = FALSE
    /\ queue = EmptyQueue
    /\ entry = NoEntry /\ dirty = FALSE /\ owed = NoRow
    /\ disk = [entry |-> NoEntry, row |-> NoRow]
    /\ missed = {} /\ rungs = 0 /\ forgot = 0

-----------------------------------------------------------------------------
(* The ladder's count: on the actor, and on an unfired stopped hold, the    *)
(* only place a restart finds it.                                          *)

Counted(h, spent) ==
    IF h.reason = "stopped" /\ ~h.fired /\ h.tries > spent THEN h.tries ELSE spent

CountKept(e) == IF Restorable(e) /\ e.hold.reason = "stopped" THEN e.hold.tries ELSE 0

\* The run got somewhere, or its wall says nothing of a stall: counted afresh.
Fruitful == rungs' = 0 /\ forgot' = 0

\* A hold goes without a rung; one a restart brought back takes the count along.
HoldGone ==
    /\ forgot' = IF rungs > 0 /\ stopTries < Counted(held, stopTries) THEN forgot + 1 ELSE forgot
    /\ UNCHANGED rungs

-----------------------------------------------------------------------------
(* The turn: claimed, told what it says, stopped, settled.                 *)

\* Mutant of Opened: the entry opened misses what already waits.
OpenedBare == [entry EXCEPT !.known = TRUE, !.ending = "interrupted"]

\* The entry a turn opens rests as interrupted, what only a daemon killed before
\* the settle sees; one opened just now missed what already waits.
Opened ==
    [known |-> TRUE, ending |-> "interrupted", archived |-> entry.archived, hold |-> entry.hold,
     queue |-> IF ~entry.known /\ queue.items # << >> THEN queue ELSE entry.queue]

\* The claim is one synchronous step: refused archived, refused busy. A record
\* staged before it goes down in the save that opens the turn.
Begin ==
    /\ ~entry.archived
    /\ phase = "idle"
    /\ phase' = "running" /\ parked' = {} /\ stopping' = "none"
    /\ resuming' = FALSE /\ failure' = "none" /\ landing' = FALSE
    /\ UNCHANGED <<landHeld, resumeVars, queue, climbVars>>
    /\ LET staged == journal.row # NoRow /\ ~journal.written
       IN  /\ journal' = IF staged THEN [journal EXCEPT !.written = TRUE] ELSE journal
           /\ Saved(Opened, IF staged THEN journal.row ELSE owed, FALSE)

\* Mutant of Rewritten: past a row still owed with its entry.
RewrittenAtOnce(row) ==
    /\ disk' = [disk EXCEPT !.row = row]
    /\ missed' = missed \ {"row"}
    /\ UNCHANGED <<entry, dirty, owed>>

\* A row of its own, written or deleted at once; one still owed with the
\* opening entry changes there.
Rewritten(row) ==
    \/ /\ owed # NoRow
       /\ owed' = row
       /\ UNCHANGED <<entry, dirty, disk, missed>>
    \/ /\ owed = NoRow
       /\ \/ /\ disk' = [disk EXCEPT !.row = row]
             /\ missed' = missed \ {"row"}
          \/ /\ WritesFail
             /\ missed' = missed \cup {"row"}
             /\ UNCHANGED disk
       /\ UNCHANGED <<entry, dirty, owed>>

\* Staged until a begin writes it; every version after that is written, a next
\* run's included.
Journalled(row) ==
    /\ journal' = [journal EXCEPT !.row = row]
    /\ IF journal.written THEN Rewritten(row) ELSE UNCHANGED bookVars
    /\ UNCHANGED <<turnVars, landHeld, resumeVars, queue, climbVars>>

\* Mutant of Unjournalled: a late clear takes off whichever run's row is there.
UnjournalledAny(run) ==
    /\ journal' = NoJournal
    /\ IF journal.written THEN Rewritten(NoRow) ELSE UNCHANGED bookVars
    /\ UNCHANGED <<turnVars, landHeld, resumeVars, queue, climbVars>>

\* One another run filed since is that run's.
Unjournalled(run) ==
    /\ journal.row.run = run
    /\ journal' = NoJournal
    /\ IF journal.written THEN Rewritten(NoRow) ELSE UNCHANGED bookVars
    /\ UNCHANGED <<turnVars, landHeld, resumeVars, queue, climbVars>>

\* A failure the daemon picks back up is not how the turn ended.
ErrorComing ==
    /\ resuming' = TRUE
    /\ UNCHANGED <<phase, parked, stopping, failure, landing, landHeld, journal, resumeVars,
                   queue, bookVars, climbVars>>

ErrorFailed(ending) ==
    /\ resuming' = FALSE /\ failure' = ending
    /\ UNCHANGED <<phase, parked, stopping, landing, landHeld, journal, resumeVars, queue,
                   bookVars, climbVars>>

\* A card raised on a turn being torn down, or on none, has nowhere to go.
Park(card) ==
    /\ phase = "running" /\ stopping = "none"
    /\ parked' = parked \cup {card}
    /\ UNCHANGED <<phase, stopping, resuming, failure, landing, landHeld, journal, resumeVars,
                   queue, bookVars, climbVars>>

Resolve(card) ==
    /\ phase = "running" /\ card \in parked
    /\ parked' = parked \ {card}
    /\ UNCHANGED <<phase, stopping, resuming, failure, landing, landHeld, journal, resumeVars,
                   queue, bookVars, climbVars>>

\* Every card goes, and what waits is held so a stopped agent does not start
\* again on its own.
Stop(ending) ==
    /\ phase = "running" /\ stopping = "none"
    /\ stopping' = ending /\ parked' = {}
    /\ queue' = Held(queue, "stopped")
    /\ UNCHANGED <<phase, resuming, failure, landing, landHeld, journal, resumeVars, climbVars>>
    /\ QueueKept

\* With no turn under it (a land by hand) the hold the ending stood behind goes
\* too; with no entry only the turn ends, and its books are kept.
Settle ==
    LET ran == phase = "running"
        ending == IF failure # "none" THEN failure
                  ELSE IF stopping = "stopped" THEN "stopped" ELSE "idle"
    IN  /\ phase' = IF ran THEN "idle" ELSE phase
        /\ parked' = {} /\ stopping' = "none"
        /\ UNCHANGED <<resuming, landing, landHeld, journal, stopTries, authFiring, queue>>
        /\ IF entry.known
           THEN /\ failure' = "none"
                /\ IF ~ran /\ ~held.fired
                   THEN held' = NoHold /\ HoldGone
                   ELSE UNCHANGED <<held, climbVars>>
                /\ Saved([entry EXCEPT !.ending = ending], owed, TRUE)
           ELSE UNCHANGED <<failure, held, climbVars, bookVars>>

\* The wait for a resume is over; a turn still unwinding is asked again.
Abandon ==
    /\ phase # "running" /\ entry.known /\ resuming
    /\ resuming' = FALSE
    /\ UNCHANGED <<phase, parked, stopping, failure, landing, landHeld, journal, resumeVars,
                   queue, climbVars>>
    /\ Saved([entry EXCEPT !.ending = "failed"], owed, FALSE)

PromiseResume ==
    /\ resuming' = TRUE
    /\ UNCHANGED <<phase, parked, stopping, failure, landing, landHeld, journal, resumeVars,
                   queue, bookVars, climbVars>>

-----------------------------------------------------------------------------
(* The leases.                                                             *)

LandLeased ==
    /\ landHeld < MaxLands
    /\ landing' = TRUE /\ landHeld' = landHeld + 1
    /\ UNCHANGED <<phase, parked, stopping, resuming, failure, journal, resumeVars, queue,
                   bookVars, climbVars>>

\* Mutant of LandReleased: a release with no holder counted.
LandReleasedTwice ==
    /\ landHeld' = landHeld - 1
    /\ landing' = (landing /\ landHeld' > 0)
    /\ UNCHANGED <<phase, parked, stopping, resuming, failure, journal, resumeVars, queue,
                   bookVars, climbVars>>

LandReleased ==
    LET left == Max({0, landHeld - 1})
    IN  /\ landHeld' = left
        /\ landing' = (landing /\ left > 0)
        /\ UNCHANGED <<phase, parked, stopping, resuming, failure, journal, resumeVars, queue,
                       bookVars, climbVars>>

RewindLeased ==
    /\ phase = "idle"
    /\ phase' = "rewinding"
    /\ UNCHANGED <<parked, stopping, resuming, failure, landing, landHeld, journal, resumeVars,
                   queue, bookVars, climbVars>>

RewindReleased ==
    /\ phase = "rewinding"
    /\ phase' = "idle"
    /\ UNCHANGED <<parked, stopping, resuming, failure, landing, landHeld, journal, resumeVars,
                   queue, bookVars, climbVars>>

-----------------------------------------------------------------------------
(* The held turn.                                                          *)

\* Only a spent allowance's hold is about which account pays, and when.
PlansOf(reason) == IF reason = "limit" THEN Plans ELSE {0}

\* What every event on the hold leaves alone.
Elsewhere == UNCHANGED <<turnVars, landHeld, journal>>

\* A stopped hold inherits the ladder's count; an outage or a refused
\* credential says nothing of a stall, so restarts it.
TurnHeld(reason, run, plan) ==
    LET provider == reason \in {"outage", "auth"}
    IN  /\ held' = [reason |-> reason, run |-> run, plan |-> plan, fired |-> FALSE,
                    tries |-> IF reason = "stopped" THEN stopTries ELSE 0]
        /\ stopTries' = IF provider THEN 0 ELSE stopTries
        /\ IF provider THEN Fruitful ELSE HoldGone
        /\ UNCHANGED <<authFiring, queue>> /\ Elsewhere
        /\ HoldKept

GotSomewhere ==
    /\ stopTries' = 0 /\ Fruitful
    /\ UNCHANGED <<held, authFiring, queue, bookVars>> /\ Elsewhere

\* A turn starting now moves past the held one, and past the continuations
\* queued behind it.
ResumeSuperseded ==
    /\ held' = NoHold /\ HoldGone
    /\ queue' = Superseded(queue)
    /\ UNCHANGED <<stopTries, authFiring>> /\ Elsewhere
    /\ QueueKept

ResumeDropped ==
    /\ held' = NoHold /\ HoldGone
    /\ UNCHANGED <<stopTries, authFiring, queue>> /\ Elsewhere
    /\ HoldKept

\* The one dispatch a hold gets; a rung also spends a try, and a spent ladder
\* fires no more.
HeldFired(ladder) ==
    /\ held # NoHold /\ ~held.fired
    /\ ladder => held.tries < RETRY_LADDER_TRIES
    /\ held' = [held EXCEPT !.fired = TRUE]
    /\ stopTries' = IF ladder THEN held.tries + 1 ELSE stopTries
    /\ IF ladder THEN rungs' = rungs + 1 /\ UNCHANGED forgot ELSE HoldGone
    /\ UNCHANGED <<authFiring, queue>> /\ Elsewhere
    /\ HoldKept

\* A pick, a re-timing, the wall ahead of it or a hand-off choice: each moves
\* where an unfired limit hold goes next.
HeldReplanned(plan) ==
    /\ held.reason = "limit" /\ ~held.fired
    /\ held' = [held EXCEPT !.plan = plan]
    /\ UNCHANGED <<stopTries, authFiring, queue, climbVars>> /\ Elsewhere
    /\ HoldKept

LadderSpent ==
    /\ held' = IF held = NoHold THEN NoHold ELSE [held EXCEPT !.fired = TRUE]
    /\ stopTries' = 0 /\ Fruitful
    /\ UNCHANGED <<authFiring, queue>> /\ Elsewhere
    /\ HoldKept

AuthFiring(firing) ==
    /\ authFiring' = firing
    /\ UNCHANGED <<held, stopTries, queue, bookVars, climbVars>> /\ Elsewhere

-----------------------------------------------------------------------------
(* What waits. MaxRevision bounds how often one queue changes.             *)

QueueMoves(after) ==
    /\ queue.revision < MaxRevision
    /\ queue' = after
    /\ UNCHANGED <<resumeVars, climbVars>> /\ Elsewhere

QueueJoined(message) == QueueMoves(Joined(queue, message)) /\ QueueKept

\* A message sent for later may open its conversation first: an entry resting
\* as idle, since no turn ran, saved with the queue.
QueueScheduled(message, booking, opening) ==
    LET booked == IF opening /\ ~entry.known THEN RestingEntry ELSE entry
    IN  /\ QueueMoves(Scheduled(queue, message, booking))
        /\ IF queue' # queue
           THEN Saved(QueueWritten(booked), owed, TRUE)
           ELSE /\ entry' = booked
                /\ dirty' = (dirty \/ booked # entry)
                /\ UNCHANGED <<owed, disk, missed>>

\* A message named that no longer waits: nothing is re-timed in its place.
QueueRescheduled(booking, ids) ==
    ids \subseteq Ids(queue.items) /\ QueueMoves(Rescheduled(queue, booking, ids)) /\ QueueKept

QueueTaken(ids) == QueueMoves(Taken(queue, ids)) /\ QueueKept

QueueReturned(messages) == QueueMoves(Returned(queue, messages)) /\ QueueKept

QueueRemoved(id, revision) == QueueMoves(Removed(queue, id, revision)) /\ QueueKept

QueueEdited(id, revision, text) == QueueMoves(Edited(queue, id, revision, text)) /\ QueueKept

QueueReleased(ids) == QueueMoves(Released(queue, ids)) /\ QueueKept

QueueReleasedAs(serves, ids) ==
    QueueMoves(Released(Rerouted(queue, serves, ids), ids)) /\ QueueKept

QueueRerouted(serves, ids) == QueueMoves(Rerouted(queue, serves, ids)) /\ QueueKept

-----------------------------------------------------------------------------
(* The entry, the other conversations' saves, and the process.             *)

\* Mutant of Archived: the mark is made in memory and nothing owes its save.
ArchivedUnsaved(archived) ==
    /\ entry.known
    /\ entry' = [entry EXCEPT !.archived = archived]
    /\ UNCHANGED <<turnVars, landHeld, journal, resumeVars, queue, dirty, owed, disk, missed,
                   climbVars>>

Archived(archived) ==
    /\ entry.known
    /\ UNCHANGED <<turnVars, landHeld, journal, resumeVars, queue, climbVars>>
    /\ Saved([entry EXCEPT !.archived = archived], owed, FALSE)

\* A save is of every entry changed since the last, whoever asked for it.
OtherSaved ==
    /\ dirty \/ owed # NoRow
    /\ UNCHANGED <<turnVars, landHeld, journal, resumeVars, queue, climbVars>>
    /\ Saved(entry, owed, FALSE)

\* An actor as it is made: whatever the entry kept waiting, and nothing else.
Fresh(kept) ==
    /\ phase' = "idle" /\ parked' = {} /\ stopping' = "none"
    /\ failure' = "none" /\ landing' = FALSE /\ landHeld' = 0
    /\ journal' = NoJournal
    /\ stopTries' = 0 /\ authFiring' = FALSE
    /\ queue' = kept

\* The process dies and the next one boots: the books as the database has them,
\* and ahead of anything that could start a turn the hold the entry kept.
Restart ==
    /\ Fresh(disk.entry.queue)
    /\ entry' = Restored(disk.entry)
    /\ dirty' = FALSE /\ owed' = NoRow /\ missed' = {}
    /\ held' = RestoredHold(disk.entry)
    /\ resuming' = ComingBack(disk.entry)
    /\ forgot' = IF rungs > 0 /\ CountKept(disk.entry) < Counted(held, stopTries)
                 THEN forgot + 1 ELSE forgot
    /\ UNCHANGED <<disk, rungs>>

\* Purged: the actor first, then its rows; rows a failed removal leaves are
\* the next boot's.
Disposed ==
    /\ entry.known
    /\ Fresh(EmptyQueue)
    /\ held' = NoHold /\ resuming' = FALSE /\ Fruitful
    /\ entry' = NoEntry /\ dirty' = FALSE /\ owed' = NoRow
    /\ \/ disk' = [entry |-> NoEntry, row |-> NoRow] /\ missed' = {}
       \/ WritesFail /\ missed' = {"rows"} /\ UNCHANGED disk

-----------------------------------------------------------------------------
(* Any sender, any order.                                                  *)

\* No wall to meet, no failure and no promise to carry on.
TurnEvents ==
    \/ Begin
    \/ Reasons # {} /\ (ErrorComing \/ PromiseResume)
    \/ \E ending \in {EndingOf(reason) : reason \in Reasons} : ErrorFailed(ending)
    \/ \E card \in Cards : Park(card) \/ Resolve(card)
    \/ \E ending \in {"stopped", "dismissed"} : Stop(ending)
    \/ Settle
    \/ Abandon

JournalEvents ==
    \E run \in Runs :
        \/ \E settled \in BOOLEAN : Journalled([run |-> run, settled |-> settled, attempts |-> 0])
        \/ Unjournalled(run)

LeaseEvents == MaxLands > 0 /\ (LandLeased \/ LandReleased \/ RewindLeased \/ RewindReleased)

\* Held under an entry the fleet has: the one turn held without one, a door's
\* refusal of a conversation's very first turn, is TurnRuns' to show.
HoldEvents ==
    \/ /\ entry.known
       /\ \E reason \in Reasons, run \in Runs \cup {0} :
             \E plan \in PlansOf(reason) : TurnHeld(reason, run, plan)
    \/ GotSomewhere
    \/ ResumeSuperseded
    \/ ResumeDropped
    \/ \E ladder \in BOOLEAN : (ladder => held.reason = "stopped") /\ HeldFired(ladder)
    \/ \E plan \in Plans : HeldReplanned(plan)
    \/ LadderSpent
    \/ Remints /\ \E firing \in BOOLEAN : AuthFiring(firing)

QueueEvents ==
    LET here == Ids(queue.items)
        serving == {m.serves : m \in Messages}
        texts == {m.text : m \in Messages}
        versions == 1..queue.revision
    IN  \/ \E m \in Messages : QueueJoined(m)
        \/ \E m \in Messages, b \in Bookings, opening \in BOOLEAN :
              (opening => m.id \notin here) /\ QueueScheduled(m, b, opening)
        \/ \E b \in Bookings, ids \in SUBSET here : QueueRescheduled(b, ids)
        \/ \E ids \in SUBSET here : QueueTaken(ids)
        \/ \E m \in Messages : QueueReturned(<<m>>)
        \/ \E id \in here, revision \in versions : QueueRemoved(id, revision)
        \/ \E id \in here, revision \in versions, text \in texts : QueueEdited(id, revision, text)
        \/ \E ids \in SUBSET here : QueueReleased(ids)
        \/ \E serves \in serving, ids \in SUBSET here :
               QueueReleasedAs(serves, ids) \/ QueueRerouted(serves, ids)

ProcessEvents ==
    \/ \E archived \in BOOLEAN : Archived(archived)
    \/ OtherSaved
    \/ Restart
    \/ Disposed

Next == TurnEvents \/ JournalEvents \/ LeaseEvents \/ HoldEvents \/ QueueEvents \/ ProcessEvents

Spec == Init /\ [][Next]_vars

-----------------------------------------------------------------------------
(* Properties.                                                             *)

RowType == [run : Runs \cup {0}, settled : BOOLEAN, attempts : Nat]

\* The types of everything but what waits.
StateType ==
    /\ phase \in {"idle", "running", "rewinding"}
    /\ parked \subseteq Cards
    /\ stopping \in {"none", "stopped", "dismissed"}
    /\ resuming \in BOOLEAN /\ landing \in BOOLEAN
    /\ failure \in Endings \cup {"none"}
    /\ landHeld \in 0..MaxLands
    /\ journal \in [row : RowType, written : BOOLEAN]
    /\ held \in [reason : Reasons \cup {"none"}, run : Runs \cup {0}, plan : Plans \cup {0},
                 fired : BOOLEAN, tries : Nat]
    /\ stopTries \in Nat /\ authFiring \in BOOLEAN
    /\ dirty \in BOOLEAN
    /\ rungs \in Nat /\ forgot \in Nat
    /\ missed \subseteq {"hold", "row", "rows"}

EntryType(e) ==
    /\ e.known \in BOOLEAN /\ e.archived \in BOOLEAN /\ e.ending \in Endings
    /\ e.hold \in [reason : Reasons \cup {"none"}, run : Runs \cup {0}, plan : Plans \cup {0},
                  tries : Nat]

BooksType ==
    /\ EntryType(entry) /\ EntryType(disk.entry)
    /\ owed \in RowType /\ disk.row \in RowType

Queued ==
    LET of(field) == {m[field] : m \in Messages}
    IN  [id : of("id"), voice : of("voice"), actor : of("actor"), continues : of("continues"),
         files : of("files"), text : of("text"), serves : of("serves"),
         booking : Bookings \cup {NoBooking}, revision : 1..MaxRevision]

\* No message waits twice, and the queue-level reading is of what waits: a hold
\* has something to hold, a `scheduled` pause names a booking that stands.
QueueType(q) ==
    /\ q.items \in Seq(Queued) /\ q.revision \in Nat
    /\ q.paused \in Holds \cup {"none", "scheduled"}
    /\ q.soonest \in Bookings \cup {NoBooking}
    /\ \A i, j \in DOMAIN q.items : i # j => q.items[i].id # q.items[j].id
    /\ q.paused \in Holds => AnyWaits(q.items)
    /\ q.paused = "scheduled" <=> q.soonest # NoBooking

\* Types, of the state, of both copies of the entry and of both queues.
TypeOK ==
    /\ StateType /\ BooksType
    /\ QueueType(queue) /\ QueueType(entry.queue) /\ QueueType(disk.entry.queue)

\* A save that failed is remembered: an entry nobody owes a save reads the same
\* from the database as from memory, so whatever restarts the daemon finds the
\* conversation as its windows last saw it (replace, persist and remove).
EntryOnDisk ==
    ~dirty /\ "rows" \notin missed => Restored(disk.entry) = Restored(entry)

\* The actor's queue and the entry's never part: every message waiting is on the
\* record a restart reads, and none that left it still is (withQueue, and the
\* queue a begin writes onto the entry it opens).
QueueOnEntry ==
    entry.known => entry.queue.items = queue.items /\ entry.queue.paused = queue.paused

\* The entry keeps exactly the hold the actor has, whichever event moved it
\* (keepLimitHold), but where a failed save cut the effects short.
HoldOnEntry ==
    entry.known /\ "hold" \notin missed => entry.hold = StoredHold(held)

\* The record of the newest run is the one a restart reads: on disk, or owed
\* with the entry's next save (onJournalled, onUnjournalled, books.journal).
JournalOnDisk ==
    journal.written /\ "row" \notin missed => journal.row \in {owed, disk.row}

\* A stopped turn is picked back up at most RETRY_LADDER_TRIES times without
\* getting anywhere, whatever refusals, presses and superseding turns come
\* between, and as many times again for each restart that cost the daemon the
\* count: one during the re-run, whose hold is fired and so not kept, or before
\* a turn that supersedes the hold it brought back (onHeld, onHeldFired).
LadderBound == rungs <= RETRY_LADDER_TRIES * (1 + forgot)

\* The same as if no restart cost it any (limit-hold.ts: "so a restart neither
\* forgets them nor climbs them again").
RungsRemembered == rungs <= RETRY_LADDER_TRIES

\* Why: the count the daemon goes by is behind the rungs spent by no more than
\* the restarts cost it, and a hold inherits it.
LadderCount ==
    /\ rungs <= RETRY_LADDER_TRIES * forgot + Counted(held, stopTries)
    /\ stopTries <= RETRY_LADDER_TRIES
    /\ held.tries <= RETRY_LADDER_TRIES
    /\ held.reason = "stopped" /\ ~held.fired => stopTries <= held.tries

\* Whether x waits ahead of y.
Ahead(q, x, y) ==
    \E i, j \in DOMAIN q.items : i < j /\ q.items[i].id = x /\ q.items[j].id = y

\* Two messages that both stay waiting stay in the order they were sent, over
\* every booking, hand-back, release and restart (conversation-queue.ts).
OrderKept ==
    [][queue' # queue /\ ~(dirty /\ Restart) =>
          \A x, y \in Ids(queue.items) \cap Ids(queue'.items) :
              Ahead(queue, x, y) => Ahead(queue', x, y)]_vars

\* A turn's beginning, stop, settle or superseding of another, and a crash with
\* nothing unsaved, take no words and no appointment (hold, superseded, onBegin).
WordsOutliveTurns ==
    [][(\E i \in DOMAIN queue.items :
          /\ ~queue.items[i].continues
          /\ \A j \in DOMAIN queue'.items : queue'.items[j] # queue.items[i])
       => ~(\/ Begin \/ Stop("stopped") \/ Stop("dismissed") \/ Settle \/ ResumeSuperseded
            \/ ~dirty /\ entry.known /\ Restart)]_vars

\* What a stop or a refusal held goes again only because a person sent words, or a
\* press or a due booking let it go, never because a report or an automation
\* joined behind it (joined).
StopHolds ==
    [][/\ HoldOf(queue) # "none" /\ HoldOf(queue') = "none"
       /\ AnyWaits(queue'.items) /\ ~(dirty /\ Restart)
       => \/ \E m \in Messages : m.voice = "person" /\ QueueJoined(m)
          \/ \E ids \in SUBSET Ids(queue.items) :
                \/ QueueReleased(ids)
                \/ \E m \in Messages : QueueReleasedAs(m.serves, ids)]_vars

=============================================================================
