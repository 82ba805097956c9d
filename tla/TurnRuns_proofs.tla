--------------------------- MODULE TurnRuns_proofs ---------------------------
(***************************************************************************)
(* What holds of a conversation, its books and its runs.                   *)
(*                                                                         *)
(* First of the actor and its books (module Conversation), for every       *)
(* number of runs, cards, messages and tries, saves failing or not: the    *)
(* types, the bound of the stop ladder, the hold and the queue the entry   *)
(* keeps, the record's row, the entry the database has, and the order,     *)
(* words and holds of what waits.  Each is an inductive invariant on top   *)
(* of the types of everything but the queue; a lemma per family of events  *)
(* shows it kept, resting on one lemma of what a save does.                *)
(*                                                                         *)
(* Then of its runs (module TurnRuns), for every number of runs, restarts  *)
(* and re-runs: the phase and the runs agree, the row a crash would leave  *)
(* is the newest run's, a turn its restarts cut is run again a bounded     *)
(* number of times, and one that is over is not run again.  Each rests on  *)
(* what kind of step a step is, which the first lemmas settle once.        *)
(***************************************************************************)
EXTENDS TurnRuns, TurnQueue_proofs, FiniteSetTheorems

USE ConversationAssumption DEF climbVars

HoldShape ==
    [reason : Reasons \cup {"none"}, run : Runs \cup {0}, plan : Plans \cup {0},
     fired : BOOLEAN, tries : Nat]

StoredShape ==
    [reason : Reasons \cup {"none"}, run : Runs \cup {0}, plan : Plans \cup {0}, tries : Nat]

\* An entry's record, whatever its queue holds.
EntryShape(e) ==
    /\ e = [known |-> e.known, ending |-> e.ending, archived |-> e.archived,
            hold |-> e.hold, queue |-> e.queue]
    /\ EntryType(e)

Books ==
    /\ EntryShape(entry) /\ EntryShape(disk.entry)
    /\ disk = [entry |-> disk.entry, row |-> disk.row]
    /\ owed \in RowType /\ disk.row \in RowType
    /\ dirty \in BOOLEAN
    /\ missed \subseteq {"hold", "row", "rows"}

Turn ==
    /\ phase \in {"idle", "running", "rewinding"}
    /\ parked \subseteq Cards
    /\ stopping \in {"none", "stopped", "dismissed"}
    /\ resuming \in BOOLEAN /\ landing \in BOOLEAN
    /\ failure \in Endings \cup {"none"}
    /\ landHeld \in 0..MaxLands
    /\ journal \in [row : RowType, written : BOOLEAN]

Resume ==
    /\ held \in HoldShape
    /\ stopTries \in Nat /\ authFiring \in BOOLEAN
    /\ rungs \in Nat /\ forgot \in Nat

Types == Books /\ Turn /\ Resume

\* The lease count a release leaves stays a count.
LEMMA FlooredLands ==
    ASSUME NEW n \in 0..MaxLands
    PROVE  Max({0, n - 1}) \in 0..MaxLands
<1>1. \E m \in {0, n - 1} : \A y \in {0, n - 1} : m >= y
    OBVIOUS
<1>2. Max({0, n - 1}) \in {0, n - 1} /\ \A y \in {0, n - 1} : Max({0, n - 1}) >= y
    BY <1>1 DEF Max
<1>3. QED BY <1>2

\* What the entry stores of a hold is of the stored shape.
LEMMA StoredHoldShape ==
    ASSUME NEW h \in HoldShape
    PROVE  StoredHold(h) \in StoredShape
BY DEF HoldShape, StoredShape, StoredHold, KeptHold, NoStored

\* keepLimitHold writes a well-formed entry.
LEMMA WrittenShape ==
    ASSUME NEW e, EntryShape(e), held' \in HoldShape
    PROVE  EntryShape(HoldWritten(e))
BY StoredHoldShape DEF EntryShape, EntryType, HoldWritten, StoredShape

\* A boot reads back a well-formed entry, and a well-formed held turn.
LEMMA RestoredShape ==
    ASSUME NEW e, EntryShape(e)
    PROVE  EntryShape(Restored(e)) /\ RestoredHold(e) \in HoldShape
BY DEF EntryShape, EntryType, Restored, RestoredHold, HoldShape, NoStored, NoHold

\* A save, done or refused, leaves the books well-typed (persist).
LEMMA SavedTypes ==
    ASSUME Books, held' \in HoldShape,
           NEW e, EntryShape(e), NEW row \in RowType, NEW late \in BOOLEAN,
           Saved(e, row, late)
    PROVE  Books'
<1>1. EntryShape(HoldWritten(e)) BY WrittenShape
<1>2. NoRow \in RowType BY DEF NoRow, RowType
<1>3. EntryShape(entry') /\ EntryShape(disk.entry')
  BY <1>1 DEF Saved, Books
<1>4. disk' = [entry |-> disk.entry', row |-> disk.row'] /\ disk.row' \in RowType
  BY DEF Saved, Books
<1>5. owed' \in RowType /\ dirty' \in BOOLEAN /\ missed' \subseteq {"hold", "row", "rows"}
  BY <1>2 DEF Saved, Books
<1>6. QED BY <1>3, <1>4, <1>5 DEF Books, EntryShape, EntryType

\* An event that reaches no book leaves them well-typed.
LEMMA BooksKept ==
    ASSUME Books, UNCHANGED bookVars
    PROVE  Books'
BY DEF Books, bookVars, EntryShape, EntryType, RowType

\* An event on the hold leaves the books well-typed.
LEMMA HoldKeptTypes ==
    ASSUME Books, held' \in HoldShape, HoldKept
    PROVE  Books'
BY BooksKept, SavedTypes DEF HoldKept, Books

\* An event on the queue leaves the books well-typed.
LEMMA QueueKeptTypes ==
    ASSUME Books, held' \in HoldShape, QueueKept
    PROVE  Books'
<1>1. EntryShape(QueueWritten(entry)) BY DEF Books, QueueWritten, EntryShape, EntryType
<1>2. QED BY <1>1, HoldKeptTypes, SavedTypes DEF QueueKept, Books

\* A journal row rewritten on its own leaves the books well-typed.
LEMMA RewrittenTypes ==
    ASSUME Books, NEW row \in RowType, Rewritten(row)
    PROVE  Books'
BY DEF Rewritten, Books, EntryShape, EntryType, RowType

\* The empty row, hold, record and entry are well-typed.
LEMMA Nothings ==
    /\ NoRow \in RowType /\ NoHold \in HoldShape /\ NoJournal \in [row : RowType, written : BOOLEAN]
    /\ EntryShape(NoEntry)
<1>1. NoRow \in RowType /\ NoHold \in HoldShape BY DEF NoRow, RowType, NoHold, HoldShape
<1>2. NoJournal \in [row : RowType, written : BOOLEAN] BY <1>1 DEF NoJournal
<1>3. EntryShape(NoEntry)
  BY DEF NoEntry, NoStored, EntryShape, EntryType, Endings
<1>4. QED BY <1>1, <1>2, <1>3

\* A fresh actor is well-typed.
LEMMA InitTypes == Init => Types
<1> SUFFICES ASSUME Init PROVE Types
  OBVIOUS
<1>1. Books BY Nothings DEF Init, Books
<1>2. Turn
  <2>1. 0 \in 0..MaxLands OBVIOUS
  <2>2. QED BY <2>1, Nothings DEF Init, Turn
<1>3. Resume BY Nothings DEF Init, Resume
<1>4. QED BY <1>1, <1>2, <1>3 DEF Types

\* A turn's own events keep the types.
LEMMA TurnEventTypes ==
    ASSUME Types, TurnEvents
    PROVE  Types'
<1> USE DEF Types
<1>1. CASE Begin
  <2>1. Turn' /\ Resume' BY <1>1 DEF Begin, Turn, Resume, resumeVars, RowType
  <2>2. EntryShape(Opened) BY DEF Opened, Books, EntryShape, EntryType, Endings
  <2>3. Books' BY <1>1, <2>1, <2>2, SavedTypes DEF Begin, Books, Turn, Resume
  <2>4. QED BY <2>1, <2>3
<1>2. CASE ErrorComing
  BY <1>2, BooksKept DEF ErrorComing, Turn, Resume, resumeVars, RowType
<1>3. ASSUME NEW ending \in {EndingOf(reason) : reason \in Reasons}, ErrorFailed(ending)
      PROVE  Types'
  <2>1. ending \in Endings BY DEF EndingOf, Endings, AllReasons
  <2>2. QED BY <1>3, <2>1, BooksKept DEF ErrorFailed, Turn, Resume, resumeVars, RowType
<1>4. ASSUME NEW card \in Cards, Park(card) \/ Resolve(card)
      PROVE  Types'
  BY <1>4, BooksKept DEF Park, Resolve, Turn, Resume, resumeVars, RowType
<1>5. ASSUME NEW ending \in {"stopped", "dismissed"}, Stop(ending)
      PROVE  Types'
  <2>1. Turn' /\ Resume' BY <1>5 DEF Stop, Turn, Resume, resumeVars, RowType
  <2>2. Books' BY <1>5, <2>1, QueueKeptTypes DEF Stop, Resume
  <2>3. QED BY <2>1, <2>2
<1>6. CASE Settle
  <2> DEFINE ending == IF failure # "none" THEN failure
                       ELSE IF stopping = "stopped" THEN "stopped" ELSE "idle"
             rested == [entry EXCEPT !.ending = ending]
  <2>1. Turn' BY <1>6 DEF Settle, Fruitful, HoldGone, Turn, RowType
  <2>2. Resume'
    <3>1. /\ UNCHANGED <<stopTries, authFiring>>
          /\ (UNCHANGED <<held, climbVars>> \/ (held' = NoHold /\ HoldGone))
      BY <1>6 DEF Settle
    <3>2. held' \in HoldShape BY <3>1, Nothings DEF Resume
    <3>3. rungs' \in Nat /\ forgot' \in Nat BY <3>1 DEF Resume, HoldGone
    <3>4. QED BY <3>1, <3>2, <3>3 DEF Resume
  <2>3. CASE entry.known
    <3>1. ending \in Endings BY DEF Turn, Endings
    <3>2. EntryShape(rested) BY <3>1 DEF Books, EntryShape, EntryType
    <3>3. Saved(rested, owed, TRUE) BY <1>6, <2>3 DEF Settle
    <3>4. Books' BY <3>2, <3>3, <2>2, SavedTypes DEF Books, Resume
    <3>5. QED BY <3>4, <2>1, <2>2
  <2>4. CASE ~entry.known
    BY <1>6, <2>1, <2>2, <2>4, BooksKept DEF Settle
  <2>5. QED BY <2>3, <2>4
<1>7. CASE Abandon
  <2> DEFINE rested == [entry EXCEPT !.ending = "failed"]
  <2>1. Turn' /\ Resume' BY <1>7 DEF Abandon, Turn, Resume, resumeVars, RowType
  <2>2. EntryShape(rested) BY DEF Books, EntryShape, EntryType, Endings
  <2>3. Saved(rested, owed, FALSE) BY <1>7 DEF Abandon
  <2>4. Books' BY <2>1, <2>2, <2>3, SavedTypes DEF Books, Resume
  <2>5. QED BY <2>1, <2>4
<1>8. CASE PromiseResume
  BY <1>8, BooksKept DEF PromiseResume, Turn, Resume, resumeVars, RowType
<1>9. QED BY <1>1, <1>2, <1>3, <1>4, <1>5, <1>6, <1>7, <1>8 DEF TurnEvents

\* Filing and clearing a record keep the types.
LEMMA JournalEventTypes ==
    ASSUME Types, JournalEvents
    PROVE  Types'
<1> USE DEF Types
<1>1. ASSUME NEW run \in Runs, NEW settled \in BOOLEAN,
             Journalled([run |-> run, settled |-> settled, attempts |-> 0])
      PROVE  Types'
  <2> DEFINE row == [run |-> run, settled |-> settled, attempts |-> 0]
  <2>1. row \in RowType BY DEF RowType
  <2>2. Turn' /\ Resume'
    BY <1>1, <2>1 DEF Journalled, Turn, Resume, turnVars, resumeVars
  <2>3. Books' BY <1>1, <2>1, RewrittenTypes, BooksKept DEF Journalled
  <2>4. QED BY <2>2, <2>3
<1>2. ASSUME NEW run \in Runs, Unjournalled(run)
      PROVE  Types'
  <2>1. NoRow \in RowType BY DEF NoRow, RowType
  <2>2. Turn' /\ Resume'
    BY <1>2, <2>1 DEF Unjournalled, NoJournal, Turn, Resume, turnVars, resumeVars
  <2>3. Books' BY <1>2, <2>1, RewrittenTypes, BooksKept DEF Unjournalled
  <2>4. QED BY <2>2, <2>3
<1>3. QED BY <1>1, <1>2 DEF JournalEvents

\* Land and rewind leases keep the types.
LEMMA LeaseEventTypes ==
    ASSUME Types, LeaseEvents
    PROVE  Types'
<1> USE DEF Types
<1>1. CASE LandLeased
  BY <1>1, BooksKept DEF LandLeased, Turn, Resume, resumeVars, RowType
<1>2. CASE LandReleased
  <2>1. Max({0, landHeld - 1}) \in 0..MaxLands BY FlooredLands DEF Turn
  <2>2. QED BY <1>2, <2>1, BooksKept DEF LandReleased, Turn, Resume, resumeVars, RowType
<1>3. CASE RewindLeased \/ RewindReleased
  BY <1>3, BooksKept DEF RewindLeased, RewindReleased, Turn, Resume, resumeVars, RowType
<1>4. QED BY <1>1, <1>2, <1>3 DEF LeaseEvents

\* An event on the hold or the queue leaves the turn well-typed.
LEMMA ElsewhereTurn ==
    ASSUME Turn, Elsewhere
    PROVE  Turn'
BY DEF Turn, Elsewhere, turnVars, RowType

\* The events on the held turn keep the types.
LEMMA HoldEventTypes ==
    ASSUME Types, HoldEvents
    PROVE  Types'
<1> USE DEF Types
<1>1. ASSUME NEW reason \in Reasons, NEW run \in Runs \cup {0}, NEW plan \in Plans \cup {0},
             TurnHeld(reason, run, plan)
      PROVE  Types'
  <2>1. held' \in HoldShape BY <1>1 DEF TurnHeld, Fruitful, HoldGone, Resume, HoldShape
  <2>2. Resume' BY <1>1, <2>1 DEF TurnHeld, Fruitful, HoldGone, Resume
  <2>3. QED BY <1>1, <2>2, ElsewhereTurn, HoldKeptTypes DEF TurnHeld, Fruitful, HoldGone, Resume
<1>2. CASE GotSomewhere
  <2>1. Resume' BY <1>2 DEF GotSomewhere, Fruitful, HoldGone, Resume, HoldShape
  <2>2. QED BY <1>2, <2>1, ElsewhereTurn, BooksKept DEF GotSomewhere
<1>3. CASE ResumeSuperseded
  <2>1. Resume' BY <1>3, Nothings DEF ResumeSuperseded, Fruitful, HoldGone, Resume
  <2>2. QED BY <1>3, <2>1, ElsewhereTurn, QueueKeptTypes DEF ResumeSuperseded, Fruitful, HoldGone, Resume
<1>4. CASE ResumeDropped
  <2>1. Resume' BY <1>4, Nothings DEF ResumeDropped, Fruitful, HoldGone, Resume
  <2>2. QED BY <1>4, <2>1, ElsewhereTurn, HoldKeptTypes DEF ResumeDropped, Fruitful, HoldGone, Resume
<1>5. ASSUME NEW ladder \in BOOLEAN, HeldFired(ladder)
      PROVE  Types'
  <2>1. held' \in HoldShape BY <1>5 DEF HeldFired, Fruitful, HoldGone, Resume, HoldShape
  <2>2. stopTries' \in Nat /\ rungs' \in Nat /\ forgot' \in Nat /\ authFiring' \in BOOLEAN
    BY <1>5 DEF HeldFired, Fruitful, HoldGone, Resume, HoldShape
  <2>3. Resume' BY <2>1, <2>2 DEF Resume
  <2>4. QED BY <1>5, <2>3, ElsewhereTurn, HoldKeptTypes DEF HeldFired, Fruitful, HoldGone, Resume
<1>6. ASSUME NEW plan \in Plans, HeldReplanned(plan)
      PROVE  Types'
  <2>1. Resume' BY <1>6 DEF HeldReplanned, Resume, HoldShape
  <2>2. QED BY <1>6, <2>1, ElsewhereTurn, HoldKeptTypes DEF HeldReplanned, Resume
<1>7. CASE LadderSpent
  <2>1. held' \in HoldShape BY <1>7, Nothings DEF LadderSpent, Fruitful, HoldGone, Resume, HoldShape
  <2>2. Resume' BY <1>7, <2>1 DEF LadderSpent, Fruitful, HoldGone, Resume
  <2>3. QED BY <1>7, <2>2, ElsewhereTurn, HoldKeptTypes DEF LadderSpent, Fruitful, HoldGone, Resume
<1>8. ASSUME NEW firing \in BOOLEAN, AuthFiring(firing)
      PROVE  Types'
  <2>1. Resume' BY <1>8 DEF AuthFiring, Resume, HoldShape
  <2>2. QED BY <1>8, <2>1, ElsewhereTurn, BooksKept DEF AuthFiring
<1>9. QED BY <1>1, <1>2, <1>3, <1>4, <1>5, <1>6, <1>7, <1>8 DEF HoldEvents, PlansOf

\* A queue that moves leaves the turn and its hold well-typed.
LEMMA QueueMovesTypes ==
    ASSUME Types, NEW after, QueueMoves(after)
    PROVE  Turn' /\ Resume'
BY ElsewhereTurn DEF Types, QueueMoves, Resume, resumeVars, HoldShape

\* A message sent for later, opening its conversation or not, keeps the types.
LEMMA QueueScheduledTypes ==
    ASSUME Types, NEW message, NEW booking, NEW opening \in BOOLEAN,
           QueueScheduled(message, booking, opening)
    PROVE  Types'
<1> USE DEF Types
<1> DEFINE booked == IF opening /\ ~entry.known THEN RestingEntry ELSE entry
<1>1. Turn' /\ Resume' BY QueueMovesTypes DEF QueueScheduled
<1>2. EntryShape(RestingEntry)
  BY DEF RestingEntry, NoStored, EntryShape, EntryType, Endings
<1>3. EntryShape(booked) BY <1>2 DEF Books
<1>4. CASE queue' # queue
  <2>1. EntryShape(QueueWritten(booked))
    BY <1>3 DEF QueueWritten, EntryShape, EntryType
  <2>2. Saved(QueueWritten(booked), owed, TRUE) BY <1>4 DEF QueueScheduled
  <2>3. QED BY <1>1, <2>1, <2>2, SavedTypes DEF Books, Resume
<1>5. CASE queue' = queue
  <2>1. entry' = booked /\ dirty' = (dirty \/ booked # entry) /\ UNCHANGED <<owed, disk, missed>>
    BY <1>5 DEF QueueScheduled
  <2>2. EntryShape(entry') /\ dirty' \in BOOLEAN BY <1>3, <2>1
  <2>3. Books' BY <2>1, <2>2 DEF Books, EntryShape, EntryType, RowType
  <2>4. QED BY <1>1, <2>3
<1>6. QED BY <1>4, <1>5

\* The events on the queue keep the types.
LEMMA QueueEventTypes ==
    ASSUME Types, QueueEvents
    PROVE  Types'
<1>1. ASSUME NEW m \in Messages, NEW b \in Bookings, NEW opening \in BOOLEAN,
             QueueScheduled(m, b, opening)
      PROVE  Types'
  BY <1>1, QueueScheduledTypes
<1>2. ASSUME NEW after, QueueMoves(after), QueueKept
      PROVE  Types'
  BY <1>2, QueueMovesTypes, QueueKeptTypes DEF Types, Resume
<1>3. CASE \E m \in Messages : QueueJoined(m)
  BY <1>2, <1>3 DEF QueueJoined
<1>4. CASE \E b \in Bookings, ids \in SUBSET Ids(queue.items) : QueueRescheduled(b, ids)
  BY <1>2, <1>4 DEF QueueRescheduled
<1>5. CASE \E ids \in SUBSET Ids(queue.items) : QueueTaken(ids)
  BY <1>2, <1>5 DEF QueueTaken
<1>6. CASE \E m \in Messages : QueueReturned(<<m>>)
  BY <1>2, <1>6 DEF QueueReturned
<1>7. CASE \E id \in Ids(queue.items), revision \in 1..queue.revision : QueueRemoved(id, revision)
  BY <1>2, <1>7 DEF QueueRemoved
<1>8. CASE \E id \in Ids(queue.items), revision \in 1..queue.revision,
               text \in {m.text : m \in Messages} :
               QueueEdited(id, revision, text)
  BY <1>2, <1>8 DEF QueueEdited
<1>9. CASE \E ids \in SUBSET Ids(queue.items) : QueueReleased(ids)
  BY <1>2, <1>9 DEF QueueReleased
<1>10. CASE \E serves \in {m.serves : m \in Messages}, ids \in SUBSET Ids(queue.items) :
                QueueReleasedAs(serves, ids) \/ QueueRerouted(serves, ids)
  BY <1>2, <1>10 DEF QueueReleasedAs, QueueRerouted
<1>11. QED
  BY Zenon, <1>1, <1>3, <1>4, <1>5, <1>6, <1>7, <1>8, <1>9, <1>10 DEF QueueEvents

\* Archiving, other saves, a restart and a purge keep the types.
LEMMA ProcessEventTypes ==
    ASSUME Types, ProcessEvents
    PROVE  Types'
<1> USE DEF Types
<1>1. ASSUME NEW archived \in BOOLEAN, Archived(archived)
      PROVE  Types'
  <2>1. Turn' /\ Resume' BY <1>1 DEF Archived, Turn, Resume, turnVars, resumeVars, RowType
  <2>2. EntryShape([entry EXCEPT !.archived = archived])
    BY DEF Books, EntryShape, EntryType
  <2>3. QED BY <1>1, <2>1, <2>2, SavedTypes DEF Archived, Books, Resume
<1>2. CASE OtherSaved
  <2>1. Turn' /\ Resume' BY <1>2 DEF OtherSaved, Turn, Resume, turnVars, resumeVars, RowType
  <2>2. QED BY <1>2, <2>1, SavedTypes DEF OtherSaved, Books, Resume
<1>3. CASE Restart
  <2>1. EntryShape(disk.entry) BY DEF Books
  <2>2. EntryShape(entry') /\ held' \in HoldShape BY <1>3, <2>1, RestoredShape DEF Restart
  <2>3. Turn'
    <3>1. resuming' \in BOOLEAN BY <1>3 DEF Restart, ComingBack
    <3>2. 0 \in 0..MaxLands OBVIOUS
    <3>3. QED BY <1>3, <3>1, <3>2, Nothings DEF Restart, Fresh, Turn
  <2>4. Resume'
    <3>1. stopTries' = 0 /\ authFiring' = FALSE BY <1>3 DEF Restart, Fresh
    <3>2. rungs' \in Nat /\ forgot' \in Nat BY <1>3 DEF Restart, Resume
    <3>3. QED BY <2>2, <3>1, <3>2 DEF Resume
  <2>5. Books' BY <1>3, <2>2, Nothings DEF Restart, Books, EntryShape, EntryType, RowType
  <2>6. QED BY <2>3, <2>4, <2>5
<1>4. CASE Disposed
  <2>1. Turn'
    <3>1. 0 \in 0..MaxLands OBVIOUS
    <3>2. QED BY <1>4, <3>1, Nothings DEF Disposed, Fruitful, HoldGone, Fresh, Turn
  <2>2. Resume' BY <1>4, Nothings DEF Disposed, Fruitful, HoldGone, Fresh, Resume
  <2>3. EntryShape(entry') /\ EntryShape(disk.entry') /\ disk.row' \in RowType
    BY <1>4, Nothings DEF Disposed, Fruitful, HoldGone, Books
  <2>4. disk' = [entry |-> disk.entry', row |-> disk.row']
    BY <1>4 DEF Disposed, Fruitful, HoldGone, Books
  <2>5. Books'
    BY <1>4, <2>3, <2>4, Nothings DEF Disposed, Fruitful, HoldGone, Books, EntryShape, EntryType
  <2>6. QED BY <2>1, <2>2, <2>5
<1>5. QED BY <1>1, <1>2, <1>3, <1>4 DEF ProcessEvents

\* A stuttering step keeps the types.
LEMMA StutterTypes ==
    ASSUME Types, UNCHANGED vars
    PROVE  Types'
<1>1. Turn' BY DEF vars, turnVars, Types, Turn, RowType
<1>2. Resume' BY DEF vars, resumeVars, Types, Resume, HoldShape
<1>3. Books' BY BooksKept DEF vars, Types
<1>4. QED BY <1>1, <1>2, <1>3 DEF Types

\* Every step keeps the types.
LEMMA NextTypes ==
    ASSUME Types, [Next]_vars
    PROVE  Types'
BY StutterTypes, TurnEventTypes, JournalEventTypes, LeaseEventTypes, HoldEventTypes,
   QueueEventTypes, ProcessEventTypes DEF Next

\* Whatever events arrive in whatever order, saves failing or not, the actor's
\* state, both copies of the entry and the journal rows keep their types.
THEOREM TypesHold == Spec => [](StateType /\ BooksType)
<1>1. Init => Types BY InitTypes
<1>2. Types /\ [Next]_vars => Types' BY NextTypes
<1>3. Types => StateType /\ BooksType
  BY DEF Types, Books, Turn, Resume, HoldShape, EntryShape, StateType, BooksType
<1>4. QED BY <1>1, <1>2, <1>3, PTL DEF Spec

-----------------------------------------------------------------------------
(* The ladder. The count a hold inherits must also be bounded where it is  *)
(* kept, in both copies of the entry: a boot reads it back from there.     *)

Bounded(e) == e.hold.tries <= RETRY_LADDER_TRIES

StoredBounded == Bounded(entry) /\ Bounded(disk.entry)

LadderInv == LadderCount /\ StoredBounded

\* No save stores more tries than the ladder has.
LEMMA SavedBounded ==
    ASSUME StoredBounded, held' \in HoldShape, held'.tries <= RETRY_LADDER_TRIES,
           NEW e, EntryShape(e), Bounded(e), NEW row, NEW late \in BOOLEAN,
           Saved(e, row, late)
    PROVE  StoredBounded'
<1>1. StoredHold(held').tries <= RETRY_LADDER_TRIES
  BY DEF StoredHold, NoStored
<1>2. Bounded(HoldWritten(e))
  BY <1>1 DEF HoldWritten, Bounded, EntryShape
<1>3. Bounded(entry') /\ Bounded(disk.entry')
  BY <1>2 DEF Saved, StoredBounded
<1>4. QED BY <1>3 DEF StoredBounded, Bounded

\* Nor does an event that saves through the hold or the queue.
LEMMA KeptBounded ==
    ASSUME Types, StoredBounded, held' \in HoldShape, held'.tries <= RETRY_LADDER_TRIES,
           HoldKept \/ QueueKept \/ UNCHANGED bookVars
    PROVE  StoredBounded'
<1>1. CASE UNCHANGED bookVars BY <1>1 DEF bookVars, StoredBounded, Bounded
<1>2. CASE HoldKept
  BY <1>1, <1>2, SavedBounded DEF HoldKept, Types, Books, StoredBounded
<1>3. CASE QueueKept
  <2>1. EntryShape(QueueWritten(entry)) BY DEF Types, Books, QueueWritten, EntryShape, EntryType
  <2>2. Bounded(QueueWritten(entry))
    BY DEF Types, Books, QueueWritten, EntryShape, StoredBounded, Bounded
  <2>3. QED BY <1>2, <1>3, <2>1, <2>2, SavedBounded DEF QueueKept
<1>4. QED BY <1>1, <1>2, <1>3

\* The room each loss of the count makes.
LEMMA LadderRoom ==
    ASSUME NEW n \in Nat
    PROVE  /\ RETRY_LADDER_TRIES * n \in Nat
           /\ RETRY_LADDER_TRIES * (n + 1) = RETRY_LADDER_TRIES * n + RETRY_LADDER_TRIES
           /\ RETRY_LADDER_TRIES * (1 + n) = RETRY_LADDER_TRIES * n + RETRY_LADDER_TRIES
           /\ RETRY_LADDER_TRIES * 0 = 0
OBVIOUS

\* The count the daemon goes by is the larger of the hold's and its own.
LEMMA CountedBetween ==
    ASSUME NEW h \in HoldShape, NEW n \in Nat
    PROVE  /\ Counted(h, n) \in Nat /\ n <= Counted(h, n)
           /\ h.tries <= RETRY_LADDER_TRIES /\ n <= RETRY_LADDER_TRIES
              => Counted(h, n) <= RETRY_LADDER_TRIES
           /\ (h.reason # "stopped" \/ h.fired \/ h.tries <= n) => Counted(h, n) = n
BY DEF Counted, HoldShape

\* No rung is spent at first.
LEMMA LadderInit == Init => LadderInv
<1>1. SUFFICES ASSUME Init PROVE LadderInv OBVIOUS
<1>2. StoredBounded BY <1>1 DEF Init, StoredBounded, Bounded, NoEntry, NoStored
<1>3. Counted(held, stopTries) = 0 /\ RETRY_LADDER_TRIES * forgot = 0
  BY <1>1, LadderRoom DEF Init, Counted, NoHold
<1>4. LadderCount BY <1>1, <1>3 DEF Init, LadderCount, NoHold
<1>5. QED BY <1>2, <1>4 DEF LadderInv

\* A hold that goes without a rung leaves the count on the actor.
LEMMA LadderHoldGone ==
    ASSUME Types, Types', LadderCount, HoldGone, stopTries' = stopTries,
           held'.tries <= RETRY_LADDER_TRIES,
           held'.reason = "stopped" /\ ~held'.fired => stopTries <= held'.tries
    PROVE  LadderCount'
<1>0. held \in HoldShape /\ held' \in HoldShape /\ stopTries \in Nat /\ rungs \in Nat /\ forgot \in Nat
  BY DEF Types, Resume
<1>1. /\ Counted(held, stopTries) \in Nat /\ stopTries <= Counted(held, stopTries)
      /\ Counted(held, stopTries) <= RETRY_LADDER_TRIES
      /\ Counted(held', stopTries) \in Nat /\ stopTries <= Counted(held', stopTries)
  BY <1>0, CountedBetween DEF LadderCount
<1>2. /\ RETRY_LADDER_TRIES * forgot \in Nat
      /\ RETRY_LADDER_TRIES * (forgot + 1) = RETRY_LADDER_TRIES * forgot + RETRY_LADDER_TRIES
  BY <1>0, LadderRoom
<1>3. rungs <= RETRY_LADDER_TRIES * forgot' + Counted(held', stopTries)
  <2>1. CASE rungs > 0 /\ stopTries < Counted(held, stopTries)
    <3>1. forgot' = forgot + 1 BY <2>1 DEF HoldGone
    <3>2. QED BY <1>0, <1>1, <1>2, <3>1 DEF LadderCount
  <2>2. CASE ~(rungs > 0 /\ stopTries < Counted(held, stopTries))
    <3>1. forgot' = forgot BY <2>2 DEF HoldGone
    <3>2. QED BY <1>0, <1>1, <1>2, <2>2, <3>1 DEF LadderCount
  <2>3. QED BY <2>1, <2>2
<1>4. QED BY <1>3 DEF HoldGone, LadderCount

\* A run that got somewhere is counted from nothing.
LEMMA LadderFruitful ==
    ASSUME Types, Types', Fruitful, stopTries' = 0, held'.tries <= RETRY_LADDER_TRIES
    PROVE  LadderCount'
<1>0. held' \in HoldShape /\ stopTries' \in Nat BY DEF Types, Resume
<1>1. Counted(held', stopTries') \in Nat BY <1>0, CountedBetween
<1>2. RETRY_LADDER_TRIES * forgot' = 0 BY LadderRoom DEF Fruitful
<1>3. rungs' = 0 BY DEF Fruitful
<1>4. held'.tries \in Nat BY <1>0 DEF HoldShape
<1>5. QED BY <1>1, <1>2, <1>3, <1>4 DEF LadderCount

\* What leaves the hold and the counts alone.
LEMMA LadderElsewhere ==
    ASSUME LadderCount, UNCHANGED <<held, stopTries, climbVars>>
    PROVE  LadderCount'
BY DEF LadderCount

\* A turn's own events spend no rung.
LEMMA LadderTurnEvents ==
    ASSUME Types, Types', LadderInv, TurnEvents
    PROVE  LadderInv'
<1> USE DEF LadderInv
<1>0. held' \in HoldShape BY DEF Types, Resume
<1>1. CASE Begin
  <2>1. LadderCount' BY <1>1, LadderElsewhere DEF Begin, resumeVars
  <2>2. EntryShape(Opened) /\ Bounded(Opened)
    BY DEF Types, Books, Opened, StoredBounded, Bounded, EntryShape, EntryType, Endings
  <2>3. PICK row : Saved(Opened, row, FALSE) BY <1>1 DEF Begin
  <2>4. QED BY <1>0, <2>1, <2>2, <2>3, SavedBounded DEF LadderCount
<1>2. CASE ErrorComing \/ PromiseResume \/ (\E ending \in Endings : ErrorFailed(ending))
           \/ (\E card \in Cards : Park(card) \/ Resolve(card))
  <2>1. UNCHANGED <<held, stopTries, climbVars>> /\ UNCHANGED bookVars
    BY <1>2 DEF ErrorComing, PromiseResume, ErrorFailed, Park, Resolve, resumeVars
  <2>2. QED BY <1>0, <2>1, LadderElsewhere, KeptBounded DEF LadderCount
<1>3. CASE \E ending \in {"stopped", "dismissed"} : Stop(ending)
  <2>1. LadderCount' BY <1>3, LadderElsewhere DEF Stop, resumeVars
  <2>2. QED BY <1>0, <1>3, <2>1, KeptBounded DEF Stop, LadderCount
<1>4. CASE Settle
  <2> DEFINE rested(ending) == [entry EXCEPT !.ending = ending]
  <2>0. /\ stopTries' = stopTries
        /\ (UNCHANGED <<held, climbVars>> \/ (held' = NoHold /\ HoldGone))
    BY <1>4 DEF Settle
  <2>1. LadderCount'
    <3>1. CASE UNCHANGED <<held, climbVars>> BY <2>0, <3>1, LadderElsewhere
    <3>2. CASE held' = NoHold /\ HoldGone BY <2>0, <3>2, LadderHoldGone DEF NoHold
    <3>3. QED BY <2>0, <3>1, <3>2
  <2>2. ASSUME NEW ending \in Endings
        PROVE  EntryShape(rested(ending)) /\ Bounded(rested(ending))
    BY DEF Types, Books, EntryShape, EntryType, StoredBounded, Bounded
  <2>3. CASE entry.known
    <3>1. PICK ending \in Endings : Saved(rested(ending), owed, TRUE)
      BY <1>4, <2>3 DEF Settle, Fruitful, HoldGone, Types, Turn, Endings
    <3>2. QED BY <1>0, <2>1, <2>2, <3>1, SavedBounded DEF LadderCount
  <2>4. CASE ~entry.known
    BY <1>0, <1>4, <2>1, <2>4, KeptBounded DEF Settle, Fruitful, HoldGone, LadderCount
  <2>5. QED BY <2>3, <2>4
<1>5. CASE Abandon
  <2> DEFINE rested == [entry EXCEPT !.ending = "failed"]
  <2>1. LadderCount' BY <1>5, LadderElsewhere DEF Abandon, resumeVars
  <2>2. EntryShape(rested) /\ Bounded(rested)
    BY DEF Types, Books, EntryShape, EntryType, Endings, StoredBounded, Bounded
  <2>3. Saved(rested, owed, FALSE) BY <1>5 DEF Abandon
  <2>4. QED BY <1>0, <2>1, <2>2, <2>3, SavedBounded DEF LadderCount
<1>6. \A reason \in Reasons : EndingOf(reason) \in Endings
  BY DEF EndingOf, Endings, AllReasons
<1>7. QED BY <1>1, <1>2, <1>3, <1>4, <1>5, <1>6 DEF TurnEvents

\* A fire spends one rung only while the hold has one left; the rest spend none.
LEMMA LadderHoldEvents ==
    ASSUME Types, Types', LadderInv, HoldEvents
    PROVE  LadderInv'
<1>0. /\ held \in HoldShape /\ held' \in HoldShape
      /\ stopTries \in Nat /\ rungs \in Nat /\ forgot \in Nat
  BY DEF Types, Resume
<1> DEFINE Kept == HoldKept \/ QueueKept \/ UNCHANGED bookVars
<1>1. ASSUME LadderCount', Kept PROVE LadderInv'
  BY <1>0, <1>1, KeptBounded DEF LadderInv, LadderCount
<1>2. ASSUME NEW reason \in Reasons, NEW run \in Runs \cup {0}, NEW plan \in Plans \cup {0},
             TurnHeld(reason, run, plan)
      PROVE  LadderCount' /\ Kept
  <2>0. Kept BY <1>2 DEF TurnHeld
  <2>1. CASE reason \in {"outage", "auth"}
    <3>1. Fruitful /\ stopTries' = 0 /\ held'.tries = 0 BY <1>2, <2>1 DEF TurnHeld
    <3>2. QED BY <2>0, <3>1, LadderFruitful
  <2>2. CASE reason \notin {"outage", "auth"}
    <3>1. /\ HoldGone /\ stopTries' = stopTries
          /\ held'.reason = reason /\ held'.fired = FALSE
          /\ held'.tries = IF reason = "stopped" THEN stopTries ELSE 0
      BY <1>2, <2>2 DEF TurnHeld
    <3>2. held'.tries <= RETRY_LADDER_TRIES BY <1>0, <3>1 DEF LadderInv, LadderCount
    <3>3. held'.reason = "stopped" => stopTries <= held'.tries BY <1>0, <3>1
    <3>4. QED BY <2>0, <3>1, <3>2, <3>3, LadderHoldGone DEF LadderInv
  <2>3. QED BY <2>1, <2>2
<1>3. CASE GotSomewhere
  <2>1. LadderCount'
    BY <1>0, <1>3, LadderFruitful DEF GotSomewhere, LadderInv, LadderCount
  <2>2. QED BY <1>1, <1>3, <2>1 DEF GotSomewhere
<1>4. CASE ResumeSuperseded
  <2>1. LadderCount'
    BY <1>4, LadderHoldGone DEF ResumeSuperseded, LadderInv, NoHold
  <2>2. QED BY <1>1, <1>4, <2>1 DEF ResumeSuperseded
<1>5. CASE ResumeDropped
  <2>1. LadderCount'
    BY <1>5, LadderHoldGone DEF ResumeDropped, LadderInv, NoHold
  <2>2. QED BY <1>1, <1>5, <2>1 DEF ResumeDropped
<1>6. ASSUME NEW ladder \in BOOLEAN, ladder => held.reason = "stopped", HeldFired(ladder)
      PROVE  LadderCount' /\ Kept
  <2>0. Kept BY <1>6 DEF HeldFired
  <2>1. held' = [held EXCEPT !.fired = TRUE] BY <1>6 DEF HeldFired
  <2>2. held'.tries = held.tries /\ held'.fired = TRUE BY <1>0, <2>1 DEF HoldShape
  <2>3. held.tries \in Nat /\ held.tries <= RETRY_LADDER_TRIES
    BY <1>0 DEF HoldShape, LadderInv, LadderCount
  <2>4. CASE ladder
    <3>1. /\ held.tries < RETRY_LADDER_TRIES /\ ~held.fired /\ held.reason = "stopped"
          /\ stopTries' = held.tries + 1 /\ rungs' = rungs + 1 /\ forgot' = forgot
      BY <1>6, <2>4 DEF HeldFired
    <3>2. Counted(held, stopTries) = held.tries
      BY <1>0, <2>3, <3>1 DEF Counted, LadderInv, LadderCount
    <3>3. Counted(held', stopTries') = held.tries + 1 BY <2>2, <3>1 DEF Counted
    <3>4. RETRY_LADDER_TRIES * forgot \in Nat BY <1>0, LadderRoom
    <3>5. rungs + 1 <= RETRY_LADDER_TRIES * forgot + held.tries + 1
      BY <1>0, <2>3, <3>2, <3>4 DEF LadderInv, LadderCount
    <3>6. QED BY <2>0, <2>2, <2>3, <3>1, <3>3, <3>4, <3>5 DEF LadderCount
  <2>5. CASE ~ladder
    <3>1. HoldGone /\ stopTries' = stopTries BY <1>6, <2>5 DEF HeldFired
    <3>2. QED BY <2>0, <2>2, <2>3, <3>1, LadderHoldGone DEF LadderInv
  <2>6. QED BY <2>4, <2>5
<1>7. ASSUME NEW plan \in Plans, HeldReplanned(plan)
      PROVE  LadderCount' /\ Kept
  <2>1. /\ held'.tries = held.tries /\ held'.reason = "limit" /\ held.reason = "limit"
        /\ UNCHANGED <<stopTries, climbVars>> /\ HoldKept
    BY <1>0, <1>7 DEF HeldReplanned, HoldShape
  <2>2. Counted(held', stopTries') = Counted(held, stopTries) BY <2>1 DEF Counted
  <2>3. QED BY <2>1, <2>2 DEF LadderInv, LadderCount
<1>8. CASE LadderSpent
  <2>1. held'.tries <= RETRY_LADDER_TRIES
    BY <1>0, <1>8 DEF LadderSpent, LadderInv, LadderCount, HoldShape, NoHold
  <2>2. LadderCount' BY <1>8, <2>1, LadderFruitful DEF LadderSpent
  <2>3. QED BY <1>1, <1>8, <2>2 DEF LadderSpent
<1>9. ASSUME NEW firing \in BOOLEAN, AuthFiring(firing)
      PROVE  LadderCount' /\ Kept
  BY <1>9 DEF AuthFiring, LadderInv, LadderCount
<1>10. QED BY <1>1, <1>2, <1>3, <1>4, <1>5, <1>6, <1>7, <1>8, <1>9 DEF HoldEvents, PlansOf

\* The queue spends no rung.
LEMMA LadderQueueEvents ==
    ASSUME Types, Types', LadderInv, QueueEvents
    PROVE  LadderInv'
<1>0. held' \in HoldShape BY DEF Types, Resume
<1>1. ASSUME NEW after, QueueMoves(after) PROVE LadderCount'
  BY <1>1, LadderElsewhere DEF QueueMoves, resumeVars, LadderInv
<1>2. ASSUME NEW after, QueueMoves(after), QueueKept PROVE LadderInv'
  BY <1>0, <1>1, <1>2, KeptBounded DEF LadderInv, LadderCount
<1>3. ASSUME NEW m \in Messages, NEW b \in Bookings, NEW opening \in BOOLEAN,
             QueueScheduled(m, b, opening)
      PROVE  LadderInv'
  <2> DEFINE booked == IF opening /\ ~entry.known THEN RestingEntry ELSE entry
  <2>1. LadderCount' BY <1>1, <1>3 DEF QueueScheduled
  <2>2. EntryShape(booked) /\ Bounded(booked)
    <3>1. EntryShape(RestingEntry) /\ Bounded(RestingEntry)
      BY DEF RestingEntry, NoStored, EntryShape, EntryType, Endings, Bounded
    <3>2. EntryShape(entry) /\ Bounded(entry) BY DEF Types, Books, LadderInv, StoredBounded
    <3>3. QED BY <3>1, <3>2
  <2>3. CASE queue' # queue
    <3>1. EntryShape(QueueWritten(booked)) /\ Bounded(QueueWritten(booked))
      BY <2>2 DEF QueueWritten, EntryShape, EntryType, Bounded
    <3>2. Saved(QueueWritten(booked), owed, TRUE) BY <1>3, <2>3 DEF QueueScheduled
    <3>3. QED BY <1>0, <2>1, <3>1, <3>2, SavedBounded DEF LadderInv, LadderCount
  <2>4. CASE queue' = queue
    <3>1. entry' = booked /\ disk' = disk BY <1>3, <2>4 DEF QueueScheduled
    <3>2. QED BY <2>1, <2>2, <3>1 DEF LadderInv, StoredBounded, Bounded
  <2>5. QED BY <2>3, <2>4
<1>4. QED
  BY Zenon, <1>2, <1>3 DEF QueueEvents, QueueJoined, QueueRescheduled, QueueTaken,
     QueueReturned, QueueRemoved, QueueEdited, QueueReleased, QueueReleasedAs, QueueRerouted

\* A restart goes by the count the entry kept; less than the daemon's is a loss.
LEMMA LadderRestart ==
    ASSUME Types, Types', LadderInv, Restart
    PROVE  LadderCount'
<1>0. /\ held \in HoldShape /\ held' \in HoldShape /\ stopTries \in Nat
      /\ rungs \in Nat /\ forgot \in Nat /\ EntryShape(disk.entry)
  BY DEF Types, Resume, Books
<1>1. /\ rungs' = rungs /\ stopTries' = 0 /\ held' = RestoredHold(disk.entry)
      /\ forgot' = IF rungs > 0 /\ CountKept(disk.entry) < Counted(held, stopTries)
                   THEN forgot + 1 ELSE forgot
  BY DEF Restart, Fresh
<1>2. held'.tries \in Nat /\ held'.tries <= RETRY_LADDER_TRIES
  BY <1>0, <1>1 DEF HoldShape, RestoredHold, NoHold, LadderInv, StoredBounded, Bounded
<1>3. CountKept(disk.entry) = Counted(held', 0)
  <2>1. disk.entry.hold.tries \in Nat BY <1>0 DEF EntryShape, EntryType
  <2>2. QED BY <1>1, <2>1 DEF CountKept, Counted, RestoredHold, NoHold
<1>4. Counted(held', 0) \in Nat BY <1>0, CountedBetween
<1>5. Counted(held, stopTries) \in Nat /\ Counted(held, stopTries) <= RETRY_LADDER_TRIES
  BY <1>0, CountedBetween DEF LadderInv, LadderCount
<1>6. /\ RETRY_LADDER_TRIES * forgot \in Nat
      /\ RETRY_LADDER_TRIES * (forgot + 1) = RETRY_LADDER_TRIES * forgot + RETRY_LADDER_TRIES
  BY <1>0, LadderRoom
<1>7. rungs <= RETRY_LADDER_TRIES * forgot' + Counted(held', 0)
  <2>1. CASE forgot' = forgot + 1 BY <1>0, <1>4, <1>5, <1>6, <2>1 DEF LadderInv, LadderCount
  <2>2. CASE forgot' = forgot /\ (rungs = 0 \/ Counted(held, stopTries) <= Counted(held', 0))
    BY <1>0, <1>4, <1>5, <1>6, <2>2 DEF LadderInv, LadderCount
  <2>3. QED BY <1>0, <1>1, <1>3, <1>4, <1>5, <2>1, <2>2
<1>8. QED BY <1>1, <1>2, <1>7 DEF LadderCount

\* A restart goes by tries within the bound; a purge starts the count over.
LEMMA LadderProcessEvents ==
    ASSUME Types, Types', LadderInv, ProcessEvents
    PROVE  LadderInv'
<1> USE DEF LadderInv
<1>0. held' \in HoldShape BY DEF Types, Resume
<1>1. ASSUME NEW archived \in BOOLEAN, Archived(archived)
      PROVE  LadderInv'
  <2> DEFINE marked == [entry EXCEPT !.archived = archived]
  <2>1. LadderCount' BY <1>1, LadderElsewhere DEF Archived, resumeVars
  <2>2. EntryShape(marked) /\ Bounded(marked)
    BY DEF Types, Books, EntryShape, EntryType, StoredBounded, Bounded
  <2>3. Saved(marked, owed, FALSE) BY <1>1 DEF Archived
  <2>4. QED BY <1>0, <2>1, <2>2, <2>3, SavedBounded DEF LadderCount
<1>2. CASE OtherSaved
  <2>1. LadderCount' BY <1>2, LadderElsewhere DEF OtherSaved, resumeVars
  <2>2. Saved(entry, owed, FALSE) BY <1>2 DEF OtherSaved
  <2>3. QED
    BY <1>0, <2>1, <2>2, SavedBounded DEF LadderCount, Types, Books, StoredBounded
<1>3. CASE Restart
  <2>1. held'.tries <= RETRY_LADDER_TRIES
    BY <1>3 DEF Restart, RestoredHold, NoHold, StoredBounded, Bounded
  <2>2. Bounded(Restored(disk.entry))
    BY DEF Restored, NoStored, Types, Books, EntryShape, StoredBounded, Bounded
  <2>3. /\ rungs' = rungs /\ stopTries' = 0
        /\ forgot' = IF rungs > 0 /\ CountKept(disk.entry) < Counted(held, stopTries)
                     THEN forgot + 1 ELSE forgot
    BY <1>3 DEF Restart, Fresh
  <2>4. held'.tries \in Nat BY <1>0 DEF HoldShape
  <2>5. LadderCount' BY <1>3, <2>1, <2>3, LadderRestart
  <2>6. StoredBounded' BY <1>3, <2>2 DEF Restart, StoredBounded, Bounded
  <2>7. QED BY <2>5, <2>6
<1>4. CASE Disposed
  <2>1. LadderCount' BY <1>4, LadderFruitful DEF Disposed, Fresh, NoHold
  <2>2. Bounded(NoEntry) BY DEF Bounded, NoEntry, NoStored
  <2>3. StoredBounded' BY <1>4, <2>2 DEF Disposed, Fruitful, HoldGone, StoredBounded, Bounded
  <2>4. QED BY <2>1, <2>3
<1>5. QED BY <1>1, <1>2, <1>3, <1>4 DEF ProcessEvents

\* Every step keeps the ladder within its tries.
LEMMA LadderNext ==
    ASSUME Types, Types', LadderInv, [Next]_vars
    PROVE  LadderInv'
<1>0. held' \in HoldShape BY DEF Types, Resume
<1>1. ASSUME UNCHANGED <<resumeVars, climbVars, bookVars>>
      PROVE  LadderInv'
  <2>1. LadderCount' BY <1>1, LadderElsewhere DEF resumeVars, LadderInv
  <2>2. QED BY <1>0, <1>1, <2>1, KeptBounded DEF LadderInv, LadderCount
<1>2. CASE LeaseEvents \/ UNCHANGED vars
  BY <1>1, <1>2 DEF LeaseEvents, LandLeased, LandReleased, RewindLeased, RewindReleased, vars
<1>3. CASE JournalEvents
  <2>1. UNCHANGED <<resumeVars, climbVars>> /\ UNCHANGED entry /\ disk.entry' = disk.entry
    BY <1>3 DEF JournalEvents, Journalled, Unjournalled, Rewritten, bookVars, Types, Books
  <2>2. LadderCount' BY <2>1, LadderElsewhere DEF resumeVars, LadderInv
  <2>3. QED BY <2>1, <2>2 DEF LadderInv, StoredBounded, Bounded
<1>4. QED
  BY <1>2, <1>3, LadderTurnEvents, LadderHoldEvents, LadderQueueEvents, LadderProcessEvents
  DEF Next

\* A stopped turn is picked back up at most RETRY_LADDER_TRIES times without
\* getting anywhere, and as many again for each restart that cost the daemon the
\* count, whoever fires, drops, supersedes or restarts in between (onHeld,
\* onHeldFired): for any number of tries, runs and walls.
THEOREM LadderBounded == Spec => []LadderBound
<1>1. Init => Types /\ LadderInv BY InitTypes, LadderInit
<1>2. Types /\ LadderInv /\ [Next]_vars => (Types /\ LadderInv)'
  BY NextTypes, LadderNext
<1>3. ASSUME Types, LadderInv PROVE LadderBound
  <2>1. held \in HoldShape /\ stopTries \in Nat /\ rungs \in Nat /\ forgot \in Nat
    BY <1>3 DEF Types, Resume
  <2>2. Counted(held, stopTries) \in Nat /\ Counted(held, stopTries) <= RETRY_LADDER_TRIES
    BY <1>3, <2>1, CountedBetween DEF LadderInv, LadderCount
  <2>3. /\ RETRY_LADDER_TRIES * forgot \in Nat
        /\ RETRY_LADDER_TRIES * (1 + forgot) = RETRY_LADDER_TRIES * forgot + RETRY_LADDER_TRIES
    BY <2>1, LadderRoom
  <2>4. QED BY <1>3, <2>1, <2>2, <2>3 DEF LadderInv, LadderCount, LadderBound
<1>4. QED BY <1>1, <1>2, <1>3, PTL DEF Spec

-----------------------------------------------------------------------------
(* The hold the entry keeps. Neither copy of the entry may keep a hold that*)
(* is none (a boot would make a held turn of it), and a conversation with  *)
(* no entry yet holds nothing it would have to keep.                       *)

HoldFits(e) ==
    /\ e.hold = NoStored \/ e.hold.reason \notin {"none", "auth"}
    /\ ~e.known => e.hold = NoStored

HoldInv ==
    /\ HoldOnEntry
    /\ HoldFits(entry) /\ HoldFits(disk.entry)
    /\ ~entry.known => ~KeptHold(held)

\* What an entry may be saved as: the entry as it was, but for its hold.
Carries(e) ==
    /\ EntryShape(e)
    /\ e.hold = entry.hold
    /\ entry.known => e.known

\* A save that carries the entry leaves it keeping the hold, unless it failed late.
LEMMA SavedHold ==
    ASSUME Types, HoldInv, held' \in HoldShape, ~entry.known => ~KeptHold(held'),
           NEW e, Carries(e), NEW row, NEW late \in BOOLEAN, Saved(e, row, late)
    PROVE  HoldInv'
<1> DEFINE stored == StoredHold(held')
           kept == IF HoldMoves THEN HoldWritten(e) ELSE e
<1>1. stored = NoStored \/ stored.reason \notin {"none", "auth"}
  BY DEF StoredHold, KeptHold
<1>2. HoldFits(e)
  BY DEF HoldInv, Carries, HoldFits
<1>3. /\ e.known => HoldWritten(e).hold = stored /\ HoldWritten(e).known
      /\ ~e.known => HoldWritten(e) = e
  BY DEF HoldWritten, Carries, EntryShape
<1>4. HoldFits(HoldWritten(e)) BY <1>1, <1>2, <1>3 DEF HoldFits
<1>5. HoldFits(kept) BY <1>2, <1>4
<1>6. HoldFits(entry') /\ HoldFits(disk.entry')
  BY <1>2, <1>5 DEF Saved, HoldInv
<1>7. entry'.known <=> e.known BY <1>3 DEF Saved
<1>8. ~HoldMoves => stored = StoredHold(held)
  BY DEF HoldMoves, StoredHold
<1>9. ~entry'.known => ~KeptHold(held') BY <1>7 DEF Carries
<1>10. ASSUME e.known, "hold" \notin missed' PROVE entry'.hold = stored
  <2>1. CASE HoldMoves BY <1>3, <1>10, <2>1 DEF Saved
  <2>2. CASE ~HoldMoves
    <3>1. entry' = e /\ missed' = missed BY <2>2 DEF Saved
    <3>2. CASE entry.known
      BY <1>8, <1>10, <2>2, <3>1, <3>2 DEF HoldInv, HoldOnEntry, Carries
    <3>3. CASE ~entry.known
      <4>1. stored = NoStored BY <3>3 DEF StoredHold
      <4>2. entry.hold = NoStored BY <3>3 DEF HoldInv, HoldFits
      <4>3. QED BY <3>1, <4>1, <4>2 DEF Carries
    <3>4. QED BY <3>2, <3>3
  <2>3. QED BY <2>1, <2>2
<1>11. QED BY <1>6, <1>7, <1>9, <1>10 DEF HoldInv, HoldFits, HoldOnEntry, StoredHold, KeptHold

\* The entries the events save keep the hold of the entry they change.
LEMMA EntryCarries ==
    ASSUME Types
    PROVE  /\ Carries(entry) /\ Carries(QueueWritten(entry)) /\ Carries(Opened)
           /\ \A ending \in Endings : Carries([entry EXCEPT !.ending = ending])
           /\ \A archived \in BOOLEAN : Carries([entry EXCEPT !.archived = archived])
<1>1. EntryShape(entry) BY DEF Types, Books
<1>2. Carries(entry) BY <1>1 DEF Carries
<1>3. Carries(QueueWritten(entry)) BY <1>1 DEF Carries, QueueWritten, EntryShape, EntryType
<1>4. Carries(Opened) BY <1>1 DEF Carries, Opened, EntryShape, EntryType, Endings
<1>5. ASSUME NEW ending \in Endings PROVE Carries([entry EXCEPT !.ending = ending])
  BY <1>1 DEF Carries, EntryShape, EntryType
<1>6. ASSUME NEW archived \in BOOLEAN PROVE Carries([entry EXCEPT !.archived = archived])
  BY <1>1 DEF Carries, EntryShape, EntryType
<1>7. QED BY <1>2, <1>3, <1>4, <1>5, <1>6

\* An event that moves neither the hold nor the entry keeps their agreement.
LEMMA HoldStays ==
    ASSUME HoldInv, UNCHANGED <<held, entry, missed>>, disk.entry' = disk.entry
    PROVE  HoldInv'
BY DEF HoldInv, HoldOnEntry, HoldFits, StoredHold, KeptHold

\* An event that saves through the hold or the queue keeps their agreement.
LEMMA KeptHolds ==
    ASSUME Types, Types', HoldInv, HoldKept \/ QueueKept, ~entry.known => ~KeptHold(held')
    PROVE  HoldInv'
<1>1. held' \in HoldShape BY DEF Types, Resume
<1>2. CASE HoldKept /\ HoldMoves
  BY <1>1, <1>2, SavedHold, EntryCarries DEF HoldKept
<1>3. CASE HoldKept /\ ~HoldMoves
  <2>1. UNCHANGED bookVars BY <1>3 DEF HoldKept
  <2>2. StoredHold(held') = StoredHold(held) BY <1>3 DEF HoldMoves, StoredHold
  <2>3. HoldOnEntry' BY <2>1, <2>2 DEF HoldInv, HoldOnEntry, bookVars
  <2>4. (~entry.known => ~KeptHold(held))' BY <2>1 DEF bookVars, KeptHold
  <2>5. QED BY <2>1, <2>3, <2>4 DEF HoldInv, HoldFits, bookVars
<1>4. CASE QueueKept
  <2>1. CASE queue' # queue
    BY <1>1, <1>4, <2>1, SavedHold, EntryCarries DEF QueueKept
  <2>2. QED BY <1>2, <1>3, <1>4, <2>1 DEF QueueKept
<1>5. QED BY <1>2, <1>3, <1>4

\* A fresh actor holds nothing and its entry keeps nothing.
LEMMA HoldInit == Init => HoldInv
BY DEF Init, HoldInv, HoldOnEntry, HoldFits, NoEntry, NoHold, NoStored, KeptHold, StoredHold

\* A turn's own events keep the hold and the entry in agreement.
LEMMA HoldTurnEvents ==
    ASSUME Types, Types', HoldInv, TurnEvents
    PROVE  HoldInv'
<1>0. held' \in HoldShape BY DEF Types, Resume
<1>1. CASE Begin
  <2>1. UNCHANGED held BY <1>1 DEF Begin, resumeVars
  <2>2. PICK row : Saved(Opened, row, FALSE) BY <1>1 DEF Begin
  <2>3. QED BY <1>0, <2>1, <2>2, SavedHold, EntryCarries DEF HoldInv
<1>2. CASE ErrorComing \/ PromiseResume \/ (\E ending : ErrorFailed(ending))
           \/ (\E card \in Cards : Park(card) \/ Resolve(card))
  <2>1. UNCHANGED held /\ UNCHANGED bookVars
    BY <1>2 DEF ErrorComing, PromiseResume, ErrorFailed, Park, Resolve, resumeVars
  <2>2. QED BY <2>1, HoldStays DEF bookVars
<1>3. CASE \E ending \in {"stopped", "dismissed"} : Stop(ending)
  <2>1. UNCHANGED held /\ QueueKept BY <1>3 DEF Stop, resumeVars
  <2>2. QED BY <2>1, KeptHolds DEF HoldInv
<1>4. CASE Settle
  <2>1. CASE entry.known
    <3>1. PICK ending \in Endings : Saved([entry EXCEPT !.ending = ending], owed, TRUE)
      BY <1>4, <2>1 DEF Settle, Fruitful, HoldGone, Types, Turn, Endings
    <3>2. QED BY <1>0, <2>1, <3>1, SavedHold, EntryCarries
  <2>2. CASE ~entry.known
    <3>1. UNCHANGED held /\ UNCHANGED bookVars BY <1>4, <2>2 DEF Settle
    <3>2. QED BY <3>1, HoldStays DEF bookVars
  <2>3. QED BY <2>1, <2>2
<1>5. CASE Abandon
  <2>1. UNCHANGED held /\ "failed" \in Endings BY <1>5 DEF Abandon, resumeVars, Endings
  <2>2. Saved([entry EXCEPT !.ending = "failed"], owed, FALSE) BY <1>5 DEF Abandon
  <2>3. QED BY <1>0, <2>1, <2>2, SavedHold, EntryCarries DEF HoldInv
<1>6. QED BY <1>1, <1>2, <1>3, <1>4, <1>5 DEF TurnEvents

\* The events on the hold keep it and the entry in agreement.
LEMMA HoldHoldEvents ==
    ASSUME Types, Types', HoldInv, HoldEvents
    PROVE  HoldInv'
<1>0. held \in HoldShape BY DEF Types, Resume
<1>1. ASSUME entry.known, NEW reason \in Reasons, NEW run, NEW plan, TurnHeld(reason, run, plan)
      PROVE  HoldInv'
  BY <1>1, KeptHolds DEF TurnHeld
<1>2. CASE GotSomewhere \/ \E firing \in BOOLEAN : AuthFiring(firing)
  BY <1>2, HoldStays DEF GotSomewhere, Fruitful, HoldGone, AuthFiring, bookVars
<1>3. CASE ResumeSuperseded \/ ResumeDropped
  <2>1. ~KeptHold(held') BY <1>3 DEF ResumeSuperseded, Fruitful, HoldGone, ResumeDropped, KeptHold, NoHold
  <2>2. QED BY <1>3, <2>1, KeptHolds DEF ResumeSuperseded, Fruitful, HoldGone, ResumeDropped
<1>4. ASSUME NEW ladder \in BOOLEAN, HeldFired(ladder)
      PROVE  HoldInv'
  <2>1. ~KeptHold(held') BY <1>0, <1>4 DEF HeldFired, Fruitful, HoldGone, KeptHold, HoldShape
  <2>2. QED BY <1>4, <2>1, KeptHolds DEF HeldFired
<1>5. ASSUME NEW plan \in Plans, HeldReplanned(plan)
      PROVE  HoldInv'
  <2>1. KeptHold(held) BY <1>5 DEF HeldReplanned, KeptHold
  <2>2. QED BY <1>5, <2>1, KeptHolds DEF HeldReplanned, HoldInv
<1>6. CASE LadderSpent
  <2>1. ~KeptHold(held') BY <1>0, <1>6 DEF LadderSpent, Fruitful, HoldGone, KeptHold, HoldShape, NoHold
  <2>2. QED BY <1>6, <2>1, KeptHolds DEF LadderSpent
<1>7. QED BY <1>1, <1>2, <1>3, <1>4, <1>5, <1>6 DEF HoldEvents

\* The events on the queue keep the hold and the entry in agreement.
LEMMA HoldQueueEvents ==
    ASSUME Types, Types', HoldInv, QueueEvents
    PROVE  HoldInv'
<1>0. held' \in HoldShape BY DEF Types, Resume
<1>1. ASSUME NEW after, QueueMoves(after) PROVE UNCHANGED held
  BY <1>1 DEF QueueMoves, resumeVars
<1>2. ASSUME NEW after, QueueMoves(after), QueueKept PROVE HoldInv'
  BY <1>1, <1>2, KeptHolds DEF HoldInv
<1>3. ASSUME NEW m \in Messages, NEW b \in Bookings, NEW opening \in BOOLEAN,
             QueueScheduled(m, b, opening)
      PROVE  HoldInv'
  <2> DEFINE booked == IF opening /\ ~entry.known THEN RestingEntry ELSE entry
  <2>1. UNCHANGED held BY <1>1, <1>3 DEF QueueScheduled
  <2>2. Carries(booked)
    <3>1. CASE entry.known \/ ~opening BY <3>1, EntryCarries
    <3>2. CASE ~entry.known /\ opening
      <4>1. EntryShape(RestingEntry) /\ RestingEntry.hold = NoStored
        BY DEF RestingEntry, NoStored, EntryShape, EntryType, Endings
      <4>2. entry.hold = NoStored BY <3>2 DEF HoldInv, HoldFits
      <4>3. QED BY <3>2, <4>1, <4>2 DEF Carries
    <3>3. QED BY <3>1, <3>2
  <2>3. CASE queue' # queue
    <3>1. Carries(QueueWritten(booked))
      BY <2>2 DEF QueueWritten, Carries, EntryShape, EntryType
    <3>2. Saved(QueueWritten(booked), owed, TRUE) BY <1>3, <2>3 DEF QueueScheduled
    <3>3. QED BY <1>0, <2>1, <3>1, <3>2, SavedHold DEF HoldInv
  <2>4. CASE queue' = queue
    <3>1. entry' = booked /\ disk' = disk /\ missed' = missed
      BY <1>3, <2>4 DEF QueueScheduled
    <3>2. CASE booked = entry BY <2>1, <3>1, <3>2, HoldStays
    <3>3. CASE booked = RestingEntry /\ ~entry.known
      <4>1. entry'.hold = NoStored /\ entry'.known BY <3>1, <3>3 DEF RestingEntry
      <4>2. StoredHold(held') = NoStored BY <2>1, <3>3 DEF HoldInv, StoredHold
      <4>3. HoldOnEntry' BY <4>1, <4>2 DEF HoldOnEntry
      <4>4. QED BY <3>1, <4>1, <4>3 DEF HoldInv, HoldFits
    <3>4. QED BY <3>2, <3>3
  <2>5. QED BY <2>3, <2>4
<1>4. QED
  BY Zenon, <1>2, <1>3 DEF QueueEvents, QueueJoined, QueueRescheduled, QueueTaken,
     QueueReturned, QueueRemoved, QueueEdited, QueueReleased, QueueReleasedAs, QueueRerouted

\* Archiving, saves, a boot and a purge keep the hold and the entry in agreement.
LEMMA HoldProcessEvents ==
    ASSUME Types, Types', HoldInv, ProcessEvents
    PROVE  HoldInv'
<1>0. held' \in HoldShape BY DEF Types, Resume
<1>1. ASSUME NEW archived \in BOOLEAN, Archived(archived)
      PROVE  HoldInv'
  <2>1. UNCHANGED held BY <1>1 DEF Archived, resumeVars
  <2>2. Saved([entry EXCEPT !.archived = archived], owed, FALSE) BY <1>1 DEF Archived
  <2>3. QED BY <1>0, <2>1, <2>2, SavedHold, EntryCarries DEF HoldInv
<1>2. CASE OtherSaved
  <2>1. UNCHANGED held /\ Saved(entry, owed, FALSE) BY <1>2 DEF OtherSaved, resumeVars
  <2>2. QED BY <1>0, <2>1, SavedHold, EntryCarries DEF HoldInv
<1>3. CASE Restart
  <2> DEFINE d == disk.entry
  <2>1. EntryShape(d) /\ HoldFits(d) BY DEF Types, Books, HoldInv
  <2>2. HoldFits(Restored(d)) BY <2>1 DEF Restored, HoldFits, EntryShape
  <2>3. StoredHold(RestoredHold(d)) = Restored(d).hold
    <3>1. CASE Restorable(d)
      <4>1. d.hold \in StoredShape BY <2>1 DEF EntryShape, EntryType, StoredShape
      <4>2. d.hold = [reason |-> d.hold.reason, run |-> d.hold.run, plan |-> d.hold.plan,
                      tries |-> d.hold.tries]
        BY <4>1 DEF StoredShape
      <4>3. d.hold.reason \notin {"none", "auth"} BY <2>1, <3>1 DEF HoldFits, Restorable
      <4>4. Restored(d) = d BY <3>1 DEF Restored
      <4>5. QED BY <3>1, <4>2, <4>3, <4>4 DEF RestoredHold, StoredHold, KeptHold
    <3>2. CASE ~Restorable(d)
      <4>1. StoredHold(RestoredHold(d)) = NoStored
        BY <3>2 DEF RestoredHold, StoredHold, KeptHold, NoHold
      <4>2. Restored(d).hold = NoStored BY <2>1, <3>2 DEF Restored, EntryShape
      <4>3. QED BY <4>1, <4>2
    <3>3. QED BY <3>1, <3>2
  <2>4. entry' = Restored(d) /\ held' = RestoredHold(d) /\ disk' = disk
    BY <1>3 DEF Restart
  <2>5. ~entry'.known => ~KeptHold(held')
    BY <2>1, <2>4 DEF Restored, Restorable, RestoredHold, HoldFits, KeptHold, NoHold, EntryShape
  <2>6. QED BY <2>1, <2>2, <2>3, <2>4, <2>5 DEF HoldInv, HoldOnEntry, HoldFits
<1>4. CASE Disposed
  <2>1. HoldFits(NoEntry) /\ ~NoEntry.known BY DEF HoldFits, NoEntry
  <2>2. entry' = NoEntry /\ disk.entry' \in {NoEntry, disk.entry} /\ held' = NoHold
    BY <1>4 DEF Disposed
  <2>3. ~KeptHold(NoHold) BY DEF KeptHold, NoHold
  <2>4. QED BY <2>1, <2>2, <2>3 DEF HoldInv, HoldOnEntry, HoldFits
<1>5. QED BY <1>1, <1>2, <1>3, <1>4 DEF ProcessEvents

\* Every step keeps the hold and the entry in agreement.
LEMMA HoldNext ==
    ASSUME Types, Types', HoldInv, [Next]_vars
    PROVE  HoldInv'
<1>1. CASE LeaseEvents \/ UNCHANGED vars
  BY <1>1, HoldStays DEF LeaseEvents, LandLeased, LandReleased, RewindLeased, RewindReleased,
     vars, resumeVars, bookVars
<1>2. ASSUME NEW row, Rewritten(row) \/ UNCHANGED bookVars, UNCHANGED held
      PROVE  HoldInv'
  <2>1. /\ entry' = entry /\ disk.entry' = disk.entry
        /\ "hold" \in missed' <=> "hold" \in missed
    BY <1>2 DEF Rewritten, bookVars, Types, Books
  <2>2. QED BY <1>2, <2>1 DEF HoldInv, HoldOnEntry, HoldFits, StoredHold, KeptHold
<1>3. CASE JournalEvents
  BY <1>2, <1>3 DEF JournalEvents, Journalled, Unjournalled, resumeVars
<1>4. QED
  BY <1>1, <1>3, HoldTurnEvents, HoldHoldEvents, HoldQueueEvents, HoldProcessEvents DEF Next

\* keepLimitHold: whichever event moves the hold, the entry keeps exactly it,
\* until a save that failed ahead of the write.
THEOREM HoldKeptOnEntry == Spec => []HoldOnEntry
<1>1. Init => Types /\ HoldInv BY InitTypes, HoldInit
<1>2. Types /\ HoldInv /\ [Next]_vars => (Types /\ HoldInv)'
  BY NextTypes, HoldNext
<1>3. Types /\ HoldInv => HoldOnEntry BY DEF HoldInv
<1>4. QED BY <1>1, <1>2, <1>3, PTL DEF Spec

-----------------------------------------------------------------------------
(* The entry on disk. Every change to it either reaches the database in the*)
(* same step or leaves the entry marked for the next save.                 *)

\* A boot of what a boot read reads the same.
LEMMA RestoredTwice ==
    ASSUME NEW e, EntryShape(e)
    PROVE  Restored(Restored(e)) = Restored(e)
<1>1. CASE Restorable(e) BY <1>1 DEF Restored
<1>2. CASE ~Restorable(e)
  <2> DEFINE bare == [e EXCEPT !.hold = NoStored]
  <2>1. EntryShape(bare) /\ bare.hold = NoStored
    BY <1>2, RestoredShape DEF Restored, EntryShape
  <2>2. ~Restorable(bare) BY <2>1 DEF Restorable
  <2>3. [bare EXCEPT !.hold = NoStored] = bare BY <2>1 DEF EntryShape
  <2>4. QED BY <1>2, <2>2, <2>3 DEF Restored
<1>3. QED BY <1>1, <1>2

\* A save reaches the database or leaves the entry dirty.
LEMMA SavedOnDisk ==
    ASSUME NEW e, NEW row, NEW late, Saved(e, row, late)
    PROVE  EntryOnDisk'
<1>1. entry' = disk.entry' \/ dirty' = TRUE BY DEF Saved
<1>2. QED BY <1>1 DEF EntryOnDisk, Restored, Restorable, StandsBehind

\* What leaves the entry and its stored copy alone keeps them alike.
LEMMA OnDiskStays ==
    ASSUME EntryOnDisk, UNCHANGED <<entry, dirty>>, disk.entry' = disk.entry,
           "rows" \in missed => "rows" \in missed'
    PROVE  EntryOnDisk'
BY DEF EntryOnDisk, Restored, Restorable, StandsBehind

\* An event that saves through the hold or the queue keeps them alike.
LEMMA KeptOnDisk ==
    ASSUME EntryOnDisk, HoldKept \/ QueueKept \/ UNCHANGED bookVars
    PROVE  EntryOnDisk'
BY SavedOnDisk, OnDiskStays DEF HoldKept, QueueKept, bookVars

\* Every step keeps the entry and its stored copy alike, or owes a save.
LEMMA OnDiskNext ==
    ASSUME Types, EntryOnDisk, [Next]_vars
    PROVE  EntryOnDisk'
<1>1. CASE TurnEvents
  <2>1. CASE Begin BY <2>1, SavedOnDisk DEF Begin
  <2>2. CASE Settle BY <2>2, SavedOnDisk, KeptOnDisk DEF Settle
  <2>3. CASE Abandon BY <2>3, SavedOnDisk DEF Abandon
  <2>4. CASE \E ending : Stop(ending) BY <2>4, KeptOnDisk DEF Stop
  <2>5. CASE ErrorComing \/ PromiseResume \/ (\E ending : ErrorFailed(ending))
             \/ (\E card : Park(card) \/ Resolve(card))
    BY <2>5, KeptOnDisk DEF ErrorComing, PromiseResume, ErrorFailed, Park, Resolve
  <2>6. QED BY <1>1, <2>1, <2>2, <2>3, <2>4, <2>5 DEF TurnEvents
<1>2. CASE JournalEvents
  <2>1. PICK row : Rewritten(row) \/ UNCHANGED bookVars
    BY <1>2 DEF JournalEvents, Journalled, Unjournalled
  <2>2. UNCHANGED <<entry, dirty>> /\ disk.entry' = disk.entry /\ missed \ {"row"} \subseteq missed'
    BY <2>1 DEF Rewritten, bookVars, Types, Books
  <2>3. QED BY <2>2, OnDiskStays
<1>3. CASE LeaseEvents \/ UNCHANGED vars
  BY <1>3, KeptOnDisk DEF LeaseEvents, LandLeased, LandReleased, RewindLeased, RewindReleased, vars
<1>4. CASE HoldEvents
  BY <1>4, KeptOnDisk DEF HoldEvents, TurnHeld, GotSomewhere, ResumeSuperseded, ResumeDropped,
     HeldFired, HeldReplanned, LadderSpent, AuthFiring
<1>5. CASE QueueEvents
  <2>1. ASSUME NEW m, NEW b, NEW opening, QueueScheduled(m, b, opening) PROVE EntryOnDisk'
    <3>1. CASE queue' # queue BY <2>1, <3>1, SavedOnDisk DEF QueueScheduled
    <3>2. CASE queue' = queue
      <4>1. PICK booked : /\ entry' = booked /\ dirty' = (dirty \/ booked # entry)
                          /\ UNCHANGED <<disk, missed>>
        BY <2>1, <3>2 DEF QueueScheduled
      <4>2. CASE entry' = entry BY <4>1, <4>2, OnDiskStays DEF Types, Books
      <4>3. CASE entry' # entry BY <4>1, <4>3 DEF EntryOnDisk
      <4>4. QED BY <4>2, <4>3
    <3>3. QED BY <3>1, <3>2
  <2>2. QED
    BY Zenon, <1>5, <2>1, KeptOnDisk DEF QueueEvents, QueueJoined, QueueRescheduled, QueueTaken,
       QueueReturned, QueueRemoved, QueueEdited, QueueReleased, QueueReleasedAs, QueueRerouted
<1>6. CASE ProcessEvents
  <2>1. CASE OtherSaved \/ \E archived : Archived(archived)
    BY <2>1, SavedOnDisk DEF OtherSaved, Archived
  <2>2. CASE Restart
    <3>1. Restored(Restored(disk.entry)) = Restored(disk.entry)
      BY RestoredTwice DEF Types, Books
    <3>2. entry' = Restored(disk.entry) /\ disk' = disk BY <2>2 DEF Restart
    <3>3. QED BY <3>1, <3>2 DEF EntryOnDisk, Restored, Restorable, StandsBehind
  <2>3. CASE Disposed
    <3>1. entry' = disk.entry' \/ "rows" \in missed' BY <2>3 DEF Disposed
    <3>2. QED BY <3>1 DEF EntryOnDisk, Restored, Restorable, StandsBehind
  <2>4. QED BY <1>6, <2>1, <2>2, <2>3 DEF ProcessEvents
<1>7. QED BY <1>1, <1>2, <1>3, <1>4, <1>5, <1>6 DEF Next

\* replace and persist: an entry owed no save reads the same from the database
\* as from memory, so a restart finds the conversation as it was.
THEOREM EntrySaved == Spec => []EntryOnDisk
<1>1. Init => Types /\ EntryOnDisk
  BY InitTypes DEF Init, EntryOnDisk
<1>2. Types /\ EntryOnDisk /\ [Next]_vars => (Types /\ EntryOnDisk)'
  BY NextTypes, OnDiskNext
<1>3. QED BY <1>1, <1>2, PTL DEF Spec

-----------------------------------------------------------------------------
(* The journal row. A record once written stands: owed with the entry's    *)
(* next save, or with none owed the one the database has.                  *)

StandingRow == IF owed # NoRow THEN owed ELSE disk.row

JournalInv == journal.written /\ "row" \notin missed => journal.row = StandingRow

\* A save leaves the row standing that it was given to write, or with none the
\* one that stood, whether it reached the database or not.
LEMMA SavedRow ==
    ASSUME NEW e, NEW row, NEW late, Saved(e, row, late)
    PROVE  /\ StandingRow' = IF row # NoRow THEN row ELSE disk.row
           /\ "row" \in missed' <=> "row" \in missed
BY DEF Saved, StandingRow

\* What saves the row that stands, or reaches no book, keeps the record's row.
LEMMA JournalStays ==
    ASSUME JournalInv, UNCHANGED journal,
           \/ \E e, late : Saved(e, owed, late)
           \/ UNCHANGED <<owed, missed>> /\ disk.row' = disk.row
    PROVE  JournalInv'
<1>1. ("row" \in missed' <=> "row" \in missed) /\ StandingRow' = StandingRow
  BY SavedRow DEF StandingRow
<1>2. QED BY <1>1 DEF JournalInv

\* So do the events that save through the hold or the queue.
LEMMA KeptJournal ==
    ASSUME JournalInv, UNCHANGED journal, HoldKept \/ QueueKept \/ UNCHANGED bookVars
    PROVE  JournalInv'
BY JournalStays DEF HoldKept, QueueKept, bookVars

\* A turn's own events: a begin writes the record staged, the rest none.
LEMMA JournalTurnEvents ==
    ASSUME Types, JournalInv, TurnEvents
    PROVE  JournalInv'
<1>1. CASE Begin
  <2> DEFINE staged == journal.row # NoRow /\ ~journal.written
  <2>1. CASE staged
    <3>1. Saved(Opened, journal.row, FALSE) BY <1>1, <2>1 DEF Begin
    <3>2. journal'.row = journal.row BY <1>1, <2>1 DEF Begin, Types, Turn
    <3>3. journal.row # NoRow BY <2>1
    <3>4. StandingRow' = journal.row BY <3>1, <3>3 DEF Saved, StandingRow
    <3>5. QED BY <3>2, <3>4 DEF JournalInv
  <2>2. CASE ~staged
    <3>1. Saved(Opened, owed, FALSE) /\ UNCHANGED journal BY <1>1, <2>2 DEF Begin
    <3>2. QED BY <3>1, JournalStays
  <2>3. QED BY <2>1, <2>2
<1>2. CASE Settle BY <1>2, JournalStays, KeptJournal DEF Settle
<1>3. CASE Abandon BY <1>3, JournalStays DEF Abandon
<1>4. CASE ErrorComing \/ PromiseResume \/ (\E ending : ErrorFailed(ending) \/ Stop(ending))
           \/ (\E card : Park(card) \/ Resolve(card))
  BY <1>4, KeptJournal DEF ErrorComing, PromiseResume, ErrorFailed, Stop, Park, Resolve
<1>5. QED BY <1>1, <1>2, <1>3, <1>4 DEF TurnEvents

\* A version filed is written where the last one stands, or missed; a record
\* cleared is written no more.
LEMMA JournalJournalEvents ==
    ASSUME Types, JournalInv, JournalEvents
    PROVE  JournalInv'
<1>1. ASSUME NEW run \in Runs, NEW settled \in BOOLEAN,
             Journalled([run |-> run, settled |-> settled, attempts |-> 0])
      PROVE  JournalInv'
  <2> DEFINE row == [run |-> run, settled |-> settled, attempts |-> 0]
  <2>1. row # NoRow BY DEF NoRow, Runs
  <2>2. journal'.row = row /\ journal'.written = journal.written
    BY <1>1 DEF Journalled, Types, Turn
  <2>3. CASE journal.written
    <3>1. Rewritten(row) BY <1>1, <2>3 DEF Journalled
    <3>2. StandingRow' = row \/ "row" \in missed'
      BY <2>1, <3>1 DEF Rewritten, StandingRow, Types, Books
    <3>3. QED BY <2>2, <3>2 DEF JournalInv
  <2>4. CASE ~journal.written BY <2>2, <2>4 DEF JournalInv
  <2>5. QED BY <2>3, <2>4 DEF Types, Turn
<1>2. ASSUME NEW run \in Runs, Unjournalled(run)
      PROVE  JournalInv'
  BY <1>2 DEF Unjournalled, NoJournal, JournalInv
<1>3. QED BY <1>1, <1>2 DEF JournalEvents

\* Every step keeps a written record standing.
LEMMA JournalNext ==
    ASSUME Types, JournalInv, [Next]_vars
    PROVE  JournalInv'
<1>1. CASE LeaseEvents \/ UNCHANGED vars
  BY <1>1, KeptJournal DEF LeaseEvents, LandLeased, LandReleased, RewindLeased, RewindReleased,
     vars
<1>2. CASE HoldEvents
  BY <1>2, KeptJournal DEF HoldEvents, TurnHeld, GotSomewhere, ResumeSuperseded, ResumeDropped,
     HeldFired, HeldReplanned, LadderSpent, AuthFiring, Elsewhere
<1>3. CASE QueueEvents
  <2>1. ASSUME NEW m, NEW b, NEW opening, QueueScheduled(m, b, opening) PROVE JournalInv'
    <3>1. UNCHANGED journal BY <2>1 DEF QueueScheduled, QueueMoves, Elsewhere
    <3>2. CASE queue' # queue BY <2>1, <3>1, <3>2, JournalStays DEF QueueScheduled
    <3>3. CASE queue' = queue BY <2>1, <3>1, <3>3, JournalStays DEF QueueScheduled
    <3>4. QED BY <3>2, <3>3
  <2>2. ASSUME NEW after, QueueMoves(after), QueueKept PROVE JournalInv'
    BY <2>2, KeptJournal DEF QueueMoves, Elsewhere
  <2>3. QED
    BY Zenon, <1>3, <2>1, <2>2 DEF QueueEvents, QueueJoined, QueueRescheduled, QueueTaken,
       QueueReturned, QueueRemoved, QueueEdited, QueueReleased, QueueReleasedAs, QueueRerouted
<1>4. CASE ProcessEvents
  <2>1. CASE OtherSaved \/ \E archived : Archived(archived)
    BY <2>1, JournalStays DEF OtherSaved, Archived
  <2>2. CASE Restart \/ Disposed
    BY <2>2 DEF Restart, Disposed, Fresh, NoJournal, JournalInv
  <2>3. QED BY <1>4, <2>1, <2>2 DEF ProcessEvents
<1>5. QED
  BY <1>1, <1>2, <1>3, <1>4, JournalTurnEvents, JournalJournalEvents DEF Next

\* The record of the newest run is the one a restart reads, on disk or owed with
\* the entry's next save, but where a write of the record's own failed
\* (onJournalled, onUnjournalled, books.journal).
THEOREM RecordStands == Spec => []JournalOnDisk
<1>1. Init => Types /\ JournalInv
  BY InitTypes DEF Init, NoJournal, JournalInv
<1>2. Types /\ JournalInv /\ [Next]_vars => (Types /\ JournalInv)'
  BY NextTypes, JournalNext
<1>3. JournalInv => JournalOnDisk BY DEF JournalInv, JournalOnDisk, StandingRow
<1>4. QED BY <1>1, <1>2, <1>3, PTL DEF Spec

-----------------------------------------------------------------------------
(* The queue and its copies. An empty queue holds nothing, so an entry     *)
(* opened over one needs no copy of it; a conversation with no entry keeps *)
(* none.                                                                   *)

QueueSound(q) == q.revision \in Nat /\ (q.items = << >> => q.paused = "none")

\* An entry the fleet does not have keeps nothing waiting.
QueueFits(e) ==
    /\ QueueSound(e.queue)
    /\ ~e.known => e.queue.items = << >>

QueueInv ==
    /\ QueueOnEntry
    /\ QueueSound(queue) /\ QueueFits(entry) /\ QueueFits(disk.entry)

\* The next queue is sound, and never the one it was.
LEMMA MovedSound ==
    ASSUME NEW q, QueueSound(q), NEW items, NEW hold
    PROVE  /\ QueueSound(Moved(q, items, hold))
           /\ Moved(q, items, hold) # q
<1> DEFINE moved == Moved(q, items, hold)
<1>1. moved.revision = q.revision + 1 /\ moved.items = items BY DEF Moved
<1>2. CASE items = << >>
  <2>1. DOMAIN items = {} BY <1>2
  <2>2. ~AnyWaits(items) BY <2>1 DEF AnyWaits
  <2>3. SoonestOf(items) = NoBooking BY <2>1 DEF SoonestOf
  <2>4. moved.paused = "none" BY <2>2, <2>3 DEF Moved
  <2>5. QED BY <1>1, <2>4 DEF QueueSound
<1>3. QED BY <1>1, <1>2 DEF QueueSound

\* So is what each event makes of a sound queue.
LEMMA EventsSound ==
    ASSUME QueueSound(queue), Types, QueueEvents \/ (\E ending : Stop(ending)) \/ ResumeSuperseded
    PROVE  QueueSound(queue')
<1>1. QueueSound(Held(queue, "stopped")) /\ QueueSound(Superseded(queue))
  BY MovedSound DEF Held, Superseded
<1>2. \A m, b : QueueSound(Joined(queue, m)) /\ QueueSound(Scheduled(queue, m, b))
  BY MovedSound DEF Joined, Scheduled
<1>3. \A b, ids : QueueSound(Rescheduled(queue, b, ids)) /\ QueueSound(Taken(queue, ids))
  BY MovedSound DEF Rescheduled, Taken
<1>4. \A ms : QueueSound(Returned(queue, ms)) BY MovedSound DEF Returned
<1>5. \A id, revision, text :
         QueueSound(Removed(queue, id, revision)) /\ QueueSound(Edited(queue, id, revision, text))
  BY MovedSound DEF Removed, Edited
<1>6. ASSUME NEW q, QueueSound(q), NEW ids PROVE QueueSound(Released(q, ids))
  BY <1>6, MovedSound DEF Released
<1>7. \A serves, ids : QueueSound(Rerouted(queue, serves, ids))
  BY MovedSound DEF Rerouted
<1>8. CASE QueueEvents
  <2>1. \A after : QueueMoves(after) => queue' = after BY DEF QueueMoves
  <2>2. \A q, serves, ids : q = Rerouted(queue, serves, ids) =>
                              QueueSound(q) /\ QueueSound(Released(q, ids))
    BY <1>6, <1>7
  <2> HIDE ConversationAssumption
  <2>3. QED
    BY Zenon, <1>2, <1>3, <1>4, <1>5, <1>6, <1>8, <2>1, <2>2 DEF QueueEvents, QueueJoined,
       QueueScheduled, QueueRescheduled, QueueTaken, QueueReturned, QueueRemoved, QueueEdited,
       QueueReleased, QueueReleasedAs, QueueRerouted
<1>9. CASE (\E ending : Stop(ending)) \/ ResumeSuperseded
  BY <1>1, <1>9 DEF Stop, ResumeSuperseded
<1>10. QED BY <1>8, <1>9

\* A save of an entry that keeps what waits leaves both copies keeping it.
LEMMA SavedQueue ==
    ASSUME QueueInv, QueueSound(queue'),
           NEW e, EntryShape(e), QueueFits(e),
           e.known => e.queue.items = queue'.items /\ e.queue.paused = queue'.paused,
           NEW row, NEW late, Saved(e, row, late)
    PROVE  QueueInv'
<1>1. HoldWritten(e).queue = e.queue /\ HoldWritten(e).known = e.known
  BY DEF HoldWritten, EntryShape
<1>2. entry'.queue = e.queue /\ entry'.known = e.known BY <1>1 DEF Saved
<1>3. disk.entry' = disk.entry \/ disk.entry' = entry' BY DEF Saved
<1>4. QueueFits(entry') BY <1>2 DEF QueueFits
<1>5. QueueFits(disk.entry') BY <1>3, <1>4 DEF QueueInv, QueueFits
<1>6. QED BY <1>2, <1>4, <1>5 DEF QueueInv, QueueOnEntry, QueueFits, QueueSound

\* What leaves the queue and both copies alone keeps them together.
LEMMA QueueStays ==
    ASSUME QueueInv, UNCHANGED <<queue, entry>>, disk.entry' = disk.entry
    PROVE  QueueInv'
BY DEF QueueInv, QueueOnEntry, QueueFits, QueueSound

\* An event that saves through the hold or the queue keeps them together.
LEMMA KeptQueue ==
    ASSUME Types, QueueInv, QueueSound(queue'),
           \/ QueueKept
           \/ (HoldKept \/ UNCHANGED bookVars) /\ UNCHANGED queue
    PROVE  QueueInv'
<1>1. EntryShape(entry) BY DEF Types, Books
<1>2. CASE queue' = queue
  <2>1. HoldKept \/ UNCHANGED bookVars BY <1>2 DEF QueueKept
  <2>2. CASE HoldMoves /\ HoldKept
    <3>1. Saved(entry, owed, FALSE) BY <2>2 DEF HoldKept
    <3>2. QED BY <1>1, <1>2, <3>1, SavedQueue DEF QueueInv, QueueOnEntry
  <2>3. CASE ~(HoldMoves /\ HoldKept)
    BY <1>2, <2>1, <2>3, QueueStays DEF HoldKept, bookVars
  <2>4. QED BY <2>2, <2>3
<1>3. CASE queue' # queue
  <2> DEFINE e == QueueWritten(entry)
  <2>1. Saved(e, owed, TRUE) BY <1>3 DEF QueueKept
  <2>2. /\ EntryShape(e) /\ e.known = entry.known
        /\ e.queue = IF entry.known THEN queue' ELSE entry.queue
    BY <1>1 DEF QueueWritten, EntryShape, EntryType
  <2>3. QueueFits(e) BY <2>2 DEF QueueFits, QueueInv
  <2>4. QED BY <2>1, <2>2, <2>3, SavedQueue
<1>4. QED BY <1>2, <1>3

\* A turn's own events: only the entry a begin opens may first need the copy.
LEMMA QueueTurnEvents ==
    ASSUME Types, QueueInv, TurnEvents
    PROVE  QueueInv'
<1>1. EntryShape(entry) BY DEF Types, Books
<1>2. CASE Begin
  <2>1. UNCHANGED queue BY <1>2 DEF Begin
  <2>2. PICK row : Saved(Opened, row, FALSE) BY <1>2 DEF Begin
  <2>3. /\ EntryShape(Opened) /\ Opened.known
        /\ Opened.queue = IF ~entry.known /\ queue.items # << >> THEN queue ELSE entry.queue
    BY <1>1 DEF Opened, EntryShape, EntryType, Endings
  <2>4. QueueFits(Opened) BY <2>3 DEF QueueFits, QueueInv
  <2>5. Opened.queue.items = queue.items /\ Opened.queue.paused = queue.paused
    BY <2>3 DEF QueueInv, QueueOnEntry, QueueFits, QueueSound
  <2>6. QED BY <2>1, <2>2, <2>3, <2>4, <2>5, SavedQueue DEF QueueInv
<1>3. ASSUME NEW ending, EntryShape([entry EXCEPT !.ending = ending]), NEW late,
             UNCHANGED queue, Saved([entry EXCEPT !.ending = ending], owed, late)
      PROVE  QueueInv'
  <2> DEFINE e == [entry EXCEPT !.ending = ending]
  <2>1. e.known = entry.known /\ e.queue = entry.queue BY <1>1 DEF EntryShape
  <2>2. QED BY <1>3, <2>1, SavedQueue DEF QueueInv, QueueOnEntry, QueueFits
<1>4. \A ending \in Endings : EntryShape([entry EXCEPT !.ending = ending])
  BY <1>1 DEF EntryShape, EntryType
<1>5. CASE Settle
  <2>1. CASE entry.known
    <3>1. PICK ending \in Endings : Saved([entry EXCEPT !.ending = ending], owed, TRUE)
      BY <1>5, <2>1 DEF Settle, Fruitful, HoldGone, Types, Turn, Endings
    <3>2. QED BY <1>3, <1>4, <1>5, <3>1 DEF Settle
  <2>2. CASE ~entry.known
    BY <1>5, <2>2, QueueStays DEF Settle, Fruitful, HoldGone, bookVars
  <2>3. QED BY <2>1, <2>2
<1>6. CASE Abandon
  BY <1>3, <1>4, <1>6 DEF Abandon, Endings
<1>7. CASE \E ending : Stop(ending)
  <2>1. QueueSound(queue') BY <1>7, EventsSound DEF QueueInv
  <2>2. QED BY <1>7, <2>1, KeptQueue DEF Stop
<1>8. CASE ErrorComing \/ PromiseResume \/ (\E ending : ErrorFailed(ending))
           \/ (\E card : Park(card) \/ Resolve(card))
  BY <1>8, QueueStays DEF ErrorComing, PromiseResume, ErrorFailed, Park, Resolve, bookVars
<1>9. QED BY <1>2, <1>5, <1>6, <1>7, <1>8 DEF TurnEvents

\* The events on the queue: one scheduled for a conversation with no entry opens
\* it with the queue it joined.
LEMMA QueueQueueEvents ==
    ASSUME Types, QueueInv, QueueEvents
    PROVE  QueueInv'
<1>1. EntryShape(entry) BY DEF Types, Books
<1>2. QueueSound(queue') BY EventsSound DEF QueueInv
<1>3. ASSUME NEW after, QueueMoves(after), QueueKept PROVE QueueInv'
  BY <1>2, <1>3, KeptQueue
<1>4. ASSUME NEW m \in Messages, NEW b \in Bookings, NEW opening \in BOOLEAN,
             opening => m.id \notin Ids(queue.items), QueueScheduled(m, b, opening)
      PROVE  QueueInv'
  <2> DEFINE booked == IF opening /\ ~entry.known THEN RestingEntry ELSE entry
             e == QueueWritten(booked)
  <2>1. CASE queue' # queue
    <3>1. Saved(e, owed, TRUE) BY <1>4, <2>1 DEF QueueScheduled
    <3>2. EntryShape(booked) /\ (~booked.known => booked = entry)
      BY <1>1 DEF RestingEntry, NoStored, EntryShape, EntryType, Endings
    <3>3. /\ EntryShape(e) /\ e.known = booked.known
          /\ e.queue = IF booked.known THEN queue' ELSE entry.queue
      BY <3>2 DEF QueueWritten, EntryShape, EntryType
    <3>4. QueueFits(e) BY <1>2, <3>2, <3>3 DEF QueueFits, QueueInv
    <3>5. QED BY <1>2, <3>1, <3>3, <3>4, SavedQueue
  <2>2. CASE queue' = queue
    <3>1. m.id \in Ids(queue.items)
      BY <1>4, <2>2, MovedSound DEF QueueScheduled, QueueMoves, Scheduled, QueueInv
    <3>2. booked = entry BY <1>4, <3>1
    <3>3. entry' = entry /\ disk' = disk BY <1>4, <2>2, <3>2 DEF QueueScheduled
    <3>4. QED BY <2>2, <3>3, QueueStays
  <2>3. QED BY <2>1, <2>2
<1>5. QED
  BY Zenon, <1>3, <1>4 DEF QueueEvents, QueueJoined, QueueRescheduled, QueueTaken,
     QueueReturned, QueueRemoved, QueueEdited, QueueReleased, QueueReleasedAs, QueueRerouted

\* Every step keeps the queue and its copies together.
LEMMA QueueNext ==
    ASSUME Types, QueueInv, [Next]_vars
    PROVE  QueueInv'
<1>1. CASE LeaseEvents \/ UNCHANGED vars
  BY <1>1, QueueStays DEF LeaseEvents, LandLeased, LandReleased, RewindLeased, RewindReleased,
     vars, bookVars
<1>2. CASE JournalEvents
  <2>1. PICK row : Rewritten(row) \/ UNCHANGED bookVars
    BY <1>2 DEF JournalEvents, Journalled, Unjournalled
  <2>2. UNCHANGED <<queue, entry>> BY <1>2, <2>1 DEF JournalEvents, Journalled, Unjournalled,
     Rewritten, bookVars
  <2>3. disk.entry' = disk.entry BY <2>1 DEF Rewritten, bookVars, Types, Books
  <2>4. QED BY <2>2, <2>3, QueueStays
<1>3. CASE HoldEvents
  <2>1. CASE ResumeSuperseded
    <3>1. QueueSound(queue') BY <2>1, EventsSound DEF QueueInv
    <3>2. QED BY <2>1, <3>1, KeptQueue DEF ResumeSuperseded
  <2>2. ASSUME UNCHANGED queue, HoldKept \/ UNCHANGED bookVars PROVE QueueInv'
    BY <2>2, KeptQueue DEF QueueInv
  <2>3. QED
    BY <1>3, <2>1, <2>2 DEF HoldEvents, TurnHeld, GotSomewhere, ResumeDropped, HeldFired,
       HeldReplanned, LadderSpent, AuthFiring
<1>4. CASE ProcessEvents
  <2>0. EntryShape(entry) /\ EntryShape(disk.entry) BY DEF Types, Books
  <2>1. ASSUME NEW archived \in BOOLEAN, Archived(archived) PROVE QueueInv'
    <3> DEFINE e == [entry EXCEPT !.archived = archived]
    <3>1. EntryShape(e) /\ e.known = entry.known /\ e.queue = entry.queue
      BY <2>0 DEF EntryShape, EntryType
    <3>2. UNCHANGED queue /\ Saved(e, owed, FALSE) BY <2>1 DEF Archived
    <3>3. QED BY <3>1, <3>2, SavedQueue DEF QueueInv, QueueOnEntry, QueueFits
  <2>2. CASE OtherSaved
    BY <2>0, <2>2, SavedQueue DEF OtherSaved, QueueInv, QueueOnEntry
  <2>3. CASE Restart
    <3>1. Restored(disk.entry).queue = disk.entry.queue
          /\ Restored(disk.entry).known = disk.entry.known
      BY <2>0 DEF Restored, EntryShape
    <3>2. queue' = disk.entry.queue /\ entry' = Restored(disk.entry) /\ disk' = disk
      BY <2>3 DEF Restart, Fresh
    <3>3. QED BY <3>1, <3>2 DEF QueueInv, QueueOnEntry, QueueFits, QueueSound
  <2>4. CASE Disposed
    <3>1. queue' = EmptyQueue /\ entry' = NoEntry /\ disk.entry' \in {NoEntry, disk.entry}
      BY <2>4 DEF Disposed, Fruitful, HoldGone, Fresh
    <3>2. QueueSound(EmptyQueue) /\ QueueFits(NoEntry) /\ ~NoEntry.known
      BY DEF QueueSound, QueueFits, EmptyQueue, NoEntry
    <3>3. QED BY <3>1, <3>2 DEF QueueInv, QueueOnEntry, QueueFits, QueueSound
  <2>5. QED BY <1>4, <2>1, <2>2, <2>3, <2>4 DEF ProcessEvents
<1>5. QED
  BY <1>1, <1>2, <1>3, <1>4, QueueTurnEvents, QueueQueueEvents DEF Next

\* Every message waiting is on the entry a restart reads, and none that left it
\* still is, saves failing or not: withQueue, and the queue a begin or a booking
\* opens the entry with.
THEOREM QueueKeptOnEntry == Spec => []QueueOnEntry
<1>1. Init => Types /\ QueueInv
  BY InitTypes DEF Init, QueueInv, QueueOnEntry, QueueFits, QueueSound, NoEntry, EmptyQueue
<1>2. Types /\ QueueInv /\ [Next]_vars => (Types /\ QueueInv)'
  BY NextTypes, QueueNext
<1>3. QueueInv => QueueOnEntry BY DEF QueueInv
<1>4. QED BY <1>1, <1>2, <1>3, PTL DEF Spec

-----------------------------------------------------------------------------
(* What waits: of its type, no message twice, in the order it was said. An *)
(* operation on the queue filters it, changes messages where they stand, or*)
(* puts messages ahead of it or behind it; each keeps the order of those   *)
(* that stay.                                                              *)

Distinct(items) == \A i, j \in DOMAIN items : i # j => items[i].id # items[j].id

Row(items) == items \in Seq(Queued) /\ Distinct(items)

QueueShape(q) ==
    /\ q = [items |-> q.items, revision |-> q.revision, paused |-> q.paused,
            soonest |-> q.soonest]
    /\ QueueType(q)

\* Those of a queue's messages that stay in the next stand in the order they did.
AheadIn(items, x, y) ==
    \E i, j \in DOMAIN items : i < j /\ items[i].id = x /\ items[j].id = y

InOrder(items, next) ==
    \A x, y \in Ids(items) \cap Ids(next) : AheadIn(items, x, y) => AheadIn(next, x, y)

BookingsOrNone == Bookings \cup {NoBooking}

\* The fields of a message that waits, and what an edit makes of it.
LEMMA QueuedFields ==
    ASSUME NEW item \in Queued
    PROVE  /\ item.booking \in BookingsOrNone
           /\ Fields \subseteq DOMAIN item
           /\ \A b \in BookingsOrNone :
                 /\ [item EXCEPT !.booking = b] \in Queued
                 /\ [item EXCEPT !.booking = b].id = item.id
           /\ \A text \in {m.text : m \in Messages}, r \in 1..MaxRevision :
                 /\ [item EXCEPT !.text = text, !.revision = r] \in Queued
                 /\ [item EXCEPT !.text = text, !.revision = r].id = item.id
           /\ \A serves \in {m.serves : m \in Messages}, r \in 1..MaxRevision :
                 /\ [item EXCEPT !.serves = serves, !.revision = r] \in Queued
                 /\ [item EXCEPT !.serves = serves, !.revision = r].id = item.id
BY DEF Queued, BookingsOrNone, Fields

\* A message as it joins is of the type.
LEMMA EnteredTyped ==
    ASSUME NEW q, q.revision \in Nat, q.revision < MaxRevision,
           NEW m \in Messages, NEW b \in BookingsOrNone
    PROVE  Entered(q, m, b) \in Queued /\ Entered(q, m, b).id = m.id
<1>1. q.revision + 1 \in 1..MaxRevision OBVIOUS
<1>2. QED BY <1>1 DEF Entered, Queued, BookingsOrNone

\* The earliest booking is one of those that stand, or an instant one of them
\* names.
LEMMA SoonestTyped ==
    ASSUME NEW items \in Seq(Queued)
    PROVE  SoonestOf(items) \in BookingsOrNone
<1> DEFINE booked == {i \in DOMAIN items : IsBooked(items[i])}
           timed == {i \in booked : items[i].booking.until > 0}
           instants == {items[i].booking.until : i \in timed}
<1>1. /\ DOMAIN items \subseteq Nat
      /\ \A i \in DOMAIN items : items[i] \in Queued /\ items[i].booking \in BookingsOrNone
  <2>1. Len(items) \in Nat /\ DOMAIN items = 1..Len(items) OBVIOUS
  <2>2. \A i \in DOMAIN items : items[i] \in Queued OBVIOUS
  <2>3. \A i \in DOMAIN items : items[i].booking \in BookingsOrNone BY <2>2, QueuedFields
  <2>4. QED BY <2>1, <2>2, <2>3
<1>2. \A i \in booked : items[i].booking \in Bookings
  BY <1>1 DEF IsBooked, BookingsOrNone
<1>3. CASE timed # {}
  <2>1. instants # {} /\ instants \subseteq Nat BY <1>2, <1>3
  <2> DEFINE m == Min(instants)
  <2>2. \E x \in instants : \A y \in instants : x <= y
    <3> HIDE DEF instants
    <3> QED BY <2>1, Least
  <2>3. m \in instants
    <3> HIDE DEF instants
    <3> QED BY <2>2 DEF Min
  <2>4. PICK i \in timed : m = items[i].booking.until BY <2>3
  <2>5. items[i].booking \in Bookings /\ items[i].booking.until > 0 BY <1>2, <2>4
  <2>6. items[i].booking = [until |-> m, after |-> NoConv] BY <2>4, <2>5
  <2>7. SoonestOf(items) = [until |-> m, after |-> NoConv] BY <1>3 DEF SoonestOf
  <2>8. QED BY <2>5, <2>6, <2>7 DEF BookingsOrNone
<1>4. CASE timed = {} /\ booked # {}
  <2>1. booked \subseteq Nat BY <1>1
  <2>2. Min(booked) \in booked
    <3> HIDE DEF booked
    <3>1. \E x \in booked : \A y \in booked : x <= y BY <1>4, <2>1, Least
    <3> QED BY <3>1 DEF Min
  <2>3. SoonestOf(items) = items[Min(booked)].booking BY <1>4 DEF SoonestOf
  <2>4. QED BY <1>2, <2>2, <2>3 DEF BookingsOrNone
<1>5. CASE timed = {} /\ booked = {}
  BY <1>5 DEF SoonestOf, BookingsOrNone
<1>6. QED BY <1>3, <1>4, <1>5

\* The next queue is of its type whatever it holds, and keeps a hold that has
\* something to hold.
LEMMA MovedShape ==
    ASSUME NEW q, q.revision \in Nat, NEW items, Row(items), NEW hold \in Holds \cup {"none"}
    PROVE  /\ QueueShape(Moved(q, items, hold))
           /\ Moved(q, items, hold).items = items
           /\ hold # "none" /\ AnyWaits(items) => HoldOf(Moved(q, items, hold)) # "none"
<1> DEFINE n == Moved(q, items, hold)
<1>1. SoonestOf(items) \in BookingsOrNone BY SoonestTyped DEF Row
<1>2. /\ n.items = items /\ n.revision = q.revision + 1
      /\ n = [items |-> n.items, revision |-> n.revision, paused |-> n.paused,
              soonest |-> n.soonest]
  BY DEF Moved
<1>3. /\ n.soonest \in BookingsOrNone
      /\ n.paused \in Holds \cup {"none", "scheduled"}
      /\ n.paused \in Holds => AnyWaits(items)
      /\ n.paused = "scheduled" <=> n.soonest # NoBooking
  BY <1>1 DEF Moved, Holds, BookingsOrNone
<1>4. hold # "none" /\ AnyWaits(items) => HoldOf(n) # "none"
  BY DEF Moved, Holds, HoldOf
<1> HIDE DEF n
<1>5. QED BY <1>2, <1>3, <1>4 DEF QueueShape, QueueType, Row, Distinct, BookingsOrNone, n

LEMMA HoldOfTyped == \A q : HoldOf(q) \in Holds \cup {"none"}
BY DEF HoldOf

\* A filter keeps the type, the order, and what it does not drop.
LEMMA OnlyRow ==
    ASSUME NEW items, Row(items), NEW kept
    PROVE  /\ Row(Only(items, kept)) /\ InOrder(items, Only(items, kept))
           /\ \A i \in DOMAIN items :
                 i \in kept => \E j \in DOMAIN Only(items, kept) : Only(items, kept)[j] = items[i]
<1> DEFINE o == Only(items, kept)
           L == Len(items)
<1>1. items \in Seq(Queued) /\ L \in Nat /\ DOMAIN items = 1..L BY DEF Row
<1>2. o \in Seq(Queued) /\ \E e : Stand(e, o, items, kept, L) BY <1>1, OnlyStand
<1>3. PICK e : Stand(e, o, items, kept, L) BY <1>2
<1> HIDE DEF o
<1>4. /\ \A j \in DOMAIN o : e[j] \in DOMAIN items /\ e[j] \in 1..L /\ o[j] = items[e[j]]
      /\ \A j, k \in DOMAIN o : j < k => e[j] < e[k]
      /\ \A i \in DOMAIN items : i \in kept => \E j \in DOMAIN o : e[j] = i
  BY <1>1, <1>3 DEF Stand
<1>5. \A j \in DOMAIN o : j \in Nat BY <1>2
<1>6. Distinct(o)
  <2>1. SUFFICES ASSUME NEW j \in DOMAIN o, NEW k \in DOMAIN o, j # k
                 PROVE  o[j].id # o[k].id
    BY DEF Distinct
  <2>2. e[j] # e[k] BY <1>4, <1>5, <2>1
  <2>3. QED BY <1>4, <2>2 DEF Row, Distinct
<1>7. InOrder(items, o)
  <2>1. SUFFICES ASSUME NEW x \in Ids(items) \cap Ids(o), NEW y \in Ids(items) \cap Ids(o),
                        AheadIn(items, x, y)
                 PROVE  AheadIn(o, x, y)
    BY DEF InOrder
  <2>2. PICK i \in DOMAIN items, j \in DOMAIN items :
             i < j /\ items[i].id = x /\ items[j].id = y
    BY <2>1 DEF AheadIn
  <2>3. PICK k \in DOMAIN o, l \in DOMAIN o : o[k].id = x /\ o[l].id = y BY DEF Ids
  <2>4. e[k] = i /\ e[l] = j BY <1>4, <2>2, <2>3 DEF Row, Distinct
  <2>5. k < l BY <1>1, <1>4, <1>5, <2>2, <2>4
  <2>6. QED BY <2>3, <2>5 DEF AheadIn
<1>8. \A i \in DOMAIN items : i \in kept => \E j \in DOMAIN o : o[j] = items[i]
  BY <1>4
<1>9. QED BY <1>2, <1>6, <1>7, <1>8 DEF Row, o

\* So do changes to messages where they stand.
LEMMA ChangedRow ==
    ASSUME NEW items, Row(items), NEW next, next = [i \in DOMAIN items |-> next[i]],
           \A i \in DOMAIN items : next[i] \in Queued /\ next[i].id = items[i].id
    PROVE  Row(next) /\ InOrder(items, next) /\ Ids(next) = Ids(items)
<1>1. Len(items) \in Nat /\ DOMAIN items = 1..Len(items) BY DEF Row
<1>2. next \in [1..Len(items) -> Queued] /\ DOMAIN next = DOMAIN items BY <1>1
<1>3. next \in Seq(Queued) BY <1>1, <1>2, SeqDef
<1>4. Distinct(next) BY <1>2 DEF Row, Distinct
<1>5. InOrder(items, next) BY <1>2 DEF InOrder, AheadIn
<1>6. QED BY <1>2, <1>3, <1>4, <1>5 DEF Row, Ids

\* So does a message at the end.
LEMMA AppendRow ==
    ASSUME NEW items, Row(items), NEW item \in Queued, item.id \notin Ids(items)
    PROVE  Row(Append(items, item)) /\ InOrder(items, Append(items, item))
<1> DEFINE o == Append(items, item)
           L == Len(items)
<1>1. /\ items \in Seq(Queued) /\ L \in Nat /\ DOMAIN items = 1..L
      /\ o \in Seq(Queued) /\ DOMAIN o = 1..(L + 1) /\ o[L + 1] = item
      /\ \A i \in 1..L : o[i] = items[i]
  BY DEF Row
<1> HIDE DEF o, L
<1>2. \A i \in 1..(L + 1) : i \in 1..L \/ i = L + 1 BY <1>1
<1>3. Distinct(o) BY <1>1, <1>2 DEF Distinct, Row, Ids
<1>4. InOrder(items, o)
  <2>1. SUFFICES ASSUME NEW x, NEW y, AheadIn(items, x, y) PROVE AheadIn(o, x, y)
    BY DEF InOrder
  <2>2. \A i \in DOMAIN items : i \in DOMAIN o /\ o[i] = items[i] BY <1>1
  <2>3. QED BY <2>1, <2>2 DEF AheadIn
<1>5. QED BY <1>1, <1>3, <1>4 DEF Row, o

\* So do messages at the head.
LEMMA AheadRow ==
    ASSUME NEW front, Row(front), NEW items, Row(items), Ids(front) \cap Ids(items) = {}
    PROVE  Row(front \o items) /\ InOrder(items, front \o items)
<1> DEFINE o == front \o items
           m == Len(front)
           n == Len(items)
<1>1. /\ front \in Seq(Queued) /\ items \in Seq(Queued)
      /\ m \in Nat /\ n \in Nat /\ DOMAIN front = 1..m /\ DOMAIN items = 1..n
  BY DEF Row
<1>2. /\ o \in Seq(Queued) /\ DOMAIN o = 1..(m + n)
      /\ \A i \in 1..m : o[i] = front[i]
      /\ \A i \in (m + 1)..(m + n) : o[i] = items[i - m]
  BY <1>1
<1> HIDE DEF o, m, n
<1>3. \A i \in DOMAIN items : m + i \in DOMAIN o /\ o[m + i] = items[i]
  <2>1. SUFFICES ASSUME NEW i \in 1..n
                 PROVE  m + i \in DOMAIN o /\ o[m + i] = items[i]
    BY <1>1
  <2>2. m + i \in (m + 1)..(m + n) /\ m + i \in 1..(m + n) /\ (m + i) - m = i BY <1>1
  <2>3. QED BY <1>2, <2>2
<1>4. \A k \in DOMAIN o : \/ k \in DOMAIN front /\ o[k] = front[k]
                          \/ k - m \in DOMAIN items /\ o[k] = items[k - m]
  <2>1. SUFFICES ASSUME NEW k \in 1..(m + n)
                 PROVE  \/ k \in DOMAIN front /\ o[k] = front[k]
                        \/ k - m \in DOMAIN items /\ o[k] = items[k - m]
    BY <1>2
  <2>2. k \in 1..m \/ (k \in (m + 1)..(m + n) /\ k - m \in 1..n) BY <1>1
  <2>3. QED BY <1>1, <1>2, <2>2
<1>5. Distinct(o)
  <2>1. SUFFICES ASSUME NEW k \in DOMAIN o, NEW l \in DOMAIN o, k # l
                 PROVE  o[k].id # o[l].id
    BY DEF Distinct
  <2>2. k \in Nat /\ l \in Nat BY <1>1, <1>2
  <2>3. CASE k \in DOMAIN front /\ o[k] = front[k] /\ l \in DOMAIN front /\ o[l] = front[l]
    BY <2>1, <2>3 DEF Row, Distinct
  <2>4. CASE /\ k - m \in DOMAIN items /\ o[k] = items[k - m]
             /\ l - m \in DOMAIN items /\ o[l] = items[l - m]
    <3>1. k - m # l - m BY <1>1, <2>1, <2>2
    <3>2. QED BY <2>4, <3>1 DEF Row, Distinct
  <2>5. CASE \/ /\ k \in DOMAIN front /\ o[k] = front[k]
                /\ l - m \in DOMAIN items /\ o[l] = items[l - m]
             \/ /\ l \in DOMAIN front /\ o[l] = front[l]
                /\ k - m \in DOMAIN items /\ o[k] = items[k - m]
    BY <2>5 DEF Ids
  <2>6. QED BY <1>4, <2>3, <2>4, <2>5
<1>6. InOrder(items, o)
  <2>1. SUFFICES ASSUME NEW x, NEW y, AheadIn(items, x, y) PROVE AheadIn(o, x, y)
    BY DEF InOrder
  <2>2. PICK i \in DOMAIN items, j \in DOMAIN items :
             i < j /\ items[i].id = x /\ items[j].id = y
    BY <2>1 DEF AheadIn
  <2>3. m + i < m + j BY <1>1, <2>2
  <2>4. QED BY <1>3, <2>2, <2>3 DEF AheadIn
<1>7. QED BY <1>2, <1>5, <1>6 DEF Row, o

-----------------------------------------------------------------------------
(* What each event makes of the queue.                                     *)

\* A hold that still has something to hold stands.
KeepsHold(q, next) == HoldOf(q) # "none" /\ AnyWaits(next.items) => HoldOf(next) # "none"

\* The next queue is of its type, and what stays in it in order.
Follows(q, next) ==
    /\ QueueShape(next)
    /\ InOrder(q.items, next.items)

\* What a queue's type says of its messages.
LEMMA ShapeParts ==
    ASSUME NEW q, QueueShape(q)
    PROVE  Row(q.items) /\ q.revision \in Nat
BY DEF QueueShape, QueueType, Row, Distinct

LEMMA InOrderSame == \A items : InOrder(items, items)
BY DEF InOrder

\* Moved, given messages in order.
LEMMA MovedFollows ==
    ASSUME NEW q, QueueShape(q), NEW items, Row(items), InOrder(q.items, items),
           NEW hold, hold \in Holds \cup {"none"}
    PROVE  /\ Follows(q, Moved(q, items, hold))
           /\ Moved(q, items, hold).items = items
           /\ HoldOf(q) \in {"none", hold} => KeepsHold(q, Moved(q, items, hold))
<1>1. q.revision \in Nat BY ShapeParts
<1>2. /\ QueueShape(Moved(q, items, hold))
      /\ Moved(q, items, hold).items = items
      /\ hold # "none" /\ AnyWaits(items) => HoldOf(Moved(q, items, hold)) # "none"
  BY <1>1, MovedShape
<1>3. QED BY <1>2 DEF Follows, KeepsHold

\* A stop's hold; then each operation in turn.
LEMMA HeldFollows ==
    ASSUME NEW q, QueueShape(q)
    PROVE  Follows(q, Held(q, "stopped")) /\ KeepsHold(q, Held(q, "stopped"))
           /\ Held(q, "stopped").items = q.items
<1>1. CASE Held(q, "stopped") = q BY <1>1, InOrderSame DEF Follows, KeepsHold
<1>2. CASE Held(q, "stopped") # q
  <2>1. Held(q, "stopped") = Moved(q, q.items, "stopped") /\ "stopped" \in Holds \cup {"none"}
    BY <1>2 DEF Held, Holds
  <2>2. Row(q.items) /\ InOrder(q.items, q.items) BY ShapeParts, InOrderSame
  <2>3. HoldOf(q) \in {"none", "stopped", "refused"} BY DEF HoldOf, Holds
  <2>4. Follows(q, Moved(q, q.items, "stopped")) /\ Moved(q, q.items, "stopped").items = q.items
    BY <2>1, <2>2, MovedFollows
  <2>5. KeepsHold(q, Moved(q, q.items, "stopped"))
    BY <2>1, <2>2, ShapeParts, MovedShape DEF KeepsHold
  <2>6. QED BY <2>1, <2>4, <2>5
<1>3. QED BY <1>1, <1>2

LEMMA SupersededFollows ==
    ASSUME NEW q, QueueShape(q)
    PROVE  /\ Follows(q, Superseded(q)) /\ KeepsHold(q, Superseded(q))
           /\ \A i \in DOMAIN q.items : ~q.items[i].continues =>
                 \E j \in DOMAIN Superseded(q).items : Superseded(q).items[j] = q.items[i]
<1> DEFINE stays == {i \in DOMAIN q.items : ~q.items[i].continues}
<1>1. CASE Superseded(q) = q BY <1>1, InOrderSame DEF Follows, KeepsHold
<1>2. CASE Superseded(q) # q
  <2>1. Superseded(q) = Moved(q, Only(q.items, stays), HoldOf(q)) BY <1>2 DEF Superseded
  <2>2. /\ Row(Only(q.items, stays)) /\ InOrder(q.items, Only(q.items, stays))
        /\ \A i \in DOMAIN q.items : i \in stays =>
              \E j \in DOMAIN Only(q.items, stays) : Only(q.items, stays)[j] = q.items[i]
    <3> HIDE DEF stays
    <3>1. Row(q.items) BY ShapeParts
    <3>2. QED BY <3>1, OnlyRow
  <2>3. /\ Follows(q, Superseded(q)) /\ Superseded(q).items = Only(q.items, stays)
        /\ KeepsHold(q, Superseded(q))
    <3> HIDE DEF stays
    <3>1. QED BY <2>1, <2>2, MovedFollows, HoldOfTyped
  <2>4. QED BY <2>2, <2>3
<1>3. QED BY <1>1, <1>2

LEMMA JoinedFollows ==
    ASSUME NEW q, QueueShape(q), q.revision < MaxRevision, NEW m \in Messages
    PROVE  /\ Follows(q, Joined(q, m))
           /\ m.voice # "person" => KeepsHold(q, Joined(q, m))
<1> DEFINE item == Entered(q, m, NoBooking)
           items == Append(q.items, item)
           hold == IF m.voice = "person" THEN "none" ELSE HoldOf(q)
<1>1. CASE m.id \in Ids(q.items) BY <1>1, InOrderSame DEF Follows, KeepsHold, Joined
<1>2. CASE m.id \notin Ids(q.items)
  <2>1. Joined(q, m) = Moved(q, items, hold) BY <1>2 DEF Joined
  <2>2. item \in Queued /\ item.id = m.id
    BY ShapeParts, EnteredTyped DEF BookingsOrNone
  <2>3. Row(items) /\ InOrder(q.items, items)
    <3> HIDE DEF item
    <3>1. QED BY <1>2, <2>2, ShapeParts, AppendRow
  <2>4. hold \in Holds \cup {"none"} BY HoldOfTyped
  <2> HIDE DEF items
  <2>5. Follows(q, Joined(q, m)) /\ (HoldOf(q) = hold => KeepsHold(q, Joined(q, m)))
    <3> HIDE DEF hold
    <3>1. QED BY <2>1, <2>3, <2>4, MovedFollows
  <2>6. QED BY <2>5
<1>3. QED BY <1>1, <1>2

LEMMA ScheduledFollows ==
    ASSUME NEW q, QueueShape(q), q.revision < MaxRevision, NEW m \in Messages, NEW b \in Bookings
    PROVE  Follows(q, Scheduled(q, m, b)) /\ KeepsHold(q, Scheduled(q, m, b))
<1> DEFINE item == Entered(q, m, b)
           items == Append(q.items, item)
<1>1. CASE m.id \in Ids(q.items) BY <1>1, InOrderSame DEF Follows, KeepsHold, Scheduled
<1>2. CASE m.id \notin Ids(q.items)
  <2>1. Scheduled(q, m, b) = Moved(q, items, HoldOf(q)) BY <1>2 DEF Scheduled
  <2>2. item \in Queued /\ item.id = m.id
    BY ShapeParts, EnteredTyped DEF BookingsOrNone
  <2>3. Row(items) /\ InOrder(q.items, items)
    <3> HIDE DEF item
    <3>1. QED BY <1>2, <2>2, ShapeParts, AppendRow
  <2> HIDE DEF items
  <2>4. QED BY <2>1, <2>3, MovedFollows, HoldOfTyped
<1>3. QED BY <1>1, <1>2

\* A queue whose messages change where they stand.
LEMMA ChangedFollows ==
    ASSUME NEW q, QueueShape(q), NEW next, next = [i \in DOMAIN q.items |-> next[i]],
           \A i \in DOMAIN q.items : next[i] \in Queued /\ next[i].id = q.items[i].id,
           NEW hold \in Holds \cup {"none"}
    PROVE  /\ Follows(q, Moved(q, next, hold))
           /\ Ids(Moved(q, next, hold).items) = Ids(q.items)
           /\ hold = HoldOf(q) => KeepsHold(q, Moved(q, next, hold))
<1>1. Row(next) /\ InOrder(q.items, next) /\ Ids(next) = Ids(q.items)
  BY ShapeParts, ChangedRow
<1>2. QED BY <1>1, MovedFollows

LEMMA ItemsQueued ==
    ASSUME NEW q, QueueShape(q)
    PROVE  \A i \in DOMAIN q.items : q.items[i] \in Queued
<1>1. q.items \in Seq(Queued) BY ShapeParts DEF Row
<1>2. QED BY <1>1

LEMMA RescheduledFollows ==
    ASSUME NEW q, QueueShape(q), NEW b \in Bookings, NEW ids
    PROVE  Follows(q, Rescheduled(q, b, ids)) /\ KeepsHold(q, Rescheduled(q, b, ids))
<1> DEFINE next == [i \in DOMAIN q.items |->
                       IF q.items[i].id \in ids THEN [q.items[i] EXCEPT !.booking = b]
                       ELSE q.items[i]]
<1>1. CASE q.items = << >> BY <1>1, InOrderSame DEF Follows, KeepsHold, Rescheduled
<1>2. CASE q.items # << >>
  <2>1. Rescheduled(q, b, ids) = Moved(q, next, HoldOf(q)) BY <1>2 DEF Rescheduled
  <2>2. \A i \in DOMAIN q.items : next[i] \in Queued /\ next[i].id = q.items[i].id
    BY ItemsQueued, QueuedFields DEF BookingsOrNone
  <2>3. next = [i \in DOMAIN q.items |-> next[i]] OBVIOUS
  <2> HIDE DEF next
  <2>4. QED BY <2>1, <2>2, <2>3, ChangedFollows, HoldOfTyped
<1>3. QED BY <1>1, <1>2

LEMMA ReleasedFollows ==
    ASSUME NEW q, QueueShape(q), NEW ids
    PROVE  Follows(q, Released(q, ids))
<1> DEFINE freed(item) == item.id \in ids /\ IsBooked(item)
           next == [i \in DOMAIN q.items |->
                       IF freed(q.items[i]) THEN [q.items[i] EXCEPT !.booking = NoBooking]
                       ELSE q.items[i]]
<1>1. CASE Released(q, ids) = q BY <1>1, InOrderSame DEF Follows
<1>2. CASE Released(q, ids) # q
  <2>1. Released(q, ids) = Moved(q, next, "none") BY <1>2 DEF Released
  <2>2. \A i \in DOMAIN q.items : next[i] \in Queued /\ next[i].id = q.items[i].id
    BY ItemsQueued, QueuedFields DEF BookingsOrNone
  <2>3. next = [i \in DOMAIN q.items |-> next[i]] OBVIOUS
  <2> HIDE DEF next
  <2>4. QED BY <2>1, <2>2, <2>3, ChangedFollows
<1>3. QED BY <1>1, <1>2

LEMMA ReroutedFollows ==
    ASSUME NEW q, QueueShape(q), q.revision < MaxRevision,
           NEW serves \in {m.serves : m \in Messages}, NEW ids
    PROVE  /\ Follows(q, Rerouted(q, serves, ids)) /\ KeepsHold(q, Rerouted(q, serves, ids))
           /\ Ids(Rerouted(q, serves, ids).items) = Ids(q.items)
<1> DEFINE moving(item) == item.voice = "person" /\ item.id \in ids /\ item.serves # serves
           next == [i \in DOMAIN q.items |->
                       IF moving(q.items[i])
                       THEN [q.items[i] EXCEPT !.serves = serves, !.revision = q.revision + 1]
                       ELSE q.items[i]]
<1>1. CASE Rerouted(q, serves, ids) = q BY <1>1, InOrderSame DEF Follows, KeepsHold
<1>2. CASE Rerouted(q, serves, ids) # q
  <2>1. Rerouted(q, serves, ids) = Moved(q, next, HoldOf(q)) BY <1>2 DEF Rerouted
  <2>2. q.revision + 1 \in 1..MaxRevision BY ShapeParts
  <2>3. \A i \in DOMAIN q.items : next[i] \in Queued /\ next[i].id = q.items[i].id
    <3>1. \A r \in 1..MaxRevision, item \in Queued :
             /\ [item EXCEPT !.serves = serves, !.revision = r] \in Queued
             /\ [item EXCEPT !.serves = serves, !.revision = r].id = item.id
      BY QueuedFields
    <3>2. \A i \in DOMAIN q.items : q.items[i] \in Queued BY ItemsQueued
    <3>3. QED BY <2>2, <3>1, <3>2
  <2>4. next = [i \in DOMAIN q.items |-> next[i]] OBVIOUS
  <2> HIDE DEF next
  <2>5. QED BY <2>1, <2>3, <2>4, ChangedFollows, HoldOfTyped
<1>3. QED BY <1>1, <1>2

LEMMA EditedFollows ==
    ASSUME NEW q, QueueShape(q), q.revision < MaxRevision, NEW id, NEW revision,
           NEW text \in {m.text : m \in Messages}
    PROVE  Follows(q, Edited(q, id, revision, text)) /\ KeepsHold(q, Edited(q, id, revision, text))
<1> DEFINE next == [i \in DOMAIN q.items |->
                       IF q.items[i].id = id
                       THEN [q.items[i] EXCEPT !.text = text, !.revision = q.revision + 1]
                       ELSE q.items[i]]
<1>1. CASE Edited(q, id, revision, text) = q BY <1>1, InOrderSame DEF Follows, KeepsHold
<1>2. CASE Edited(q, id, revision, text) # q
  <2>1. Edited(q, id, revision, text) = Moved(q, next, HoldOf(q)) BY <1>2 DEF Edited
  <2>2. q.revision + 1 \in 1..MaxRevision BY ShapeParts
  <2>3. \A i \in DOMAIN q.items : next[i] \in Queued /\ next[i].id = q.items[i].id
    <3>1. \A r \in 1..MaxRevision, item \in Queued :
             /\ [item EXCEPT !.text = text, !.revision = r] \in Queued
             /\ [item EXCEPT !.text = text, !.revision = r].id = item.id
      BY QueuedFields
    <3>2. \A i \in DOMAIN q.items : q.items[i] \in Queued BY ItemsQueued
    <3>3. QED BY <2>2, <3>1, <3>2
  <2>4. next = [i \in DOMAIN q.items |-> next[i]] OBVIOUS
  <2> HIDE DEF next
  <2>5. QED BY <2>1, <2>3, <2>4, ChangedFollows, HoldOfTyped
<1>3. QED BY <1>1, <1>2

LEMMA WithoutFollows ==
    ASSUME NEW q, QueueShape(q), NEW ids
    PROVE  /\ Follows(q, Moved(q, Without(q.items, ids), HoldOf(q)))
           /\ KeepsHold(q, Moved(q, Without(q.items, ids), HoldOf(q)))
<1>1. Row(Without(q.items, ids)) /\ InOrder(q.items, Without(q.items, ids))
  BY ShapeParts, OnlyRow DEF Without
<1>2. QED BY <1>1, MovedFollows, HoldOfTyped

LEMMA LeavingFollows ==
    ASSUME NEW q, QueueShape(q)
    PROVE  /\ \A ids : Follows(q, Taken(q, ids)) /\ KeepsHold(q, Taken(q, ids))
           /\ \A id, revision : Follows(q, Removed(q, id, revision))
                                /\ KeepsHold(q, Removed(q, id, revision))
<1>1. \A ids : Follows(q, Taken(q, ids)) /\ KeepsHold(q, Taken(q, ids))
  BY WithoutFollows DEF Taken
<1>2. ASSUME NEW id, NEW revision
      PROVE  Follows(q, Removed(q, id, revision)) /\ KeepsHold(q, Removed(q, id, revision))
  <2>1. Follows(q, q) /\ KeepsHold(q, q) BY InOrderSame DEF Follows, KeepsHold
  <2>2. QED BY <2>1, WithoutFollows DEF Removed
<1>3. QED BY <1>1, <1>2

LEMMA ReturnedFollows ==
    ASSUME NEW q, QueueShape(q), q.revision < MaxRevision, NEW m \in Messages
    PROVE  Follows(q, Returned(q, <<m>>)) /\ KeepsHold(q, Returned(q, <<m>>))
<1> DEFINE back == Without(<<m>>, Ids(q.items))
           front == [i \in DOMAIN back |-> Entered(q, back[i], NoBooking)]
<1>1. InRow(<<m>>) /\ Ids(<<m>>) = {m.id}
  <2>1. <<m>> \in Seq({m}) /\ DOMAIN <<m>> = {1} /\ <<m>>[1] = m OBVIOUS
  <2>2. InRow(<<m>>) BY <2>1, RowShape
  <2>3. QED BY <2>1, <2>2 DEF Ids
<1>2. /\ InRow(back)
      /\ \A j \in DOMAIN back : back[j] = m /\ m.id \notin Ids(q.items)
  <2> DEFINE one == <<m>>
             kept == {i \in DOMAIN one : one[i].id \notin Ids(q.items)}
  <2>1. back = Only(one, kept) BY DEF Without
  <2>2. \A i \in DOMAIN one : one[i] = m OBVIOUS
  <2>3. \A i \in kept : m.id \notin Ids(q.items) /\ one[i] = m BY <2>2
  <2>4. InRow(one) BY <1>1
  <2> HIDE DEF one, kept, back
  <2>5. /\ InRow(back)
        /\ \A j \in DOMAIN back : \E i \in DOMAIN one : i \in kept /\ back[j] = one[i]
    BY <2>1, <2>4, OnlyHolds
  <2>6. QED BY <2>3, <2>5
<1>4. Len(back) \in Nat /\ DOMAIN back = 1..Len(back) BY <1>2, RowShape
<1> HIDE DEF back
<1>4b. Entered(q, m, NoBooking) \in Queued /\ Entered(q, m, NoBooking).id = m.id
  BY ShapeParts, EnteredTyped DEF BookingsOrNone
<1>5. \A j \in DOMAIN front : front[j] \in Queued /\ front[j].id = m.id
  BY <1>2, <1>4b
<1>6. front \in Seq(Queued)
  <2>1. front \in [1..Len(back) -> Queued] BY <1>4, <1>5
  <2>2. QED BY <1>4, <2>1, SeqDef
<1>7. Ids(front) \cap Ids(q.items) = {} BY <1>2, <1>5 DEF Ids
<1>8. Distinct(front)
  <2> DEFINE one == <<m>>
             kept == {i \in DOMAIN one : one[i].id \notin Ids(q.items)}
  <2>1. one \in Seq({m}) /\ Len(one) = 1 /\ back = Only(one, kept) BY DEF Without, back
  <2> HIDE DEF one, kept
  <2>2. PICK e : Stand(e, back, one, kept, 1) BY <2>1, OnlyStand
  <2>3. \A j, k \in DOMAIN back : ~(j < k) BY <2>2 DEF Stand
  <2>4. \A j, k \in DOMAIN back : j = k BY <1>4, <2>3
  <2>5. QED BY <2>4 DEF Distinct
<1>9. Row(front \o q.items) /\ InOrder(q.items, front \o q.items)
  <2> HIDE DEF front
  <2>1. QED BY <1>6, <1>7, <1>8, ShapeParts, AheadRow DEF Row
<1>10. Returned(q, <<m>>) = Moved(q, front \o q.items, "refused") BY DEF Returned, back
<1>11. QED
  <2> HIDE DEF front
  <2>1. "refused" \in Holds \cup {"none"} BY DEF Holds
  <2>2. Follows(q, Moved(q, front \o q.items, "refused")) BY <1>9, <2>1, MovedFollows
  <2>3. KeepsHold(q, Moved(q, front \o q.items, "refused"))
    BY <1>9, <2>1, ShapeParts, MovedShape DEF KeepsHold
  <2>4. QED BY <1>10, <2>2, <2>3

\* A press that lets go and a press that also says who is served.
LEMMA ReleasedAsFollows ==
    ASSUME NEW q, QueueShape(q), q.revision < MaxRevision,
           NEW serves \in {m.serves : m \in Messages}, NEW ids
    PROVE  Follows(q, Released(Rerouted(q, serves, ids), ids))
<1> DEFINE r == Rerouted(q, serves, ids)
           n == Released(r, ids)
<1>1. Follows(q, r) /\ Ids(r.items) = Ids(q.items) BY ReroutedFollows
<1>2. Follows(r, n)
  <2> HIDE DEF r
  <2>1. QED BY <1>1, ReleasedFollows DEF Follows
<1> HIDE DEF r, n
<1>3. QED BY <1>1, <1>2 DEF Follows, InOrder, n, r

\* What an operation on the queue makes of it is of its type and in order, and
\* holds what was held unless a person spoke or a press let go.
LEMMA QueueEventFollows ==
    ASSUME QueueShape(queue), QueueEvents
    PROVE  /\ Follows(queue, queue')
           /\ \/ KeepsHold(queue, queue')
              \/ \E m \in Messages : m.voice = "person" /\ QueueJoined(m)
              \/ \E ids \in SUBSET Ids(queue.items) :
                    \/ QueueReleased(ids)
                    \/ \E m \in Messages : QueueReleasedAs(m.serves, ids)
<1> DEFINE G == /\ Follows(queue, queue')
                /\ \/ KeepsHold(queue, queue')
                   \/ \E m \in Messages : m.voice = "person" /\ QueueJoined(m)
                   \/ \E ids \in SUBSET Ids(queue.items) :
                         \/ QueueReleased(ids)
                         \/ \E m \in Messages : QueueReleasedAs(m.serves, ids)
<1>1. ASSUME NEW m \in Messages, QueueJoined(m) PROVE G
  <2>1. queue' = Joined(queue, m) /\ queue.revision < MaxRevision
    BY <1>1 DEF QueueJoined, QueueMoves
  <2>2. Follows(queue, queue') /\ (m.voice # "person" => KeepsHold(queue, queue'))
    BY <2>1, JoinedFollows
  <2>3. QED BY <1>1, <2>2
<1>2. ASSUME NEW m \in Messages, NEW b \in Bookings, NEW opening, QueueScheduled(m, b, opening)
      PROVE  G
  <2>1. queue' = Scheduled(queue, m, b) /\ queue.revision < MaxRevision
    BY <1>2 DEF QueueScheduled, QueueMoves
  <2>2. QED BY <2>1, ScheduledFollows
<1>3. ASSUME NEW b \in Bookings, NEW ids, QueueRescheduled(b, ids) PROVE G
  <2>1. queue' = Rescheduled(queue, b, ids) BY <1>3 DEF QueueRescheduled, QueueMoves
  <2>2. QED BY <2>1, RescheduledFollows
<1>4. ASSUME NEW ids, QueueTaken(ids) PROVE G
  <2>1. queue' = Taken(queue, ids) BY <1>4 DEF QueueTaken, QueueMoves
  <2>2. QED BY <2>1, LeavingFollows
<1>5. ASSUME NEW m \in Messages, QueueReturned(<<m>>) PROVE G
  <2>1. queue' = Returned(queue, <<m>>) /\ queue.revision < MaxRevision
    BY <1>5 DEF QueueReturned, QueueMoves
  <2>2. QED BY <2>1, ReturnedFollows
<1>6. ASSUME NEW id, NEW revision, QueueRemoved(id, revision) PROVE G
  <2>1. queue' = Removed(queue, id, revision) BY <1>6 DEF QueueRemoved, QueueMoves
  <2>2. QED BY <2>1, LeavingFollows
<1>7. ASSUME NEW id, NEW revision, NEW text \in {m.text : m \in Messages},
             QueueEdited(id, revision, text)
      PROVE  G
  <2>1. queue' = Edited(queue, id, revision, text) /\ queue.revision < MaxRevision
    BY <1>7 DEF QueueEdited, QueueMoves
  <2>2. QED BY <2>1, EditedFollows
<1>8. ASSUME NEW ids \in SUBSET Ids(queue.items), QueueReleased(ids) PROVE G
  <2>1. queue' = Released(queue, ids) BY <1>8 DEF QueueReleased, QueueMoves
  <2>2. QED BY <1>8, <2>1, ReleasedFollows
<1>9. ASSUME NEW serves \in {m.serves : m \in Messages}, NEW ids \in SUBSET Ids(queue.items),
             QueueReleasedAs(serves, ids)
      PROVE  G
  <2>1. queue' = Released(Rerouted(queue, serves, ids), ids) /\ queue.revision < MaxRevision
    BY <1>9 DEF QueueReleasedAs, QueueMoves
  <2>2. PICK m \in Messages : serves = m.serves OBVIOUS
  <2>3. QED BY <1>9, <2>1, <2>2, ReleasedAsFollows
<1>10. ASSUME NEW serves \in {m.serves : m \in Messages}, NEW ids, QueueRerouted(serves, ids)
       PROVE  G
  <2>1. queue' = Rerouted(queue, serves, ids) /\ queue.revision < MaxRevision
    BY <1>10 DEF QueueRerouted, QueueMoves
  <2>2. QED BY <2>1, ReroutedFollows
<1> HIDE DEF G
<1>11. G
  BY Zenon, <1>1, <1>2, <1>3, <1>4, <1>5, <1>6, <1>7, <1>8, <1>9, <1>10 DEF QueueEvents
<1>12. QED BY <1>11 DEF G

\* What a step makes of the queue: an operation's result, a stop's, a
\* superseding turn's, what a boot reads, or nothing.
LEMMA QueueStep ==
    ASSUME [Next]_vars, QueueShape(queue)
    PROVE  \/ UNCHANGED queue
           \/ QueueEvents
           \/ \E ending : Stop(ending) /\ queue' = Held(queue, "stopped")
           \/ ResumeSuperseded /\ queue' = Superseded(queue)
           \/ Restart /\ queue' = disk.entry.queue
           \/ Disposed /\ queue' = EmptyQueue
<1>1. CASE TurnEvents
  BY <1>1 DEF TurnEvents, Begin, ErrorComing, PromiseResume, ErrorFailed, Park, Resolve, Stop,
     Settle, Abandon
<1>2. CASE JournalEvents \/ LeaseEvents \/ UNCHANGED vars
  BY <1>2 DEF JournalEvents, Journalled, Unjournalled, LeaseEvents, LandLeased, LandReleased,
     RewindLeased, RewindReleased, vars
<1>3. CASE HoldEvents
  BY <1>3 DEF HoldEvents, TurnHeld, GotSomewhere, ResumeSuperseded, ResumeDropped, HeldFired,
     HeldReplanned, LadderSpent, AuthFiring
<1>4. CASE ProcessEvents
  BY <1>4 DEF ProcessEvents, Archived, OtherSaved, Restart, Disposed, Fresh
<1>5. QED BY <1>1, <1>2, <1>3, <1>4 DEF Next

\* A save writes the entry's own queue, here and in the database.
LEMMA SavedCopies ==
    ASSUME NEW e, EntryShape(e), NEW row, NEW late, Saved(e, row, late)
    PROVE  /\ entry'.queue = e.queue
           /\ disk.entry'.queue \in {disk.entry.queue, e.queue}
<1>1. HoldWritten(e).queue = e.queue BY DEF HoldWritten, EntryShape
<1>2. entry'.queue = e.queue BY <1>1 DEF Saved
<1>3. disk.entry' = disk.entry \/ disk.entry' = entry' BY DEF Saved
<1>4. QED BY <1>2, <1>3

\* The copies of the queue are each one that was there, the queue as it was or as
\* it is, or an empty one.
Copied(q) == q \in {queue, queue', entry.queue, disk.entry.queue, EmptyQueue}

LEMMA KeptCopies ==
    ASSUME EntryShape(entry), HoldKept \/ QueueKept \/ UNCHANGED bookVars
    PROVE  Copied(entry'.queue) /\ Copied(disk.entry'.queue)
<1>1. CASE UNCHANGED bookVars BY <1>1 DEF bookVars, Copied
<1>2. ASSUME NEW row, NEW late, Saved(entry, row, late)
      PROVE  Copied(entry'.queue) /\ Copied(disk.entry'.queue)
  BY <1>2, SavedCopies DEF Copied
<1>3. ASSUME NEW row, NEW late, Saved(QueueWritten(entry), row, late)
      PROVE  Copied(entry'.queue) /\ Copied(disk.entry'.queue)
  <2>1. EntryShape(QueueWritten(entry)) /\ QueueWritten(entry).queue \in {queue', entry.queue}
    BY DEF QueueWritten, EntryShape, EntryType
  <2>2. QED BY <1>3, <2>1, SavedCopies DEF Copied
<1>4. QED BY <1>1, <1>2, <1>3 DEF HoldKept, QueueKept

\* Whatever the step, a copy of the queue is of one there was.
LEMMA NextCopies ==
    ASSUME Types, [Next]_vars
    PROVE  Copied(entry'.queue) /\ Copied(disk.entry'.queue)
<1> DEFINE G == Copied(entry'.queue) /\ Copied(disk.entry'.queue)
<1>1. EntryShape(entry) /\ EntryShape(disk.entry) /\ disk = [entry |-> disk.entry, row |-> disk.row]
  BY DEF Types, Books
<1>2. ASSUME HoldKept \/ QueueKept \/ UNCHANGED bookVars PROVE G
  BY <1>1, <1>2, KeptCopies
<1>3. ASSUME NEW e, EntryShape(e), e.queue \in {queue, queue', entry.queue},
             NEW row, NEW late, Saved(e, row, late)
      PROVE  G
  BY <1>3, SavedCopies DEF Copied
<1>4. CASE TurnEvents
  <2>1. EntryShape(Opened) /\ Opened.queue \in {queue, entry.queue}
    BY <1>1 DEF Opened, EntryShape, EntryType, Endings
  <2>2. \A ending \in Endings : /\ EntryShape([entry EXCEPT !.ending = ending])
                                /\ [entry EXCEPT !.ending = ending].queue = entry.queue
    BY <1>1 DEF EntryShape, EntryType
  <2>3. CASE Begin
    <3>1. PICK row : Saved(Opened, row, FALSE) BY <2>3 DEF Begin
    <3>2. QED BY <1>3, <2>1, <3>1
  <2>4. CASE Settle \/ Abandon
    <3>1. CASE \E ending \in Endings : \E late : Saved([entry EXCEPT !.ending = ending], owed, late)
      BY <1>3, <2>2, <3>1
    <3>2. CASE UNCHANGED bookVars BY <1>2, <3>2
    <3>3. (\E ending \in Endings : \E late : Saved([entry EXCEPT !.ending = ending], owed, late))
          \/ UNCHANGED bookVars
      <4>1. CASE Settle /\ entry.known
        <5>1. PICK ending \in Endings : Saved([entry EXCEPT !.ending = ending], owed, TRUE)
          BY <4>1 DEF Settle, Fruitful, HoldGone, Types, Turn, Endings
        <5>2. QED BY <5>1
      <4>2. CASE Settle /\ ~entry.known BY <4>2 DEF Settle
      <4>3. CASE Abandon
        <5>1. Saved([entry EXCEPT !.ending = "failed"], owed, FALSE) /\ "failed" \in Endings
          BY <4>3 DEF Abandon, Endings
        <5>2. QED BY <5>1
      <4>4. QED BY <2>4, <4>1, <4>2, <4>3
    <3>4. QED BY <3>1, <3>2, <3>3
  <2>5. CASE ErrorComing \/ PromiseResume \/ (\E ending : ErrorFailed(ending) \/ Stop(ending))
             \/ (\E card : Park(card) \/ Resolve(card))
    BY <1>2, <2>5 DEF ErrorComing, PromiseResume, ErrorFailed, Park, Resolve, Stop
  <2>6. QED BY <1>4, <2>3, <2>4, <2>5 DEF TurnEvents
<1>5. CASE JournalEvents
  <2>1. (\E row : Rewritten(row)) \/ UNCHANGED bookVars
    BY <1>5 DEF JournalEvents, Journalled, Unjournalled
  <2>2. UNCHANGED entry /\ disk.entry' = disk.entry
    BY <1>1, <2>1 DEF Rewritten, bookVars
  <2>3. QED BY <2>2 DEF Copied
<1>6. CASE LeaseEvents \/ UNCHANGED vars
  BY <1>2, <1>6 DEF LeaseEvents, LandLeased, LandReleased, RewindLeased, RewindReleased, vars
<1>7. CASE HoldEvents
  BY <1>2, <1>7 DEF HoldEvents, TurnHeld, GotSomewhere, ResumeSuperseded, ResumeDropped,
     HeldFired, HeldReplanned, LadderSpent, AuthFiring
<1>8. CASE QueueEvents
  <2>1. ASSUME NEW m, NEW b, NEW opening, QueueScheduled(m, b, opening) PROVE G
    <3> DEFINE booked == IF opening /\ ~entry.known THEN RestingEntry ELSE entry
               e == QueueWritten(booked)
    <3>1. EntryShape(booked) /\ booked.queue \in {entry.queue, EmptyQueue}
      BY <1>1 DEF RestingEntry, NoStored, EntryShape, EntryType, Endings
    <3>2. EntryShape(e) /\ e.queue \in {queue', entry.queue, EmptyQueue}
      BY <3>1 DEF QueueWritten, EntryShape, EntryType
    <3>3. Saved(e, owed, TRUE) \/ (entry' = booked /\ UNCHANGED disk)
      BY <2>1 DEF QueueScheduled
    <3> HIDE DEF booked, e
    <3>4. QED BY <3>1, <3>2, <3>3, SavedCopies DEF Copied
  <2>2. CASE QueueKept BY <1>2, <2>2
  <2>3. QueueKept \/ \E m, b, opening : QueueScheduled(m, b, opening)
    BY Zenon, <1>8 DEF QueueEvents, QueueJoined, QueueRescheduled, QueueTaken,
     QueueReturned, QueueRemoved, QueueEdited, QueueReleased, QueueReleasedAs, QueueRerouted
  <2>4. QED BY <2>1, <2>2, <2>3
<1>9. CASE ProcessEvents
  <2>1. ASSUME NEW archived \in BOOLEAN, Archived(archived) PROVE G
    <3> DEFINE e == [entry EXCEPT !.archived = archived]
    <3>1. EntryShape(e) /\ e.queue = entry.queue BY <1>1 DEF EntryShape, EntryType
    <3>2. Saved(e, owed, FALSE) BY <2>1 DEF Archived
    <3>3. QED BY <1>3, <3>1, <3>2
  <2>2. CASE OtherSaved BY <1>1, <1>3, <2>2 DEF OtherSaved
  <2>3. CASE Restart
    <3>1. Restored(disk.entry).queue = disk.entry.queue BY <1>1 DEF Restored, EntryShape
    <3>2. QED BY <2>3, <3>1 DEF Restart, Copied
  <2>4. CASE Disposed BY <2>4 DEF Disposed, Fruitful, HoldGone, NoEntry, Copied
  <2>5. QED BY <1>9, <2>1, <2>2, <2>3, <2>4 DEF ProcessEvents
<1>10. QED BY <1>4, <1>5, <1>6, <1>7, <1>8, <1>9 DEF Next

-----------------------------------------------------------------------------
(* The types of what waits, and what a boot finds of it.                   *)

WaitInv == QueueShape(queue) /\ QueueShape(entry.queue) /\ QueueShape(disk.entry.queue)

LEMMA EmptyShape == QueueShape(EmptyQueue)
<1> DEFINE none == << >>
<1>1. none \in Seq(Queued) /\ DOMAIN none = {} OBVIOUS
<1>2. EmptyQueue.items = none BY DEF EmptyQueue
<1> HIDE DEF none
<1>3. QED BY <1>1, <1>2 DEF QueueShape, QueueType, EmptyQueue, Holds, AnyWaits, NoBooking

\* Every step keeps the queue and its copies of their type.
LEMMA WaitNext ==
    ASSUME Types, WaitInv, [Next]_vars
    PROVE  WaitInv'
<1>1. QueueShape(queue')
  <2>1. CASE QueueEvents BY <2>1, QueueEventFollows DEF WaitInv, Follows
  <2>2. CASE queue' = Held(queue, "stopped") BY <2>2, HeldFollows DEF WaitInv, Follows
  <2>3. CASE queue' = Superseded(queue) BY <2>3, SupersededFollows DEF WaitInv, Follows
  <2>4. CASE queue' \in {queue, disk.entry.queue, EmptyQueue}
    BY <2>4, EmptyShape DEF WaitInv
  <2>5. QED BY <2>1, <2>2, <2>3, <2>4, QueueStep DEF WaitInv
<1>2. QueueShape(entry'.queue) /\ QueueShape(disk.entry'.queue)
  BY <1>1, NextCopies, EmptyShape DEF Copied, WaitInv
<1>3. QED BY <1>1, <1>2 DEF WaitInv, QueueShape

\* Rows a purge failed to remove are left behind for an empty queue, until a save
\* writes over them.
RowsInv == "rows" \in missed /\ ~dirty => queue.items = << >> \/ disk.entry = entry

\* A save writes over such rows, or is owed.
LEMMA SavedRows ==
    ASSUME NEW e, NEW row, NEW late, Saved(e, row, late)
    PROVE  RowsInv'
BY DEF Saved, RowsInv

LEMMA RowsStay ==
    ASSUME RowsInv, UNCHANGED <<queue, entry, dirty>>, disk.entry' = disk.entry,
           "rows" \in missed' => "rows" \in missed
    PROVE  RowsInv'
BY DEF RowsInv

LEMMA KeptRows ==
    ASSUME RowsInv, QueueKept \/ (UNCHANGED queue /\ (HoldKept \/ UNCHANGED bookVars))
    PROVE  RowsInv'
BY SavedRows, RowsStay DEF HoldKept, QueueKept, bookVars

\* Every step keeps them so.
LEMMA RowsNext ==
    ASSUME Types, RowsInv, [Next]_vars
    PROVE  RowsInv'
<1>1. CASE TurnEvents
  BY <1>1, SavedRows, RowsStay, KeptRows DEF TurnEvents, Begin, ErrorComing, PromiseResume,
     ErrorFailed, Park, Resolve, Stop, Settle, Abandon, bookVars
<1>2. CASE JournalEvents
  <2>1. UNCHANGED queue /\ ((\E row : Rewritten(row)) \/ UNCHANGED bookVars)
    BY <1>2 DEF JournalEvents, Journalled, Unjournalled
  <2>2. disk = [entry |-> disk.entry, row |-> disk.row] BY DEF Types, Books
  <2>3. UNCHANGED <<entry, dirty>> /\ disk.entry' = disk.entry
        /\ ("rows" \in missed' => "rows" \in missed)
    BY <2>1, <2>2 DEF Rewritten, bookVars
  <2>4. QED BY <2>1, <2>3, RowsStay
<1>3. CASE LeaseEvents \/ UNCHANGED vars
  BY <1>3, RowsStay DEF LeaseEvents, LandLeased, LandReleased, RewindLeased, RewindReleased,
     vars, bookVars
<1>4. CASE HoldEvents
  BY <1>4, KeptRows DEF HoldEvents, TurnHeld, GotSomewhere, ResumeSuperseded, ResumeDropped,
     HeldFired, HeldReplanned, LadderSpent, AuthFiring
<1>5. CASE QueueEvents
  <2>1. ASSUME NEW m, NEW b, NEW opening, QueueScheduled(m, b, opening) PROVE RowsInv'
    BY <2>1, SavedRows DEF QueueScheduled, RowsInv
  <2>2. CASE QueueKept BY <2>2, KeptRows
  <2>3. QueueKept \/ \E m, b, opening : QueueScheduled(m, b, opening)
    BY Zenon, <1>5 DEF QueueEvents, QueueJoined, QueueRescheduled, QueueTaken,
     QueueReturned, QueueRemoved, QueueEdited, QueueReleased, QueueReleasedAs, QueueRerouted
  <2>4. QED BY <2>1, <2>2, <2>3
<1>6. CASE ProcessEvents
  <2>1. CASE (\E archived : Archived(archived)) \/ OtherSaved
    BY <2>1, SavedRows DEF Archived, OtherSaved
  <2>2. CASE Restart BY <2>2 DEF Restart, RowsInv
  <2>3. CASE Disposed BY <2>3 DEF Disposed, Fruitful, HoldGone, Fresh, EmptyQueue, RowsInv
  <2>4. QED BY <1>6, <2>1, <2>2, <2>3 DEF ProcessEvents
<1>7. QED BY <1>1, <1>2, <1>3, <1>4, <1>5, <1>6 DEF Next

\* What a boot finds waiting, with nothing owed, is what waited.
LEMMA BootFinds ==
    ASSUME Types, QueueInv, EntryOnDisk, RowsInv, ~dirty
    PROVE  \/ queue.items = << >>
           \/ /\ disk.entry.queue.items = queue.items
              /\ disk.entry.queue.paused = queue.paused
           \/ ~entry.known /\ disk.entry.queue.items = << >>
<1>1. EntryShape(entry) /\ EntryShape(disk.entry) BY DEF Types, Books
<1>2. CASE "rows" \notin missed
  <2>1. Restored(disk.entry) = Restored(entry) BY <1>2 DEF EntryOnDisk
  <2>2. \A e : EntryShape(e) => Restored(e).queue = e.queue /\ Restored(e).known = e.known
    BY DEF Restored, EntryShape
  <2>3. disk.entry.queue = entry.queue BY <1>1, <2>1, <2>2
  <2>4. QED BY <2>3 DEF QueueInv, QueueOnEntry, QueueFits
<1>3. CASE "rows" \in missed
  BY <1>3 DEF RowsInv, QueueInv, QueueOnEntry, QueueFits
<1>4. QED BY <1>2, <1>3

\* All that the theorems of the queue rest on.
Waiting == Types /\ WaitInv /\ QueueInv /\ EntryOnDisk /\ RowsInv

LEMMA WaitingInit == Init => Waiting
<1>1. Init => Types BY InitTypes
<1>2. Init => WaitInv BY EmptyShape DEF Init, WaitInv, NoEntry
<1>3. Init => QueueInv
  BY DEF Init, QueueInv, QueueOnEntry, QueueFits, QueueSound, NoEntry, EmptyQueue
<1>4. Init => EntryOnDisk /\ RowsInv BY DEF Init, EntryOnDisk, RowsInv
<1>5. QED BY <1>1, <1>2, <1>3, <1>4 DEF Waiting

LEMMA WaitingNext ==
    ASSUME Waiting, [Next]_vars
    PROVE  Waiting'
BY NextTypes, WaitNext, QueueNext, OnDiskNext, RowsNext DEF Waiting

\* Every reachable state is of its type, both copies of the queue included: no
\* message waits twice, a hold has something to hold, a scheduled pause names a
\* booking that stands.
THEOREM TypesAll == Spec => []TypeOK
<1>1. Waiting => TypeOK
  <2>1. Types => StateType /\ BooksType
    BY DEF Types, Books, Turn, Resume, StateType, BooksType, EntryShape, HoldShape
  <2>2. WaitInv => QueueType(queue) /\ QueueType(entry.queue) /\ QueueType(disk.entry.queue)
    BY DEF WaitInv, QueueShape
  <2>3. QED BY <2>1, <2>2 DEF Waiting, TypeOK
<1>2. QED BY WaitingInit, WaitingNext, <1>1, PTL DEF Spec

\* Two messages that both stay waiting keep their order over every operation, turn
\* and restart with nothing owed (conversation-queue.ts).
THEOREM OrderStands == Spec => OrderKept
<1> DEFINE A == queue' # queue /\ ~(dirty /\ Restart) =>
                   \A x, y \in Ids(queue.items) \cap Ids(queue'.items) :
                       Ahead(queue, x, y) => Ahead(queue', x, y)
<1>1. ASSUME Waiting, [Next]_vars PROVE A
  <2>1. SUFFICES ASSUME queue' # queue, ~(dirty /\ Restart) PROVE InOrder(queue.items, queue'.items)
    BY DEF InOrder, AheadIn, Ahead
  <2>2. QueueShape(queue) BY <1>1 DEF Waiting, WaitInv
  <2>3. CASE QueueEvents BY <2>2, <2>3, QueueEventFollows DEF Follows
  <2>4. CASE queue' = Held(queue, "stopped") BY <2>2, <2>4, HeldFollows DEF Follows
  <2>5. CASE queue' = Superseded(queue) BY <2>2, <2>5, SupersededFollows DEF Follows
  <2>6. \A items : items = << >> => Ids(items) = {} BY DEF Ids
  <2>7. CASE Restart /\ queue' = disk.entry.queue
    <3>1. \/ queue.items = << >> \/ disk.entry.queue.items = queue.items
          \/ disk.entry.queue.items = << >>
      BY <1>1, <2>1, <2>7, BootFinds DEF Waiting
    <3>2. QED BY <2>6, <2>7, <3>1, InOrderSame DEF InOrder
  <2>8. CASE queue' = EmptyQueue BY <2>6, <2>8 DEF EmptyQueue, InOrder
  <2>9. QED BY <1>1, <2>1, <2>2, <2>3, <2>4, <2>5, <2>7, <2>8, QueueStep
<1>2. Waiting /\ [Next]_vars => [A]_vars BY <1>1
<1>3. QED BY WaitingInit, WaitingNext, <1>2, PTL DEF Spec, OrderKept

\* A turn's beginning, stop, settle and superseding of another, and a boot with
\* nothing owed, take nothing from the queue but continuations.
THEOREM WordsStand == Spec => WordsOutliveTurns
<1> DEFINE Lost == \E i \in DOMAIN queue.items :
                      /\ ~queue.items[i].continues
                      /\ \A j \in DOMAIN queue'.items : queue'.items[j] # queue.items[i]
           Turns == \/ Begin \/ Stop("stopped") \/ Stop("dismissed") \/ Settle \/ ResumeSuperseded
                    \/ ~dirty /\ entry.known /\ Restart
<1>1. ASSUME Waiting, Turns PROVE ~Lost
  <2>1. QueueShape(queue) BY <1>1 DEF Waiting, WaitInv
  <2>2. CASE queue'.items = queue.items BY <2>2
  <2>3. CASE Stop("stopped") \/ Stop("dismissed")
    <3>1. queue' = Held(queue, "stopped") BY <2>3 DEF Stop
    <3>2. QED BY <2>1, <2>2, <3>1, HeldFollows
  <2>4. CASE ResumeSuperseded
    <3>1. queue' = Superseded(queue) BY <2>4 DEF ResumeSuperseded
    <3>2. QED BY <2>1, <3>1, SupersededFollows
  <2>5. CASE ~dirty /\ entry.known /\ Restart
    <3>1. queue' = disk.entry.queue BY <2>5 DEF Restart, Fresh
    <3>2. queue.items = << >> \/ disk.entry.queue.items = queue.items
      BY <1>1, <2>5, BootFinds DEF Waiting
    <3>3. QED BY <3>1, <3>2
  <2>6. CASE Begin \/ Settle BY <2>2, <2>6 DEF Begin, Settle
  <2>7. QED BY <1>1, <2>3, <2>4, <2>5, <2>6
<1> HIDE DEF Lost, Turns
<1>2. Waiting => [Lost => ~Turns]_vars BY <1>1
<1>3. [][Lost => ~Turns]_vars => WordsOutliveTurns BY DEF WordsOutliveTurns, Lost, Turns
<1>4. QED BY WaitingInit, WaitingNext, <1>2, <1>3, PTL DEF Spec

\* What a stop or a refusal held goes again only by a person's words, a press or a
\* due booking: no report, automation, edit, turn or restart lets it go (joined,
\* moved).
THEOREM StopStands == Spec => StopHolds
<1> DEFINE Freed == /\ HoldOf(queue) # "none" /\ HoldOf(queue') = "none"
                    /\ AnyWaits(queue'.items) /\ ~(dirty /\ Restart)
           Asked == \/ \E m \in Messages : m.voice = "person" /\ QueueJoined(m)
                    \/ \E ids \in SUBSET Ids(queue.items) :
                          \/ QueueReleased(ids)
                          \/ \E m \in Messages : QueueReleasedAs(m.serves, ids)
<1>1. ASSUME Waiting, [Next]_vars, Freed PROVE Asked
  <2>1. QueueShape(queue) BY <1>1 DEF Waiting, WaitInv
  <2>2. ~KeepsHold(queue, queue') BY <1>1 DEF KeepsHold
  <2>3. CASE QueueEvents BY <2>1, <2>2, <2>3, QueueEventFollows
  <2>4. CASE queue' = Held(queue, "stopped") BY <2>1, <2>2, <2>4, HeldFollows
  <2>5. CASE queue' = Superseded(queue) BY <2>1, <2>2, <2>5, SupersededFollows
  <2>6. CASE queue' = EmptyQueue BY <1>1, <2>6 DEF EmptyQueue, AnyWaits
  <2>7. CASE Restart /\ queue' = disk.entry.queue
    <3>1. queue.items # << >>
      BY <1>1, <2>1 DEF HoldOf, QueueShape, QueueType, AnyWaits
    <3>2. \/ disk.entry.queue.items = << >>
          \/ disk.entry.queue.paused = queue.paused
      BY <1>1, <2>7, <3>1, BootFinds DEF Waiting
    <3>3. QED BY <1>1, <2>7, <3>2 DEF HoldOf, AnyWaits
  <2>8. CASE UNCHANGED queue BY <1>1, <2>8
  <2>9. QED BY <1>1, <2>1, <2>3, <2>4, <2>5, <2>6, <2>7, <2>8, QueueStep
<1> HIDE DEF Freed, Asked
<1>2. Waiting /\ [Next]_vars => [Freed => Asked]_vars BY <1>1
<1>3. [][Freed => Asked]_vars => StopHolds BY DEF StopHolds, Freed, Asked
<1>4. QED BY WaitingInit, WaitingNext, <1>2, <1>3, PTL DEF Spec
-----------------------------------------------------------------------------
\* The runs.

HIDE ConversationAssumption
USE TurnRunsAssumption

RunShape == [stage : Stages, attempts : Nat, origin : Runs \cup {0}, wall : Reasons \cup {"none"}]

\* A run that met a wall says which, until its exit holds the turn for it; the
\* row a boot recovers names a run.
RunsInv ==
    /\ runs \in [Runs -> RunShape]
    /\ \A r \in Runs : runs[r].stage = "failing" => runs[r].wall \in Reasons
    /\ left \in RowType
    /\ recovery # "none" => left.run \in Runs

\* A move changes one run's stage and nothing else about the runs.
LEMMA MovesStage ==
    ASSUME RunsInv, NEW r \in Runs, NEW from, NEW to \in Stages, Moves(r, from, to)
    PROVE  /\ runs' \in [Runs -> RunShape]
           /\ runs[r].stage = from /\ runs'[r].stage = to
           /\ \A q \in Runs \ {r} : runs'[q] = runs[q]
           /\ \A q \in Runs : /\ runs'[q].attempts = runs[q].attempts
                              /\ runs'[q].origin = runs[q].origin
                              /\ runs'[q].wall = runs[q].wall
           /\ UNCHANGED <<pass, judged, left, recovery, boots>>
<1>1. runs' = [runs EXCEPT ![r] = [runs[r] EXCEPT !.stage = to]] BY DEF Moves, RunsInv
<1>2. runs[r] \in RunShape BY DEF RunsInv
<1>3. [runs[r] EXCEPT !.stage = to] \in RunShape BY <1>2 DEF RunShape
<1>4. QED BY <1>1, <1>2, <1>3 DEF Moves, RunsInv, RunShape

\* An acceptance claims the next number for a run of its own.
LEMMA AcceptsRun ==
    ASSUME RunsInv, NEW r \in Runs, NEW attempts \in Nat, NEW origin \in Runs \cup {0},
           Accept(r, attempts, origin)
    PROVE  /\ runs' \in [Runs -> RunShape]
           /\ runs'[r].stage = "accepted" /\ runs'[r].attempts = attempts
           /\ runs'[r].origin = origin
           /\ \A q \in Runs \ {r} : runs'[q] = runs[q]
           /\ Open = {} /\ Unused(r)
<1>1. [stage |-> "accepted", attempts |-> attempts, origin |-> origin, wall |-> "none"] \in RunShape
  BY DEF RunShape, Stages, OpenStages
<1>2. QED BY <1>1 DEF Accept, RunsInv

\* The stages a wall is met at lead to the one that names it.
LEMMA MeetsRun ==
    ASSUME RunsInv, NEW r \in Runs, NEW reason \in Reasons, MeetsWall(r, reason)
    PROVE  /\ runs' \in [Runs -> RunShape]
           /\ runs[r].stage \in {"going", "begun"}
           /\ runs'[r].stage = "failing" /\ runs'[r].wall = reason
           /\ runs'[r].attempts = runs[r].attempts /\ runs'[r].origin = runs[r].origin
           /\ \A q \in Runs \ {r} : runs'[q] = runs[q]
<1> DEFINE met == [runs[r] EXCEPT !.stage = "failing", !.wall = reason]
<1>1. runs' = [runs EXCEPT ![r] = met] BY DEF MeetsWall, RunsInv, RunShape
<1>2. runs[r] \in RunShape BY DEF RunsInv
<1>3. met \in RunShape BY <1>2 DEF RunShape, Stages, OpenStages, LiveStages
<1>4. QED BY <1>1, <1>2, <1>3 DEF MeetsWall, RunsInv, RunShape

\* A boot finds every run it cut as cut.
LEMMA RebootsRuns ==
    ASSUME RunsInv, Reboot
    PROVE  /\ runs' \in [Runs -> RunShape]
           /\ \A r \in Runs :
                 /\ runs'[r].stage = IF runs[r].stage \in {"none", "ended"} THEN runs[r].stage
                                     ELSE "cut"
                 /\ runs'[r].attempts = runs[r].attempts /\ runs'[r].origin = runs[r].origin
<1>1. ASSUME NEW r \in Runs
      PROVE  /\ runs[r] \in RunShape
             /\ [runs[r] EXCEPT !.stage = "cut"] \in RunShape
  BY DEF RunsInv, RunShape, Stages
<1>2. QED BY <1>1 DEF Reboot, RunShape

-----------------------------------------------------------------------------
(* What kind of step a step is.                                            *)

\* The moves that neither make a run live nor end one.
Advances ==
    {<<"accepted", "finished">>, <<"begun", "going">>, <<"begun", "closing">>,
     <<"going", "closing">>, <<"failing", "closing">>, <<"finished", "recorded">>,
     <<"finished", "unrecorded">>, <<"recorded", "ended">>, <<"unrecorded", "ended">>}

\* A step of a run that claims nothing, begins nothing and settles nothing.
Advance(r) ==
    \/ \E move \in Advances : Moves(r, move[1], move[2])
    \/ \E reason \in Reasons : MeetsWall(r, reason)

\* What a step may do to the actor without touching its phase.
LEMMA PhaseUntouched ==
    ASSUME \/ UNCHANGED vars
           \/ \E row : Journalled(row) \/ RowWritten(row)
           \/ \E r : Unjournalled(r)
           \/ \E reason, r, plan : TurnHeld(reason, r, plan)
           \/ ErrorComing \/ GotSomewhere \/ ResumeSuperseded \/ ResumeDropped \/ LadderSpent
           \/ Abandon
           \/ \E ending : ErrorFailed(ending) \/ Stop(ending)
           \/ \E ladder : HeldFired(ladder) \/ AuthFiring(ladder) \/ Archived(ladder)
    PROVE  phase' = phase
BY DEF vars, turnVars, Journalled, RowWritten, Unjournalled, TurnHeld, ErrorComing, GotSomewhere,
   ResumeSuperseded, ResumeDropped, LadderSpent, Abandon, ErrorFailed, Stop, HeldFired, AuthFiring,
   Archived, Elsewhere

\* The kinds of step there are, told by what they do to the runs and the phase.
Claims == \E r \in Runs, attempts \in Nat, origin \in Runs \cup {0} : Accept(r, attempts, origin)
Quiet == (UNCHANGED runs \/ \E r \in Runs : Advance(r)) /\ UNCHANGED phase
Rests == UNCHANGED runs /\ phase # "running" /\ phase' # "running"

LEMMA StepKinds ==
    ASSUME RunsInv, RunsNext
    PROVE  \/ Claims
           \/ \E r \in Runs : BeginRun(r) \/ CloseRun(r)
           \/ Quiet \/ Rests \/ Reboot
<1>1. ASSUME NEW r \in Runs, RunStep(r), ~BeginRun(r), ~CloseRun(r)
      PROVE  Claims \/ Quiet
  <2>1. CASE SendTurn(r) \/ Rerun(r) BY <2>1 DEF SendTurn, Rerun, Claims
  <2>2. CASE RerunLeft(r)
    <3>1. left.attempts + 1 \in Nat BY DEF RunsInv, RowType
    <3>2. left.run \in Runs BY <2>2 DEF RerunLeft, RunsInv
    <3>3. runs[left.run].origin \in Runs \cup {0} BY <3>2 DEF RunsInv, RunShape
    <3>4. Accept(r, left.attempts + 1, runs[left.run].origin) BY <2>2 DEF RerunLeft
    <3>5. QED BY <3>1, <3>3, <3>4 DEF Claims
  <2>3. CASE TurnedAway(r) \/ BeginRefused(r)
    BY <2>3, PhaseUntouched DEF TurnedAway, BeginRefused, Quiet, Advance, Advances
  <2>4. CASE SessionMinted(r)
    BY <2>4, PhaseUntouched DEF SessionMinted, runVars, Quiet
  <2>5. CASE GoOn(r) \/ OpenFails(r) \/ Cut(r) \/ EndsClean(r) \/ EndsFailed(r)
    BY <2>5, PhaseUntouched DEF GoOn, OpenFails, Cut, EndsClean, EndsFailed, Quiet, Advance, Advances
  <2>6. CASE \E reason \in Reasons : MeetsWall(r, reason)
    <3>1. phase' = phase BY <2>6, PhaseUntouched DEF MeetsWall
    <3>2. QED BY <2>6, <3>1 DEF Quiet, Advance
  <2>7. CASE HeldAtExit(r) \/ Record(r) \/ EndJournal(r)
    BY <2>7, PhaseUntouched DEF HeldAtExit, Record, EndJournal, Quiet, Advance, Advances
  <2>8. QED BY <1>1, <2>1, <2>2, <2>3, <2>4, <2>5, <2>6, <2>7 DEF RunStep
<1>2. CASE StopRun \/ ArchiveRun BY <1>2, PhaseUntouched DEF StopRun, ArchiveRun, runVars, Quiet
<1>3. CASE LandByHand \/ RewindRun
  BY <1>3 DEF LandByHand, RewindRun, Settle, RewindLeased, RewindReleased, runVars, Rests
<1>4. CASE FireHeld \/ FireOutage \/ FireAuth \/ RerunRefused
  BY <1>4, PhaseUntouched DEF FireHeld, FireOutage, FireAuth, RerunRefused, Judges, Passes, Quiet
<1>5. CASE RemintLater \/ RemintDead \/ DropReminted \/ RemintOver
  BY <1>5, PhaseUntouched DEF RemintLater, RemintDead, DropReminted, RemintOver, WaitEnded, Passes,
     Quiet
<1>6. CASE GiveUp \/ SpendGivenUp \/ WithdrawResume
  BY <1>6, PhaseUntouched DEF GiveUp, SpendGivenUp, WithdrawResume, WaitEnded, Judges, Passes,
     runVars, Quiet
<1>7. CASE RecordLeft \/ ClearLeft \/ SpendLeft \/ RerunLeftRefused
  BY <1>7, PhaseUntouched DEF RecordLeft, ClearLeft, SpendLeft, RerunLeftRefused, Recovers, Quiet
<1>8. QED BY <1>1, <1>2, <1>3, <1>4, <1>5, <1>6, <1>7 DEF RunsNext

-----------------------------------------------------------------------------
(* The actor under its runs. A run tells it what any sender may; a boot    *)
(* also writes the journal's row past it.                                  *)

Names(row) == row \in RowType /\ (row = NoRow \/ row.run \in Runs)

\* A row standing anywhere names a run.
RowsNamed == Names(disk.row) /\ Names(owed) /\ Names(journal.row)

Filings == {row \in RowType : row.run \in Runs}

\* What a step of the runs may ask of the actor.
ActorStep ==
    \/ UNCHANGED vars
    \/ Begin \/ ErrorComing \/ Settle \/ Abandon
    \/ \E ending \in Endings : ErrorFailed(ending)
    \/ \E ending \in {"stopped", "dismissed"} : Stop(ending)
    \/ \E row \in Filings : Journalled(row)
    \/ \E r \in Runs : Unjournalled(r)
    \/ RewindLeased \/ RewindReleased
    \/ \E reason \in Reasons, r \in Runs, plan \in Plans \cup {0} : TurnHeld(reason, r, plan)
    \/ GotSomewhere \/ ResumeSuperseded \/ ResumeDropped \/ LadderSpent
    \/ HeldFired(held.reason = "stopped")
    \/ \E firing \in BOOLEAN : AuthFiring(firing)
    \/ \E archived \in BOOLEAN : Archived(archived)
    \/ Restart
    \/ \E row \in Filings \cup {NoRow} : RowWritten(row)

LEMMA ActorSteps ==
    ASSUME RunsInv, RunsNext
    PROVE  ActorStep
<1>0. "failed" \in Endings /\ \A reason \in Reasons : EndingOf(reason) \in Endings
  BY DEF EndingOf, Endings, AllReasons
<1>1. ASSUME NEW r \in Runs, NEW attempts \in Nat, NEW settled \in BOOLEAN
      PROVE  [run |-> r, settled |-> settled, attempts |-> attempts] \in Filings
  BY <1>1 DEF Filings, RowType
<1>2. ASSUME NEW r \in Runs, RunStep(r) PROVE ActorStep
  <2>0. runs[r].attempts \in Nat BY DEF RunsInv, RunShape
  <2>1. ASSUME NEW attempts \in Nat, NEW origin, Accept(r, attempts, origin) PROVE ActorStep
    BY <1>1, <2>1 DEF Accept, ActorStep
  <2>2. CASE SendTurn(r) \/ Rerun(r) \/ RerunLeft(r)
    <3>1. left.attempts + 1 \in Nat BY DEF RunsInv, RowType
    <3>2. QED BY <2>1, <2>2, <3>1 DEF SendTurn, Rerun, RerunLeft
  <2>3. CASE TurnedAway(r)
    BY <2>3 DEF TurnedAway, ActorStep
  <2>4. CASE BeginRun(r) \/ BeginRefused(r) \/ GoOn(r) \/ Cut(r) \/ EndsClean(r)
             \/ CloseRun(r) \/ Record(r)
    BY <2>4 DEF BeginRun, BeginRefused, GoOn, Cut, EndsClean, CloseRun, Record, ActorStep
  <2>5. CASE OpenFails(r) \/ EndsFailed(r)
    BY <1>0, <2>5 DEF OpenFails, EndsFailed, ActorStep
  <2>6. CASE SessionMinted(r) \/ EndJournal(r)
    BY <1>1, <2>0, <2>6 DEF SessionMinted, EndJournal, ActorStep
  <2>7. CASE \E reason \in Reasons : MeetsWall(r, reason)
    BY <1>0, <2>7 DEF MeetsWall, ActorStep
  <2>8. CASE HeldAtExit(r)
    <3>1. runs[r].wall \in Reasons BY <2>8 DEF HeldAtExit, Moves, RunsInv
    <3>2. QED BY <2>8, <3>1 DEF HeldAtExit, PlansOf, ActorStep
  <2>9. QED BY <1>2, <2>2, <2>3, <2>4, <2>5, <2>6, <2>7, <2>8 DEF RunStep
<1>3. CASE StopRun \/ ArchiveRun \/ LandByHand \/ RewindRun
  BY <1>3 DEF StopRun, ArchiveRun, LandByHand, RewindRun, ActorStep
<1>4. CASE FireHeld \/ FireOutage \/ FireAuth \/ RerunRefused
  BY <1>4 DEF FireHeld, FireOutage, FireAuth, RerunRefused, ActorStep
<1>5. CASE RemintLater \/ RemintDead \/ DropReminted \/ RemintOver
  BY <1>5 DEF RemintLater, RemintDead, DropReminted, RemintOver, WaitEnded, ActorStep
<1>6. CASE GiveUp \/ SpendGivenUp \/ WithdrawResume
  BY <1>6 DEF GiveUp, SpendGivenUp, WithdrawResume, WaitEnded, ActorStep
<1>7. CASE Reboot \/ RecordLeft \/ RerunLeftRefused
  BY <1>7 DEF Reboot, RecordLeft, RerunLeftRefused, ActorStep
<1>8. CASE ClearLeft BY <1>8 DEF ClearLeft, ActorStep
<1>9. CASE SpendLeft
  <2>1. [left EXCEPT !.attempts = @ + 1] \in Filings
    BY <1>9 DEF SpendLeft, Recovers, RunsInv, Filings, RowType
  <2>2. QED BY <1>9, <2>1 DEF SpendLeft, ActorStep
<1>10. QED BY <1>2, <1>3, <1>4, <1>5, <1>6, <1>7, <1>8, <1>9 DEF RunsNext

\* Nothing a run asks of the actor breaks a type.
LEMMA ActorTypes ==
    ASSUME Types, ActorStep
    PROVE  Types'
<1> USE DEF Types
<1>1. CASE UNCHANGED vars BY <1>1, StutterTypes
<1>2. CASE Begin \/ Settle \/ Abandon \/ \E ending \in {"stopped", "dismissed"} : Stop(ending)
  BY <1>2, TurnEventTypes DEF TurnEvents
<1>3. CASE ErrorComing \/ \E ending \in Endings : ErrorFailed(ending)
  BY <1>3, BooksKept DEF ErrorComing, ErrorFailed, Turn, Resume, resumeVars, RowType
<1>4. ASSUME NEW row \in RowType, Journalled(row) PROVE Types'
  <2>1. Turn' /\ Resume'
    BY <1>4 DEF Journalled, Turn, Resume, turnVars, resumeVars
  <2>2. Books' BY <1>4, RewrittenTypes, BooksKept DEF Journalled
  <2>3. QED BY <2>1, <2>2
<1>5. CASE \E r \in Runs : Unjournalled(r) BY <1>5, JournalEventTypes DEF JournalEvents
<1>6. CASE RewindLeased \/ RewindReleased
  BY <1>6, BooksKept DEF RewindLeased, RewindReleased, Turn, Resume, resumeVars, RowType
<1>7. ASSUME NEW reason \in Reasons, NEW r \in Runs, NEW plan \in Plans \cup {0},
             TurnHeld(reason, r, plan)
      PROVE  Types'
  <2>1. held' \in HoldShape BY <1>7 DEF TurnHeld, Fruitful, HoldGone, Resume, HoldShape
  <2>2. Resume' BY <1>7, <2>1 DEF TurnHeld, Fruitful, HoldGone, Resume
  <2>3. QED BY <1>7, <2>2, ElsewhereTurn, HoldKeptTypes DEF TurnHeld, Fruitful, HoldGone, Resume
<1>8. CASE GotSomewhere \/ ResumeSuperseded \/ ResumeDropped \/ LadderSpent
           \/ HeldFired(held.reason = "stopped")
  BY <1>8, HoldEventTypes DEF HoldEvents
<1>9. CASE \E firing \in BOOLEAN : AuthFiring(firing)
  <2>1. Resume' BY <1>9 DEF AuthFiring, Resume, HoldShape
  <2>2. QED BY <1>9, <2>1, ElsewhereTurn, BooksKept DEF AuthFiring
<1>10. CASE (\E archived \in BOOLEAN : Archived(archived)) \/ Restart
  BY <1>10, ProcessEventTypes DEF ProcessEvents
<1>11. ASSUME NEW row \in RowType, RowWritten(row) PROVE Types'
  <2>1. Turn' /\ Resume'
    BY <1>11 DEF RowWritten, Turn, Resume, turnVars, resumeVars, HoldShape, RowType
  <2>2. Books' BY <1>11 DEF RowWritten, Books, EntryShape, EntryType, RowType
  <2>3. QED BY <2>1, <2>2
<1>12. NoRow \in RowType /\ Filings \subseteq RowType BY Nothings DEF Filings
<1>13. QED
  BY <1>1, <1>2, <1>3, <1>4, <1>5, <1>6, <1>7, <1>8, <1>9, <1>10, <1>11, <1>12 DEF ActorStep

\* A save writes a row that names a run, or none.
LEMMA SavedNames ==
    ASSUME RowsNamed, UNCHANGED journal, NEW e, NEW row, Names(row), NEW late, Saved(e, row, late)
    PROVE  RowsNamed'
<1>1. Names(NoRow) BY Nothings DEF Names
<1>2. Names(disk.row') /\ Names(owed') BY <1>1 DEF Saved, RowsNamed
<1>3. QED BY <1>2 DEF RowsNamed, Names

\* Every row anywhere goes on naming a run.
LEMMA ActorNames ==
    ASSUME Types, RowsNamed, ActorStep
    PROVE  RowsNamed'
<1>0. Names(NoRow) /\ \A row \in Filings \cup {NoRow} : Names(row)
  BY Nothings DEF Names, Filings
<1>1. ASSUME UNCHANGED <<owed, journal>>, disk.row' = disk.row PROVE RowsNamed'
  BY <1>1 DEF RowsNamed, Names
<1>2. ASSUME UNCHANGED journal, HoldKept \/ QueueKept PROVE RowsNamed'
  BY <1>1, <1>2, SavedNames DEF HoldKept, QueueKept, RowsNamed, bookVars
<1>3. CASE Begin
  <2>1. journal'.row = journal.row BY <1>3 DEF Begin, Types, Turn
  <2>2. PICK row : Names(row) /\ Saved(Opened, row, FALSE) BY <1>3 DEF Begin, RowsNamed
  <2>3. Names(disk.row') /\ Names(owed') BY <1>0, <2>2 DEF Saved, RowsNamed
  <2>4. QED BY <2>1, <2>3 DEF RowsNamed, Names
<1>4. CASE Settle \/ Abandon \/ \E archived \in BOOLEAN : Archived(archived)
  BY <1>1, <1>4, SavedNames DEF Settle, Fruitful, HoldGone, Abandon, Archived, RowsNamed, bookVars
<1>5. CASE \/ UNCHANGED vars \/ ErrorComing \/ RewindLeased \/ RewindReleased \/ GotSomewhere
           \/ (\E ending \in Endings : ErrorFailed(ending))
           \/ \E firing \in BOOLEAN : AuthFiring(firing)
  BY <1>1, <1>5 DEF vars, ErrorComing, RewindLeased, RewindReleased, GotSomewhere, ErrorFailed,
     AuthFiring, Elsewhere, bookVars
<1>6. CASE \/ \E ending : Stop(ending)
           \/ \E reason, r, plan : TurnHeld(reason, r, plan)
           \/ ResumeSuperseded \/ ResumeDropped \/ LadderSpent
           \/ \E ladder : HeldFired(ladder)
  BY <1>2, <1>6 DEF Stop, TurnHeld, ResumeSuperseded, ResumeDropped, LadderSpent, HeldFired,
     Elsewhere
<1>7. ASSUME NEW row, Names(row), Rewritten(row) \/ UNCHANGED bookVars
      PROVE  Names(disk.row') /\ Names(owed')
  BY <1>7 DEF Rewritten, bookVars, RowsNamed, Types, Books
<1>8. ASSUME NEW row \in Filings, Journalled(row) PROVE RowsNamed'
  <2>1. journal'.row = row BY <1>8 DEF Journalled, Types, Turn
  <2>2. Names(disk.row') /\ Names(owed') BY <1>0, <1>7, <1>8 DEF Journalled
  <2>3. QED BY <1>0, <2>1, <2>2 DEF RowsNamed, Names
<1>9. ASSUME NEW r \in Runs, Unjournalled(r) PROVE RowsNamed'
  <2>1. journal'.row = NoRow BY <1>9 DEF Unjournalled, NoJournal
  <2>2. Names(disk.row') /\ Names(owed') BY <1>0, <1>7, <1>9 DEF Unjournalled
  <2>3. QED BY <1>0, <2>1, <2>2 DEF RowsNamed, Names
<1>10. CASE Restart
  <2>1. journal'.row = NoRow /\ owed' = NoRow /\ disk' = disk
    BY <1>10 DEF Restart, Fresh, NoJournal
  <2>2. QED BY <1>0, <2>1 DEF RowsNamed, Names
<1>11. ASSUME NEW row \in Filings \cup {NoRow}, RowWritten(row) PROVE RowsNamed'
  <2>1. disk'.row = row /\ UNCHANGED <<owed, journal>>
    BY <1>11 DEF RowWritten, Types, Books
  <2>2. QED BY <1>0, <2>1 DEF RowsNamed, Names
<1>12. QED
  BY <1>3, <1>4, <1>5, <1>6, <1>8, <1>9, <1>10, <1>11 DEF ActorStep

\* The kinds of step keep the runs' own types.
LEMMA RunsTypes ==
    ASSUME Types, RowsNamed, RunsInv, RunsNext
    PROVE  RunsInv'
<1>1. /\ \A r \in Runs : runs[r] \in RunShape
      /\ left \in RowType
  BY DEF RunsInv
<1> DEFINE RunsKept ==
             /\ runs' \in [Runs -> RunShape]
             /\ \A r \in Runs : runs'[r].stage = "failing" => runs'[r].wall \in Reasons
<1>2. ASSUME NEW r \in Runs, NEW attempts \in Nat, NEW origin \in Runs \cup {0},
             Accept(r, attempts, origin)
      PROVE  RunsKept
  BY <1>2, AcceptsRun DEF RunsInv
<1>3. ASSUME NEW r \in Runs, NEW from, NEW to \in Stages \ {"failing"}, Moves(r, from, to)
      PROVE  RunsKept
  BY <1>3, MovesStage DEF RunsInv
<1>4. ASSUME NEW r \in Runs, NEW reason \in Reasons, MeetsWall(r, reason) PROVE RunsKept
  BY <1>4, MeetsRun DEF RunsInv
<1>5. ASSUME NEW r \in Runs, Advance(r) PROVE RunsKept
  <2>1. \A move \in Advances : move[2] \in Stages \ {"failing"}
    BY DEF Advances, Stages, OpenStages, LiveStages
  <2>2. QED BY <1>3, <1>4, <1>5, <2>1 DEF Advance
<1>6. ASSUME NEW r \in Runs, BeginRun(r) \/ CloseRun(r) PROVE RunsKept
  BY <1>3, <1>6 DEF BeginRun, CloseRun, Stages, OpenStages, LiveStages
<1>7. CASE Reboot
  <2>1. RunsKept BY <1>7, RebootsRuns
  <2>2. left' \in RowType /\ (recovery' # "none" => left' \in RowType /\ left'.run \in Runs)
    BY <1>7 DEF Reboot, RowsNamed, Names
  <2>3. QED BY <2>1, <2>2 DEF RunsInv
<1>8. RunsKept
  <2>1. CASE UNCHANGED runs BY <2>1 DEF RunsInv
  <2>2. QED BY <1>2, <1>5, <1>6, <1>7, <2>1, StepKinds DEF Claims, Quiet, Rests, RunsInv
<1>9. CASE ~Reboot
  <2>1. left' = left /\ (recovery' = recovery \/ recovery' = "none" \/ recovery # "none")
    <3>1. ASSUME NEW r \in Runs, RunStep(r) PROVE left' = left /\ recovery' \in {recovery, "none"}
      BY <3>1 DEF RunStep, SendTurn, TurnedAway, BeginRun, BeginRefused, SessionMinted, GoOn,
         OpenFails, Cut, MeetsWall, HeldAtExit, EndsClean, EndsFailed, CloseRun, Record, EndJournal,
         Rerun, RerunLeft, Moves, runVars
    <3>2. QED
      BY <1>9, <3>1 DEF RunsNext, StopRun, LandByHand, RewindRun, ArchiveRun, FireHeld, FireOutage,
         FireAuth, RerunRefused, RemintLater, RemintDead, DropReminted, RemintOver, GiveUp,
         SpendGivenUp, WithdrawResume, RecordLeft, ClearLeft, SpendLeft, RerunLeftRefused, Judges,
         Passes, Recovers, runVars
  <2>2. QED BY <1>8, <2>1 DEF RunsInv
<1>10. QED BY <1>7, <1>9

AllTypes == Types /\ RowsNamed /\ RunsInv

\* No run has begun, and no row names one.
LEMMA AllTypesInit == RunsInit => AllTypes
<1> SUFFICES ASSUME RunsInit PROVE AllTypes
  OBVIOUS
<1>1. Types BY InitTypes DEF RunsInit
<1>2. RowsNamed BY Nothings DEF RunsInit, Init, NoJournal, RowsNamed, Names
<1>3. NoRun \in RunShape BY DEF NoRun, RunShape, Stages
<1>4. RunsInv BY <1>3, Nothings DEF RunsInit, RunsInv, NoRun
<1>5. QED BY <1>1, <1>2, <1>4 DEF AllTypes

\* Every step of the runs keeps every type.
LEMMA AllTypesNext ==
    ASSUME AllTypes, [RunsNext]_allVars
    PROVE  AllTypes'
<1>1. CASE RunsNext BY <1>1, ActorSteps, ActorTypes, ActorNames, RunsTypes DEF AllTypes
<1>2. CASE UNCHANGED allVars
  <2>1. Types' BY <1>2, StutterTypes DEF allVars, AllTypes
  <2>2. RowsNamed' BY <1>2 DEF allVars, vars, bookVars, AllTypes, RowsNamed, Names
  <2>3. RunsInv' BY <1>2 DEF allVars, runVars, AllTypes, RunsInv
  <2>4. QED BY <2>1, <2>2, <2>3 DEF AllTypes
<1>3. QED BY <1>1, <1>2

-----------------------------------------------------------------------------
(* The phase and the runs. A second run is claimed only once the first is  *)
(* done, and begins only when the phase is free.                           *)

PhaseInv ==
    /\ (phase = "running") <=> (Live # {})
    /\ \A r, q \in Open : r = q

\* Every step keeps them in agreement while saves do not fail.
LEMMA PhaseNext ==
    ASSUME ~WritesFail, AllTypes, PhaseInv, [RunsNext]_allVars
    PROVE  PhaseInv'
<1> USE DEF AllTypes
<1>1. Live \subseteq Open BY DEF Live, Open, OpenStages
<1>2. ASSUME Live' = Live, Open' \subseteq Open, (phase' = "running") <=> (phase = "running")
      PROVE  PhaseInv'
  BY <1>2 DEF PhaseInv
<1>3. CASE Claims
  <2>1. PICK r \in Runs, attempts \in Nat, origin \in Runs \cup {0} : Accept(r, attempts, origin)
    BY <1>3 DEF Claims
  <2>2. phase' = phase BY <2>1, PhaseUntouched DEF Accept
  <2>3. Open = {} /\ Open' \subseteq {r} /\ Live' = {}
    BY <2>1, AcceptsRun DEF Open, Live, LiveStages, OpenStages
  <2>4. QED BY <1>1, <2>2, <2>3 DEF PhaseInv
<1>4. ASSUME NEW r \in Runs, BeginRun(r) PROVE PhaseInv'
  <2>1. phase = "idle" /\ phase' = "running" BY <1>4 DEF BeginRun, Begin
  <2>2. dirty' = FALSE BY <1>4 DEF BeginRun, Begin, Saved
  <2>3. Moves(r, "accepted", "begun") BY <1>4, <2>2 DEF BeginRun
  <2>4. /\ runs[r].stage = "accepted" /\ runs'[r].stage = "begun"
        /\ \A q \in Runs \ {r} : runs'[q] = runs[q]
    BY <2>3, MovesStage DEF Stages, OpenStages, LiveStages
  <2>5. Open' = Open /\ r \in Live' BY <2>4 DEF Open, Live, OpenStages, LiveStages
  <2>6. QED BY <2>1, <2>5 DEF PhaseInv
<1>5. ASSUME NEW r \in Runs, CloseRun(r) PROVE PhaseInv'
  <2>1. /\ runs[r].stage = "closing" /\ runs'[r].stage = "finished"
        /\ \A q \in Runs \ {r} : runs'[q] = runs[q]
    BY <1>5, MovesStage DEF CloseRun, Stages
  <2>2. r \in Live BY <2>1 DEF Live, LiveStages
  <2>3. Open' \subseteq Open \ {r} /\ Live' \subseteq Open \ {r}
    BY <2>1 DEF Open, Live, OpenStages, LiveStages
  <2>4. phase' # "running" BY <1>5 DEF CloseRun, Settle
  <2>5. QED BY <1>1, <2>2, <2>3, <2>4 DEF PhaseInv
<1>6. CASE Quiet
  <2>1. ASSUME NEW r \in Runs, NEW move \in Advances, Moves(r, move[1], move[2])
        PROVE  Open' \subseteq Open /\ Live' = Live
    <3>1. move[2] \in Stages BY DEF Advances, Stages, OpenStages, LiveStages
    <3>2. /\ runs[r].stage = move[1] /\ runs'[r].stage = move[2]
          /\ \A q \in Runs \ {r} : runs'[q] = runs[q]
      BY <2>1, <3>1, MovesStage
    <3>3. QED BY <3>2 DEF Advances, Open, Live, OpenStages, LiveStages
  <2>2. ASSUME NEW r \in Runs, NEW reason \in Reasons, MeetsWall(r, reason)
        PROVE  Open' \subseteq Open /\ Live' = Live
    BY <2>2, MeetsRun DEF Open, Live, OpenStages, LiveStages
  <2>3. CASE UNCHANGED runs BY <1>2, <1>6, <2>3 DEF Quiet, Open, Live
  <2>4. QED BY <1>2, <1>6, <2>1, <2>2, <2>3 DEF Quiet, Advance
<1>7. CASE Rests BY <1>2, <1>7 DEF Rests, Open, Live
<1>8. CASE Reboot
  <2>1. Open' = {} /\ Live' = {} BY <1>8, RebootsRuns DEF Open, Live, OpenStages, LiveStages
  <2>2. phase' = "idle" BY <1>8 DEF Reboot, Restart, Fresh
  <2>3. QED BY <2>1, <2>2 DEF PhaseInv
<1>9. CASE UNCHANGED allVars
  BY <1>2, <1>9 DEF allVars, vars, turnVars, runVars, Open, Live
<1>10. QED BY <1>3, <1>4, <1>5, <1>6, <1>7, <1>8, <1>9, StepKinds

\* conversations/invariant.ts, while no save fails: the actor's phase is
\* `running` exactly while one run is between its begin and its settle,
\* whatever lands, rewinds, stops and restarts come between. (A save that fails
\* as a turn begins parts the two, as the run TurnRunsStuckPhase shows.)
THEOREM PhaseAgrees == ~WritesFail => (RunsSpec => []PhaseHasRun)
<1> SUFFICES ASSUME ~WritesFail PROVE RunsSpec => []PhaseHasRun
  OBVIOUS
<1>1. RunsInit => AllTypes /\ PhaseInv
  <2>1. RunsInit => Open = {} /\ Live = {} /\ phase = "idle"
    BY DEF RunsInit, Init, NoRun, Open, Live, OpenStages, LiveStages
  <2>2. QED BY <2>1, AllTypesInit DEF PhaseInv
<1>2. AllTypes /\ PhaseInv /\ [RunsNext]_allVars => (AllTypes /\ PhaseInv)'
  BY AllTypesNext, PhaseNext
<1>3. PhaseInv => PhaseHasRun BY DEF PhaseInv, PhaseHasRun, Live, Open, OpenStages
<1>4. QED BY <1>1, <1>2, <1>3, PTL DEF RunsSpec

-----------------------------------------------------------------------------
(* The rows. Most steps leave the record, the row standing for it and what *)
(* a boot recovers alone; a claim, a begin, a session, an end and recovery *)
(* itself are the ones that do not.                                        *)

\* What the mild steps ask of the actor.
MildActor ==
    \/ UNCHANGED vars
    \/ ErrorComing \/ Settle \/ Abandon
    \/ \E ending \in Endings : ErrorFailed(ending)
    \/ \E ending \in {"stopped", "dismissed"} : Stop(ending)
    \/ RewindLeased \/ RewindReleased
    \/ \E reason, r, plan : TurnHeld(reason, r, plan)
    \/ GotSomewhere \/ ResumeSuperseded \/ ResumeDropped \/ LadderSpent
    \/ HeldFired(held.reason = "stopped")
    \/ \E firing \in BOOLEAN : AuthFiring(firing)
    \/ \E archived \in BOOLEAN : Archived(archived)

\* The stages a mild step moves a run between.
MildMoves ==
    {<<"accepted", "finished">>, <<"begun", "going">>, <<"begun", "closing">>,
     <<"going", "closing">>, <<"failing", "closing">>, <<"closing", "finished">>,
     <<"finished", "recorded">>, <<"finished", "unrecorded">>}

MildRuns ==
    \/ UNCHANGED runs
    \/ \E r \in Runs : \/ \E move \in MildMoves : /\ Moves(r, move[1], move[2])
                                                  /\ move[2] = "unrecorded" => RecordsFail
                       \/ \E reason \in Reasons : MeetsWall(r, reason)

Mild ==
    /\ MildActor /\ MildRuns
    /\ UNCHANGED <<left, recovery>>
    /\ pass' # "none" => pass # "none" \/ recovery = "none"

RecoveryStep == RecordLeft \/ ClearLeft \/ SpendLeft \/ RerunLeftRefused

LEMMA StepRows ==
    ASSUME RunsInv, RunsNext
    PROVE  \/ Mild
           \/ \E r \in Runs : \/ SendTurn(r) \/ Rerun(r) \/ RerunLeft(r)
                              \/ BeginRun(r) \/ SessionMinted(r) \/ EndJournal(r)
           \/ RecoveryStep \/ Reboot
<1>0. "failed" \in Endings /\ \A reason \in Reasons : EndingOf(reason) \in Endings
  BY DEF EndingOf, Endings, AllReasons
<1>1. ASSUME NEW r \in Runs, NEW move \in MildMoves, Moves(r, move[1], move[2]), MildActor,
             move[2] = "unrecorded" => RecordsFail
      PROVE  Mild
  BY <1>1 DEF Mild, MildRuns, Moves
<1>2. ASSUME NEW r \in Runs,
             TurnedAway(r) \/ BeginRefused(r) \/ GoOn(r) \/ OpenFails(r) \/ Cut(r)
               \/ HeldAtExit(r) \/ EndsClean(r) \/ EndsFailed(r) \/ CloseRun(r) \/ Record(r)
      PROVE  Mild
  <2>1. CASE TurnedAway(r)
    <3>1. Moves(r, "accepted", "finished") /\ MildActor BY <2>1 DEF TurnedAway, MildActor
    <3>2. QED BY <1>1, <3>1 DEF MildMoves
  <2>2. CASE BeginRefused(r)
    BY <1>1, <2>2 DEF BeginRefused, MildActor, MildMoves
  <2>3. CASE GoOn(r) BY <1>1, <2>3 DEF GoOn, MildActor, MildMoves
  <2>4. CASE OpenFails(r) BY <1>0, <1>1, <2>4 DEF OpenFails, MildActor, MildMoves
  <2>5. CASE Cut(r)
    <3>1. (Moves(r, "begun", "closing") \/ Moves(r, "going", "closing")) /\ MildActor
      BY <2>5 DEF Cut, MildActor
    <3>2. QED BY <1>1, <3>1 DEF MildMoves
  <2>6. CASE HeldAtExit(r) BY <1>1, <2>6 DEF HeldAtExit, MildActor, MildMoves
  <2>7. CASE EndsClean(r)
    <3>1. Moves(r, "going", "closing") /\ MildActor BY <2>7 DEF EndsClean, MildActor
    <3>2. QED BY <1>1, <3>1 DEF MildMoves
  <2>8. CASE EndsFailed(r) BY <1>0, <1>1, <2>8 DEF EndsFailed, MildActor, MildMoves
  <2>9. CASE CloseRun(r) BY <1>1, <2>9 DEF CloseRun, MildActor, MildMoves
  <2>10. CASE Record(r)
    <3>1. /\ \/ Moves(r, "finished", "recorded")
             \/ RecordsFail /\ Moves(r, "finished", "unrecorded")
          /\ MildActor
      BY <2>10 DEF Record, MildActor
    <3>2. QED BY <1>1, <3>1 DEF MildMoves
  <2>11. QED BY <1>2, <2>1, <2>2, <2>3, <2>4, <2>5, <2>6, <2>7, <2>8, <2>9, <2>10
<1>3. ASSUME NEW r \in Runs, NEW reason \in Reasons, MeetsWall(r, reason) PROVE Mild
  <2>1. MildActor BY <1>0, <1>3 DEF MeetsWall, MildActor
  <2>2. MildRuns BY <1>3 DEF MildRuns
  <2>3. QED BY <1>3, <2>1, <2>2 DEF Mild, MeetsWall
<1>4. CASE StopRun \/ ArchiveRun \/ LandByHand \/ RewindRun
  BY <1>4 DEF StopRun, ArchiveRun, LandByHand, RewindRun, runVars, Mild, MildRuns, MildActor
<1>5. CASE FireHeld \/ FireOutage \/ FireAuth \/ RerunRefused
  BY <1>5 DEF FireHeld, FireOutage, FireAuth, RerunRefused, Judges, Passes, Mild, MildRuns,
     MildActor
<1>6. CASE RemintLater \/ RemintDead \/ DropReminted \/ RemintOver
  BY <1>6 DEF RemintLater, RemintDead, DropReminted, RemintOver, WaitEnded, Passes, Mild,
     MildRuns, MildActor
<1>7. CASE GiveUp \/ SpendGivenUp \/ WithdrawResume
  BY <1>7 DEF GiveUp, SpendGivenUp, WithdrawResume, WaitEnded, Judges, Passes, runVars, Mild,
     MildRuns, MildActor
<1>8. QED
  BY <1>2, <1>3, <1>4, <1>5, <1>6, <1>7 DEF RunsNext, RunStep, RecoveryStep

\* A mild step changes neither the record nor the row standing for it.
LEMMA MildRows ==
    ASSUME MildActor
    PROVE  /\ UNCHANGED journal /\ StandingRow' = StandingRow
           /\ "row" \in missed' <=> "row" \in missed
           /\ owed' \in {owed, NoRow} /\ disk.row' \in {disk.row, owed}
           /\ ~WritesFail /\ owed = NoRow => owed' = NoRow
<1> DEFINE Untouched ==
             /\ StandingRow' = StandingRow
             /\ "row" \in missed' <=> "row" \in missed
             /\ owed' \in {owed, NoRow} /\ disk.row' \in {disk.row, owed}
             /\ ~WritesFail /\ owed = NoRow => owed' = NoRow
<1>1. ASSUME UNCHANGED bookVars PROVE Untouched
  BY <1>1 DEF bookVars, StandingRow
<1>2. ASSUME NEW e, NEW late, Saved(e, owed, late) PROVE Untouched
  BY <1>2 DEF Saved, StandingRow
<1>3. ASSUME HoldKept \/ QueueKept PROVE Untouched
  BY <1>1, <1>2, <1>3 DEF HoldKept, QueueKept
<1>4. CASE \/ UNCHANGED vars \/ ErrorComing \/ GotSomewhere \/ RewindLeased \/ RewindReleased
           \/ (\E ending : ErrorFailed(ending)) \/ (\E firing : AuthFiring(firing))
  BY <1>1, <1>4 DEF vars, ErrorComing, GotSomewhere, RewindLeased, RewindReleased, ErrorFailed,
     AuthFiring, Elsewhere
<1>5. CASE Settle \/ Abandon \/ (\E archived : Archived(archived))
  <2>1. UNCHANGED journal BY <1>5 DEF Settle, Fruitful, HoldGone, Abandon, Archived
  <2>2. UNCHANGED bookVars \/ \E e, late : Saved(e, owed, late)
    BY <1>5 DEF Settle, Fruitful, HoldGone, Abandon, Archived
  <2>3. QED BY <1>1, <1>2, <2>1, <2>2
<1>6. CASE \/ (\E ending : Stop(ending)) \/ (\E reason, r, plan : TurnHeld(reason, r, plan))
           \/ ResumeSuperseded \/ ResumeDropped \/ LadderSpent
           \/ (\E ladder : HeldFired(ladder))
  BY <1>3, <1>6 DEF Stop, TurnHeld, ResumeSuperseded, ResumeDropped, LadderSpent, HeldFired,
     Elsewhere
<1>7. QED BY <1>4, <1>5, <1>6 DEF MildActor

\* Nor does it end a run, cut one or start one.
LEMMA MildStages ==
    ASSUME RunsInv, MildRuns
    PROVE  \A q \in Runs :
             /\ runs'[q].stage = runs[q].stage
                \/ (runs[q].stage \notin {"none", "cut", "ended"}
                    /\ runs'[q].stage \notin {"none", "cut", "ended", "accepted"})
             /\ runs'[q].stage \in LiveStages => runs[q].stage \in LiveStages
             /\ runs'[q].stage \in OpenStages => runs[q].stage \in OpenStages
             /\ runs'[q].stage = "unrecorded" => RecordsFail \/ runs[q].stage = "unrecorded"
             /\ runs'[q].attempts = runs[q].attempts /\ runs'[q].origin = runs[q].origin
<1>1. ASSUME NEW r \in Runs, NEW move \in MildMoves, Moves(r, move[1], move[2])
      PROVE  /\ runs[r].stage = move[1] /\ runs'[r].stage = move[2]
             /\ \A q \in Runs \ {r} : runs'[q] = runs[q]
             /\ runs'[r].attempts = runs[r].attempts /\ runs'[r].origin = runs[r].origin
  <2>1. move[2] \in Stages BY DEF MildMoves, Stages, OpenStages, LiveStages
  <2>2. QED BY <1>1, <2>1, MovesStage
<1>2. CASE UNCHANGED runs BY <1>2
<1>3. CASE \E r \in Runs, move \in MildMoves :
             Moves(r, move[1], move[2]) /\ (move[2] = "unrecorded" => RecordsFail)
  BY <1>1, <1>3 DEF MildMoves, OpenStages, LiveStages
<1>4. CASE \E r \in Runs, reason \in Reasons : MeetsWall(r, reason)
  BY <1>4, MeetsRun DEF OpenStages, LiveStages
<1>5. QED BY <1>2, <1>3, <1>4 DEF MildRuns

\* A version filed: the record names it, and the row stands for it once the
\* record is one that is written, unless that write failed.
LEMMA FiledRow ==
    ASSUME Types, NEW row \in Filings, Journalled(row)
    PROVE  /\ journal' = [row |-> row, written |-> journal.written]
           /\ ~journal.written => UNCHANGED <<owed, missed>> /\ disk.row' = disk.row
           /\ journal.written => StandingRow' = row \/ ("row" \in missed' /\ StandingRow' = StandingRow)
           /\ "row" \in missed => "row" \in missed' \/ StandingRow' = row
           /\ owed' \in {owed, row} /\ disk.row' \in {disk.row, row}
           /\ ~WritesFail /\ owed = NoRow =>
                 owed' = NoRow /\ (journal.written => StandingRow' = row)
<1>1. row # NoRow BY DEF Filings, NoRow, Runs
<1>2. journal' = [row |-> row, written |-> journal.written] BY DEF Journalled, Types, Turn
<1>3. IF journal.written THEN Rewritten(row) ELSE UNCHANGED bookVars BY DEF Journalled
<1>4. QED BY <1>1, <1>2, <1>3 DEF Rewritten, bookVars, StandingRow, Types, Books

\* A record cleared stands for nothing; its row goes if it was written.
LEMMA ClearedRow ==
    ASSUME Types, NEW r, Unjournalled(r)
    PROVE  /\ journal' = NoJournal /\ journal.row.run = r
           /\ ~journal.written => UNCHANGED <<owed, missed>> /\ disk.row' = disk.row
           /\ owed' \in {owed, NoRow} /\ disk.row' \in {disk.row, NoRow}
           /\ ~WritesFail /\ owed = NoRow =>
                 owed' = NoRow /\ (journal.written => StandingRow' = NoRow)
<1>1. IF journal.written THEN Rewritten(NoRow) ELSE UNCHANGED bookVars BY DEF Unjournalled
<1>2. QED BY <1>1 DEF Unjournalled, Rewritten, bookVars, StandingRow, Types, Books

\* A begin writes the record staged before it.
LEMMA BegunRow ==
    ASSUME Types, Begin
    PROVE  /\ journal'.row = journal.row
           /\ journal.row # NoRow => journal'.written
           /\ StandingRow' = IF journal.row # NoRow /\ ~journal.written THEN journal.row
                             ELSE StandingRow
           /\ journal.row = NoRow \/ journal.written => UNCHANGED journal
           /\ "row" \in missed' <=> "row" \in missed
           /\ owed' \in {owed, NoRow, journal.row} /\ disk.row' \in {disk.row, owed, journal.row}
           /\ ~WritesFail /\ owed = NoRow => owed' = NoRow
<1> DEFINE staged == journal.row # NoRow /\ ~journal.written
<1>1. journal' = IF staged THEN [journal EXCEPT !.written = TRUE] ELSE journal BY DEF Begin
<1>2. Saved(Opened, IF staged THEN journal.row ELSE owed, FALSE) BY DEF Begin
<1>3. /\ StandingRow' = IF staged THEN journal.row ELSE StandingRow
      /\ "row" \in missed' <=> "row" \in missed
      /\ owed' \in {owed, NoRow, journal.row} /\ disk.row' \in {disk.row, owed, journal.row}
      /\ ~WritesFail /\ owed = NoRow => owed' = NoRow
  BY <1>2 DEF Saved, StandingRow
<1>4. QED BY <1>1, <1>3 DEF Types, Turn

-----------------------------------------------------------------------------
(* A run that is over. The row a boot may find is of a run it will cut, or *)
(* of one that ended and says so; while a run is not done, its row stands  *)
(* only as the record's own, so the end that clears the record clears it.  *)

\* A row that names a run which is over says it settled.
Honest(row) ==
    row # NoRow => /\ runs[row.run].stage # "none"
                   /\ runs[row.run].stage = "ended" => row.settled

EndedInv ==
    /\ owed = NoRow
    /\ Honest(disk.row) /\ Honest(journal.row)
    /\ disk.row # NoRow /\ runs[disk.row.run].stage \notin {"cut", "ended"} =>
          journal.written /\ journal.row.run = disk.row.run
    /\ recovery # "none" =>
          /\ runs[left.run].stage \in {"cut", "ended"}
          /\ runs[left.run].stage = "ended" => left.settled
    /\ recovery \in {"spending", "starting"} => ~left.settled

\* Runs that go on, with the record and its row alone, keep it so.
LEMMA EndedStays ==
    ASSUME AllTypes, EndedInv, UNCHANGED <<journal, left, recovery, owed>>, disk.row' = disk.row,
           \A q \in Runs : \/ runs'[q].stage = runs[q].stage
                           \/ /\ runs[q].stage \notin {"none", "cut", "ended"}
                              /\ runs'[q].stage \notin {"none", "cut", "ended"}
    PROVE  EndedInv'
<1>1. /\ disk.row # NoRow => disk.row.run \in Runs
      /\ journal.row # NoRow => journal.row.run \in Runs
      /\ recovery # "none" => left.run \in Runs
  BY DEF AllTypes, RowsNamed, Names, RunsInv
<1>2. QED BY <1>1 DEF EndedInv, Honest

\* An acceptance files its own row; whoever ran before it is not done no more.
LEMMA EndedAccept ==
    ASSUME ~WritesFail, AllTypes, EndedInv, NEW r \in Runs, NEW attempts \in Nat,
           NEW origin \in Runs \cup {0}, Accept(r, attempts, origin),
           UNCHANGED left, recovery' \in {recovery, "none"}
    PROVE  EndedInv'
<1> DEFINE row == [run |-> r, settled |-> FALSE, attempts |-> attempts]
<1>1. row \in Filings /\ row # NoRow BY DEF Filings, RowType, NoRow, Runs
<1>2. /\ runs[r].stage = "none" /\ runs'[r].stage = "accepted"
      /\ \A q \in Runs \ {r} : runs'[q] = runs[q]
  BY AcceptsRun DEF AllTypes, Unused
<1>3. Journalled(row) BY DEF Accept
<1>4. /\ journal' = [row |-> row, written |-> journal.written]
      /\ ~journal.written => disk.row' = disk.row
      /\ owed' = NoRow /\ (journal.written => StandingRow' = row)
  BY <1>1, <1>3, FiledRow DEF AllTypes, EndedInv
<1>5. journal.written => disk.row' = row BY <1>4 DEF StandingRow
<1>6. /\ disk.row # NoRow => disk.row.run \in Runs \ {r}
      /\ recovery # "none" => left.run \in Runs \ {r}
  BY <1>2 DEF AllTypes, RowsNamed, Names, RunsInv, EndedInv, Honest
<1>7. journal.written \in BOOLEAN BY DEF AllTypes, Types, Turn
<1>8. Honest(journal.row)' BY <1>1, <1>2, <1>4 DEF Honest
<1>9. CASE journal.written
  <2>1. disk.row' = row /\ row.run = r /\ ~row.settled BY <1>5, <1>9
  <2>2. Honest(disk.row)' BY <1>2, <2>1 DEF Honest
  <2>3. journal'.written /\ journal'.row.run = disk.row'.run BY <1>4, <1>9, <2>1
  <2>4. QED BY <1>2, <1>4, <1>6, <1>8, <2>2, <2>3 DEF EndedInv
<1>10. CASE ~journal.written
  <2>1. disk.row' = disk.row BY <1>4, <1>10
  <2>2. Honest(disk.row)' BY <1>2, <1>6, <2>1 DEF EndedInv, Honest
  <2>3. disk.row # NoRow => runs[disk.row.run].stage \in {"cut", "ended"}
    BY <1>10 DEF EndedInv
  <2>4. QED BY <1>2, <1>4, <1>6, <1>8, <2>1, <2>2, <2>3 DEF EndedInv
<1>11. QED BY <1>7, <1>9, <1>10

\* A begin writes the row its record staged, whose run is under way.
LEMMA EndedBegin ==
    ASSUME ~WritesFail, AllTypes, EndedInv, NEW r \in Runs, BeginRun(r)
    PROVE  EndedInv'
<1>1. PICK to \in {"begun", "finished"} : Moves(r, "accepted", to) BY DEF BeginRun
<1>2. /\ runs[r].stage = "accepted" /\ runs'[r].stage = to
      /\ \A q \in Runs \ {r} : runs'[q] = runs[q]
      /\ UNCHANGED <<left, recovery>>
  BY <1>1, MovesStage DEF AllTypes, Stages, OpenStages, LiveStages
<1>3. \A q \in Runs : \/ runs'[q].stage = runs[q].stage
                      \/ /\ runs[q].stage \notin {"none", "cut", "ended"}
                         /\ runs'[q].stage \notin {"none", "cut", "ended"}
  BY <1>2
<1>4. Begin BY DEF BeginRun
<1>5. owed' = NoRow /\ disk.row' = StandingRow' BY <1>4, BegunRow DEF AllTypes, EndedInv, StandingRow
<1>6. CASE journal.row # NoRow /\ ~journal.written
  <2>1. disk.row' = journal.row /\ journal'.row = journal.row /\ journal'.written
    BY <1>4, <1>5, <1>6, BegunRow DEF AllTypes
  <2>2. journal.row.run \in Runs BY <1>6 DEF AllTypes, RowsNamed, Names
  <2>3. Honest(journal.row)' /\ Honest(disk.row)' BY <1>3, <2>1, <2>2 DEF EndedInv, Honest
  <2>4. recovery # "none" => left.run \in Runs BY DEF AllTypes, RunsInv
  <2>5. QED BY <1>2, <1>3, <1>5, <2>1, <2>3, <2>4 DEF EndedInv
<1>7. CASE ~(journal.row # NoRow /\ ~journal.written)
  <2>1. journal.row = NoRow \/ journal.written BY <1>7
  <2>2. UNCHANGED journal /\ disk.row' = disk.row
    BY <1>4, <1>5, <1>7, <2>1, BegunRow DEF AllTypes, EndedInv, StandingRow
  <2>3. QED BY <1>2, <1>3, <1>5, <2>2, EndedStays DEF EndedInv
<1>8. QED BY <1>6, <1>7

\* A session's row is of a run under way; the end of a run takes its row away,
\* or files it as settled.
LEMMA EndedEnd ==
    ASSUME ~WritesFail, AllTypes, EndedInv, NEW r \in Runs, SessionMinted(r) \/ EndJournal(r)
    PROVE  EndedInv'
<1> USE DEF AllTypes
<1>0. /\ disk.row # NoRow => disk.row.run \in Runs
      /\ journal.row # NoRow => journal.row.run \in Runs
      /\ recovery # "none" => left.run \in Runs
      /\ journal.written \in BOOLEAN
      /\ NoRow.run \notin Runs
  BY DEF RowsNamed, Names, RunsInv, Types, Turn, NoRow, Runs
<1>1. ASSUME NEW row \in Filings, row.run = r, Journalled(row), UNCHANGED <<left, recovery>>,
             runs[r].stage \notin {"none", "cut", "ended"}, runs'[r].stage \notin {"none", "cut"},
             runs'[r].stage = "ended" => row.settled,
             \A q \in Runs \ {r} : runs'[q] = runs[q]
      PROVE  EndedInv'
  <2>1. /\ journal' = [row |-> row, written |-> journal.written]
        /\ ~journal.written => disk.row' = disk.row
        /\ owed' = NoRow /\ (journal.written => StandingRow' = row)
    BY <1>1, FiledRow DEF EndedInv
  <2>2. Honest(journal.row)' BY <1>1, <2>1 DEF Honest
  <2>3. recovery # "none" => left.run # r BY <1>1 DEF EndedInv
  <2>4. CASE journal.written
    <3>1. disk.row' = row BY <2>1, <2>4 DEF StandingRow
    <3>2. Honest(disk.row)' BY <1>1, <3>1 DEF Honest
    <3>3. QED BY <1>0, <1>1, <2>1, <2>2, <2>3, <2>4, <3>1, <3>2 DEF EndedInv
  <2>5. CASE ~journal.written
    <3>1. disk.row' = disk.row BY <2>1, <2>5
    <3>2. disk.row # NoRow => disk.row.run # r /\ runs[disk.row.run].stage \in {"cut", "ended"}
      BY <1>1, <2>5 DEF EndedInv
    <3>3. Honest(disk.row)' BY <1>0, <1>1, <3>1, <3>2 DEF EndedInv, Honest
    <3>4. QED BY <1>0, <1>1, <2>1, <2>2, <2>3, <3>1, <3>2, <3>3 DEF EndedInv
  <2>6. QED BY <1>0, <2>4, <2>5
<1>2. CASE SessionMinted(r)
  <2> DEFINE row == [run |-> r, settled |-> FALSE, attempts |-> runs[r].attempts]
  <2>1. row \in Filings BY DEF Filings, RowType, RunsInv, RunShape
  <2>2. QED BY <1>1, <1>2, <2>1 DEF SessionMinted, runVars
<1>3. CASE Moves(r, "unrecorded", "ended")
           /\ Journalled([run |-> r, settled |-> TRUE, attempts |-> runs[r].attempts])
  <2> DEFINE row == [run |-> r, settled |-> TRUE, attempts |-> runs[r].attempts]
  <2>1. row \in Filings BY DEF Filings, RowType, RunsInv, RunShape
  <2>2. /\ runs[r].stage = "unrecorded" /\ runs'[r].stage = "ended"
        /\ \A q \in Runs \ {r} : runs'[q] = runs[q]
        /\ UNCHANGED <<left, recovery>>
    BY <1>3, MovesStage DEF Stages
  <2>3. QED BY <1>1, <1>3, <2>1, <2>2
<1>4. ASSUME Moves(r, "recorded", "ended")
      PROVE  /\ runs[r].stage = "recorded" /\ runs'[r].stage = "ended"
             /\ \A q \in Runs \ {r} : runs'[q] = runs[q]
             /\ UNCHANGED <<left, recovery>>
             /\ recovery # "none" => left.run # r
             /\ disk.row # NoRow /\ disk.row.run = r => journal.written /\ journal.row.run = r
  BY <1>4, MovesStage DEF Stages, EndedInv
<1>5. CASE Moves(r, "recorded", "ended") /\ Unjournalled(r)
  <2>1. /\ journal' = NoJournal
        /\ ~journal.written => disk.row' = disk.row
        /\ owed' = NoRow /\ (journal.written => StandingRow' = NoRow)
    BY <1>5, ClearedRow DEF EndedInv
  <2>2. Honest(journal.row)' BY <2>1 DEF Honest, NoJournal
  <2>3. CASE journal.written
    <3>1. disk.row' = NoRow BY <2>1, <2>3 DEF StandingRow
    <3>2. QED BY <1>0, <1>4, <1>5, <2>1, <2>2, <3>1 DEF EndedInv, Honest
  <2>4. CASE ~journal.written
    <3>1. disk.row' = disk.row BY <2>1, <2>4
    <3>2. disk.row # NoRow => disk.row.run # r /\ runs[disk.row.run].stage \in {"cut", "ended"}
      BY <1>4, <1>5, <2>4 DEF EndedInv
    <3>3. Honest(disk.row)' BY <1>0, <1>4, <1>5, <3>1, <3>2 DEF EndedInv, Honest
    <3>4. QED BY <1>0, <1>4, <1>5, <2>1, <2>2, <3>1, <3>2, <3>3 DEF EndedInv
  <2>5. QED BY <1>0, <2>3, <2>4
<1>6. CASE Moves(r, "recorded", "ended") /\ journal.row.run # r /\ UNCHANGED vars
  <2>1. UNCHANGED <<journal, owed>> /\ disk.row' = disk.row BY <1>6 DEF vars, bookVars
  <2>2. disk.row # NoRow => disk.row.run # r BY <1>4, <1>6
  <2>3. Honest(disk.row)' /\ Honest(journal.row)'
    BY <1>0, <1>4, <1>6, <2>1, <2>2 DEF EndedInv, Honest
  <2>4. QED BY <1>0, <1>4, <1>6, <2>1, <2>2, <2>3 DEF EndedInv
<1>7. QED BY <1>2, <1>3, <1>5, <1>6 DEF EndJournal

\* Recovery writes its row only while the run it names is one it may start.
LEMMA EndedRecovery ==
    ASSUME AllTypes, EndedInv, RecoveryStep \/ Reboot
    PROVE  EndedInv'
<1> USE DEF AllTypes
<1>0. /\ disk.row # NoRow => disk.row.run \in Runs
      /\ journal.row # NoRow => journal.row.run \in Runs
      /\ recovery # "none" => left.run \in Runs
  BY DEF RowsNamed, Names, RunsInv
<1>1. CASE Reboot
  <2>1. /\ journal' = NoJournal /\ owed' = NoRow /\ disk' = disk /\ left' = disk.row
        /\ recovery' = IF disk.row = NoRow THEN "none" ELSE "read"
    BY <1>1 DEF Reboot, Restart, Fresh
  <2>2. \A q \in Runs : runs'[q].stage = IF runs[q].stage \in {"none", "ended"} THEN runs[q].stage
                                         ELSE "cut"
    BY <1>1, RebootsRuns
  <2>3. Honest(journal.row)' BY <2>1 DEF Honest, NoJournal
  <2>4. Honest(disk.row)' BY <1>0, <2>1, <2>2 DEF EndedInv, Honest
  <2>5. disk.row # NoRow => runs'[disk.row.run].stage \in {"cut", "ended"}
    BY <1>0, <2>2 DEF EndedInv, Honest
  <2>6. QED BY <2>1, <2>3, <2>4, <2>5 DEF EndedInv, Honest
<1>2. ASSUME UNCHANGED <<journal, owed, runs, left>>, disk.row' \in {disk.row, NoRow},
             recovery # "none", recovery' \in {"spending", "starting"} => ~left.settled
      PROVE  EndedInv'
  <2>1. Honest(disk.row)' /\ Honest(journal.row)' BY <1>2 DEF EndedInv, Honest
  <2>2. QED BY <1>2, <2>1 DEF EndedInv
<1>3. CASE RecordLeft \/ RerunLeftRefused
  BY <1>2, <1>3 DEF RecordLeft, RerunLeftRefused, Recovers, vars, bookVars
<1>4. CASE ClearLeft
  <2>1. UNCHANGED <<journal, owed>> /\ disk.row' \in {disk.row, NoRow}
    BY <1>4 DEF ClearLeft, RowWritten, vars, bookVars, Types, Books
  <2>2. QED BY <1>2, <1>4, <2>1 DEF ClearLeft, Recovers
<1>5. CASE SpendLeft
  <2> DEFINE spent == [left EXCEPT !.attempts = @ + 1]
  <2>1. /\ recovery = "spending" /\ recovery' = "starting"
        /\ UNCHANGED <<runs, left>>
        /\ UNCHANGED <<journal, owed>>
        /\ disk.row' \in {disk.row, NoRow, spent}
    BY <1>5 DEF SpendLeft, Recovers, RowWritten, vars, bookVars, Types, Books
  <2>2. CASE disk.row' = spent
    <3>1. spent.run = left.run BY DEF RunsInv, RowType
    <3>2. runs[left.run].stage = "cut" BY <2>1 DEF EndedInv
    <3>3. Honest(disk.row)' /\ Honest(journal.row)'
      BY <2>1, <2>2, <3>1, <3>2 DEF EndedInv, Honest
    <3>4. QED BY <2>1, <2>2, <3>1, <3>2, <3>3 DEF EndedInv
  <2>3. CASE disk.row' # spent BY <1>2, <2>1, <2>3 DEF EndedInv
  <2>4. QED BY <2>2, <2>3
<1>6. QED BY <1>1, <1>3, <1>4, <1>5 DEF RecoveryStep

\* Every step keeps the rows honest while saves do not fail.
LEMMA EndedNext ==
    ASSUME ~WritesFail, AllTypes, EndedInv, [RunsNext]_allVars
    PROVE  EndedInv'
<1>1. CASE Mild
  <2>1. UNCHANGED <<journal, left, recovery>> /\ owed' = owed /\ disk.row' = disk.row
    BY <1>1, MildRows DEF Mild, EndedInv, StandingRow
  <2>2. QED BY <1>1, <2>1, MildStages, EndedStays DEF Mild, AllTypes
<1>2. ASSUME NEW r \in Runs, SendTurn(r) \/ Rerun(r) \/ RerunLeft(r) PROVE EndedInv'
  <2>1. CASE RerunLeft(r)
    <3>1. left.run \in Runs /\ left.attempts + 1 \in Nat
      BY <2>1 DEF RerunLeft, AllTypes, RunsInv, RowType
    <3>2. runs[left.run].origin \in Runs \cup {0} BY <3>1 DEF AllTypes, RunsInv, RunShape
    <3>3. QED BY <2>1, <3>1, <3>2, EndedAccept DEF RerunLeft
  <2>2. QED BY <1>2, <2>1, EndedAccept DEF SendTurn, Rerun
<1>3. CASE UNCHANGED allVars
  BY <1>3, EndedStays DEF allVars, vars, bookVars, runVars
<1>4. QED
  BY <1>1, <1>2, <1>3, EndedBegin, EndedEnd, EndedRecovery, StepRows DEF AllTypes

\* No run is started again once its settle is on the record and its row is
\* cleared or says so, while no save fails: not by a boot, however many turns
\* the sender got in before its recovery (endTurnRun, recoverTurns).
THEOREM EndedRunsStay == ~WritesFail => (RunsSpec => EndedStaysEnded)
<1> SUFFICES ASSUME ~WritesFail PROVE RunsSpec => EndedStaysEnded
  OBVIOUS
<1>1. RunsInit => AllTypes /\ EndedInv
  <2>1. RunsInit => EndedInv BY DEF RunsInit, Init, NoJournal, EndedInv, Honest
  <2>2. QED BY <2>1, AllTypesInit
<1>2. AllTypes /\ EndedInv /\ [RunsNext]_allVars => (AllTypes /\ EndedInv)'
  BY AllTypesNext, EndedNext
<1>3. EndedInv => [\A r \in Runs : RerunLeft(r) => runs[left.run].stage # "ended"]_allVars
  BY DEF EndedInv, RerunLeft
<1>4. QED BY <1>1, <1>2, <1>3, PTL DEF RunsSpec, EndedStaysEnded

-----------------------------------------------------------------------------
(* The row of the run in flight. While turns wait for a boot's recovery and*)
(* records are taken, the record is the newest run's from its claim to its *)
(* end, and recovery writes past it only while no record is written.       *)

Settled == {"none", "ended", "cut"}

LiveInv ==
    /\ JournalInv
    /\ \A r \in Open : journal.row.run = r
    /\ Live # {} => journal.written
    /\ \A r \in Runs : runs[r].stage # "unrecorded"
    /\ recovery # "none" =>
          /\ pass = "none" /\ ~journal.written
          /\ \A r \in Runs : runs[r].stage \in Settled

\* A claim's row takes the record over; none but its own run is open behind it.
LEMMA LiveAccept ==
    ASSUME AllTypes, LiveInv, NEW r \in Runs, NEW attempts \in Nat, NEW origin \in Runs \cup {0},
           Accept(r, attempts, origin), recovery' = "none"
    PROVE  LiveInv'
<1> DEFINE row == [run |-> r, settled |-> FALSE, attempts |-> attempts]
<1>1. row \in Filings BY DEF Filings, RowType
<1>2. /\ journal' = [row |-> row, written |-> journal.written]
      /\ journal.written => StandingRow' = row \/ "row" \in missed'
  BY <1>1, FiledRow DEF Accept, AllTypes
<1>3. JournalInv' BY <1>2 DEF JournalInv
<1>4. /\ Open = {} /\ runs'[r].stage = "accepted"
      /\ \A q \in Runs \ {r} : runs'[q] = runs[q]
  BY AcceptsRun DEF AllTypes
<1>5. \A q \in Runs : /\ runs'[q].stage # "unrecorded"
                      /\ runs'[q].stage \in OpenStages => q = r
                      /\ runs'[q].stage \notin LiveStages
  BY <1>4 DEF LiveInv, Open, OpenStages, LiveStages
<1>6. Open' \subseteq {r} /\ Live' = {} BY <1>5 DEF Open, Live
<1>7. QED BY <1>2, <1>3, <1>5, <1>6 DEF LiveInv

\* A begin writes the record of the run it begins.
LEMMA LiveBegin ==
    ASSUME AllTypes, LiveInv, NEW r \in Runs, BeginRun(r)
    PROVE  LiveInv'
<1>1. PICK to \in {"begun", "finished"} : Moves(r, "accepted", to) BY DEF BeginRun
<1>2. /\ runs[r].stage = "accepted" /\ runs'[r].stage = to
      /\ \A q \in Runs \ {r} : runs'[q] = runs[q]
      /\ UNCHANGED <<pass, recovery>>
  BY <1>1, MovesStage DEF AllTypes, Stages, OpenStages, LiveStages
<1>3. recovery = "none" BY <1>2 DEF LiveInv, Settled
<1>4. r \in Open BY <1>2 DEF Open, OpenStages
<1>5. journal.row # NoRow BY <1>4 DEF LiveInv, NoRow, Runs
<1>6. Begin BY DEF BeginRun
<1>7. /\ journal'.row = journal.row /\ journal'.written
      /\ StandingRow' = IF journal.written THEN StandingRow ELSE journal.row
      /\ "row" \in missed' <=> "row" \in missed
  BY <1>5, <1>6, BegunRow DEF AllTypes
<1>8. JournalInv' BY <1>7 DEF LiveInv, JournalInv
<1>9. Open' \subseteq Open BY <1>1, <1>2 DEF Open, OpenStages, LiveStages
<1>10. \A q \in Runs : runs'[q].stage # "unrecorded" BY <1>1, <1>2 DEF LiveInv
<1>11. QED BY <1>2, <1>3, <1>7, <1>8, <1>9, <1>10 DEF LiveInv

\* A session files the open run's own row; an end clears a record only of the
\* run that ended, which is not open.
LEMMA LiveEnd ==
    ASSUME AllTypes, LiveInv, NEW r \in Runs, SessionMinted(r) \/ EndJournal(r)
    PROVE  LiveInv'
<1> USE DEF AllTypes
<1>1. CASE SessionMinted(r)
  <2> DEFINE row == [run |-> r, settled |-> FALSE, attempts |-> runs[r].attempts]
  <2>1. row \in Filings BY DEF Filings, RowType, RunsInv, RunShape
  <2>2. Journalled(row) /\ UNCHANGED <<runs, pass, recovery>> /\ runs[r].stage = "going"
    BY <1>1 DEF SessionMinted, runVars
  <2>3. /\ journal' = [row |-> row, written |-> journal.written]
        /\ journal.written => StandingRow' = row \/ "row" \in missed'
    BY <2>1, <2>2, FiledRow
  <2>4. JournalInv' BY <2>3 DEF JournalInv
  <2>5. r \in Open BY <2>2 DEF Open, OpenStages, LiveStages
  <2>6. \A q \in Open : q = r BY <2>5 DEF LiveInv
  <2>7. Open' = Open /\ Live' = Live BY <2>2 DEF Open, Live
  <2>8. recovery = "none" BY <2>2 DEF LiveInv, Settled
  <2>9. QED BY <2>2, <2>3, <2>4, <2>6, <2>7, <2>8 DEF LiveInv
<1>2. CASE EndJournal(r)
  <2>1. Moves(r, "recorded", "ended") BY <1>2 DEF EndJournal, Moves, LiveInv
  <2>2. /\ runs[r].stage = "recorded" /\ runs'[r].stage = "ended"
        /\ \A q \in Runs \ {r} : runs'[q] = runs[q]
        /\ UNCHANGED <<pass, recovery>>
    BY <2>1, MovesStage DEF Stages
  <2>3. recovery = "none" BY <2>2 DEF LiveInv, Settled
  <2>4. Open' = Open /\ Live' = Live /\ r \notin Open
    BY <2>2 DEF Open, Live, OpenStages, LiveStages
  <2>5. \A q \in Runs : runs'[q].stage # "unrecorded" BY <2>2 DEF LiveInv
  <2>6. CASE Unjournalled(r)
    <3>1. journal' = NoJournal /\ journal.row.run = r BY <2>6, ClearedRow
    <3>2. Open = {} BY <2>4, <3>1 DEF LiveInv
    <3>3. Live = {} BY <3>2 DEF Open, Live, OpenStages
    <3>4. JournalInv' BY <3>1 DEF JournalInv, NoJournal
    <3>5. QED BY <2>2, <2>3, <2>4, <2>5, <3>2, <3>3, <3>4 DEF LiveInv
  <2>7. CASE UNCHANGED vars
    <3>1. UNCHANGED journal /\ JournalInv'
      BY <2>7 DEF vars, bookVars, LiveInv, JournalInv, StandingRow
    <3>2. QED BY <2>2, <2>3, <2>4, <2>5, <3>1 DEF LiveInv
  <2>8. QED BY <1>2, <2>2, <2>6, <2>7 DEF EndJournal, Moves
<1>3. QED BY <1>1, <1>2

\* Recovery writes past a record that is not written; a boot starts with none.
LEMMA LiveRecovery ==
    ASSUME AllTypes, LiveInv, RecoveryStep \/ Reboot
    PROVE  LiveInv'
<1>1. CASE RecoveryStep
  <2>1. /\ recovery # "none" /\ UNCHANGED <<runs, pass, journal>>
    BY <1>1 DEF RecoveryStep, RecordLeft, ClearLeft, SpendLeft, RerunLeftRefused, Recovers,
       RowWritten, vars
  <2>2. ~journal.written /\ Open' = {} /\ Live' = {}
    BY <2>1 DEF LiveInv, Settled, Open, Live, OpenStages, LiveStages
  <2>3. JournalInv' BY <2>1, <2>2 DEF JournalInv
  <2>4. QED BY <2>1, <2>2, <2>3 DEF LiveInv
<1>2. CASE Reboot
  <2>1. journal' = NoJournal /\ pass' = "none" BY <1>2 DEF Reboot, Restart, Fresh
  <2>2. \A r \in Runs : runs'[r].stage \in Settled
    BY <1>2, RebootsRuns DEF AllTypes, Settled
  <2>3. Open' = {} /\ Live' = {} /\ \A r \in Runs : runs'[r].stage # "unrecorded"
    BY <2>2 DEF Open, Live, OpenStages, LiveStages, Settled
  <2>4. JournalInv' BY <2>1 DEF JournalInv, NoJournal
  <2>5. QED BY <2>1, <2>2, <2>3, <2>4 DEF LiveInv, NoJournal
<1>3. QED BY <1>1, <1>2

\* Every step keeps the record the newest run's.
LEMMA LiveNext ==
    ASSUME ~EarlyTurns, ~RecordsFail, AllTypes, LiveInv, [RunsNext]_allVars
    PROVE  LiveInv'
<1>1. CASE Mild
  <2>1. UNCHANGED journal /\ StandingRow' = StandingRow /\ ("row" \in missed' <=> "row" \in missed)
    BY <1>1, MildRows DEF Mild
  <2>2. JournalInv' BY <2>1 DEF LiveInv, JournalInv
  <2>3. \A q \in Runs :
           /\ runs[q].stage \in Settled => runs'[q].stage = runs[q].stage
           /\ runs'[q].stage \in LiveStages => runs[q].stage \in LiveStages
           /\ runs'[q].stage \in OpenStages => runs[q].stage \in OpenStages
           /\ runs'[q].stage # "unrecorded"
    BY <1>1, MildStages DEF Mild, AllTypes, Settled, LiveInv
  <2>4. Open' \subseteq Open /\ Live' \subseteq Live BY <2>3 DEF Open, Live
  <2>5. recovery' = recovery /\ (pass' # "none" => pass # "none" \/ recovery = "none")
    BY <1>1 DEF Mild
  <2>6. QED BY <2>1, <2>2, <2>3, <2>4, <2>5 DEF LiveInv
<1>2. ASSUME NEW r \in Runs, SendTurn(r) \/ Rerun(r) \/ RerunLeft(r) PROVE LiveInv'
  <2>1. CASE RerunLeft(r)
    <3>1. left.run \in Runs /\ left.attempts + 1 \in Nat
      BY <2>1 DEF RerunLeft, AllTypes, RunsInv, RowType
    <3>2. runs[left.run].origin \in Runs \cup {0} BY <3>1 DEF AllTypes, RunsInv, RunShape
    <3>3. QED BY <2>1, <3>1, <3>2, LiveAccept DEF RerunLeft
  <2>2. CASE SendTurn(r) \/ Rerun(r)
    <3>1. Accept(r, 0, r) /\ recovery' = "none"
      BY <2>2 DEF SendTurn, Rerun, LiveInv
    <3>2. QED BY <3>1, LiveAccept
  <2>3. QED BY <1>2, <2>1, <2>2
<1>3. CASE UNCHANGED allVars
  <2>1. JournalInv' BY <1>3 DEF allVars, vars, bookVars, LiveInv, JournalInv, StandingRow
  <2>2. QED BY <1>3, <2>1 DEF allVars, vars, runVars, LiveInv, Open, Live
<1>4. QED
  BY <1>1, <1>2, <1>3, LiveBegin, LiveEnd, LiveRecovery, StepRows DEF AllTypes

\* While a turn is in flight the row a crash would leave, on disk or owed with
\* the entry, is that turn's, saves failing or not: a boot carries on the newest
\* run and never one that was done (onJournalled). It takes a boot that recovers
\* before it lets turns start, and records that take what a turn drew.
THEOREM NewestRunStands == ~EarlyTurns /\ ~RecordsFail => (RunsSpec => []LiveRunOnDisk)
<1> SUFFICES ASSUME ~EarlyTurns, ~RecordsFail PROVE RunsSpec => []LiveRunOnDisk
  OBVIOUS
<1>1. RunsInit => AllTypes /\ LiveInv
  <2>1. RunsInit => LiveInv
    BY DEF RunsInit, Init, NoJournal, NoRun, LiveInv, JournalInv, Open, Live, OpenStages, LiveStages
  <2>2. QED BY <2>1, AllTypesInit
<1>2. AllTypes /\ LiveInv /\ [RunsNext]_allVars => (AllTypes /\ LiveInv)'
  BY AllTypesNext, LiveNext
<1>3. LiveInv => LiveRunOnDisk
  BY DEF LiveInv, LiveRunOnDisk, JournalInv, StandingRow, Open, Live, OpenStages
<1>4. QED BY <1>1, <1>2, <1>3, PTL DEF RunsSpec
-----------------------------------------------------------------------------
(* How often a turn runs. A turn is run again only by the boot that read   *)
(* its row, with one attempt more than that row names, so what has to stand*)
(* is that no row anywhere names fewer attempts than its turn has had.     *)

\* The runs of one turn, the first and those its restarts gave it.
Same(r, q) == runs[r].origin = runs[q].origin

\* The row names the attempts of its turn's last run, or more.
Counts(row) ==
    /\ runs[row.run].stage # "none"
    /\ \A r \in Runs : Same(r, row.run) => runs[r].attempts <= row.attempts

\* Every run of a turn is a further attempt of it.
AttemptsDiffer ==
    /\ \A r \in Runs :
          /\ runs[r].stage = "none" => runs[r].origin = 0
          /\ runs[r].stage # "none" => /\ runs[r].origin \in Runs
                                       /\ runs[runs[r].origin].stage # "none"
                                       /\ runs[r].attempts <= MAX_RESUME_ATTEMPTS
    /\ \A r, q \in Runs :
          runs[r].stage # "none" /\ Same(r, q) /\ runs[r].attempts = runs[q].attempts => r = q

\* Nothing stands for the turn recovery carries but the row it reads, and that
\* is spent before the turn is run.
RecoveryAlone ==
    recovery # "none" =>
       /\ Counts(left)
       /\ owed # NoRow => ~Same(owed.run, left.run)
       /\ journal.row # NoRow => ~Same(journal.row.run, left.run)
       /\ \A r \in Open : ~Same(r, left.run)
       /\ recovery \in {"spending", "starting"} => left.attempts < MAX_RESUME_ATTEMPTS
       /\ recovery = "starting" /\ disk.row # NoRow /\ Same(disk.row.run, left.run) =>
             left.attempts < disk.row.attempts

TriesInv ==
    /\ AttemptsDiffer
    /\ RecoveryAlone
    /\ disk.row # NoRow => Counts(disk.row)
    /\ owed # NoRow => Counts(owed)
    /\ journal.row # NoRow => Counts(journal.row)
    /\ \A r \in Open, q \in Runs : Same(r, q) => runs[q].attempts <= runs[r].attempts
    /\ \A r \in Runs : runs[r].stage # "unrecorded"

\* Rows that move among the places they stand, and a row of the run that is
\* open, leave the runs and recovery as they were.
LEMMA TriesKept ==
    ASSUME AllTypes, TriesInv, UNCHANGED <<left, recovery>>,
           \A q \in Runs : /\ runs'[q].attempts = runs[q].attempts
                           /\ runs'[q].origin = runs[q].origin
                           /\ runs'[q].stage = "none" <=> runs[q].stage = "none"
                           /\ runs'[q].stage \in OpenStages => runs[q].stage \in OpenStages
                           /\ runs'[q].stage # "unrecorded",
           NEW row, row # NoRow => /\ row.run \in Open
                                   /\ row.attempts = runs[row.run].attempts,
           owed' \in {owed, journal.row, row, NoRow},
           journal.row' \in {journal.row, row, NoRow},
           disk.row' \in {disk.row, owed, journal.row, row, NoRow}
    PROVE  TriesInv'
<1>1. Names(disk.row) /\ Names(owed) /\ Names(journal.row)
  BY DEF AllTypes, RowsNamed
<1>2. \A r, q \in Runs : Same(r, q)' <=> Same(r, q) BY DEF Same
<1>3. Open' \subseteq Open BY DEF Open
<1>4. ASSUME NEW other, other # NoRow, other.run \in Runs, Counts(other)
      PROVE  /\ runs'[other.run].stage # "none"
             /\ \A r \in Runs : Same(r, other.run)' => runs'[r].attempts <= other.attempts
  BY <1>2, <1>4 DEF Counts
<1>5. row # NoRow => row.run \in Runs /\ Counts(row)
  <2>1. SUFFICES ASSUME row # NoRow PROVE row.run \in Runs /\ Counts(row)
    OBVIOUS
  <2>2. row.run \in Runs /\ runs[row.run].stage # "none"
    BY <2>1 DEF Open, OpenStages, LiveStages
  <2>3. \A r \in Runs : Same(r, row.run) => runs[r].attempts <= row.attempts
    BY <2>1 DEF TriesInv, Same
  <2>4. QED BY <2>2, <2>3 DEF Counts
<1>6. ASSUME NEW other, other \in {disk.row, owed, journal.row, row, NoRow}
      PROVE  other # NoRow => /\ other.run \in Runs
                              /\ runs'[other.run].stage # "none"
                              /\ \A r \in Runs : Same(r, other.run)' => runs'[r].attempts <= other.attempts
  BY <1>1, <1>4, <1>5, <1>6 DEF TriesInv, Names
<1>7. /\ disk.row' # NoRow => Counts(disk.row)'
      /\ owed' # NoRow => Counts(owed)'
      /\ journal.row' # NoRow => Counts(journal.row)'
  BY <1>6 DEF Counts
<1>8. AttemptsDiffer'
  <2>1. ASSUME NEW r \in Runs
        PROVE  /\ runs'[r].stage = "none" => runs'[r].origin = 0
               /\ runs'[r].stage # "none" => /\ runs'[r].origin \in Runs
                                             /\ runs'[runs'[r].origin].stage # "none"
                                             /\ runs'[r].attempts <= MAX_RESUME_ATTEMPTS
    BY DEF TriesInv, AttemptsDiffer
  <2>2. ASSUME NEW r \in Runs, NEW q \in Runs, runs'[r].stage # "none", Same(r, q)',
               runs'[r].attempts = runs'[q].attempts
        PROVE  r = q
    BY <1>2, <2>2 DEF TriesInv, AttemptsDiffer
  <2>3. QED BY <2>1, <2>2 DEF AttemptsDiffer
<1>9. RecoveryAlone'
  <2>1. SUFFICES ASSUME recovery # "none" PROVE RecoveryAlone'
    BY DEF RecoveryAlone
  <2>2. left.run \in Runs BY <2>1 DEF AllTypes, RunsInv
  <2>3. RecoveryAlone BY DEF TriesInv
  <2>4. Counts(left)' BY <1>2, <2>1, <2>2, <2>3 DEF RecoveryAlone, Counts
  <2>5. \A r \in Open : r \in Runs /\ ~Same(r, left.run) BY <2>1, <2>3 DEF RecoveryAlone, Open
  <2>6. ASSUME NEW other \in {owed, journal.row, row}, other # NoRow
        PROVE  other.run \in Runs /\ ~Same(other.run, left.run)
    BY <1>1, <1>5, <2>1, <2>3, <2>5, <2>6 DEF RecoveryAlone, Names
  <2>7. /\ owed' # NoRow => ~Same(owed.run, left.run)'
        /\ journal.row' # NoRow => ~Same(journal.row.run, left.run)'
    BY <2>2, <2>6 DEF Same
  <2>8. \A r \in Open' : ~Same(r, left.run)' BY <1>2, <1>3, <2>2, <2>5
  <2>9. recovery = "starting" /\ disk.row' # NoRow /\ Same(disk.row.run, left.run)' =>
           left.attempts < disk'.row.attempts
    <3>1. SUFFICES ASSUME recovery = "starting", disk.row' # NoRow, Same(disk.row.run, left.run)'
                   PROVE  left.attempts < disk'.row.attempts
      OBVIOUS
    <3>2. disk'.row.run \in Runs BY <1>6, <3>1
    <3>3. Same(disk'.row.run, left.run) BY <2>2, <3>1, <3>2 DEF Same
    <3>4. disk.row' = disk.row BY <2>6, <3>1, <3>3
    <3>5. QED BY <2>1, <2>3, <3>1, <3>3, <3>4 DEF RecoveryAlone
  <2>10. recovery' \in {"spending", "starting"} => left'.attempts < MAX_RESUME_ATTEMPTS
    BY <2>3 DEF RecoveryAlone
  <2>11. QED BY <2>4, <2>7, <2>8, <2>9, <2>10 DEF RecoveryAlone, Same
<1>10. \A r \in Open', q \in Runs : Same(r, q)' => runs'[q].attempts <= runs'[r].attempts
  <2>1. \A r \in Open' : r \in Open /\ r \in Runs BY <1>3 DEF Open
  <2>2. QED BY <1>2, <2>1 DEF TriesInv
<1>11. QED BY <1>7, <1>8, <1>9, <1>10 DEF TriesInv

\* A claim is a turn's first run, or one attempt more than any it has had.
LEMMA TriesAccept ==
    ASSUME AllTypes, TriesInv, NEW r \in Runs, NEW attempts \in Nat, NEW origin \in Runs \cup {0},
           Accept(r, attempts, origin), UNCHANGED left,
           \/ attempts = 0 /\ origin = r /\ recovery' = recovery
           \/ /\ recovery = "starting" /\ recovery' = "none"
              /\ attempts = left.attempts + 1 /\ origin = runs[left.run].origin
    PROVE  TriesInv'
<1> USE DEF AllTypes
<1> DEFINE row == [run |-> r, settled |-> FALSE, attempts |-> attempts]
           Rows == {disk.row, owed, journal.row}
<1>1. row \in Filings /\ row # NoRow BY DEF Filings, RowType, NoRow, Runs
<1>2. /\ journal'.row = row
      /\ owed' \in {owed, row} /\ disk.row' \in {disk.row, row}
  BY <1>1, FiledRow DEF Accept
<1>3. /\ runs[r].stage = "none" /\ Open = {}
      /\ runs'[r].stage = "accepted" /\ runs'[r].attempts = attempts /\ runs'[r].origin = origin
      /\ \A q \in Runs \ {r} : runs'[q] = runs[q]
  BY AcceptsRun DEF Unused
<1>4. \A q \in Runs : runs[q] \in RunShape BY DEF RunsInv
<1>5. \A q \in Runs : /\ runs[q].origin # r
                      /\ runs[q].stage # "none" => runs[q].origin \in Runs \ {r}
  BY <1>3 DEF TriesInv, AttemptsDiffer, Runs
<1>6. /\ origin \in Runs /\ (origin = r \/ runs[origin].stage # "none")
      /\ attempts <= MAX_RESUME_ATTEMPTS
      /\ \A q \in Runs : runs[q].origin = origin => runs[q].attempts < attempts
      /\ \A other \in Rows : other # NoRow =>
            /\ other.run \in Runs /\ Counts(other)
            /\ runs[other.run].origin = origin => attempts <= other.attempts
  <2>1. \A other \in Rows : other # NoRow => /\ other.run \in Runs /\ Counts(other)
                                             /\ other.attempts \in Nat
    BY DEF TriesInv, RowsNamed, Names, RowType
  <2>2. CASE attempts = 0 /\ origin = r BY <1>5, <2>1, <2>2
  <2>3. CASE /\ recovery = "starting"
             /\ attempts = left.attempts + 1 /\ origin = runs[left.run].origin
    <3>1. left.run \in Runs /\ Counts(left) /\ left.attempts \in Nat
          /\ left.attempts < MAX_RESUME_ATTEMPTS
      BY <2>3 DEF TriesInv, RecoveryAlone, RunsInv, RowType
    <3>2. origin \in Runs /\ runs[origin].stage # "none"
      BY <2>3, <3>1 DEF Counts, TriesInv, AttemptsDiffer
    <3>3. \A q \in Runs : runs[q].origin = origin => runs[q].attempts < attempts
      BY <1>4, <2>3, <3>1 DEF Counts, Same, RunShape
    <3>4. ASSUME NEW other \in Rows, other # NoRow, runs[other.run].origin = origin
          PROVE  attempts <= other.attempts
      <4>1. other = disk.row \/ (other # disk.row /\ Same(other.run, left.run))
        BY <2>3, <3>4 DEF Same
      <4>2. other = disk.row /\ Same(disk.row.run, left.run)
        BY <2>3, <3>4, <4>1 DEF TriesInv, RecoveryAlone, Same
      <4>3. left.attempts < other.attempts
        BY <2>3, <3>4, <4>2 DEF TriesInv, RecoveryAlone
      <4>4. QED BY <2>1, <2>3, <3>1, <3>4, <4>3
    <3>5. QED BY <2>1, <2>3, <3>1, <3>2, <3>3, <3>4
  <2>4. QED BY <2>2, <2>3
<1>7. AttemptsDiffer'
  <2>1. ASSUME NEW q \in Runs
        PROVE  /\ runs'[q].stage = "none" => runs'[q].origin = 0
               /\ runs'[q].stage # "none" => /\ runs'[q].origin \in Runs
                                             /\ runs'[runs'[q].origin].stage # "none"
                                             /\ runs'[q].attempts <= MAX_RESUME_ATTEMPTS
    <3>1. CASE q = r BY <1>3, <1>6, <3>1
    <3>2. CASE q # r BY <1>3, <1>5, <3>2 DEF TriesInv, AttemptsDiffer
    <3>3. QED BY <3>1, <3>2
  <2>2. ASSUME NEW p \in Runs, NEW q \in Runs, runs'[p].stage # "none", Same(p, q)',
               runs'[p].attempts = runs'[q].attempts
        PROVE  p = q
    <3>1. CASE p = r \/ q = r BY <1>3, <1>4, <1>6, <2>2, <3>1 DEF Same, RunShape
    <3>2. CASE p # r /\ q # r BY <1>3, <2>2, <3>2 DEF Same, TriesInv, AttemptsDiffer
    <3>3. QED BY <3>1, <3>2
  <2>3. QED BY <2>1, <2>2 DEF AttemptsDiffer
<1>8. ASSUME NEW other \in Rows \cup {row}, other # NoRow
      PROVE  /\ runs'[other.run].stage # "none"
             /\ \A q \in Runs : Same(q, other.run)' => runs'[q].attempts <= other.attempts
  <2>1. CASE other = row
    <3>1. other.run = r /\ other.attempts = attempts BY <2>1
    <3>2. QED BY <1>3, <1>4, <1>6, <3>1 DEF Same, RunShape
  <2>2. CASE other \in Rows
    <3>1. /\ other.run \in Runs /\ Counts(other)
          /\ runs[other.run].origin = origin => attempts <= other.attempts
      BY <1>6, <1>8, <2>2
    <3>2. other.run # r BY <1>3, <3>1 DEF Counts
    <3>3. QED BY <1>3, <3>1, <3>2 DEF Counts, Same
  <2>3. QED BY <1>8, <2>1, <2>2
<1>9. /\ disk.row' # NoRow => Counts(disk.row)'
      /\ owed' # NoRow => Counts(owed)'
      /\ journal.row' # NoRow => Counts(journal.row)'
  BY <1>2, <1>8 DEF Counts
<1>10. Open' \subseteq {r} BY <1>3 DEF Open
<1>11. \A p \in Open', q \in Runs : Same(p, q)' => runs'[q].attempts <= runs'[p].attempts
  BY <1>3, <1>4, <1>6, <1>10 DEF Same, RunShape
<1>12. RecoveryAlone'
  <2>1. SUFFICES ASSUME recovery' # "none" PROVE RecoveryAlone'
    BY DEF RecoveryAlone
  <2>2. recovery' = recovery /\ origin = r /\ recovery # "none" BY <2>1
  <2>3. RecoveryAlone /\ left.run \in Runs /\ Counts(left) BY <2>2 DEF TriesInv, RecoveryAlone, RunsInv
  <2>4. left.run # r /\ runs[left.run].origin # r BY <1>3, <1>5, <2>3 DEF Counts
  <2>5. Counts(left)' BY <1>3, <2>2, <2>3, <2>4 DEF Counts, Same
  <2>6. \A q \in Runs : Same(q, left.run)' => q # r /\ Same(q, left.run)
    BY <1>3, <2>2, <2>3, <2>4 DEF Same
  <2>7. ASSUME NEW other \in Rows \cup {row}, other # NoRow
        PROVE  /\ other.run \in Runs
               /\ Same(other.run, left.run)' => other \in Rows /\ Same(other.run, left.run)
    BY <1>1, <1>6, <2>6, <2>7 DEF Filings
  <2>8. ASSUME NEW other \in {owed, row}, other # NoRow PROVE ~Same(other.run, left.run)'
    <3>1. SUFFICES ASSUME Same(other.run, left.run)' PROVE FALSE
      OBVIOUS
    <3>2. other = owed \/ other = row BY <2>8
    <3>3. QED BY <2>2, <2>3, <2>6, <2>7, <2>8, <3>1, <3>2 DEF RecoveryAlone
  <2>9. /\ owed' # NoRow => ~Same(owed.run, left.run)'
        /\ journal.row' # NoRow => ~Same(journal.row.run, left.run)'
    BY <1>2, <2>8 DEF Same
  <2>10. \A q \in Open' : ~Same(q, left.run)' BY <1>10, <2>6
  <2>11. recovery' = "starting" /\ disk.row' # NoRow /\ Same(disk.row.run, left.run)' =>
            left'.attempts < disk.row'.attempts
    <3>1. SUFFICES ASSUME recovery = "starting", disk.row' # NoRow, Same(disk.row.run, left.run)'
                   PROVE  left.attempts < disk.row'.attempts
      BY <2>2
    <3>2. PICK other \in {disk.row, row} : disk.row' = other BY <1>2
    <3>3. Same(other.run, left.run)' BY <3>1, <3>2 DEF Same
    <3>4. other.run # r BY <2>6, <2>7, <3>1, <3>2, <3>3
    <3>5. other = disk.row /\ Same(disk.row.run, left.run) BY <2>7, <3>1, <3>2, <3>3, <3>4
    <3>6. QED BY <2>3, <3>1, <3>2, <3>5 DEF RecoveryAlone
  <2>12. recovery' \in {"spending", "starting"} => left'.attempts < MAX_RESUME_ATTEMPTS
    BY <2>2, <2>3 DEF RecoveryAlone
  <2>13. QED BY <2>5, <2>9, <2>10, <2>11, <2>12 DEF RecoveryAlone, Same
<1>13. \A q \in Runs : runs'[q].stage # "unrecorded" BY <1>3 DEF TriesInv
<1>14. QED BY <1>7, <1>9, <1>11, <1>12, <1>13 DEF TriesInv

\* Recovery spends an attempt on disk before it runs the turn; a boot reads the
\* row that stands.
LEMMA TriesRecovery ==
    ASSUME ~RecordsFail, AllTypes, TriesInv, RecoveryStep \/ Reboot
    PROVE  TriesInv'
<1> USE DEF AllTypes
<1>1. ASSUME UNCHANGED <<runs, left, owed, journal>>, disk.row' # NoRow => Counts(disk.row)',
             recovery # "none", RecoveryAlone'
      PROVE  TriesInv'
  <2>1. AttemptsDiffer' BY <1>1 DEF TriesInv, AttemptsDiffer, Same
  <2>2. (owed' # NoRow => Counts(owed)') /\ (journal.row' # NoRow => Counts(journal.row)')
    BY <1>1 DEF TriesInv, Counts, Same
  <2>3. QED BY <1>1, <2>1, <2>2 DEF TriesInv, Open, Same
<1>2. ASSUME recovery # "none", UNCHANGED <<runs, left, owed, journal>>
      PROVE  /\ left.run \in Runs /\ Counts(left) /\ Counts(left)'
             /\ owed' # NoRow => ~Same(owed.run, left.run)'
             /\ journal.row' # NoRow => ~Same(journal.row.run, left.run)'
             /\ \A r \in Open' : ~Same(r, left.run)'
  BY <1>2 DEF TriesInv, RecoveryAlone, RunsInv, Counts, Same, Open
<1>3. CASE RecordLeft \/ RerunLeftRefused
  <2>1. /\ UNCHANGED <<runs, left, owed, journal>> /\ disk' = disk /\ recovery # "none"
        /\ recovery' # "starting"
        /\ recovery' = "spending" => left.attempts < MAX_RESUME_ATTEMPTS
    BY <1>3 DEF RecordLeft, RerunLeftRefused, Recovers, vars, bookVars
  <2>2. RecoveryAlone' BY <1>2, <2>1 DEF RecoveryAlone
  <2>3. disk.row' # NoRow => Counts(disk.row)' BY <2>1 DEF TriesInv, Counts, Same
  <2>4. QED BY <1>1, <2>1, <2>2, <2>3
<1>4. CASE ClearLeft
  <2>1. /\ UNCHANGED <<runs, left, owed, journal>> /\ disk.row' = NoRow
        /\ recovery # "none" /\ recovery' = "none"
    BY <1>4 DEF ClearLeft, Recovers, RowWritten, Types, Books
  <2>2. QED BY <1>1, <2>1 DEF RecoveryAlone
<1>5. CASE SpendLeft
  <2> DEFINE spent == [left EXCEPT !.attempts = @ + 1]
  <2>1. /\ UNCHANGED <<runs, left, owed, journal>> /\ disk.row' = spent
        /\ recovery = "spending" /\ recovery' = "starting"
    BY <1>5 DEF SpendLeft, Recovers, RowWritten, Types, Books
  <2>2. left.attempts \in Nat /\ spent.run = left.run /\ spent.attempts = left.attempts + 1
    BY DEF RunsInv, RowType
  <2>3. \A r \in Runs : runs[r].attempts \in Nat BY DEF RunsInv, RunShape
  <2>4. Counts(disk.row)' BY <1>2, <2>1, <2>2, <2>3 DEF Counts, Same
  <2>5. left.attempts < MAX_RESUME_ATTEMPTS BY <2>1 DEF TriesInv, RecoveryAlone
  <2>6. RecoveryAlone' BY <1>2, <2>1, <2>2, <2>5 DEF RecoveryAlone
  <2>7. QED BY <1>1, <2>1, <2>4, <2>6
<1>6. CASE Reboot
  <2>1. /\ journal'.row = NoRow /\ owed' = NoRow /\ disk' = disk /\ left' = disk.row
        /\ recovery' = IF disk.row = NoRow THEN "none" ELSE "read"
    BY <1>6 DEF Reboot, Restart, Fresh, NoJournal
  <2>2. \A r \in Runs :
           /\ runs'[r].stage = "none" <=> runs[r].stage = "none"
           /\ runs'[r].stage # "unrecorded" /\ runs'[r].stage \notin OpenStages
           /\ runs'[r].attempts = runs[r].attempts /\ runs'[r].origin = runs[r].origin
    BY <1>6, RebootsRuns DEF OpenStages, LiveStages
  <2>3. Open' = {} BY <2>2 DEF Open
  <2>4. \A r, q \in Runs : Same(r, q)' <=> Same(r, q) BY <2>2 DEF Same
  <2>5. disk.row # NoRow => disk.row.run \in Runs /\ Counts(disk.row) BY DEF RowsNamed, Names, TriesInv
  <2>6. AttemptsDiffer'
    <3>1. ASSUME NEW r \in Runs
          PROVE  /\ runs'[r].stage = "none" => runs'[r].origin = 0
                 /\ runs'[r].stage # "none" => /\ runs'[r].origin \in Runs
                                               /\ runs'[runs'[r].origin].stage # "none"
                                               /\ runs'[r].attempts <= MAX_RESUME_ATTEMPTS
      BY <2>2 DEF TriesInv, AttemptsDiffer
    <3>2. ASSUME NEW r \in Runs, NEW q \in Runs, runs'[r].stage # "none", Same(r, q)',
                 runs'[r].attempts = runs'[q].attempts
          PROVE  r = q
      BY <2>2, <2>4, <3>2 DEF TriesInv, AttemptsDiffer
    <3>3. QED BY <3>1, <3>2 DEF AttemptsDiffer
  <2>7. disk.row # NoRow => Counts(disk.row)' /\ Counts(left)'
    BY <2>1, <2>2, <2>5 DEF Counts, Same
  <2>8. RecoveryAlone' BY <2>1, <2>3, <2>7 DEF RecoveryAlone
  <2>9. QED BY <2>1, <2>2, <2>3, <2>6, <2>7, <2>8 DEF TriesInv
<1>7. QED BY <1>3, <1>4, <1>5, <1>6 DEF RecoveryStep

\* Every step keeps the attempts counted while records are taken.
LEMMA TriesNext ==
    ASSUME ~RecordsFail, AllTypes, TriesInv, [RunsNext]_allVars
    PROVE  TriesInv'
<1> USE DEF AllTypes
<1>0. NoRow # NoRow => NoRow.run \in Open /\ NoRow.attempts = runs[NoRow.run].attempts
  OBVIOUS
<1>1. CASE Mild
  <2>1. /\ UNCHANGED <<journal, left, recovery>>
        /\ owed' \in {owed, NoRow} /\ disk.row' \in {disk.row, owed}
    BY <1>1, MildRows DEF Mild
  <2>2. \A q \in Runs : /\ runs'[q].attempts = runs[q].attempts
                        /\ runs'[q].origin = runs[q].origin
                        /\ runs'[q].stage = "none" <=> runs[q].stage = "none"
                        /\ runs'[q].stage \in OpenStages => runs[q].stage \in OpenStages
                        /\ runs'[q].stage # "unrecorded"
    BY <1>1, MildStages DEF Mild, TriesInv
  <2>3. QED BY <1>0, <2>1, <2>2, TriesKept
<1>2. ASSUME NEW r \in Runs, SendTurn(r) \/ Rerun(r) \/ RerunLeft(r) PROVE TriesInv'
  <2>1. CASE RerunLeft(r)
    <3>1. left.run \in Runs /\ left.attempts + 1 \in Nat
      BY <2>1 DEF RerunLeft, RunsInv, RowType
    <3>2. runs[left.run].origin \in Runs \cup {0} BY <3>1 DEF RunsInv, RunShape
    <3>3. QED BY <2>1, <3>1, <3>2, TriesAccept DEF RerunLeft
  <2>2. QED BY <1>2, <2>1, TriesAccept DEF SendTurn, Rerun
<1>3. ASSUME NEW r \in Runs, NEW from, NEW to, Moves(r, from, to),
             to \in {"begun", "finished", "ended"}, from \notin {"none", "unrecorded"},
             to = "begun" => from \in OpenStages
      PROVE  /\ UNCHANGED <<left, recovery>>
             /\ \A q \in Runs : /\ runs'[q].attempts = runs[q].attempts
                                /\ runs'[q].origin = runs[q].origin
                                /\ runs'[q].stage = "none" <=> runs[q].stage = "none"
                                /\ runs'[q].stage \in OpenStages => runs[q].stage \in OpenStages
                                /\ runs'[q].stage # "unrecorded"
  <2>1. to \in Stages BY <1>3 DEF Stages, OpenStages, LiveStages
  <2>2. QED BY <1>3, <2>1, MovesStage DEF TriesInv, OpenStages, LiveStages
<1>4. ASSUME NEW r \in Runs, BeginRun(r) PROVE TriesInv'
  <2>1. /\ journal'.row = journal.row
        /\ owed' \in {owed, NoRow, journal.row} /\ disk.row' \in {disk.row, owed, journal.row}
    BY <1>4, BegunRow DEF BeginRun
  <2>2. QED BY <1>0, <1>3, <1>4, <2>1, TriesKept DEF BeginRun, OpenStages
<1>5. ASSUME NEW r \in Runs, SessionMinted(r) PROVE TriesInv'
  <2> DEFINE row == [run |-> r, settled |-> FALSE, attempts |-> runs[r].attempts]
  <2>1. row \in Filings BY DEF Filings, RowType, RunsInv, RunShape
  <2>2. /\ journal'.row = row
        /\ owed' \in {owed, row} /\ disk.row' \in {disk.row, row}
    BY <1>5, <2>1, FiledRow DEF SessionMinted
  <2>3. row.run \in Open /\ row.attempts = runs[row.run].attempts
    BY <1>5 DEF SessionMinted, Open, OpenStages, LiveStages
  <2>4. UNCHANGED <<runs, left, recovery>> BY <1>5 DEF SessionMinted, runVars
  <2>5. QED BY <2>2, <2>3, <2>4, TriesKept DEF TriesInv
<1>6. ASSUME NEW r \in Runs, EndJournal(r) PROVE TriesInv'
  <2>1. Moves(r, "recorded", "ended") /\ (Unjournalled(r) \/ UNCHANGED vars)
    BY <1>6 DEF EndJournal, Moves, TriesInv
  <2>2. /\ journal'.row \in {journal.row, NoRow}
        /\ owed' \in {owed, NoRow} /\ disk.row' \in {disk.row, NoRow}
    BY <2>1, ClearedRow DEF vars, bookVars, NoJournal
  <2>3. QED BY <1>0, <1>3, <2>1, <2>2, TriesKept
<1>7. CASE UNCHANGED allVars
  <2>1. UNCHANGED <<runs, left, recovery, journal, owed, disk>>
    BY <1>7 DEF allVars, vars, bookVars, runVars
  <2>2. QED BY <1>0, <2>1, TriesKept DEF TriesInv
<1>8. QED
  BY <1>1, <1>2, <1>4, <1>5, <1>6, <1>7, TriesRecovery, StepRows

\* Runs that each took a different one of the attempts allowed are no more than
\* those and one.
LEMMA AttemptsCounted ==
    ASSUME AllTypes, AttemptsDiffer, NEW o \in Runs
    PROVE  Cardinality({r \in Runs : runs[r].origin = o}) <= 1 + MAX_RESUME_ATTEMPTS
<1> DEFINE S == {r \in Runs : runs[r].origin = o}
           T == 0..MAX_RESUME_ATTEMPTS
           f == [r \in S |-> runs[r].attempts]
<1>1. MAX_RESUME_ATTEMPTS \in Nat OBVIOUS
<1>2. \A r \in S : /\ runs[r].stage # "none" /\ runs[r].attempts \in Nat
                   /\ runs[r].attempts <= MAX_RESUME_ATTEMPTS
  BY DEF AttemptsDiffer, AllTypes, RunsInv, RunShape, Runs
<1>3. f \in [S -> T] BY <1>1, <1>2
<1>4. \A r, q \in S : f[r] = f[q] => r = q BY <1>2 DEF AttemptsDiffer, Same
<1>5. f \in Injection(S, T) BY <1>3, <1>4 DEF Injection, IsInjective
<1>6. IsFiniteSet(T) /\ Cardinality(T) = MAX_RESUME_ATTEMPTS + 1
  <2>1. /\ IsFiniteSet(0..MAX_RESUME_ATTEMPTS)
        /\ Cardinality(0..MAX_RESUME_ATTEMPTS) =
              IF 0 > MAX_RESUME_ATTEMPTS THEN 0 ELSE MAX_RESUME_ATTEMPTS - 0 + 1
    BY <1>1, FS_Interval
  <2>2. QED BY <1>1, <2>1
<1>7. Cardinality(S) <= Cardinality(T) BY <1>5, <1>6, FS_Injection
<1>8. QED BY <1>1, <1>6, <1>7

\* A turn the daemon died under is run again at most MAX_RESUME_ATTEMPTS times,
\* however often the re-run takes the daemon down with it, whatever saves fail
\* and whether or not turns start while a boot still recovers the last
\* (recoverTurns, spendAttempt). It takes a boot whose own writes of the row
\* are made, since a row it can neither spend nor drop is read again as it was.
THEOREM RestartsCounted == ~RecordsFail => (RunsSpec => []RestartsBounded)
<1> SUFFICES ASSUME ~RecordsFail PROVE RunsSpec => []RestartsBounded
  OBVIOUS
<1>1. RunsInit => AllTypes /\ TriesInv
  <2>1. RunsInit => TriesInv
    BY DEF RunsInit, Init, NoJournal, NoRun, TriesInv, AttemptsDiffer, RecoveryAlone, Open,
       OpenStages, LiveStages
  <2>2. QED BY <2>1, AllTypesInit
<1>2. AllTypes /\ TriesInv /\ [RunsNext]_allVars => (AllTypes /\ TriesInv)'
  BY AllTypesNext, TriesNext
<1>3. AllTypes /\ TriesInv => RestartsBounded
  BY AttemptsCounted DEF TriesInv, RestartsBounded
<1>4. QED BY <1>1, <1>2, <1>3, PTL DEF RunsSpec

=============================================================================
