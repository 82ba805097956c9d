---------------------------- MODULE MCConversation ----------------------------
(***************************************************************************)
(* A small instance of Conversation: the messages and bookings it takes,   *)
(* and the parts of its state that may be in use at once. A queue, the     *)
(* leases and cards, and the holds and rows saves may fail on are each     *)
(* taken through every turn, purge and restart, one of them at a time.     *)
(***************************************************************************)
EXTENDS Conversation, TLC

CONSTANTS Ana, Bob   \* two people, Ana also the other conversation a booking may wait for

Message(id, voice, actor, continues, serves) ==
    [id |-> id, voice |-> voice, actor |-> actor, continues |-> continues,
     files |-> 1, text |-> 0, serves |-> serves]

\* A person's words, a report of a child, and a "carry on".
ThreeVoices ==
    {Message(1, "person", Ana, FALSE, 1), Message(2, "report", Bob, FALSE, 1),
     Message(3, "person", Ana, TRUE, 1)}

\* One plan is like another: they are only compared.
PlanSymmetry == Permutations(Plans)

OneInstant == {[until |-> 1, after |-> NoConv]}

NoQueue == {queue, entry.queue, disk.entry.queue} = {EmptyQueue}

NoRows == journal = NoJournal /\ owed = NoRow /\ disk.row = NoRow

NoLeases == parked = {} /\ landHeld = 0 /\ phase # "rewinding" /\ ~authFiring

\* Nothing held, no row, no save that failed, no turn that did.
Untroubled ==
    /\ held = NoHold /\ entry.hold = NoStored /\ disk.entry.hold = NoStored
    /\ NoRows
    /\ ~dirty /\ missed = {} /\ failure = "none" /\ ~resuming /\ stopTries = 0

\* The actor, the entry and the disk are about one held turn, or none.
OneHold ==
    Cardinality({<<h.run, h.plan>> : h \in {held, entry.hold, disk.entry.hold}} \ {<<0, 0>>}) <= 1

\* Two held turns at once only while there is no row.
OnePart ==
    \/ NoQueue /\ NoLeases /\ (NoRows \/ OneHold)
    \/ Untroubled /\ (NoQueue \/ NoLeases)

PartNext ==
    \/ TurnEvents /\ OnePart'
    \/ HoldEvents /\ OnePart'
    \/ ProcessEvents /\ OnePart'
    \/ NoQueue /\ Untroubled /\ LeaseEvents
    \/ NoQueue /\ NoLeases /\ OneHold /\ JournalEvents /\ OnePart'
    \/ NoLeases /\ Untroubled /\ QueueEvents /\ OnePart'

PartSpec == Init /\ [][PartNext]_vars

=============================================================================
