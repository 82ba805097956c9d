------------------------------ MODULE TurnQueue ------------------------------
(***************************************************************************)
(* What waits to be said to a conversation: the pure functions of          *)
(* conversation-queue.ts. A message is a record of what the queue reads of *)
(* it; the rest of the request it will start is data nothing here looks    *)
(* at. A booking is an instant (until > 0) or another conversation whose   *)
(* work it waits for; a message with neither goes as soon as it can.       *)
(* The account a reopen was booked for (reopenOf) rides its booking.       *)
(***************************************************************************)
EXTENDS Naturals, Sequences, FiniteSetsExt

CONSTANTS
    NoConv,           \* the `after` of a message waiting on no other conversation
    ATTACHMENT_LIMIT  \* files one turn may carry

ASSUME AttachmentLimitAssumption == ATTACHMENT_LIMIT \in Nat

NoBooking == [until |-> 0, after |-> NoConv]

Holds == {"stopped", "refused"}

EmptyQueue == [items |-> << >>, revision |-> 0, paused |-> "none", soonest |-> NoBooking]

Ids(items) == {items[i].id : i \in DOMAIN items}

IsBooked(item) == item.booking # NoBooking

\* The items at the positions kept, in order: a filter, in a form that can be
\* reasoned about.
Only(items, kept) ==
    LET upTo[n \in 0..Len(items)] ==
            IF n = 0 THEN << >>
            ELSE IF n \in kept THEN Append(upTo[n - 1], items[n]) ELSE upTo[n - 1]
    IN  upTo[Len(items)]

\* Those not named by ids.
Without(items, ids) == Only(items, {i \in DOMAIN items : items[i].id \notin ids})

\* What goes as soon as the conversation is free and nothing holds it.
WaitingOf(queue) ==
    Only(queue.items, {i \in DOMAIN queue.items : ~IsBooked(queue.items[i])})

AnyWaits(items) == \E i \in DOMAIN items : ~IsBooked(items[i])

\* A `scheduled` pause is the shadow of the soonest booking, never a hold.
HoldOf(queue) == IF queue.paused \in Holds THEN queue.paused ELSE "none"

\* The earliest instant, or with none the first message waiting on a land.
SoonestOf(items) ==
    LET booked == {i \in DOMAIN items : IsBooked(items[i])}
        timed == {i \in booked : items[i].booking.until > 0}
    IN  IF timed # {}
        THEN [until |-> Min({items[i].booking.until : i \in timed}), after |-> NoConv]
        ELSE IF booked # {} THEN items[Min(booked)].booking ELSE NoBooking

\* Mutant of Moved: a hold outlives what it holds.
MovedHolding(queue, items, hold) ==
    [items |-> items, revision |-> queue.revision + 1,
     paused |-> IF hold # "none" THEN hold
                ELSE IF SoonestOf(items) # NoBooking THEN "scheduled" ELSE "none",
     soonest |-> IF hold = "none" THEN SoonestOf(items) ELSE NoBooking]

\* The next queue: the revision moves, and the queue-level fields are derived
\* from what it now holds; a hold stands only while it has something to hold.
Moved(queue, items, hold) ==
    LET holding == IF AnyWaits(items) THEN hold ELSE "none"
        soonest == IF holding = "none" THEN SoonestOf(items) ELSE NoBooking
    IN  [items |-> items,
         revision |-> queue.revision + 1,
         paused |-> IF holding # "none" THEN holding
                    ELSE IF soonest # NoBooking THEN "scheduled" ELSE "none",
         soonest |-> soonest]

\* A message as it joins: unbooked, or booked, stamped with the next revision.
Entered(queue, message, booking) ==
    [id |-> message.id, voice |-> message.voice, actor |-> message.actor,
     continues |-> message.continues, files |-> message.files, text |-> message.text,
     serves |-> message.serves, booking |-> booking, revision |-> queue.revision + 1]

\* Mutant of Joined: anything said lets a hold go.
JoinedFreely(queue, message) ==
    IF message.id \in Ids(queue.items) THEN queue
    ELSE Moved(queue, Append(queue.items, Entered(queue, message, NoBooking)), "none")

\* A person sending again lets a Stop's or a refusal's hold go.
Joined(queue, message) ==
    IF message.id \in Ids(queue.items) THEN queue
    ELSE Moved(queue, Append(queue.items, Entered(queue, message, NoBooking)),
               IF message.voice = "person" THEN "none" ELSE HoldOf(queue))

Scheduled(queue, message, booking) ==
    IF message.id \in Ids(queue.items) THEN queue
    ELSE Moved(queue, Append(queue.items, Entered(queue, message, booking)), HoldOf(queue))

\* Mutant of Rescheduled: what is re-timed goes to the back.
RescheduledLast(queue, booking, ids) ==
    LET stays == Without(queue.items, ids)
        moves == Only(queue.items, {i \in DOMAIN queue.items : queue.items[i].id \in ids})
    IN  IF queue.items = << >> THEN queue
        ELSE Moved(queue,
                   stays \o [i \in DOMAIN moves |-> [moves[i] EXCEPT !.booking = booking]],
                   HoldOf(queue))

Rescheduled(queue, booking, ids) ==
    IF queue.items = << >> THEN queue
    ELSE Moved(queue,
               [i \in DOMAIN queue.items |->
                    IF queue.items[i].id \in ids
                    THEN [queue.items[i] EXCEPT !.booking = booking]
                    ELSE queue.items[i]],
               HoldOf(queue))

\* Mutant of Superseded: whatever the sandbox queued goes, its reports with it.
SupersededAll(queue) ==
    Moved(queue,
          Only(queue.items, {i \in DOMAIN queue.items :
                               queue.items[i].voice = "person" /\ ~queue.items[i].continues}),
          HoldOf(queue))

\* Continuations a turn starting now makes moot are dropped; words stay.
Superseded(queue) ==
    LET stays == {i \in DOMAIN queue.items : ~queue.items[i].continues}
    IN  IF stays # DOMAIN queue.items
        THEN Moved(queue, Only(queue.items, stays), HoldOf(queue))
        ELSE queue

Taken(queue, ids) ==
    Moved(queue, Without(queue.items, ids), HoldOf(queue))

\* What a refusal handed back goes to the head, held until somebody says go.
Returned(queue, messages) ==
    LET back == Without(messages, Ids(queue.items))
    IN  Moved(queue,
              [i \in DOMAIN back |-> Entered(queue, back[i], NoBooking)] \o queue.items,
              "refused")

\* Holds what is unbooked; a booked message is the person's own appointment.
Held(queue, reason) ==
    IF ~AnyWaits(queue.items) \/ HoldOf(queue) = reason THEN queue
    ELSE Moved(queue, queue.items, reason)

\* The bookings named are let go, and the hold with them.
Released(queue, ids) ==
    LET freed(item) == item.id \in ids /\ IsBooked(item)
    IN  IF HoldOf(queue) = "none" /\ ~\E i \in DOMAIN queue.items : freed(queue.items[i])
        THEN queue
        ELSE Moved(queue,
                   [i \in DOMAIN queue.items |->
                        IF freed(queue.items[i])
                        THEN [queue.items[i] EXCEPT !.booking = NoBooking]
                        ELSE queue.items[i]],
                   "none")

\* Each person's waiting message named is pointed at who the press names.
Rerouted(queue, serves, ids) ==
    LET moving(item) == item.voice = "person" /\ item.id \in ids /\ item.serves # serves
    IN  IF ~\E i \in DOMAIN queue.items : moving(queue.items[i]) THEN queue
        ELSE Moved(queue,
                   [i \in DOMAIN queue.items |->
                        IF moving(queue.items[i])
                        THEN [queue.items[i] EXCEPT !.serves = serves,
                                                    !.revision = queue.revision + 1]
                        ELSE queue.items[i]],
                   HoldOf(queue))

\* What an edit or a removal finds: the message as it was read, another
\* version of it, or nothing.
ChangeOf(queue, id, revision) ==
    IF id \notin Ids(queue.items) THEN "missing"
    ELSE IF \E i \in DOMAIN queue.items :
                queue.items[i].id = id /\ queue.items[i].revision = revision
         THEN "done" ELSE "stale"

Removed(queue, id, revision) ==
    IF ChangeOf(queue, id, revision) # "done" THEN queue
    ELSE Moved(queue, Without(queue.items, {id}), HoldOf(queue))

Edited(queue, id, revision, text) ==
    IF ChangeOf(queue, id, revision) # "done" THEN queue
    ELSE Moved(queue,
               [i \in DOMAIN queue.items |->
                    IF queue.items[i].id = id
                    THEN [queue.items[i] EXCEPT !.text = text, !.revision = queue.revision + 1]
                    ELSE queue.items[i]],
               HoldOf(queue))

\* What goes out as one turn: one person's words in a row, up to the files a
\* turn may carry, the first always; anything else alone.
Together(items) ==
    LET rides(n) ==
            \A i \in 1..n :
                /\ items[i].voice = "person"
                /\ ~items[i].continues
                /\ items[i].actor = items[1].actor
        files[n \in 0..Len(items)] == IF n = 0 THEN 0 ELSE files[n - 1] + items[n].files
        fits(n) == \A i \in 2..n : files[i] <= ATTACHMENT_LIMIT
    IN  IF Len(items) <= 1 THEN items
        ELSE SubSeq(items, 1, Max({1} \cup {n \in 1..Len(items) : rides(n) /\ fits(n)}))

=============================================================================
