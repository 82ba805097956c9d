------------------------------ MODULE Admission ------------------------------
(***************************************************************************)
(* How every message reaches a conversation: said into the live turn,      *)
(* started as a turn of its own, or queued until one of those can happen,  *)
(* by one piece of work at a time (inTurn) with awaits inside it, beside   *)
(* the turns, stops, cards, archives, rewinds, re-runs, hand-backs and     *)
(* restarts those awaits let in (turn-admission.ts).                       *)
(*                                                                         *)
(* Abstracted: who serves a turn and what it says; a save lands with its   *)
(* event (Conversation checks the ones that fail), and an edit's or a      *)
(* removal's version is the one that stands (Conversation.ChangeOf), so    *)
(* queues are kept at revision 0. A turn's record, its journal row's clear *)
(* and its `run.settled` are one step (RunLog parts them).                 *)
(***************************************************************************)
EXTENDS TurnQueue, FiniteSets

CONSTANTS
    Messages,    \* what may be said, records of what the queue reads
    Later,       \* ids of those booked for a time of their own
    MaxRun,      \* bound: runs
    MaxBoots,    \* bound: restarts
    MaxPresses,  \* bound: presses beside sending
    Limits,      \* whether a turn may be stranded behind a spent allowance
    Promises,    \* whether a turn may end promising to carry on by itself
    GivesUp,     \* whether the resume pass may give such a promise up
    Rewinds,     \* whether files may be rewound between turns
    Archives,    \* whether the conversation may be archived
    EarlySends   \* whether a message may arrive while a boot still recovers the last

ASSUME AdmissionAssumption ==
    /\ MaxRun \in Nat /\ MaxBoots \in Nat /\ MaxPresses \in Nat
    /\ {Limits, Promises, GivesUp, Rewinds, Archives, EarlySends} \subseteq BOOLEAN

VARIABLES
    queue,      \* what waits, in memory and on disk
    runs,       \* the turns claimed, each with the words it carries
    parked,     \* a card of the live turn waits for its answer
    resuming,   \* the run whose recovery the daemon runs by itself, 0 when none
    rewinding,  \* a rewind restores files
    shut,       \* stranded behind an allowance whose window is shut
    archived,
    receipts,   \* ids this daemon can answer again, once it has read them
    op,         \* what the conversation's lock is in the middle of
    asked,      \* a drain waits for the lock
    row,        \* the journal's row, and the run told to it ahead of its begin
    recorded,   \* messages on the conversation's record
    named,      \* those of them whose row there carries their id
    left,       \* the cut run a boot recovers, 0 when none
    boots, presses, \* restarts and presses so far
    quiet,      \* ghost: what holds the words has let go with no drain behind it
    accepted,   \* ghost: messages answered as taken, and not dropped since
    takenBack,  \* ghost: messages a person took back
    forgotten,  \* ghost: messages a turn had, whose ids a restart lost
    heard       \* ghost: the turns that carried each message to the model

turnVars == <<runs, parked, resuming, rewinding, shut, archived>>
diskVars == <<row, recorded, named, left, boots, forgotten>>
ghosts == <<accepted, takenBack, heard>>
tally == <<presses, quiet>>
vars == <<queue, turnVars, receipts, op, asked, diskVars, tally, ghosts>>

Runs == 1..MaxRun
MessageIds == {m.id : m \in Messages}
Said(id) == CHOOSE m \in Messages : m.id = id

OpenStages == {"claimed", "begun", "talking", "closing"}
RunningStages == {"begun", "talking", "closing"}

NoRun == [stage |-> "none", batch |-> << >>, told |-> {}, keeps |-> FALSE, unrun |-> FALSE,
          stopping |-> FALSE, origin |-> 0]

FreeLock == [step |-> "free", from |-> "none", batch |-> << >>]

Ongoing == {r \in Runs : runs[r].stage \in OpenStages}
Running == {r \in Runs : runs[r].stage \in RunningStages}
Unused(r) == runs[r].stage = "none" /\ \A q \in Runs : q < r => runs[q].stage # "none"
NoRunLeft == \A r \in Runs : runs[r].stage # "none"

\* Queues are compared without their revisions.
Plain(q) == [q EXCEPT !.revision = 0,
                      !.items = [i \in DOMAIN @ |-> [@[i] EXCEPT !.revision = 0]]]

IdsOf(items) == [i \in DOMAIN items |-> items[i].id]
Named(batch) == {batch[i] : i \in DOMAIN batch}
IsPerson(id) == Said(id).voice = "person"

Init ==
    /\ queue = EmptyQueue
    /\ runs = [r \in Runs |-> NoRun] /\ parked = FALSE /\ resuming = 0
    /\ rewinding = FALSE /\ shut = FALSE /\ archived = FALSE
    /\ receipts = {} /\ op = FreeLock /\ asked = FALSE
    /\ row = [run |-> 0, staged |-> 0] /\ recorded = {} /\ named = {} /\ left = 0
    /\ boots = 0 /\ presses = 0 /\ quiet = FALSE
    /\ accepted = {} /\ takenBack = {} /\ forgotten = {} /\ heard = [id \in MessageIds |-> {}]

-----------------------------------------------------------------------------
(* What admission reads.                                                   *)

GoesFirst == resuming # 0 \/ rewinding

HeldBehindLimit(items) == shut /\ \A i \in DOMAIN items : items[i].voice # "person"

HeldQueue == WaitingOf(queue) = << >> \/ HoldOf(queue) # "none" \/ GoesFirst

TakesWords == ~parked /\ \E r \in Running : ~runs[r].stopping

\* Mutant of Remembered: only what this daemon answered itself.
RememberedSinceBoot == receipts

\* Words joined into one turn open it in one row, which carries the first's id.
Behind(r) == {runs[r].batch[i] : i \in DOMAIN runs[r].batch \ {1}}

\* The ids a run's rows carry: its opening row's, and those steered into it.
Names(r) == runs[r].told \ Behind(r)

\* The messages this daemon can answer again: kept since it started, or read
\* from the rows of the record and of the live run, and from the queue.
Remembered ==
    receipts \cup named \cup (UNION {Names(r) : r \in Ongoing}) \cup Ids(queue.items)

Kept(ids) == receipts' = Remembered \cup ids

-----------------------------------------------------------------------------
(* Admission's work, one piece at a time.                                  *)

LockFree == op.step = "free" /\ (EarlySends \/ left = 0)

Step(step, from, batch) == op' = [step |-> step, from |-> from, batch |-> batch]

Delivers == Step("deliver", "queue", << >>)

\* A person's message reopens an archived conversation at its door; anything
\* else said to one goes nowhere.
Opens(id) == (archived => IsPerson(id)) /\ archived' = FALSE

Joins(id) ==
    /\ queue' = Plain(Joined(queue, Said(id)))
    /\ accepted' = accepted \cup {id}
    /\ Delivers

\* Where a message goes with nothing ahead of it: into the live turn, to a turn
\* of its own, or to the queue.
DeliverNow(id) ==
    IF \/ GoesFirst
       \/ Ongoing # {} /\ ~TakesWords
       \/ Ongoing = {} /\ HeldBehindLimit(<<Said(id)>>)
    THEN Joins(id)
    ELSE /\ Step(IF Ongoing # {} THEN "steer" ELSE "start", "door", <<id>>)
         /\ UNCHANGED <<queue, accepted>>

\* A message already taken under its id is answered as the first time; nobody
\* sends again what they took back.
Say(id) ==
    /\ LockFree /\ id \notin Remembered \cup takenBack /\ id \notin Later
    /\ Opens(id)
    /\ IF WaitingOf(queue) = << >> /\ HoldOf(queue) = "none" THEN DeliverNow(id) ELSE Joins(id)
    /\ receipts' = Remembered
    /\ UNCHANGED <<runs, parked, resuming, rewinding, shut, asked, diskVars, tally, takenBack,
                   heard>>

\* A scheduled send, or a Continue for later, waits in the queue at its time.
Book(id) ==
    /\ LockFree /\ id \notin Remembered \cup takenBack /\ id \in Later
    /\ Opens(id)
    /\ queue' = Plain(Scheduled(queue, Said(id), [until |-> 1, after |-> NoConv]))
    /\ Kept({id})
    /\ accepted' = accepted \cup {id}
    /\ quiet' = (quiet \/ archived)
    /\ UNCHANGED <<runs, parked, resuming, rewinding, shut, op, asked, diskVars, presses,
                   takenBack, heard>>

\* Its time came: let go outside the lock, and drained.
BookedGo(id) ==
    /\ id \in Ids(queue.items) /\ left = 0
    /\ \E i \in DOMAIN queue.items : queue.items[i].id = id /\ IsBooked(queue.items[i])
    /\ queue' = Plain(Released(queue, {id}))
    /\ asked' = TRUE
    /\ UNCHANGED <<turnVars, receipts, op, diskVars, tally, ghosts>>

Press == presses < MaxPresses /\ presses' = presses + 1

\* A press lets the hold and the bookings go, and delivers.
Release ==
    /\ LockFree /\ queue.items # << >> /\ Press
    /\ queue' = Plain(Released(queue, Ids(queue.items)))
    /\ Delivers
    /\ UNCHANGED <<quiet, turnVars, receipts, asked, diskVars, ghosts>>

\* Mutant of Unqueue: asked without waiting for the lock.
UnqueueAtOnce(id) ==
    /\ id \in Ids(queue.items) /\ Press
    /\ queue' = Plain(Removed(queue, id, 0))
    /\ takenBack' = takenBack \cup {id}
    /\ UNCHANGED <<turnVars, receipts, op, asked, diskVars, quiet, accepted, heard>>

Unqueue(id) ==
    /\ LockFree /\ id \in Ids(queue.items) /\ Press
    /\ queue' = Plain(Removed(queue, id, 0))
    /\ takenBack' = takenBack \cup {id}
    /\ UNCHANGED <<turnVars, receipts, op, asked, diskVars, quiet, accepted, heard>>

\* Mutant of HandBack: words are handed back whether or not anybody heard them.
HandBackAll == {r \in Runs : runs[r].stage \in {"done", "ended"} /\ runs[r].keeps}

\* Mutant of HandBack: a refusal's words go nowhere.
HandBackNone == {}

\* The turns a person's words started, over with nothing run.
HandBack ==
    {r \in Runs : runs[r].stage \in {"done", "ended"} /\ runs[r].keeps /\ runs[r].unrun}

\* Every drain first hands back what a refusal at the door turned away, in the
\* order the turns were claimed, then delivers.
Drain ==
    /\ asked /\ op.step = "free"
    /\ asked' = FALSE
    /\ LET items(r) == [i \in DOMAIN runs[r].batch |-> Said(runs[r].batch[i])]
           after[r \in 0..MaxRun] ==
               IF r = 0 THEN queue
               ELSE IF r \in HandBack THEN Returned(after[r - 1], items(r))
               ELSE after[r - 1]
       IN  queue' = IF HandBack = {} THEN queue ELSE Plain(after[MaxRun])
    /\ runs' = [r \in Runs |->
                    IF runs[r].stage \in {"done", "ended"} THEN [runs[r] EXCEPT !.keeps = FALSE]
                    ELSE runs[r]]
    /\ Kept(UNION {Named(runs[r].batch) : r \in HandBack})
    /\ Delivers
    /\ UNCHANGED <<parked, resuming, rewinding, shut, archived, diskVars, tally, ghosts>>

\* The next of the queue out, or nothing that can go. A continuation reopens an
\* archived conversation, as a person's words do.
Deliver ==
    LET items == WaitingOf(queue)
        head == Head(items)
    IN  /\ op.step = "deliver"
        /\ op' = IF HeldQueue THEN FreeLock
                 ELSE IF head.continues
                 THEN [step |-> "start", from |-> "continuation", batch |-> <<head.id>>]
                 ELSE IF Ongoing # {}
                 THEN IF TakesWords THEN [step |-> "steer", from |-> "queue", batch |-> <<head.id>>]
                      ELSE FreeLock
                 ELSE IF HeldBehindLimit(items) THEN FreeLock
                 ELSE [step |-> "start", from |-> "queue", batch |-> IdsOf(Together(items))]
        /\ archived' = (archived /\ (HeldQueue \/ ~head.continues))
        /\ Kept({})
        /\ UNCHANGED <<queue, runs, parked, resuming, rewinding, shut, asked, diskVars, tally,
                       ghosts>>

\* Handed to the live turn, which takes words until its steering closes.
Steer ==
    LET id == op.batch[1]
        taker == {r \in Running : runs[r].stage # "closing"}
    IN  /\ op.step = "steer"
        /\ IF taker # {}
           THEN /\ runs' = [r \in Runs |-> IF r \in taker
                                           THEN [runs[r] EXCEPT !.told = @ \cup {id}] ELSE runs[r]]
                /\ heard' = [heard EXCEPT ![id] = @ \cup
                                {runs[r].origin : r \in {q \in taker : runs[q].stage = "talking"
                                                                       /\ ~runs[q].stopping}}]
                /\ queue' = IF op.from = "queue" THEN Plain(Taken(queue, {id})) ELSE queue
                /\ Kept({id})
                /\ accepted' = accepted \cup {id}
                /\ IF op.from = "queue" THEN Delivers ELSE op' = FreeLock
           ELSE /\ IF op.from = "door" THEN Joins(id)
                   ELSE op' = FreeLock /\ UNCHANGED <<queue, accepted>>
                /\ UNCHANGED <<runs, receipts, heard>>
        /\ UNCHANGED <<parked, resuming, rewinding, shut, archived, asked, diskVars, tally,
                       takenBack>>

\* A run claims the conversation. Its row is staged for its begin, or written at
\* once over a row still there.
Claim(r, batch, keeps, origin) ==
    /\ Unused(r) /\ Ongoing = {} /\ ~archived
    /\ runs' = [runs EXCEPT ![r] = [NoRun EXCEPT !.stage = "claimed", !.batch = batch,
                                    !.told = Named(batch), !.keeps = keeps, !.origin = origin]]
    /\ row' = IF row.run # 0 /\ runs[row.run].stage # "cut" THEN [row EXCEPT !.run = r]
              ELSE [row EXCEPT !.staged = r]

StartClaims(r) ==
    /\ op.step = "start"
    /\ Claim(r, op.batch, op.from # "continuation" /\ IsPerson(op.batch[1]), r)
    /\ IF op.from = "door" THEN op' = FreeLock /\ Kept(Named(op.batch))
       ELSE Step("take", "queue", op.batch) /\ UNCHANGED receipts
    /\ accepted' = accepted \cup Named(op.batch)
    /\ UNCHANGED <<queue, parked, resuming, rewinding, shut, archived, asked, recorded, named,
                   left, boots, forgotten, tally, takenBack, heard>>

\* Only then do they leave the queue.
Take ==
    /\ op.step = "take"
    /\ queue' = Plain(Taken(queue, Named(op.batch)))
    /\ Kept(Named(op.batch))
    /\ Delivers
    /\ UNCHANGED <<turnVars, asked, diskVars, tally, ghosts>>

\* A run came between: what was said joins the queue, what waits goes on waiting.
StartBusy ==
    /\ op.step = "start" /\ ~archived /\ Ongoing # {}
    /\ IF op.from = "door" THEN Joins(op.batch[1])
       ELSE op' = FreeLock /\ UNCHANGED <<queue, accepted>>
    /\ UNCHANGED <<turnVars, receipts, asked, diskVars, tally, takenBack, heard>>

\* Archived between: a person's waiting words reopen it once and are kept if it
\* stays so, the sandbox's are dropped; at the door the sender is told.
StartArchived ==
    /\ op.step = "start" /\ archived
    /\ \/ /\ op.from = "queue" /\ IsPerson(op.batch[1])
          /\ archived' = FALSE
          /\ op' = [op EXCEPT !.from = "again"]
          /\ UNCHANGED <<queue, accepted>>
       \/ /\ op.from \in {"again", "continuation", "door"}
          /\ op' = FreeLock
          /\ UNCHANGED <<queue, archived, accepted>>
       \/ /\ op.from = "queue" /\ ~IsPerson(op.batch[1])
          /\ queue' = Plain(Moved(queue, Without(queue.items, Named(op.batch)), HoldOf(queue)))
          /\ accepted' = accepted \ Named(op.batch)
          /\ Delivers
          /\ UNCHANGED archived
    /\ UNCHANGED <<runs, parked, resuming, rewinding, shut, receipts, asked, diskVars, tally,
                   takenBack, heard>>

-----------------------------------------------------------------------------
(* The turns, as admission meets them.                                     *)

\* A turn goes on the record, its words with the ids its rows carry.
Writes(r) == recorded' = recorded \cup runs[r].told /\ named' = named \cup Names(r)

Unwritten == UNCHANGED <<recorded, named>>

Turns(r, change) ==
    /\ runs' = [runs EXCEPT ![r] = change]
    /\ UNCHANGED <<rewinding, archived, receipts, op, left, boots, forgotten, quiet,
                   takenBack>>

\* Within a few microtasks of its claim its words have left the queue, well
\* before its begin, which waits on files. A rewind or an archive since refuses it.
BeginTurn(r) ==
    /\ runs[r].stage = "claimed" /\ op.step # "take"
    /\ IF archived \/ rewinding
       THEN Turns(r, [runs[r] EXCEPT !.stage = "done"]) /\ UNCHANGED <<resuming, row>>
       ELSE /\ Turns(r, [runs[r] EXCEPT !.stage = "begun"])
            /\ resuming' = 0 /\ row' = [run |-> r, staged |-> 0]
    /\ UNCHANGED <<queue, parked, shut, asked, accepted, heard, recorded, named, presses>>

\* Refused before the model saw a word: a sender that keeps its words has them
\* back, any other turn is held by the sandbox, words and all.
TurnedAway(r) ==
    /\ runs[r].stage \in {"claimed", "begun"} /\ op.step # "take"
    /\ runs[r].told = Named(runs[r].batch) /\ ~runs[r].stopping
    /\ Turns(r, [runs[r] EXCEPT !.stage = "done", !.unrun = runs[r].keeps])
    /\ parked' = FALSE
    /\ IF runs[r].keeps THEN Unwritten ELSE Writes(r)
    /\ UNCHANGED <<queue, resuming, shut, asked, row, accepted, heard, presses>>

\* The model has the words; continuations this turn makes moot are dropped.
Talk(r) ==
    /\ runs[r].stage = "begun" /\ ~runs[r].stopping
    /\ Turns(r, [runs[r] EXCEPT !.stage = "talking"])
    /\ queue' = IF Superseded(queue) = queue THEN queue ELSE Plain(Superseded(queue))
    /\ accepted' = accepted \ (Ids(queue.items) \ Ids(queue'.items))
    /\ heard' = [id \in MessageIds |-> IF id \in runs[r].told THEN heard[id] \cup {runs[r].origin}
                                       ELSE heard[id]]
    /\ shut' = FALSE
    /\ UNCHANGED <<parked, resuming, asked, row, recorded, named, presses>>

CardUp(r) ==
    /\ runs[r].stage = "talking" /\ ~parked /\ ~runs[r].stopping /\ Press
    /\ parked' = TRUE
    /\ Turns(r, runs[r]) /\ UNCHANGED <<queue, resuming, shut, asked, row, accepted, heard, recorded,
                   named>>

\* What waited behind the card goes into the turn it un-parked.
CardAnswered(r) ==
    /\ runs[r].stage = "talking" /\ parked
    /\ parked' = FALSE /\ asked' = TRUE
    /\ Turns(r, runs[r]) /\ UNCHANGED <<queue, resuming, shut, row, accepted, heard, recorded, named,
                   presses>>

StopTurn(r) ==
    /\ runs[r].stage \in RunningStages /\ ~runs[r].stopping /\ Press
    /\ Turns(r, [runs[r] EXCEPT !.stopping = TRUE])
    /\ parked' = FALSE
    /\ queue' = IF Held(queue, "stopped") = queue THEN queue ELSE Plain(Held(queue, "stopped"))
    /\ UNCHANGED <<resuming, shut, asked, row, accepted, heard, recorded, named>>

CloseTurn(r) ==
    /\ runs[r].stage = "talking" /\ ~parked
    /\ Turns(r, [runs[r] EXCEPT !.stage = "closing"])
    /\ UNCHANGED <<queue, parked, resuming, shut, asked, row, accepted, heard, recorded,
                   named, presses>>

\* Its end: clean, failed or stopped; one that talked may leave a promise to
\* carry on, or the conversation stranded behind its allowance.
SettleTurn(r) ==
    /\ runs[r].stage = "closing" \/ (runs[r].stage \in RunningStages /\ runs[r].stopping)
    /\ Turns(r, [runs[r] EXCEPT !.stage = "done"])
    /\ parked' = FALSE
    /\ \/ UNCHANGED <<resuming, shut>>
       \/ Promises /\ runs[r].stage = "closing" /\ resuming' = r /\ UNCHANGED shut
       \/ Limits /\ runs[r].stage = "closing" /\ shut' = TRUE /\ UNCHANGED resuming
    /\ UNCHANGED <<queue, asked, row, accepted, heard, recorded, named, presses>>

\* Mutant of EndTurn: nothing is asked to go behind it.
EndTurnQuiet(r) ==
    /\ runs[r].stage = "done"
    /\ runs' = [runs EXCEPT ![r].stage = "ended"]
    /\ IF runs[r].unrun THEN Unwritten ELSE Writes(r)
    /\ row' = [run |-> IF row.run = r THEN 0 ELSE row.run,
               staged |-> IF row.staged = r THEN 0 ELSE row.staged]
    /\ UNCHANGED <<queue, parked, resuming, rewinding, shut, archived, receipts, op, asked, left,
                   boots, forgotten, tally, ghosts>>

\* On the record unless nothing ran, off the journal, and what waited is drained.
EndTurn(r) ==
    /\ runs[r].stage = "done"
    /\ runs' = [runs EXCEPT ![r].stage = "ended"]
    /\ IF runs[r].unrun THEN Unwritten ELSE Writes(r)
    /\ row' = [run |-> IF row.run = r THEN 0 ELSE row.run,
               staged |-> IF row.staged = r THEN 0 ELSE row.staged]
    /\ asked' = TRUE
    /\ UNCHANGED <<queue, parked, resuming, rewinding, shut, archived, receipts, op, left, boots,
                   forgotten, tally, ghosts>>

\* The resume pass carries a promised turn on.
CarryOn(r) ==
    /\ resuming # 0
    /\ Claim(r, runs[resuming].batch, FALSE, runs[resuming].origin)
    /\ UNCHANGED <<queue, parked, resuming, rewinding, shut, archived, receipts, op, asked,
                   recorded, named, left, boots, forgotten, tally, ghosts>>

\* Past its deadline the promise goes, and nothing drains behind it.
GiveUp ==
    /\ GivesUp /\ resuming # 0 /\ Running = {}
    /\ resuming' = 0
    /\ quiet' = TRUE
    /\ UNCHANGED <<queue, runs, parked, rewinding, shut, archived, receipts, op, asked, diskVars,
                   presses, ghosts>>

\* The window reopens, and the pass, which starts once recovery is over, drains
\* what it held.
Reopens ==
    /\ shut /\ left = 0
    /\ shut' = FALSE
    /\ asked' = (asked \/ \E i \in DOMAIN queue.items : queue.items[i].voice # "person")
    /\ UNCHANGED <<queue, runs, parked, resuming, rewinding, archived, receipts, op, diskVars,
                   tally, ghosts>>

RewindLeased ==
    /\ Rewinds /\ Running = {} /\ ~rewinding /\ Press
    /\ rewinding' = TRUE
    /\ UNCHANGED <<queue, runs, parked, resuming, shut, archived, receipts, op, asked, diskVars,
                   quiet, ghosts>>

RewindReleased ==
    /\ rewinding /\ rewinding' = FALSE
    /\ quiet' = TRUE
    /\ UNCHANGED <<queue, runs, parked, resuming, shut, archived, receipts, op, asked, diskVars,
                   presses, ghosts>>

Archive ==
    /\ Archives /\ ~archived /\ Running = {} /\ Press
    /\ archived' = TRUE
    /\ UNCHANGED <<queue, runs, parked, resuming, rewinding, shut, receipts, op, asked, diskVars,
                   quiet, ghosts>>

\* Opened again by a press, which drains nothing either.
Unarchive ==
    /\ archived /\ archived' = FALSE
    /\ quiet' = TRUE
    /\ UNCHANGED <<queue, runs, parked, resuming, rewinding, shut, receipts, op, asked, diskVars,
                   presses, ghosts>>

-----------------------------------------------------------------------------
(* The daemon dies, and the next one boots.                                *)

\* Words on no disk (a run's not begun yet, those a refusal has yet to hand
\* back) or in two places (in the queue, and in the row of a turn claimed over
\* another's, or of one refused whose row is not cleared yet).
BetweenWrites ==
    \/ op.step = "take"
    \/ \E r \in Runs : /\ runs[r].stage \in {"claimed", "done"} /\ row.run # r
                       /\ ~(runs[r].told \subseteq recorded)
    \/ \E r \in Runs : runs[r].unrun /\ (runs[r].stage = "done" \/ runs[r].keeps)

\* The boot drains every queue that holds something, once the cut turn is seen to.
Reboot ==
    /\ boots < MaxBoots /\ boots' = boots + 1
    /\ ~BetweenWrites
    /\ runs' = [r \in Runs |-> IF runs[r].stage \in {"none", "ended"}
                               THEN [runs[r] EXCEPT !.keeps = FALSE]
                               ELSE [runs[r] EXCEPT !.stage = "cut", !.keeps = FALSE]]
    /\ parked' = FALSE /\ resuming' = 0 /\ rewinding' = FALSE
    /\ receipts' = {} /\ op' = FreeLock
    /\ row' = [row EXCEPT !.staged = 0]
    /\ left' = row.run
    /\ forgotten' = forgotten \cup ((UNION {Behind(r) : r \in {q \in Runs : ~runs[q].unrun}}) \ named)
    /\ asked' = (row.run = 0 /\ queue.items # << >>)
    /\ UNCHANGED <<queue, shut, archived, recorded, named, tally, ghosts>>

Recovered ==
    /\ left # 0 /\ left' = 0
    /\ Writes(left)
    /\ asked' = (queue.items # << >>)
    /\ UNCHANGED <<queue, parked, resuming, rewinding, shut, archived, receipts, op, boots,
                   forgotten, tally, ghosts>>

\* What a cut turn drew is recorded, and the turn left there or run again.
RecoverRecords ==
    /\ Recovered
    /\ row' = [row EXCEPT !.run = 0]
    /\ UNCHANGED runs

RecoverReruns(r) == Recovered /\ Claim(r, runs[left].batch, FALSE, runs[left].origin)

-----------------------------------------------------------------------------

Sender ==
    \/ \E id \in MessageIds : Say(id) \/ Book(id) \/ BookedGo(id) \/ Unqueue(id)
    \/ Release

\* The lock's own work, taken to its end by the daemon.
LockStep == Drain \/ Deliver \/ Steer \/ Take \/ StartBusy \/ StartArchived
              \/ \E r \in Runs : StartClaims(r)

TurnStep(r) == BeginTurn(r) \/ TurnedAway(r) \/ Talk(r) \/ CloseTurn(r) \/ SettleTurn(r)
                 \/ EndTurn(r)

People == Archive \/ Unarchive \/ RewindLeased \/ \E r \in Runs : CardUp(r) \/ CardAnswered(r) \/ StopTurn(r)

Passes == \/ GiveUp \/ Reopens \/ RewindReleased \/ RecoverRecords
          \/ \E r \in Runs : CarryOn(r) \/ RecoverReruns(r)

Next == Sender \/ LockStep \/ People \/ Passes \/ Reboot \/ \E r \in Runs : TurnStep(r)

Spec == Init /\ [][Next]_vars

\* The daemon's own work goes on while there is any: the lock's, every turn's to
\* its end once a person's cards are answered, and the passes'. Nothing makes a
\* person act.
Fairness == WF_vars(LockStep \/ Passes \/ \E r \in Runs : TurnStep(r))

FairSpec == Spec /\ Fairness

-----------------------------------------------------------------------------
(* Properties.                                                             *)

TypeOK ==
    /\ Ids(queue.items) \subseteq MessageIds
    /\ \A r \in Runs : runs[r].stage \in OpenStages \cup {"none", "done", "ended", "cut"}
    /\ resuming \in 0..MaxRun /\ left \in 0..MaxRun
    /\ row.run \in 0..MaxRun /\ row.staged \in 0..MaxRun
    /\ op.step \in {"free", "start", "steer", "take", "deliver"}
    /\ {receipts, recorded, named, accepted, takenBack, forgotten} \subseteq SUBSET MessageIds

\* Sent again after a lost answer, queued, handed back, let go, steered or cut by
\* a restart, a message is carried to the model by one turn and its re-runs, as
\* long as no restart lost its id.
DeliveredOnce == \A id \in MessageIds \ forgotten : Cardinality(heard[id]) <= 1

\* The same of every message there is (message-receipts.ts: "met with its first
\* answer instead of a second delivery").
NeverTwice == \A id \in MessageIds : Cardinality(heard[id]) <= 1

\* A message taken is somewhere: waiting, with a turn under way or one to be
\* handed back, in the journal's row, on the record, or taken back.
NoneLost ==
    \A id \in accepted :
        \/ id \in Ids(queue.items) \cup takenBack \cup recorded
        \/ \E r \in Ongoing \cup HandBack \cup ({left} \ {0}) : id \in runs[r].told
        \/ \E r \in Runs : runs[r].stage = "done" /\ id \in runs[r].told
        \/ op.step \in {"start", "steer"} /\ id \in Named(op.batch)

\* Words wait or go, never both: what a turn carries has left the queue by the
\* time the turn can begin, and only words whose ids are lost are ever there again.
WaitsOrGoes ==
    \A r \in Ongoing :
        op.step # "take" => runs[r].told \cap Ids(queue.items) \subseteq forgotten

\* No message is lost between the queue, the turns, their hand-backs, the record
\* and a restart, nor left in two of them.
WordsKept == NoneLost /\ WaitsOrGoes

\* What a person took back is never said, unless it went before and its id is lost.
TakenBackUnsaid == [][\A id \in takenBack \ forgotten : heard'[id] = heard[id]]_vars

\* Where each message is, as its sender sees it: words still being taken from
\* the queue are the turn's, and what a cut turn carried is until it is recovered.
Carried(id) ==
    \E r \in Runs :
        /\ id \in runs[r].told
        /\ \/ runs[r].stage \in OpenStages \/ r = left \/ r \in HandBack
           \/ runs[r].stage = "done" /\ ~runs[r].unrun

At == [id \in MessageIds |->
         IF id \in forgotten THEN "forgotten"
         ELSE IF id \in Ids(queue.items) /\ ~(op.step = "take" /\ id \in Named(op.batch)) THEN "waiting"
         ELSE IF heard[id] # {} \/ id \in recorded THEN "over"
         ELSE IF Carried(id) THEN "carried"
         ELSE IF id \in takenBack THEN "back" ELSE "unsaid"]

Promise == INSTANCE MessageDelivery WITH Sent <- MessageIds, at <- At

\* Admission, with every turn, press and restart beside it, does what a
\* conversation promises its senders.
KeepsPromise == Promise!Spec

\* Words waiting with nothing to wait for: no hold, no turn, recovery, rewind or
\* shut window, in a conversation that is not archived (MaxRun not used up).
Left ==
    /\ WaitingOf(queue) # << >> /\ HoldOf(queue) = "none"
    /\ Ongoing = {} /\ ~GoesFirst /\ ~HeldBehindLimit(WaitingOf(queue)) /\ ~archived
    /\ ~NoRunLeft

\* What waits goes once nothing holds it, as long as no hold was let go where
\* nothing drains: every turn's end, hand-back, answered card, reopened window,
\* due booking and boot lets it out.
WaitingGoes == []<>(~Left \/ quiet)

\* The same of every hold there is (turn-admission.ts: "otherwise queued on the
\* conversation's actor until one of those can happen").
NothingLeftWaiting == []<>~Left

=============================================================================
