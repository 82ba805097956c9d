------------------------------- MODULE Delivery -------------------------------
(***************************************************************************)
(* Work landed in a project goes on to the owner's folder on their own     *)
(* computer (conversations/land/project-delivery.ts).  A land announces    *)
(* itself and becomes an attempt in the project's line; an attempt finds   *)
(* where the folder is, takes over what this conversation still has        *)
(* waiting, and is sent, settled with a verdict, or queued on disk until   *)
(* the computer connects.                                                  *)
(*                                                                         *)
(* One project.  Lands of one conversation are numbered from 1; an owed    *)
(* delivery covers those after `from` up to `tip`.  Every land writes the  *)
(* one file the model follows, and `stamp` names the land whose bytes a    *)
(* copy holds, lands of all conversations counted together.  The files on  *)
(* disk are queue, folderKnown, cards and the sandbox's copy; the line, the *)
(* attempt and everything it holds go with the process.                    *)
(*                                                                         *)
(* Left out: the other projects, whose lines are their own; a write of the *)
(* books that fails; which machine of several holds the folder.            *)
(***************************************************************************)
EXTENDS Naturals, Sequences, FiniteSets, SequencesExt

CONSTANTS
    Convs,          \* conversations landing into the project
    None,
    MaxLands,       \* bound: lands of all conversations
    MaxMoves,       \* bound: times the computer or its folder changes
    MaxCrashes      \* bound: restarts of the daemon

ASSUME DeliveryAssumption == {MaxLands, MaxMoves, MaxCrashes} \subseteq Nat

VARIABLES
    landed,         \* [Convs -> Nat], the newest land's number
    stamps,         \* [Convs -> Nat], whose bytes that land wrote
    copy,           \* the sandbox's copy: the land it holds, merged or not
    line,           \* the project's attempts not yet begun, in order
    at,             \* the attempt under way
    queue,          \* disk: what is owed to a computer that is away
    folderKnown,    \* disk: a computer was last said to hold the folder
    computer,       \* [online, attached]: what is true of the computer
    cards,          \* [Convs -> verdict], the last delivery on the record
    sent,           \* history: [Convs -> sequence of what the folder was sent]
    told,           \* history: [Convs -> set of lands], sent or given a verdict
    lost,           \* history: [Convs -> set of lands] in memory at a crash
    moves, crashes

vars == <<landed, stamps, copy, line, at, queue, folderKnown, computer, cards, sent, told, lost,
          moves, crashes>>

Span(owed) == (owed.from + 1) .. owed.tip
Idle == [step |-> "idle"]
Verdicts == {"delivered", "waiting", "failed"}
Queued(c) == {i \in DOMAIN queue : queue[i].conv = c}
Waiting(c) == queue[CHOOSE i \in Queued(c) : TRUE]

\* A conversation has one land waiting at most, so the filter drops that one.
WithoutLand(c) == IF Queued(c) = {} THEN queue ELSE RemoveAt(queue, CHOOSE i \in Queued(c) : TRUE)

Checking ==
    \/ \E i \in DOMAIN line : line[i].origin = "retry"
    \/ at.step # "idle" /\ at.origin = "retry"

Init ==
    /\ landed = [c \in Convs |-> 0] /\ stamps = [c \in Convs |-> 0]
    /\ copy = [land |-> 0, merged |-> FALSE]
    /\ line = <<>> /\ at = Idle /\ queue = <<>>
    /\ folderKnown \in BOOLEAN
    /\ computer = [online |-> TRUE, attached |-> TRUE]
    /\ cards = [c \in Convs |-> "none"]
    /\ sent = [c \in Convs |-> <<>>]
    /\ told = [c \in Convs |-> {}] /\ lost = [c \in Convs |-> {}]
    /\ moves = 0 /\ crashes = 0

Books == <<queue, folderKnown>>
World == <<landed, stamps, computer, moves, crashes>>
Histories == <<sent, told, lost>>
-----------------------------------------------------------------------------
\* Every land there was, and the number of the next of them all.
Lands == UNION {{<<c, k>> : k \in 1 .. landed[c]} : c \in Convs}
Stamp == 1 + Cardinality(Lands)

\* A land clears the delivery an earlier one left on the record and announces
\* itself: one attempt in the project's line, from where it began to the tip
\* the record holds now.
Land(c) ==
    /\ Stamp <= MaxLands
    /\ landed' = [landed EXCEPT ![c] = @ + 1]
    /\ stamps' = [stamps EXCEPT ![c] = Stamp]
    /\ copy' = [land |-> Stamp, merged |-> FALSE]
    /\ line' = Append(line, [conv |-> c, from |-> landed[c], tip |-> landed[c] + 1,
                             stamp |-> Stamp, origin |-> "land"])
    /\ cards' = [cards EXCEPT ![c] = "none"]
    /\ UNCHANGED <<at, computer, moves, crashes>> /\ UNCHANGED Books /\ UNCHANGED Histories

\* A machine arrived, or the retry interval passed: every waiting land again,
\* in the order they were queued, unless a round of retries is still under way.
Check ==
    /\ queue # <<>> /\ ~Checking
    /\ line' = line \o [i \in DOMAIN queue |-> [conv |-> queue[i].conv, from |-> queue[i].from,
                                                tip |-> queue[i].tip, stamp |-> queue[i].stamp,
                                                origin |-> "retry"]]
    /\ UNCHANGED <<copy, at, cards>> /\ UNCHANGED World /\ UNCHANGED Books /\ UNCHANGED Histories

\* One attempt at a time in a project; a retry a later land has carried already
\* is over at once.
Begin ==
    /\ at = Idle /\ line # <<>>
    /\ line' = Tail(line)
    /\ LET job == Head(line)
       IN  at' = IF job.origin = "retry" /\ Queued(job.conv) = {} THEN Idle
                 ELSE [conv |-> job.conv, from |-> job.from, tip |-> job.tip, stamp |-> job.stamp,
                       origin |-> job.origin, step |-> "locate", where |-> "none",
                       carried |-> FALSE, verdict |-> "none"]
    /\ UNCHANGED <<copy, cards>> /\ UNCHANGED World /\ UNCHANGED Books /\ UNCHANGED Histories

\* Where the folder is: a computer that lists it and answers, one that holds it
\* and is away (remembered from before, or not read just now), or none.
Locate ==
    /\ at.step = "locate"
    /\ \E read \in BOOLEAN :
        /\ read => computer.online
        /\ LET where == CASE read /\ computer.attached -> "ready"
                          [] read /\ ~computer.attached -> "none"
                          [] ~read -> IF folderKnown THEN "waiting" ELSE "none"
           IN  at' = [at EXCEPT !.where = where, !.step = "take"]
        /\ folderKnown' = IF read THEN computer.attached ELSE folderKnown
    /\ UNCHANGED <<copy, line, queue, cards>> /\ UNCHANGED World /\ UNCHANGED Histories

\* Mutant: a land covers only itself.
OwedAlone ==
    IF at.origin = "retry"
    THEN [at EXCEPT !.from = Waiting(at.conv).from, !.tip = Waiting(at.conv).tip,
                    !.stamp = Waiting(at.conv).stamp, !.carried = TRUE]
    ELSE [at EXCEPT !.carried = Queued(at.conv) # {}]

\* What is owed: a fresh land takes this conversation's waiting one out of the
\* queue and starts from where that one did; a retry is the entry as it stands.
Owed ==
    LET c == at.conv
    IN  IF at.origin = "retry"
        THEN [at EXCEPT !.from = Waiting(c).from, !.tip = Waiting(c).tip, !.stamp = Waiting(c).stamp,
                        !.carried = TRUE]
        ELSE IF Queued(c) = {} THEN at
        ELSE [at EXCEPT !.from = Waiting(c).from, !.carried = TRUE]

Over(owed) == told' = [told EXCEPT ![owed.conv] = @ \cup Span(owed)]

\* Mutant: what waits for a folder since detached goes on waiting.
TakeSilent ==
    /\ at.step = "take"
    /\ queue' = IF at.origin = "land" THEN WithoutLand(at.conv) ELSE queue
    /\ IF Owed.where # "none" THEN at' = [Owed EXCEPT !.step = "build"] /\ UNCHANGED told
       ELSE at' = Idle /\ (IF at.origin = "land" THEN Over(Owed) ELSE UNCHANGED told)
    /\ UNCHANGED <<copy, line, folderKnown, cards, sent, lost>> /\ UNCHANGED World

\* A folder attached nowhere: said of what had been waiting, and nothing of a
\* fresh land.  A retry whose entry is gone is over.
Take ==
    /\ at.step = "take"
    /\ queue' = IF at.origin = "land" THEN WithoutLand(at.conv) ELSE queue
    /\ IF at.origin = "retry" /\ Queued(at.conv) = {}
       THEN at' = Idle /\ UNCHANGED told
       ELSE IF Owed.where # "none" THEN at' = [Owed EXCEPT !.step = "build"] /\ UNCHANGED told
       ELSE IF Owed.carried
       THEN at' = [Owed EXCEPT !.step = "dequeue", !.verdict = "failed"] /\ UNCHANGED told
       ELSE at' = Idle /\ Over(Owed)
    /\ UNCHANGED <<copy, line, folderKnown, cards, sent, lost>> /\ UNCHANGED World

\* What the land changed, read off git: unreadable or too large settles it;
\* nothing to carry only takes it out, and paths kept here need no machine.
\* What waits was not found empty when it was queued.
Build ==
    /\ at.step = "build"
    /\ \/ at' = [at EXCEPT !.step = "dequeue", !.verdict = "failed"]
       \/ /\ at.origin = "land"
          /\ at' \in {[at EXCEPT !.step = "dequeue", !.verdict = v] : v \in {"none", "delivered"}}
       \/ at' = CASE at.where = "ready" -> [at EXCEPT !.step = "send"]
                  [] at.where = "waiting" /\ at.origin = "land" -> [at EXCEPT !.step = "enqueue"]
                  [] at.where = "waiting" /\ at.origin = "retry" -> Idle
    /\ UNCHANGED <<copy, line, cards>> /\ UNCHANGED World /\ UNCHANGED Books /\ UNCHANGED Histories

\* The machine answers with what it applied or merged; a refusal, a lost answer
\* or a timeout is a verdict too, and what it had applied stays applied.
Send ==
    /\ at.step = "send"
    /\ \/ /\ computer.online
          /\ sent' = [sent EXCEPT ![at.conv] = Append(@, [from |-> at.from, tip |-> at.tip])]
          /\ at' \in {[at EXCEPT !.step = "dequeue", !.verdict = v] : v \in {"delivered", "merged", "failed"}}
       \/ /\ at' = [at EXCEPT !.step = "dequeue", !.verdict = "failed"]
          /\ UNCHANGED sent
    /\ UNCHANGED <<copy, line, cards, told, lost>> /\ UNCHANGED World /\ UNCHANGED Books

\* Mutant: the card is told, and the entry stays.
DequeueKeeps ==
    /\ at.step = "dequeue"
    /\ IF at.verdict = "none"
       THEN at' = Idle /\ Over(at)
       ELSE /\ at' = [at EXCEPT !.step = IF at.verdict = "merged" THEN "merge" ELSE "record"]
            /\ UNCHANGED told
    /\ UNCHANGED <<copy, line, cards, sent, lost>> /\ UNCHANGED World /\ UNCHANGED Books

\* Out of the queue before the card is told; nothing at all changed: no card.
Dequeue ==
    /\ at.step = "dequeue"
    /\ queue' = WithoutLand(at.conv)
    /\ IF at.verdict = "none"
       THEN at' = Idle /\ Over(at)
       ELSE /\ at' = [at EXCEPT !.step = IF at.verdict = "merged" THEN "merge" ELSE "record"]
            /\ UNCHANGED told
    /\ UNCHANGED <<copy, line, folderKnown, cards, sent, lost>> /\ UNCHANGED World

\* Mutant: the merge is written over whatever stands here.
HoldsAlways == TRUE

\* What the machine merged is written here as well, unless this copy no longer
\* holds what the land sent: a later land's bytes are not undone.
Holds == copy.land = at.stamp
Merge ==
    /\ at.step = "merge"
    /\ copy' = IF Holds THEN [land |-> at.stamp, merged |-> TRUE] ELSE copy
    /\ at' = [at EXCEPT !.step = "record", !.verdict = "delivered"]
    /\ UNCHANGED <<line, cards>> /\ UNCHANGED World /\ UNCHANGED Books /\ UNCHANGED Histories

Enqueue ==
    /\ at.step = "enqueue"
    /\ queue' = Append(WithoutLand(at.conv), [conv |-> at.conv, from |-> at.from, tip |-> at.tip,
                                              stamp |-> at.stamp])
    /\ at' = [at EXCEPT !.step = "record", !.verdict = "waiting"]
    /\ UNCHANGED <<copy, line, folderKnown, cards>> /\ UNCHANGED World /\ UNCHANGED Histories

\* The card of the conversation, its last word whole.
Record ==
    /\ at.step = "record"
    /\ cards' = [cards EXCEPT ![at.conv] = at.verdict]
    /\ IF at.verdict = "waiting" THEN UNCHANGED told ELSE Over(at)
    /\ at' = Idle
    /\ UNCHANGED <<copy, line, sent, lost>> /\ UNCHANGED World /\ UNCHANGED Books
-----------------------------------------------------------------------------
\* The computer sleeps and wakes; its owner detaches the folder and attaches it.
Away ==
    /\ moves < MaxMoves /\ moves' = moves + 1
    /\ \/ computer.online /\ computer' = [computer EXCEPT !.online = FALSE]
       \/ computer' = [computer EXCEPT !.attached = ~@]
    /\ UNCHANGED <<landed, stamps, copy, line, at, cards, crashes>> /\ UNCHANGED Books /\ UNCHANGED Histories

Arrive ==
    /\ ~computer.online
    /\ computer' = [computer EXCEPT !.online = TRUE]
    /\ UNCHANGED <<landed, stamps, copy, line, at, cards, moves, crashes>>
    /\ UNCHANGED Books /\ UNCHANGED Histories

\* The daemon dies: the line and the attempt with it.
Held == line \o (IF at = Idle THEN <<>> ELSE <<at>>)
InHand(c) == UNION {Span(Held[i]) : i \in {j \in DOMAIN Held : Held[j].conv = c}}
Crash ==
    /\ crashes < MaxCrashes /\ crashes' = crashes + 1
    /\ lost' = [c \in Convs |-> lost[c] \cup
                    (InHand(c) \ told[c])]
    /\ line' = <<>> /\ at' = Idle
    /\ UNCHANGED <<landed, stamps, copy, computer, cards, sent, told, moves>> /\ UNCHANGED Books

Attempt == Begin \/ Locate \/ Take \/ Build \/ Send \/ Dequeue \/ Merge \/ Enqueue \/ Record

Next ==
    \/ \E c \in Convs : Land(c)
    \/ Check
    \/ Attempt
    \/ Away \/ Arrive
    \/ Crash

Spec == Init /\ [][Next]_vars

\* The daemon goes on with an attempt; the retry timer fires (every minute, and
\* every five whether or not a machine arrived); a computer is awake again one
\* day, and one that is awake can be asked for its folders.
Fairness ==
    /\ WF_vars(Attempt) /\ WF_vars(Check) /\ WF_vars(Arrive)
    /\ SF_vars(Locate /\ at'.where # "waiting")
FairSpec == Spec /\ Fairness
-----------------------------------------------------------------------------
\* What delivery promises.

TypeOK ==
    /\ copy.land \in 0 .. MaxLands
    /\ \A i \in DOMAIN queue : queue[i].from < queue[i].tip /\ queue[i].tip <= landed[queue[i].conv]
    /\ \A c \in Convs : Cardinality(Queued(c)) <= 1
    /\ cards \in [Convs -> Verdicts \cup {"none"}]
    /\ at.step \in {"idle", "locate", "take", "build", "send", "dequeue", "merge", "enqueue", "record"}

\* Every land is accounted for: sent or given its verdict, owed on the disk, in
\* the line or under way, or in memory when the daemon died.  A later land
\* carries an earlier one that never went, so no land waits behind another.
OnDisk(c) == UNION {Span(queue[i]) : i \in Queued(c)}
LandsAccounted ==
    \A c \in Convs : 1 .. landed[c] \subseteq told[c] \cup OnDisk(c) \cup InHand(c) \cup lost[c]

\* The folder is sent no land twice: a retry, and a later land that carries an
\* earlier one, may both hold it.  Only a crash between the machine's answer and
\* the queue's write can send one again.
SentOnce ==
    \A c \in Convs : \A k \in 1 .. landed[c] :
        Cardinality({i \in DOMAIN sent[c] : k \in Span(sent[c][i])}) <= 1 + crashes

\* Landed work is never undone here by what the owner's machine merged: the
\* sandbox's copy holds the newest land, as it was or merged.
NewestLandStands == copy.land = Stamp - 1

\* What schemas/project-delivery.ts says of a card: one that says waiting is
\* delivered when the computer next connects, so something owes it.
WaitingIsOwed ==
    \A c \in Convs : cards[c] = "waiting" => Queued(c) # {} \/ (at # Idle /\ at.conv = c)

\* What waits goes, or is said not to: nothing stays in the queue for good once
\* its computer is back.
QueuedGoes == \A c \in Convs : (Queued(c) # {}) ~> (Queued(c) = {})
=============================================================================
