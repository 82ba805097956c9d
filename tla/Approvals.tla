------------------------------ MODULE Approvals ------------------------------
(***************************************************************************)
(* The queue of things that wait for the owner's yes (approvals/).         *)
(*                                                                         *)
(* One file per item, which the agent, the owner's routes, the executor    *)
(* and the turn that carries an item out all write whole; a ledger off the *)
(* workspace with the owner's yes to an item, pinned to what it said; and  *)
(* the daemon's executor, one timer over the soonest approved item, which  *)
(* on time runs a pass: list, judge against the ledger, spend, act.        *)
(*                                                                         *)
(* Abstracted: what an item says is one of Words, its digest the words;    *)
(* the kinds are what the executor tells apart - carried out by the daemon *)
(* itself (a direct post, a performer's act) or by a turn, which may find  *)
(* nobody to wear it (a persona that is not there when the pass looks).  A *)
(* turn is the set of items it has still to settle.  Time is a counter up  *)
(* to MaxNow.                                                              *)
(***************************************************************************)
EXTENDS Integers, Sequences

CONSTANTS
    Items,        \* ids of items in the queue
    Words,        \* what an item may say
    Direct,       \* items the daemon carries out itself, the rest by a turn
    Arms,         \* calls of arm that may be under way at once (bound)
    Hold,         \* the countdown an undated approval is given
    Stale,        \* how long an item may be running before it is given up
    MaxNow,       \* bound on the clock
    MaxYes,       \* bound on the owner's approvals
    MaxUpsets     \* bound on the owner's reverts and rejections, the agent's
                  \* writes, a pass's failed writes and the daemon's deaths

ASSUME ApprovalsAssumption ==
    /\ Direct \subseteq Items
    /\ Words # {} /\ Arms # {}
    /\ {Hold, Stale, MaxNow, MaxYes, MaxUpsets} \subseteq Nat

VARIABLES
    file,     \* the item's file, as whoever wrote it last left it
    pins,     \* the ledger: the yes an item has, and the words it covers
    timer,    \* the instant the executor's timer is set for, Off if none
    orphans,  \* instants of timers another call of arm set and lost hold of
    pass,     \* the pass under way
    arm,      \* the calls of arm under way
    owner,    \* the owner's request under way
    briefs,   \* items a live turn has still to settle
    now,      \* the clock
    given,    \* what each yes the owner gave covered, in order (history)
    acts,     \* what was carried out under each yes (history)
    revoked,  \* yeses taken back before they were spent (history)
    asked,    \* items whose approval the owner was told of, untouched since
    upsets    \* how many of MaxUpsets have been

vars == <<file, pins, timer, orphans, pass, arm, owner, briefs, now, given,
          acts, revoked, asked, upsets>>

Off == -1
Statuses == {"none", "proposed", "approved", "running", "done", "failed"}
Files == [status : Statuses, words : Words, at : 0..MaxNow]
Pins == [yes : 0..MaxYes, words : Words]   \* yes 0: no pin

AnyWords == CHOOSE w \in Words : TRUE
NoFile == [status |-> "none", words |-> AnyWords, at |-> 0]
NoPin == [yes |-> 0, words |-> AnyWords]

\* A file as it is rewritten with another status: at is when an approved item
\* is due, when a running one was started, and nothing to the others.
As(was, status, at) == [status |-> status, words |-> was.words, at |-> at]
Failed(was) == As(was, "failed", 0)

IsDue(it) == it.status = "approved" /\ it.at <= now
IsStale(it) == it.status = "running" /\ now - it.at > Stale

\* The soonest approved item's due time, what is overdue counting as now.
NextDueAt(files) ==
    LET due == {IF files[i].at < now THEN now ELSE files[i].at :
                  i \in {j \in Items : files[j].status = "approved"}}
    IN  IF due = {} THEN Off ELSE CHOOSE t \in due : \A u \in due : t <= u

Steps == {"idle", "judge", "refuse", "act", "send", "settle"}
NoYes == [i \in Items |-> 0]
NoFiles == [i \in Items |-> NoFile]
Idle == [step |-> "idle", files |-> NoFiles, todo |-> {}, refused |-> {},
         marked |-> {}, yes |-> NoYes]
Quiet == [step |-> "off", files |-> NoFiles, stale |-> {}, at |-> Off]
Nothing == [op |-> "none"]

\* What an item says at first is any of Words: they are told apart by changing.
Init ==
    /\ file = [i \in Items |-> [status |-> "proposed", words |-> AnyWords, at |-> 0]]
    /\ pins = [i \in Items |-> NoPin]
    /\ timer = Off /\ orphans = {}
    /\ pass = Idle
    /\ arm = [a \in Arms |-> Quiet]
    /\ owner = Nothing
    /\ briefs = {} /\ now = 0
    /\ given = <<>> /\ acts = [y \in 1..MaxYes |-> <<>>]
    /\ revoked = {} /\ asked = {}
    /\ upsets = 0

-----------------------------------------------------------------------------
(* The owner's routes: the ledger first, the file after an await, then arm. *)

\* upsert of an approved item: the yes is pinned to the words in the request.
Pin(i, w, at) ==
    /\ owner = Nothing /\ Len(given) < MaxYes
    /\ given' = Append(given, [item |-> i, words |-> w])
    /\ pins' = [pins EXCEPT ![i] = [yes |-> Len(given) + 1, words |-> w]]
    /\ revoked' = revoked \cup ({pins[i].yes} \ {0})
    /\ owner' = [op |-> "approve", item |-> i,
                 it |-> [status |-> "approved", words |-> w, at |-> at]]
    /\ UNCHANGED <<file, timer, orphans, pass, arm, briefs, now, acts, asked, upsets>>

\* An undated item is given the countdown; a date already there stands.
Approve(i, w) == Pin(i, w, 0) \/ (now + Hold <= MaxNow /\ Pin(i, w, now + Hold))

\* A change of the code: the yes of an item put back or rejected is kept.
ForgetFileOnly(i, status) ==
    /\ owner = Nothing /\ upsets < MaxUpsets
    /\ file[i].status # "none"
    /\ revoked' = revoked \cup ({pins[i].yes} \ {0})
    /\ owner' = [op |-> "forget", item |-> i,
                 it |-> IF status = "none" THEN NoFile ELSE As(file[i], status, 0)]
    /\ upsets' = upsets + 1
    /\ UNCHANGED <<file, pins, timer, orphans, pass, arm, briefs, now, given, acts, asked>>

\* upsert of anything but an approval, or remove: the yes is dropped first.
Forget(i, status) ==
    /\ owner = Nothing /\ upsets < MaxUpsets
    /\ file[i].status # "none"
    /\ pins' = [pins EXCEPT ![i] = NoPin]
    /\ revoked' = revoked \cup ({pins[i].yes} \ {0})
    /\ owner' = [op |-> "forget", item |-> i, it |-> IF status = "none" THEN NoFile ELSE As(file[i], status, 0)]
    /\ upsets' = upsets + 1
    /\ UNCHANGED <<file, timer, orphans, pass, arm, briefs, now, given, acts, asked>>

\* arm called: the timer it holds is cleared at once, the queue read later.
Arming(a) ==
    /\ arm[a].step = "off"
    /\ arm' = [arm EXCEPT ![a].step = "list"]
    /\ timer' = Off

OwnerWrites(a) ==
    /\ owner.op # "none"
    /\ file' = [file EXCEPT ![owner.item] = owner.it]
    /\ asked' = IF owner.op = "approve" THEN asked \cup {owner.item}
                                        ELSE asked \ {owner.item}
    /\ owner' = Nothing
    /\ Arming(a)
    /\ UNCHANGED <<pins, orphans, pass, briefs, now, given, acts, revoked, upsets>>

\* The agent writes the file as it likes, approved included; nothing re-arms.
AgentWrites(i, it) ==
    /\ upsets < MaxUpsets
    /\ file' = [file EXCEPT ![i] = it]
    /\ upsets' = upsets + 1
    /\ asked' = asked \ {i}
    /\ UNCHANGED <<pins, timer, orphans, pass, arm, owner, briefs, now, given,
                   acts, revoked>>

-----------------------------------------------------------------------------
(* arm: what has been running too long is put back to failed, from the list *)
(* it read, and the timer is set for the soonest item of that list.         *)

Due == {i \in Items : IsDue(file[i])}
Overrun == {i \in Items : IsStale(file[i])}

\* A list as it is read, of the files that will be used.
Kept(S) == [i \in Items |-> IF i \in S THEN file[i] ELSE NoFile]

ArmLists(a) ==
    /\ arm[a].step = "list"
    /\ arm' = [arm EXCEPT ![a] =
                 [step |-> "fail", files |-> Kept(Overrun), stale |-> Overrun,
                  at |-> NextDueAt(file)]]
    /\ UNCHANGED <<file, pins, timer, orphans, pass, owner, briefs, now, given,
                   acts, revoked, asked, upsets>>

ArmFails(a, i) ==
    /\ arm[a].step = "fail" /\ i \in arm[a].stale
    /\ file' = [file EXCEPT ![i] = Failed(arm[a].files[i])]
    /\ arm' = [arm EXCEPT ![a].stale = @ \ {i}]
    /\ asked' = asked \ {i}
    /\ UNCHANGED <<pins, timer, orphans, pass, owner, briefs, now, given, acts,
                   revoked, upsets>>

\* The handle of a timer another call set in the meantime is overwritten: that
\* timer still goes off.
ArmSets(a) ==
    /\ arm[a].step = "fail" /\ arm[a].stale = {}
    /\ arm' = [arm EXCEPT ![a] = Quiet]
    /\ IF arm[a].at = Off
       THEN UNCHANGED <<timer, orphans>>
       ELSE /\ timer' = arm[a].at
            /\ orphans' = orphans \cup ({timer} \ {Off})
    /\ UNCHANGED <<file, pins, pass, owner, briefs, now, given, acts, revoked,
                   asked, upsets>>

-----------------------------------------------------------------------------
(* runDue, one pass at a time. *)

\* A timer goes off.  A pass under way answers it at once; else the queue is
\* listed, and a pass with nothing due only arms again.
GoesOff(t) ==
    /\ t <= now
    /\ \/ timer = t /\ timer' = Off /\ UNCHANGED orphans
       \/ t \in orphans /\ orphans' = orphans \ {t} /\ UNCHANGED timer

Fires(t) ==
    /\ GoesOff(t)
    /\ IF pass.step = "idle"
       THEN Due # {} /\ pass' = [Idle EXCEPT !.step = "judge", !.files = Kept(Due), !.todo = Due]
       ELSE UNCHANGED pass
    /\ UNCHANGED <<file, pins, arm, owner, briefs, now, given, acts, revoked,
                   asked, upsets>>

FiresForNothing(t, a) ==
    /\ t <= now /\ (timer = t \/ t \in orphans)
    /\ pass.step = "idle" /\ Due = {}
    /\ orphans' = IF timer = t THEN orphans ELSE orphans \ {t}
    /\ Arming(a)
    /\ UNCHANGED <<file, pins, pass, owner, briefs, now, given, acts, revoked,
                   asked, upsets>>

\* A change of the code: the yes is looked up by the item's id alone.
MatchesId(i) == pins[i].yes # 0

\* A yes that is there for an item as the pass read it.
Matches(i) == pins[i].yes # 0 /\ pins[i].words = pass.files[i].words

\* settleUnapproved, first half: one read of the ledger for the whole pass.
Judge ==
    /\ pass.step = "judge"
    /\ pass' = [pass EXCEPT !.step = "refuse",
                            !.refused = {i \in pass.todo : ~Matches(i)},
                            !.todo = {i \in pass.todo : Matches(i)}]
    /\ UNCHANGED <<file, pins, timer, orphans, arm, owner, briefs, now, given,
                   acts, revoked, asked, upsets>>

\* An item is failed as the pass read it, whatever its file says by now.
Fails(i) ==
    /\ file' = [file EXCEPT ![i] = Failed(pass.files[i])]
    /\ asked' = asked \ {i}

Refuse(i) ==
    /\ pass.step = "refuse" /\ i \in pass.refused
    /\ Fails(i)
    /\ pass' = [pass EXCEPT !.refused = @ \ {i}]
    /\ UNCHANGED <<pins, timer, orphans, arm, owner, briefs, now, given, acts,
                   revoked, upsets>>

\* A change of the code: the yes stays in the ledger once it is used.
SpendKeeps ==
    /\ pass.step = "refuse" /\ pass.refused = {}
    /\ LET spent == {i \in pass.todo : Matches(i)} IN
       pass' = [pass EXCEPT
                  !.step = "act", !.todo = spent,
                  !.yes = [i \in Items |-> IF i \in spent THEN pins[i].yes ELSE 0]]
    /\ UNCHANGED <<file, pins, timer, orphans, arm, owner, briefs, now, given, acts,
                   revoked, asked, upsets>>

\* spendApprovals: one read-change-write of the ledger, against it as it is now.
Spend ==
    /\ pass.step = "refuse" /\ pass.refused = {}
    /\ LET spent == {i \in pass.todo : Matches(i)} IN
       /\ pins' = [i \in Items |-> IF i \in spent THEN NoPin ELSE pins[i]]
       /\ pass' = [pass EXCEPT
                     !.step = "act", !.todo = spent,
                     !.yes = [i \in Items |-> IF i \in spent THEN pins[i].yes ELSE 0]]
    /\ UNCHANGED <<file, timer, orphans, arm, owner, briefs, now, given, acts,
                   revoked, asked, upsets>>

\* A change of the code: an item is started at the end of a countdown.
RunningAhead(i) == file' = [file EXCEPT ![i] = As(pass.files[i], "running", now + Hold)]

Running(i) == file' = [file EXCEPT ![i] = As(pass.files[i], "running", now)]

\* sendDirect and performByExtension: running on disk, then the act.
Mark(i) ==
    /\ pass.step = "act" /\ i \in pass.todo \cap Direct
    /\ Running(i) /\ asked' = asked \ {i}
    /\ pass' = [pass EXCEPT !.step = "send", !.marked = {i}]
    /\ UNCHANGED <<pins, timer, orphans, arm, owner, briefs, now, given, acts,
                   revoked, upsets>>

\* Something is done under a yes: that yes is used up, and what was done noted.
Did(i, w) == acts' = [acts EXCEPT ![pass.yes[i]] = Append(@, w)]

\* It reached the outside, or it was refused before it did; an answer that was
\* lost leaves it done and told as failed.
Send(i, reached) ==
    /\ pass.step = "send" /\ i \in pass.marked
    /\ IF reached THEN Did(i, pass.files[i].words) ELSE UNCHANGED acts
    /\ pass' = [pass EXCEPT !.step = "settle", !.yes[i] = 0]
    /\ UNCHANGED <<file, pins, timer, orphans, arm, owner, briefs, now, given,
                   revoked, asked, upsets>>

Settle(i, status) ==
    /\ pass.step = "settle" /\ i \in pass.marked
    /\ file' = [file EXCEPT ![i] = As(pass.files[i], status, 0)]
    /\ asked' = asked \ {i}
    /\ pass' = [pass EXCEPT !.step = "act", !.marked = {}, !.todo = @ \ {i}]
    /\ UNCHANGED <<pins, timer, orphans, arm, owner, briefs, now, given, acts,
                   revoked, upsets>>

\* settleGhosts and settleUnnamed: no turn can carry it out.
Nobody(i) ==
    /\ pass.step = "act" /\ pass.todo \cap Direct = {} /\ pass.marked = {}
    /\ i \in pass.todo
    /\ Fails(i)
    /\ pass' = [pass EXCEPT !.todo = @ \ {i}, !.yes[i] = 0]
    /\ UNCHANGED <<pins, timer, orphans, arm, owner, briefs, now, given, acts,
                   revoked, upsets>>

\* startTurn: every item of the batch is marked, then the turn is started,
\* detached; the items are named to it, and it reads them off the disk.
MarkForTurn(i) ==
    /\ pass.step = "act" /\ pass.todo \cap Direct = {}
    /\ i \in pass.todo
    /\ Running(i) /\ asked' = asked \ {i}
    /\ pass' = [pass EXCEPT !.todo = @ \ {i}, !.marked = @ \cup {i}]
    /\ UNCHANGED <<pins, timer, orphans, arm, owner, briefs, now, given, acts,
                   revoked, upsets>>

StartTurn ==
    /\ pass.step = "act" /\ pass.todo = {} /\ pass.marked # {}
    /\ briefs' = briefs \cup pass.marked
    /\ acts' = [y \in 1..MaxYes |->
                  IF \E i \in pass.marked : pass.yes[i] = y
                  THEN Append(acts[y], file[given[y].item].words) ELSE acts[y]]
    /\ pass' = [pass EXCEPT !.marked = {}, !.yes = NoYes]
    /\ UNCHANGED <<file, pins, timer, orphans, arm, owner, now, given, revoked,
                   asked, upsets>>

\* A change of the code: the end of a pass arms nothing.
FinishQuiet(a) ==
    /\ pass.step = "act" /\ pass.todo = {} /\ pass.marked = {}
    /\ pass' = Idle
    /\ UNCHANGED <<file, pins, timer, orphans, arm, owner, briefs, now, given, acts,
                   revoked, asked, upsets>>

\* The end of a pass arms again, however it ended.
Finish(a) ==
    /\ pass.step = "act" /\ pass.todo = {} /\ pass.marked = {}
    /\ pass' = Idle
    /\ Arming(a)
    /\ UNCHANGED <<file, pins, orphans, owner, briefs, now, given, acts, revoked,
                   asked, upsets>>

Throw(a) ==
    /\ upsets < MaxUpsets
    /\ pass.step \in {"refuse", "act", "settle"}
    /\ pass' = Idle
    /\ Arming(a)
    /\ upsets' = upsets + 1
    /\ UNCHANGED <<file, pins, orphans, owner, briefs, now, given, acts, revoked,
                   asked>>

-----------------------------------------------------------------------------
(* The turn, the clock, and the daemon's death. *)

\* As its prompt tells it: running before it acts, the outcome after.
TurnWrites(i, status) ==
    /\ i \in briefs /\ file[i].status # "none"
    /\ file' = [file EXCEPT ![i] = As(file[i], status, IF status = "running" THEN now ELSE 0)]
    /\ briefs' = IF status = "running" THEN briefs ELSE briefs \ {i}
    /\ asked' = asked \ {i}
    /\ UNCHANGED <<pins, timer, orphans, pass, arm, owner, now, given, acts,
                   revoked, upsets>>

TurnDies(i) ==
    /\ i \in briefs
    /\ briefs' = briefs \ {i}
    /\ UNCHANGED <<file, pins, timer, orphans, pass, arm, owner, now, given, acts,
                   revoked, asked, upsets>>

Tick ==
    /\ now < MaxNow /\ now' = now + 1
    /\ UNCHANGED <<file, pins, timer, orphans, pass, arm, owner, briefs, given,
                   acts, revoked, asked, upsets>>

\* What is left is on disk; the next boot arms, and resumes the turns.
Crash(a) ==
    /\ upsets < MaxUpsets
    /\ upsets' = upsets + 1
    /\ pass' = Idle /\ owner' = Nothing
    /\ timer' = Off /\ orphans' = {}
    /\ arm' = [b \in Arms |-> [Quiet EXCEPT
                                 !.step = IF b = a THEN "list" ELSE "off"]]
    /\ UNCHANGED <<file, pins, briefs, now, given, acts, revoked, asked>>

-----------------------------------------------------------------------------
Owner == \E i \in Items, w \in Words :
            \/ Approve(i, w)
            \/ \E s \in {"proposed", "none"} : Forget(i, s)

\* A proposal's date is only a suggestion, so it is not told apart.
Agent == \E i \in Items, it \in Files :
            /\ it.status \in {"proposed", "approved"}
            /\ it.status = "proposed" => it.at = 0
            /\ AgentWrites(i, it)

Armer == \E a \in Arms : ArmLists(a) \/ ArmSets(a) \/ \E i \in Items : ArmFails(a, i)

Going == \E t \in 0..MaxNow : Fires(t) \/ \E a \in Arms : FiresForNothing(t, a)

Acting == \/ Judge \/ Spend \/ StartTurn
          \/ \E i \in Items : \/ Refuse(i) \/ Mark(i) \/ Nobody(i) \/ MarkForTurn(i)
                              \/ \E b \in BOOLEAN : Send(i, b)
                              \/ \E s \in {"done", "failed"} : Settle(i, s)
          \/ \E a \in Arms : Finish(a)

Turn == \E i \in Items :
            \/ \E s \in {"running", "done", "failed"} : TurnWrites(i, s)
            \/ TurnDies(i)

Next == \/ Owner \/ Agent \/ Armer \/ Going \/ Acting \/ Turn \/ Tick
        \/ \E a \in Arms : OwnerWrites(a) \/ Throw(a) \/ Crash(a)

Spec == Init /\ [][Next]_vars

\* The daemon's awaits are answered, its timers go off, and time passes.
FairSpec == /\ Spec
            /\ WF_vars(\E a \in Arms : OwnerWrites(a))
            /\ WF_vars(Armer) /\ WF_vars(Going) /\ WF_vars(Acting) /\ WF_vars(Tick)

-----------------------------------------------------------------------------
TypeOK ==
    /\ file \in [Items -> Files] /\ pins \in [Items -> Pins]
    /\ timer \in {Off} \cup 0..MaxNow /\ orphans \subseteq 0..MaxNow
    /\ pass \in [step : Steps, files : [Items -> Files], todo : SUBSET Items,
                 refused : SUBSET Items, marked : SUBSET Items,
                 yes : [Items -> 0..MaxYes]]
    /\ arm \in [Arms -> [step : {"off", "list", "fail"}, files : [Items -> Files],
                         stale : SUBSET Items, at : {Off} \cup 0..MaxNow]]
    /\ owner \in {Nothing} \cup [op : {"approve", "forget"}, item : Items, it : Files]
    /\ briefs \subseteq Items /\ now \in 0..MaxNow
    /\ given \in Seq([item : Items, words : Words]) /\ Len(given) <= MaxYes
    /\ acts \in [1..MaxYes -> Seq(Words)]
    /\ revoked \subseteq 1..MaxYes /\ asked \subseteq Items
    /\ upsets \in 0..MaxUpsets

\* One yes lets its item be done, or handed to a turn, once: whatever the agent
\* writes back, wherever a pass breaks off or the daemon dies, and however two
\* requests and a pass fall together.
OneYesRunsOnce == \A y \in 1..MaxYes : Len(acts[y]) <= 1

\* A yes taken back, or replaced by another, before a pass had spent it is never
\* acted on, though the pass may have judged the item by it already.
RevokedNeverRuns == \A y \in revoked : acts[y] = <<>>

\* What the daemon does itself is what the yes covered, word for word, however
\* often the item was rewritten and approved again while the pass went on.
DoneAsApproved ==
    \A y \in 1..Len(given) : given[y].item \in Direct =>
        \A k \in DOMAIN acts[y] : acts[y][k] = given[y].words

\* An approval the owner was told of is taken up: once due it is marked or
\* failed, unless it is written again before - through failed passes, deaths of
\* the daemon, and timers armed from a list that is out of date.
ApprovalTakenUp == \A i \in Items : (i \in asked) ~> (i \notin asked)

\* "How long a turn may sit before another pass reconsiders it; else a dead turn
\* leaves `running` forever" (approvals-executor.ts): an item that has been
\* running for longer than that, with no live turn to settle it, is reconsidered.
DeadTurnReconsidered ==
    \A i \in Items :
        (IsStale(file[i]) /\ i \notin briefs) ~> (~IsStale(file[i]))
=============================================================================
