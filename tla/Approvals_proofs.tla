-------------------------- MODULE Approvals_proofs --------------------------
(***************************************************************************)
(* What holds of the approvals queue for every number of items, calls of   *)
(* arm, yeses, edits and deaths.  A yes is a token: it is pinned in the    *)
(* ledger, or held by the pass that spent it, or used up, and never two of *)
(* these.  That every yes is used once, that one taken back is never used, *)
(* and that a direct act is what its yes covered, all follow.              *)
(***************************************************************************)
EXTENDS Approvals, TLAPS, SequenceTheorems, WellFoundedInduction

LEMMA SomeWords == AnyWords \in Words
BY ApprovalsAssumption DEF AnyWords

LEMMA NoFileIsFile == NoFile \in Files /\ NoPin \in Pins /\ NoFiles \in [Items -> Files]
BY SomeWords, ApprovalsAssumption DEF NoFile, Files, NoPin, Pins, NoFiles, Statuses

\* What a status makes of a file is a file.
LEMMA AsIsFile ==
    ASSUME NEW was \in Files, NEW s \in Statuses, NEW t \in 0..MaxNow
    PROVE  As(was, s, t) \in Files
BY DEF As, Files

LEMMA FailedIsFile == ASSUME NEW was \in Files PROVE Failed(was) \in Files
BY AsIsFile, ApprovalsAssumption DEF Failed, Statuses

\* A set of instants has a soonest one.
LEMMA Soonest ==
    ASSUME NEW S, S \subseteq Nat, S # {}
    PROVE  \E t \in S : \A u \in S : t <= u
<1> DEFINE Less == OpToRel(<, Nat)
<1>1. \E t \in S : \A u \in S : ~(<<u, t>> \in Less)
    BY NatLessThanWellFounded, WFMin
<1>2. \A x, y \in Nat : x < y => <<x, y>> \in Less
    BY DEF OpToRel
<1> HIDE DEF Less
<1>3. PICK t \in S : \A u \in S : ~(<<u, t>> \in Less)
    BY <1>1
<1>4. \A u \in S : ~(u < t)
    BY <1>2, <1>3
<1>5. QED BY <1>4

LEMMA DueTime ==
    ASSUME NEW files \in [Items -> Files], now \in 0..MaxNow
    PROVE  NextDueAt(files) \in {Off} \cup 0..MaxNow
<1> DEFINE due == {IF files[i].at < now THEN now ELSE files[i].at :
                     i \in {j \in Items : files[j].status = "approved"}}
<1>1. due \subseteq 0..MaxNow
    BY DEF Files
<1>2. CASE due = {}
    BY <1>2 DEF NextDueAt
<1>3. CASE due # {}
    <2>1. \E t \in due : \A u \in due : t <= u
        BY <1>1, <1>3, Soonest, 0..MaxNow \subseteq Nat, ApprovalsAssumption
    <2>2. (CHOOSE t \in due : \A u \in due : t <= u) \in due
        BY <2>1
    <2>3. QED BY <1>1, <1>3, <2>2 DEF NextDueAt
<1>4. QED BY <1>2, <1>3

-----------------------------------------------------------------------------
(* The inductive invariant: where a yes is. *)

Covers(y, i, w) == y \in 1..Len(given) /\ given[y].item = i /\ given[y].words = w

Unused(y) == acts[y] = <<>> /\ y \notin revoked

\* A pinned yes covers what its pin says, and nothing was done under it.
PinsUnused ==
    \A i \in Items : pins[i].yes # 0 =>
        Covers(pins[i].yes, i, pins[i].words) /\ Unused(pins[i].yes)

\* So does a yes the pass holds, of the item as the pass read it; and it is
\* pinned no more.
HeldUnused ==
    \A i \in Items : pass.yes[i] # 0 =>
        /\ Covers(pass.yes[i], i, pass.files[i].words) /\ Unused(pass.yes[i])
        /\ pins[i].yes # pass.yes[i]

\* Nothing is known of a yes before it is given.
NotYetGiven == \A y \in 1..MaxYes : y > Len(given) => Unused(y)

\* What the pass is about to act on it holds a yes for, and what it marked for a
\* turn the daemon does not do itself.
PassShape ==
    /\ pass.step \in {"act", "send"} => \A i \in pass.todo : pass.yes[i] # 0
    /\ pass.step = "settle" => \A i \in pass.todo \ pass.marked : pass.yes[i] # 0
    /\ IF pass.step \in {"send", "settle"}
       THEN \E i \in pass.todo \cap Direct : pass.marked = {i}
       ELSE pass.marked \cap Direct = {}

Tokens == PinsUnused /\ HeldUnused /\ NotYetGiven /\ PassShape

Promises == OneYesRunsOnce /\ RevokedNeverRuns /\ DoneAsApproved

IInv == TypeOK /\ Tokens /\ Promises

-----------------------------------------------------------------------------
(* Types, a lemma per family of actions. *)

\* What each step of the pass and of arm is typed by.
PassType ==
    [step : Steps, files : [Items -> Files], todo : SUBSET Items,
     refused : SUBSET Items, marked : SUBSET Items, yes : [Items -> 0..MaxYes]]

ArmType ==
    [step : {"off", "list", "fail"}, files : [Items -> Files],
     stale : SUBSET Items, at : {Off} \cup 0..MaxNow]

LEMMA Bounds == {Hold, Stale, MaxNow, MaxYes, MaxUpsets} \subseteq Nat
BY ApprovalsAssumption

LEMMA Idles == Idle \in PassType /\ Quiet \in ArmType
BY NoFileIsFile, Bounds DEF Idle, Quiet, PassType, ArmType, Steps, NoYes, Off

LEMMA InitTypes == Init => TypeOK
<1> SUFFICES ASSUME Init PROVE TypeOK
    OBVIOUS
<1>1. file \in [Items -> Files]
    BY SomeWords, Bounds DEF Init, Files, Statuses
<1>2. pins \in [Items -> Pins]
    BY NoFileIsFile DEF Init
<1>3. pass \in PassType /\ arm \in [Arms -> ArmType]
    BY Idles DEF Init
<1>4. given \in Seq([item : Items, words : Words]) /\ Len(given) = 0
    BY DEF Init
<1>5. acts \in [1..MaxYes -> Seq(Words)]
    BY DEF Init
<1>6. QED BY <1>1, <1>2, <1>3, <1>4, <1>5, Bounds DEF Init, TypeOK, PassType, ArmType

\* Calling arm leaves the calls of arm and the timer of their types.
LEMMA ArmingTypes ==
    ASSUME TypeOK, NEW a \in Arms, Arming(a)
    PROVE  arm' \in [Arms -> ArmType] /\ timer' \in {Off} \cup 0..MaxNow
BY DEF TypeOK, Arming, ArmType

LEMMA OwnerTypes == TypeOK /\ Owner => TypeOK'
<1> SUFFICES ASSUME TypeOK, Owner PROVE TypeOK'
    OBVIOUS
<1> USE Bounds
<1>1. ASSUME NEW i \in Items, NEW w \in Words, NEW at \in 0..MaxNow, Pin(i, w, at)
      PROVE  TypeOK'
    <2>1. owner' \in [op : {"approve", "forget"}, item : Items, it : Files]
        BY <1>1 DEF Pin, Files, Statuses
    <2>2. /\ given' \in Seq([item : Items, words : Words])
          /\ Len(given') = Len(given) + 1 /\ Len(given') <= MaxYes /\ Len(given) \in Nat
        BY <1>1 DEF Pin, TypeOK
    <2>3. pins' \in [Items -> Pins]
        BY <1>1, <2>2 DEF Pin, TypeOK, Pins
    <2>4. revoked' \subseteq 1..MaxYes
        <3>1. pins[i].yes \in 0..MaxYes /\ revoked \subseteq 1..MaxYes
            BY DEF TypeOK, Pins
        <3>2. {pins[i].yes} \ {0} \subseteq 1..MaxYes
            BY <3>1
        <3>3. QED BY <1>1, <3>1, <3>2 DEF Pin
    <2>5. QED BY <1>1, <2>1, <2>2, <2>3, <2>4 DEF Pin, TypeOK
<1>2. ASSUME NEW i \in Items, NEW s \in {"proposed", "none"}, Forget(i, s)
      PROVE  TypeOK'
    <2>1. owner' \in [op : {"approve", "forget"}, item : Items, it : Files]
        BY <1>2, AsIsFile, NoFileIsFile DEF Forget, TypeOK, Statuses
    <2>2. pins' \in [Items -> Pins] /\ revoked' \subseteq 1..MaxYes
        <3>1. pins[i].yes \in 0..MaxYes /\ revoked \subseteq 1..MaxYes
            BY DEF TypeOK, Pins
        <3>2. {pins[i].yes} \ {0} \subseteq 1..MaxYes
            BY <3>1
        <3>3. pins' \in [Items -> Pins]
            BY <1>2, NoFileIsFile DEF Forget, TypeOK
        <3>4. QED BY <1>2, <3>1, <3>2, <3>3 DEF Forget
    <2>3. QED BY <1>2, <2>1, <2>2 DEF Forget, TypeOK
<1>3. ASSUME NEW i \in Items, NEW w \in Words, Approve(i, w)
      PROVE  TypeOK'
    <2>1. 0 \in 0..MaxNow /\ (now + Hold <= MaxNow => now + Hold \in 0..MaxNow)
        BY DEF TypeOK
    <2>2. CASE Pin(i, w, 0)
        BY <1>1, <2>1, <2>2
    <2>3. CASE now + Hold <= MaxNow /\ Pin(i, w, now + Hold)
        BY <1>1, <2>1, <2>3
    <2>4. QED BY <1>3, <2>2, <2>3 DEF Approve
<1>4. QED BY <1>2, <1>3 DEF Owner

LEMMA OutsideTypes ==
    ASSUME TypeOK,
           \/ Agent \/ Turn \/ Tick
           \/ \E a \in Arms : OwnerWrites(a) \/ Throw(a) \/ Crash(a)
    PROVE  TypeOK'
<1> USE Bounds
<1>1. CASE Agent
    BY <1>1 DEF Agent, AgentWrites, TypeOK
<1>2. ASSUME NEW i \in Items, NEW s \in {"running", "done", "failed"}, TurnWrites(i, s)
      PROVE  TypeOK'
    <2>1. As(file[i], s, IF s = "running" THEN now ELSE 0) \in Files
        BY DEF TypeOK, Statuses, As, Files
    <2>2. QED BY <1>2, <2>1 DEF TurnWrites, TypeOK
<1>3. ASSUME NEW i \in Items, TurnDies(i) PROVE TypeOK'
    BY <1>3 DEF TurnDies, TypeOK
<1>4. CASE Tick
    BY <1>4 DEF Tick, TypeOK
<1>5. ASSUME NEW a \in Arms, OwnerWrites(a) PROVE TypeOK'
    <2>1. owner \in [op : {"approve", "forget"}, item : Items, it : Files]
        BY <1>5 DEF OwnerWrites, TypeOK, Nothing
    <2>2. arm' \in [Arms -> ArmType] /\ timer' \in {Off} \cup 0..MaxNow
        BY <1>5, ArmingTypes DEF OwnerWrites
    <2>3. QED BY <1>5, <2>1, <2>2 DEF OwnerWrites, TypeOK, ArmType
<1>6. ASSUME NEW a \in Arms, Throw(a) PROVE TypeOK'
    <2>1. arm' \in [Arms -> ArmType] /\ timer' \in {Off} \cup 0..MaxNow
        BY <1>6, ArmingTypes DEF Throw
    <2>2. QED BY <1>6, <2>1, Idles DEF Throw, TypeOK, ArmType, PassType
<1>7. ASSUME NEW a \in Arms, Crash(a) PROVE TypeOK'
    <2>1. arm' \in [Arms -> ArmType]
        BY <1>7, Idles DEF Crash, ArmType
    <2>2. pass' \in PassType
        BY <1>7, Idles DEF Crash
    <2>3. /\ owner' = Nothing /\ timer' = Off /\ orphans' = {}
          /\ upsets' = upsets + 1 /\ upsets < MaxUpsets
          /\ UNCHANGED <<file, pins, briefs, now, given, acts, revoked, asked>>
        BY <1>7 DEF Crash
    <2>4. QED BY <2>1, <2>2, <2>3 DEF TypeOK, ArmType, PassType
<1>8. QED BY <1>1, <1>2, <1>3, <1>4, <1>5, <1>6, <1>7 DEF Turn

LEMMA ArmTypes == TypeOK /\ (Armer \/ Going) => TypeOK'
<1> SUFFICES ASSUME TypeOK, Armer \/ Going PROVE TypeOK'
    OBVIOUS
<1> USE Bounds
<1>1. ASSUME NEW S \in SUBSET Items PROVE Kept(S) \in [Items -> Files]
    BY NoFileIsFile DEF Kept, TypeOK
<1>2. ASSUME NEW a \in Arms, ArmLists(a) PROVE TypeOK'
    <2>1. Overrun \in SUBSET Items /\ NextDueAt(file) \in {Off} \cup 0..MaxNow
        BY DueTime DEF Overrun, TypeOK
    <2>2. arm' \in [Arms -> ArmType]
        BY <1>1, <1>2, <2>1 DEF ArmLists, TypeOK, ArmType
    <2>3. QED BY <1>2, <2>2 DEF ArmLists, TypeOK, ArmType
<1>3. ASSUME NEW a \in Arms, NEW i \in Items, ArmFails(a, i) PROVE TypeOK'
    <2>1. Failed(arm[a].files[i]) \in Files
        BY FailedIsFile DEF TypeOK
    <2>2. QED BY <1>3, <2>1 DEF ArmFails, TypeOK
<1>4. ASSUME NEW a \in Arms, ArmSets(a) PROVE TypeOK'
    <2>1. arm' \in [Arms -> ArmType]
        BY <1>4, Idles DEF ArmSets, TypeOK, ArmType
    <2>2. timer' \in {Off} \cup 0..MaxNow /\ orphans' \subseteq 0..MaxNow
        BY <1>4 DEF ArmSets, TypeOK
    <2>3. QED BY <1>4, <2>1, <2>2 DEF ArmSets, TypeOK, ArmType
<1>5. ASSUME NEW t \in 0..MaxNow, Fires(t) PROVE TypeOK'
    <2>1. pass' \in PassType
        <3>1. Kept(Due) \in [Items -> Files] /\ Due \subseteq Items
            BY <1>1 DEF Due
        <3>2. [Idle EXCEPT !.step = "judge", !.files = Kept(Due), !.todo = Due] \in PassType
            BY <3>1, Idles DEF PassType, Steps
        <3>3. QED BY <1>5, <3>2 DEF Fires, TypeOK, PassType
    <2>2. QED BY <1>5, <2>1 DEF Fires, GoesOff, TypeOK, PassType
<1>6. ASSUME NEW t \in 0..MaxNow, NEW a \in Arms, FiresForNothing(t, a) PROVE TypeOK'
    <2>1. arm' \in [Arms -> ArmType] /\ timer' \in {Off} \cup 0..MaxNow
        BY <1>6, ArmingTypes DEF FiresForNothing
    <2>2. QED BY <1>6, <2>1 DEF FiresForNothing, TypeOK, ArmType
<1>7. QED BY <1>2, <1>3, <1>4, <1>5, <1>6 DEF Armer, Going

\* A turn's start is typed because the pass holds only yeses that were given.
LEMMA ActingTypes == TypeOK /\ HeldUnused /\ Acting => TypeOK'
<1> SUFFICES ASSUME TypeOK, HeldUnused, Acting PROVE TypeOK'
    OBVIOUS
<1> USE Bounds
<1>1. CASE Judge
    BY <1>1 DEF Judge, TypeOK, Steps
<1>2. CASE Spend
    <2>1. pins' \in [Items -> Pins]
        BY <1>2, NoFileIsFile DEF Spend, TypeOK
    <2>2. \A i \in Items : pins[i].yes \in 0..MaxYes
        BY DEF TypeOK, Pins
    <2>3. pass' \in PassType
        <3> DEFINE spent == {i \in pass.todo : Matches(i)}
                   yes == [i \in Items |-> IF i \in spent THEN pins[i].yes ELSE 0]
        <3>1. spent \subseteq Items /\ yes \in [Items -> 0..MaxYes]
            BY <2>2 DEF TypeOK
        <3>2. pass' = [pass EXCEPT !.step = "act", !.todo = spent, !.yes = yes]
            BY <1>2 DEF Spend
        <3> HIDE DEF spent, yes
        <3>3. QED BY <3>1, <3>2 DEF TypeOK, PassType, Steps
    <2>4. QED BY <1>2, <2>1, <2>3 DEF Spend, TypeOK, PassType
<1>3. CASE StartTurn
    <2>1. ASSUME NEW y \in 1..MaxYes, NEW i \in Items, pass.yes[i] = y
          PROVE  Append(acts[y], file[given[y].item].words) \in Seq(Words)
        <3>1. y # 0 /\ given[y].item = i
            BY <2>1 DEF HeldUnused, Covers
        <3>2. file[i].words \in Words /\ acts[y] \in Seq(Words)
            BY DEF TypeOK, Files
        <3>3. QED BY <3>1, <3>2
    <2>2. pass.marked \subseteq Items /\ \A y \in 1..MaxYes : acts[y] \in Seq(Words)
        BY DEF TypeOK
    <2>3. acts' \in [1..MaxYes -> Seq(Words)]
        BY <1>3, <2>1, <2>2 DEF StartTurn
    <2>4. pass' \in PassType /\ briefs' \subseteq Items
        <3>1. NoYes \in [Items -> 0..MaxYes]
            BY DEF NoYes
        <3>2. pass' = [pass EXCEPT !.marked = {}, !.yes = NoYes]
            BY <1>3 DEF StartTurn
        <3>3. pass' \in PassType
            BY <3>1, <3>2 DEF TypeOK, PassType
        <3>4. QED BY <1>3, <3>3 DEF StartTurn, TypeOK
    <2>5. QED BY <1>3, <2>3, <2>4 DEF StartTurn, TypeOK, PassType
<1>4. ASSUME NEW i \in Items, NEW s \in {"running", "done", "failed"}
      PROVE  As(pass.files[i], s, 0) \in Files /\ As(pass.files[i], s, now) \in Files
    BY DEF TypeOK, As, Files, Statuses
<1>13. ASSUME NEW i \in Items
       PROVE  [pass.yes EXCEPT ![i] = 0] \in [Items -> 0..MaxYes]
    BY DEF TypeOK
<1>5. ASSUME NEW i \in Items, Refuse(i) PROVE TypeOK'
    BY <1>4, <1>5 DEF Refuse, Fails, Failed, TypeOK
<1>6. ASSUME NEW i \in Items, Mark(i) PROVE TypeOK'
    BY <1>4, <1>6 DEF Mark, Running, TypeOK, Steps
<1>7. ASSUME NEW i \in Items, Nobody(i) PROVE TypeOK'
    <2>1. pass' = [pass EXCEPT !.todo = @ \ {i}, !.yes = [pass.yes EXCEPT ![i] = 0]]
        BY <1>7 DEF Nobody, TypeOK
    <2>2. pass' \in PassType
        BY <1>13, <2>1 DEF TypeOK, PassType
    <2>3. QED BY <1>4, <1>7, <2>2 DEF Nobody, Fails, Failed, TypeOK, PassType
<1>8. ASSUME NEW i \in Items, MarkForTurn(i) PROVE TypeOK'
    BY <1>4, <1>8 DEF MarkForTurn, Running, TypeOK
<1>9. ASSUME NEW i \in Items, NEW b \in BOOLEAN, Send(i, b) PROVE TypeOK'
    <2>1. pass' \in PassType
        <3>1. pass' = [pass EXCEPT !.step = "settle", !.yes = [pass.yes EXCEPT ![i] = 0]]
            BY <1>9 DEF Send, TypeOK
        <3>2. QED BY <1>13, <3>1 DEF TypeOK, PassType, Steps
    <2>2. pass.files[i].words \in Words
        BY DEF TypeOK, Files
    <2>3. acts' \in [1..MaxYes -> Seq(Words)]
        <3>1. ASSUME NEW y \in 1..MaxYes
              PROVE  Append(acts[y], pass.files[i].words) \in Seq(Words)
            <4>1. acts[y] \in Seq(Words)
                BY DEF TypeOK
            <4>2. QED BY <2>2, <4>1
        <3>2. CASE b
            <4>1. acts' = [acts EXCEPT ![pass.yes[i]] = Append(@, pass.files[i].words)]
                BY <1>9, <3>2 DEF Send, Did
            <4>2. acts \in [1..MaxYes -> Seq(Words)]
                BY DEF TypeOK
            <4>3. QED BY <3>1, <4>1, <4>2
        <3>3. CASE ~b
            BY <1>9, <3>3 DEF Send, TypeOK
        <3>4. QED BY <3>2, <3>3
    <2>4. QED BY <1>9, <2>1, <2>3 DEF Send, TypeOK, PassType
<1>10. ASSUME NEW i \in Items, NEW s \in {"done", "failed"}, Settle(i, s) PROVE TypeOK'
    BY <1>4, <1>10 DEF Settle, TypeOK, Steps
<1>11. ASSUME NEW a \in Arms, Finish(a) PROVE TypeOK'
    <2>1. arm' \in [Arms -> ArmType] /\ timer' \in {Off} \cup 0..MaxNow
        BY <1>11, ArmingTypes DEF Finish
    <2>2. QED BY <1>11, <2>1, Idles DEF Finish, TypeOK, ArmType, PassType
<1>12. QED
    BY <1>1, <1>2, <1>3, <1>5, <1>6, <1>7, <1>8, <1>9, <1>10, <1>11 DEF Acting

LEMMA NextTypes == TypeOK /\ HeldUnused /\ [Next]_vars => TypeOK'
<1>1. TypeOK /\ UNCHANGED vars => TypeOK'
    BY DEF TypeOK, vars
<1>2. QED BY <1>1, OwnerTypes, OutsideTypes, ArmTypes, ActingTypes DEF Next

-----------------------------------------------------------------------------
(* Where the yeses are, a lemma per way a step may move them. *)

\* What is said of the ledger, of what is not given yet and of what was done is
\* said of these four alone.
LEMMA BooksKept ==
    ASSUME IInv, UNCHANGED <<pins, given, acts, revoked>>
    PROVE  PinsUnused' /\ NotYetGiven' /\ Promises'
BY DEF IInv, Tokens, Promises, PinsUnused, NotYetGiven, Covers, Unused,
       OneYesRunsOnce, RevokedNeverRuns, DoneAsApproved

LEMMA NothingMoves ==
    ASSUME IInv, UNCHANGED <<pins, pass, given, acts, revoked>>
    PROVE  Tokens' /\ Promises'
BY BooksKept DEF IInv, Tokens, HeldUnused, PassShape, Covers, Unused

\* A pass that ends, or one that begins, holds no yes.
LEMMA PassHoldsNone ==
    ASSUME IInv, UNCHANGED <<pins, given, acts, revoked>>,
           pass'.yes = NoYes, pass'.marked = {}, pass'.step \in {"idle", "judge"}
    PROVE  Tokens' /\ Promises'
<1>1. HeldUnused'
    BY DEF HeldUnused, NoYes
<1>2. PassShape'
    BY DEF PassShape
<1>3. QED BY <1>1, <1>2, BooksKept DEF Tokens

\* A pass that goes on with the yeses it holds.
LEMMA PassGoesOn ==
    ASSUME IInv, UNCHANGED <<pins, given, acts, revoked>>,
           pass'.yes = pass.yes, pass'.files = pass.files, PassShape'
    PROVE  Tokens' /\ Promises'
<1>1. HeldUnused'
    BY DEF IInv, Tokens, HeldUnused, Covers, Unused
<1>2. QED BY <1>1, BooksKept DEF Tokens

\* A yes the owner gives is new: no pin, pass or act has it.
LEMMA PinKeeps ==
    ASSUME IInv, TypeOK', NEW i \in Items, NEW w \in Words, NEW at \in 0..MaxNow,
           Pin(i, w, at)
    PROVE  Tokens' /\ Promises'
<1> USE Bounds
<1>0. PICK y : y = Len(given) + 1
    OBVIOUS
<1>1. /\ Len(given) \in Nat /\ y = Len(given) + 1
      /\ y \in 1..MaxYes /\ Len(given') = y
      /\ \A k \in 1..Len(given) : given'[k] = given[k]
      /\ given'[y] = [item |-> i, words |-> w]
    BY <1>0 DEF Pin, IInv, TypeOK
<1>2. /\ UNCHANGED <<acts, pass>> /\ revoked' = revoked \cup ({pins[i].yes} \ {0})
      /\ \A j \in Items \ {i} : pins'[j] = pins[j]
      /\ pins'[i].yes = y /\ pins'[i].words = w
    BY <1>0 DEF Pin, IInv, TypeOK
<1>3. \A k, j, v : Covers(k, j, v) => Covers(k, j, v)' /\ k # y
    BY <1>1 DEF Covers
<1>4. \A j \in Items : pins[j].yes \in 0..MaxYes /\ pass.yes[j] \in 0..MaxYes
    BY DEF IInv, TypeOK, Pins
<1>5. Unused(y) /\ pins[i].yes # y
    BY <1>1, <1>3 DEF IInv, Tokens, NotYetGiven, PinsUnused
<1>6. Unused(y)'
    BY <1>2, <1>5 DEF Unused
<1>7. PinsUnused'
    <2>1. ASSUME NEW j \in Items, j # i, pins[j].yes # 0
          PROVE  pins[j].yes # pins[i].yes
        BY <2>1 DEF IInv, Tokens, PinsUnused, Covers
    <2>2. ASSUME NEW j \in Items, j # i, pins'[j].yes # 0
          PROVE  Covers(pins[j].yes, j, pins[j].words)' /\ Unused(pins[j].yes)'
        BY <1>2, <1>3, <2>1, <2>2 DEF IInv, Tokens, PinsUnused, Unused
    <2>3. Covers(y, i, w)'
        BY <1>1 DEF Covers
    <2>4. QED BY <1>2, <1>6, <2>2, <2>3 DEF PinsUnused
<1>8. HeldUnused'
    <2>1. ASSUME NEW j \in Items, pass.yes[j] # 0
          PROVE  pass.yes[j] # pins[i].yes \/ pins[i].yes = 0
        BY <2>1 DEF IInv, Tokens, HeldUnused, PinsUnused, Covers
    <2>2. ASSUME NEW j \in Items, pass.yes[j] # 0
          PROVE  Unused(pass.yes[j])' /\ pass.yes[j] # y
        BY <1>2, <1>3, <2>1, <2>2 DEF IInv, Tokens, HeldUnused, Unused
    <2>3. QED BY <1>2, <1>3, <2>2 DEF IInv, Tokens, HeldUnused
<1>9. NotYetGiven'
    <2>1. pins[i].yes <= Len(given)
        BY <1>1, <1>4 DEF IInv, Tokens, PinsUnused, Covers
    <2>2. QED BY <1>1, <1>2, <1>4, <2>1 DEF IInv, Tokens, NotYetGiven, Unused
<1>10. PassShape'
    BY <1>2 DEF IInv, Tokens, PassShape
<1>11. Promises'
    <2>1. pins[i].yes # 0 => acts[pins[i].yes] = <<>>
        BY DEF IInv, Tokens, PinsUnused, Unused
    <2>2. OneYesRunsOnce' /\ RevokedNeverRuns'
        BY <1>2, <2>1 DEF IInv, Promises, OneYesRunsOnce, RevokedNeverRuns
    <2>3. DoneAsApproved'
        BY <1>1, <1>2, <1>5 DEF IInv, Promises, DoneAsApproved, Unused
    <2>4. QED BY <2>2, <2>3 DEF Promises
<1>12. QED BY <1>7, <1>8, <1>9, <1>10, <1>11 DEF Tokens

\* A yes taken back was pinned: nothing was done under it, and no pass has it.
LEMMA ForgetKeeps ==
    ASSUME IInv, NEW i \in Items, NEW s \in {"proposed", "none"}, Forget(i, s)
    PROVE  Tokens' /\ Promises'
<1> USE Bounds
<1>1. /\ UNCHANGED <<acts, pass, given>> /\ revoked' = revoked \cup ({pins[i].yes} \ {0})
      /\ \A j \in Items \ {i} : pins'[j] = pins[j]
      /\ pins'[i].yes = 0
    BY DEF Forget, IInv, TypeOK, NoPin
<1>2. \A j \in Items : pins[j].yes \in 0..MaxYes /\ pass.yes[j] \in 0..MaxYes
    BY DEF IInv, TypeOK, Pins
<1>3. ASSUME NEW j \in Items, j # i, pins[j].yes # 0
      PROVE  pins[j].yes # pins[i].yes
    BY <1>3 DEF IInv, Tokens, PinsUnused, Covers
<1>4. ASSUME NEW j \in Items, pass.yes[j] # 0
      PROVE  pass.yes[j] # pins[i].yes
    BY <1>4 DEF IInv, Tokens, HeldUnused, PinsUnused, Covers
<1>5. PinsUnused'
    BY <1>1, <1>3 DEF IInv, Tokens, PinsUnused, Covers, Unused
<1>6. HeldUnused'
    BY <1>1, <1>4 DEF IInv, Tokens, HeldUnused, Covers, Unused
<1>7. NotYetGiven'
    <2>1. pins[i].yes # 0 => pins[i].yes <= Len(given)
        BY DEF IInv, Tokens, PinsUnused, Covers
    <2>2. QED BY <1>1, <1>2, <2>1 DEF IInv, Tokens, NotYetGiven, Unused, TypeOK
<1>8. PassShape'
    BY <1>1 DEF IInv, Tokens, PassShape
<1>9. Promises'
    <2>1. pins[i].yes # 0 => acts[pins[i].yes] = <<>>
        BY DEF IInv, Tokens, PinsUnused, Unused
    <2>2. QED BY <1>1, <2>1 DEF IInv, Promises, OneYesRunsOnce, RevokedNeverRuns,
                               DoneAsApproved
<1>10. QED BY <1>5, <1>6, <1>7, <1>8, <1>9 DEF Tokens

\* The yeses of what matches leave the ledger for the pass.
LEMMA SpendKeepsTokens ==
    ASSUME IInv, Spend
    PROVE  Tokens' /\ Promises'
<1> DEFINE spent == {i \in pass.todo : Matches(i)}
<1>1. /\ UNCHANGED <<acts, given, revoked>>
      /\ pass'.step = "act" /\ pass'.todo = spent /\ pass'.marked = pass.marked
      /\ pass'.files = pass.files
      /\ \A i \in Items : pass'.yes[i] = IF i \in spent THEN pins[i].yes ELSE 0
      /\ \A i \in Items : pins'[i] = IF i \in spent THEN NoPin ELSE pins[i]
    BY DEF Spend, IInv, TypeOK
<1>2. \A i \in spent : i \in Items /\ pins[i].yes # 0 /\ pins[i].words = pass.files[i].words
    BY DEF Matches, IInv, TypeOK
<1> HIDE DEF spent
<1>3. PinsUnused'
    BY <1>1 DEF IInv, Tokens, PinsUnused, Covers, Unused, NoPin
<1>4. HeldUnused'
    BY <1>1, <1>2 DEF IInv, Tokens, HeldUnused, PinsUnused, Covers, Unused, NoPin
<1>5. NotYetGiven' /\ Promises'
    BY <1>1 DEF IInv, Tokens, NotYetGiven, Unused, Promises, OneYesRunsOnce,
                RevokedNeverRuns, DoneAsApproved
<1>6. PassShape'
    <2>1. pass.marked \cap Direct = {}
        BY DEF IInv, Tokens, PassShape, Spend
    <2>2. QED BY <1>1, <1>2, <2>1 DEF PassShape
<1>7. QED BY <1>3, <1>4, <1>5, <1>6 DEF Tokens

\* The pass moves on: what it holds, it holds still.
LEMMA PassSteps ==
    ASSUME IInv, NEW i \in Items,
           \/ Judge \/ Refuse(i) \/ Mark(i) \/ MarkForTurn(i)
           \/ \E s \in {"done", "failed"} : Settle(i, s)
    PROVE  Tokens' /\ Promises'
<1>1. PassShape
    BY DEF IInv, Tokens
<1>2. CASE Judge
    <2>1. PassShape'
        BY <1>1, <1>2 DEF Judge, PassShape, IInv, TypeOK
    <2>2. QED BY <1>2, <2>1, PassGoesOn DEF Judge, IInv, TypeOK
<1>3. CASE Refuse(i)
    <2>1. PassShape'
        BY <1>1, <1>3 DEF Refuse, PassShape, IInv, TypeOK
    <2>2. QED BY <1>3, <2>1, PassGoesOn DEF Refuse, IInv, TypeOK
<1>4. CASE Mark(i)
    <2>1. PassShape'
        BY <1>1, <1>4 DEF Mark, PassShape, IInv, TypeOK
    <2>2. QED BY <1>4, <2>1, PassGoesOn DEF Mark, IInv, TypeOK
<1>5. CASE MarkForTurn(i)
    <2>1. PassShape'
        BY <1>1, <1>5 DEF MarkForTurn, PassShape, IInv, TypeOK
    <2>2. QED BY <1>5, <2>1, PassGoesOn DEF MarkForTurn, IInv, TypeOK
<1>6. ASSUME NEW s \in {"done", "failed"}, Settle(i, s)
      PROVE  Tokens' /\ Promises'
    <2>1. PassShape'
        BY <1>1, <1>6 DEF Settle, PassShape, IInv, TypeOK
    <2>2. QED BY <1>6, <2>1, PassGoesOn DEF Settle, IInv, TypeOK
<1>7. QED BY <1>2, <1>3, <1>4, <1>5, <1>6

\* Nobody to carry it out: its yes is used up with nothing done.
LEMMA NobodyKeeps ==
    ASSUME IInv, NEW i \in Items, Nobody(i)
    PROVE  Tokens' /\ Promises'
<1>1. /\ UNCHANGED <<pins, given, acts, revoked>>
      /\ pass'.step = "act" /\ pass.step = "act" /\ pass'.files = pass.files
      /\ pass'.todo = pass.todo \ {i} /\ pass'.marked = {} /\ pass.marked = {}
      /\ \A j \in Items : pass'.yes[j] = IF j = i THEN 0 ELSE pass.yes[j]
    BY DEF Nobody, IInv, TypeOK
<1>2. pass.todo \subseteq Items
    BY DEF IInv, TypeOK
<1>3. HeldUnused'
    BY <1>1 DEF IInv, Tokens, HeldUnused, Covers, Unused
<1>4. PassShape'
    BY <1>1, <1>2 DEF IInv, Tokens, PassShape
<1>5. QED BY <1>1, <1>3, <1>4, BooksKept DEF Tokens

\* A direct act, or its refusal, uses the yes up.
LEMMA SendKeeps ==
    ASSUME IInv, NEW i \in Items, NEW b \in BOOLEAN, Send(i, b)
    PROVE  Tokens' /\ Promises'
<1> USE Bounds
<1>1. /\ UNCHANGED <<pins, given, revoked>>
      /\ pass.step = "send" /\ pass'.step = "settle" /\ pass'.files = pass.files
      /\ pass'.todo = pass.todo /\ pass'.marked = pass.marked /\ i \in pass.marked
      /\ \A j \in Items : pass'.yes[j] = IF j = i THEN 0 ELSE pass.yes[j]
    BY DEF Send, IInv, TypeOK
<1>2. pass.marked = {i} /\ i \in pass.todo /\ i \in Direct /\ pass.yes[i] # 0
    BY <1>1 DEF IInv, Tokens, PassShape
<1>3. PICK y : y = pass.yes[i]
    OBVIOUS
<1>4. Covers(y, i, pass.files[i].words) /\ Unused(y) /\ y \in 1..MaxYes
    BY <1>2, <1>3 DEF IInv, Tokens, HeldUnused, TypeOK
<1>5. /\ acts \in [1..MaxYes -> Seq(Words)] /\ pass.files[i].words \in Words
      /\ Len(given) \in Nat /\ Len(given) <= MaxYes
    BY DEF IInv, TypeOK, Files
<1>6. /\ \A k \in 1..MaxYes \ {y} : acts'[k] = acts[k]
      /\ acts'[y] \in {<<>>, <<pass.files[i].words>>}
    <2>1. CASE b
        <3>1. acts' = [acts EXCEPT ![y] = Append(<<>>, pass.files[i].words)]
            BY <1>3, <1>4, <1>5, <2>1 DEF Send, Did, Unused
        <3>2. Append(<<>>, pass.files[i].words) = <<pass.files[i].words>>
            BY <1>5
        <3>3. QED BY <1>4, <1>5, <3>1, <3>2
    <2>2. CASE ~b
        BY <1>4, <2>2 DEF Send, Unused
    <2>3. QED BY <2>1, <2>2
<1>7. \A j \in Items : /\ pins[j].yes # y
                       /\ j # i => pass.yes[j] # y \/ pass.yes[j] = 0
    <2>1. ASSUME NEW j \in Items, pins[j].yes = y PROVE FALSE
        BY <1>2, <1>3, <1>4, <2>1 DEF IInv, Tokens, HeldUnused, PinsUnused, Covers
    <2>2. ASSUME NEW j \in Items, j # i, pass.yes[j] = y, y # 0 PROVE FALSE
        BY <1>4, <2>2 DEF IInv, Tokens, HeldUnused, Covers
    <2>3. QED BY <2>1, <2>2
<1>8. \A j \in Items : pins[j].yes \in 0..MaxYes /\ pass.yes[j] \in 0..MaxYes
    BY DEF IInv, TypeOK, Pins
<1>9. PinsUnused'
    BY <1>1, <1>6, <1>7, <1>8 DEF IInv, Tokens, PinsUnused, Covers, Unused
<1>10. HeldUnused'
    BY <1>1, <1>6, <1>7, <1>8 DEF IInv, Tokens, HeldUnused, Covers, Unused
<1>11. NotYetGiven'
    BY <1>1, <1>4, <1>5, <1>6 DEF IInv, Tokens, NotYetGiven, Covers, Unused
<1>12. PassShape'
    <2>1. \A j \in pass.todo : pass.yes[j] # 0 /\ j \in Items
        BY <1>1 DEF IInv, Tokens, PassShape, TypeOK
    <2>2. \A j \in pass'.todo \ pass'.marked : pass'.yes[j] # 0
        BY <1>1, <1>2, <2>1
    <2>3. QED BY <1>1, <1>2, <2>2 DEF PassShape
<1>13. Promises'
    <2>1. Len(acts'[y]) <= 1 /\ \A k \in DOMAIN acts'[y] : acts'[y][k] = pass.files[i].words
        <3>1. CASE acts'[y] = <<>>
            BY <3>1
        <3>2. CASE acts'[y] = <<pass.files[i].words>>
            BY <3>2
        <3>3. QED BY <1>6, <3>1, <3>2
    <2>2. OneYesRunsOnce'
        BY <1>6, <2>1 DEF IInv, Promises, OneYesRunsOnce
    <2>3. RevokedNeverRuns'
        BY <1>1, <1>4, <1>6 DEF IInv, Promises, RevokedNeverRuns, Unused, TypeOK
    <2>4. DoneAsApproved'
        BY <1>1, <1>4, <1>5, <1>6, <2>1 DEF IInv, Promises, DoneAsApproved, Covers
    <2>5. QED BY <2>2, <2>3, <2>4 DEF Promises
<1>14. QED BY <1>9, <1>10, <1>11, <1>12, <1>13 DEF Tokens

\* A turn's start uses up the yeses of what it is started for, each an item the
\* daemon does not do itself.
LEMMA StartTurnKeeps ==
    ASSUME IInv, StartTurn
    PROVE  Tokens' /\ Promises'
<1> USE Bounds
<1> DEFINE used(y) == \E i \in pass.marked : pass.yes[i] = y
<1>1. /\ UNCHANGED <<pins, given, revoked>>
      /\ pass.step = "act" /\ pass'.step = "act" /\ pass'.todo = {} /\ pass.todo = {}
      /\ pass'.marked = {} /\ pass'.yes = NoYes
      /\ \A y \in 1..MaxYes :
            acts'[y] = IF used(y) THEN Append(acts[y], file[given[y].item].words)
                                  ELSE acts[y]
    BY DEF StartTurn, IInv, TypeOK
<1>2. /\ acts \in [1..MaxYes -> Seq(Words)] /\ pass.marked \subseteq Items
      /\ Len(given) \in Nat /\ Len(given) <= MaxYes
    BY DEF IInv, TypeOK
<1>3. pass.marked \cap Direct = {}
    BY <1>1 DEF IInv, Tokens, PassShape
<1>4. ASSUME NEW y \in 1..MaxYes, used(y)
      PROVE  /\ y \in 1..Len(given) /\ Unused(y) /\ given[y].item \notin Direct
             /\ given[y].item \in Items
             /\ \A j \in Items : pins[j].yes # y
    <2>1. PICK i \in pass.marked : pass.yes[i] = y
        BY <1>4
    <2>2. /\ Covers(y, i, pass.files[i].words) /\ Unused(y) /\ pins[i].yes # y
          /\ i \in Items /\ i \notin Direct
        BY <1>2, <1>3, <2>1 DEF IInv, Tokens, HeldUnused
    <2>3. \A j \in Items : pins[j].yes # y
        BY <2>2 DEF IInv, Tokens, PinsUnused, Covers
    <2>4. QED BY <2>2, <2>3 DEF Covers
<1>5. ASSUME NEW y \in 1..MaxYes, used(y)
      PROVE  Len(acts'[y]) = 1
    <2>1. file[given[y].item].words \in Words
        BY <1>4, <1>5 DEF IInv, TypeOK, Files
    <2>2. acts'[y] = Append(<<>>, file[given[y].item].words)
        BY <1>1, <1>4, <1>5 DEF Unused
    <2>3. QED BY <2>1, <2>2
<1>6. \A y \in 1..MaxYes : ~used(y) => acts'[y] = acts[y]
    BY <1>1
<1> HIDE DEF used
<1>7. PinsUnused'
    <2>1. \A j \in Items : pins[j].yes # 0 => pins[j].yes \in 1..MaxYes
        BY DEF IInv, TypeOK, Pins
    <2>2. QED BY <1>1, <1>4, <1>6, <2>1 DEF IInv, Tokens, PinsUnused, Covers, Unused
<1>8. HeldUnused' /\ PassShape'
    BY <1>1 DEF HeldUnused, PassShape, NoYes
<1>9. NotYetGiven'
    BY <1>1, <1>2, <1>4, <1>6 DEF IInv, Tokens, NotYetGiven, Unused
<1>10. OneYesRunsOnce'
    BY <1>5, <1>6 DEF IInv, Promises, OneYesRunsOnce
<1>11. RevokedNeverRuns'
    BY <1>1, <1>4, <1>6 DEF IInv, Promises, RevokedNeverRuns, Unused, TypeOK
<1>12. DoneAsApproved'
    BY <1>1, <1>2, <1>4, <1>6 DEF IInv, Promises, DoneAsApproved
<1>13. QED BY <1>7, <1>8, <1>9, <1>10, <1>11, <1>12 DEF Tokens, Promises

-----------------------------------------------------------------------------
LEMMA InitInv == Init => IInv
<1> SUFFICES ASSUME Init PROVE IInv
    OBVIOUS
<1>1. TypeOK
    BY InitTypes
<1>2. Tokens
    BY DEF Init, Tokens, PinsUnused, HeldUnused, NotYetGiven, PassShape, Unused, NoPin,
           Idle, NoYes
<1>3. Promises
    BY DEF Init, Promises, OneYesRunsOnce, RevokedNeverRuns, DoneAsApproved
<1>4. QED BY <1>1, <1>2, <1>3 DEF IInv

LEMMA NextInv == IInv /\ [Next]_vars => IInv'
<1> SUFFICES ASSUME IInv, [Next]_vars PROVE Tokens' /\ Promises'
    BY NextTypes DEF IInv, Tokens
<1>1. TypeOK'
    BY NextTypes DEF IInv, Tokens
<1>2. CASE UNCHANGED vars
    BY <1>2, NothingMoves DEF vars
<1>3. CASE Owner
    <2>1. ASSUME NEW i \in Items, NEW w \in Words, Approve(i, w)
          PROVE  Tokens' /\ Promises'
        <3>1. 0 \in 0..MaxNow /\ (now + Hold <= MaxNow => now + Hold \in 0..MaxNow)
            BY Bounds DEF IInv, TypeOK
        <3>2. CASE Pin(i, w, 0)
            BY <1>1, <3>1, <3>2, PinKeeps
        <3>3. CASE now + Hold <= MaxNow /\ Pin(i, w, now + Hold)
            BY <1>1, <3>1, <3>3, PinKeeps
        <3>4. QED BY <2>1, <3>2, <3>3 DEF Approve
    <2>2. QED BY <1>3, <2>1, ForgetKeeps DEF Owner
<1>4. CASE Agent
    BY <1>4, NothingMoves DEF Agent, AgentWrites
<1>5. CASE Turn
    BY <1>5, NothingMoves DEF Turn, TurnWrites, TurnDies
<1>6. CASE Tick
    BY <1>6, NothingMoves DEF Tick
<1>7. CASE Armer
    BY <1>7, NothingMoves DEF Armer, ArmLists, ArmFails, ArmSets
<1>8. ASSUME NEW t \in 0..MaxNow, Fires(t) PROVE Tokens' /\ Promises'
    <2>1. CASE pass.step = "idle"
        <3>1. pass'.yes = NoYes /\ pass'.marked = {} /\ pass'.step = "judge"
            BY <1>8, <2>1 DEF Fires, Idle
        <3>2. QED BY <1>8, <3>1, PassHoldsNone DEF Fires
    <2>2. CASE pass.step # "idle"
        BY <1>8, <2>2, NothingMoves DEF Fires
    <2>3. QED BY <2>1, <2>2
<1>9. ASSUME NEW t \in 0..MaxNow, NEW a \in Arms, FiresForNothing(t, a)
      PROVE  Tokens' /\ Promises'
    BY <1>9, NothingMoves DEF FiresForNothing
<1>10. ASSUME NEW a \in Arms, OwnerWrites(a) PROVE Tokens' /\ Promises'
    BY <1>10, NothingMoves DEF OwnerWrites
<1>11. ASSUME NEW a \in Arms, Throw(a) \/ Crash(a) \/ Finish(a)
       PROVE  Tokens' /\ Promises'
    <2>1. pass' = Idle /\ UNCHANGED <<pins, given, acts, revoked>>
        BY <1>11 DEF Throw, Crash, Finish
    <2>2. QED BY <2>1, PassHoldsNone DEF Idle
<1>12. CASE Acting
    <2>1. CASE Judge \/ \E i \in Items : Refuse(i) \/ Mark(i) \/ MarkForTurn(i)
                          \/ \E s \in {"done", "failed"} : Settle(i, s)
        <3>1. CASE Items = {}
            BY <1>12, <2>1, <3>1, PassGoesOn DEF Judge, PassShape, IInv, Tokens, TypeOK
        <3>2. CASE Items # {}
            BY <2>1, <3>2, PassSteps
        <3>3. QED BY <3>1, <3>2
    <2>2. QED BY <1>11, <1>12, <2>1, SpendKeepsTokens, StartTurnKeeps, NobodyKeeps, SendKeeps
              DEF Acting
<1>13. QED
    BY <1>2, <1>3, <1>4, <1>5, <1>6, <1>7, <1>8, <1>9, <1>10, <1>11, <1>12 DEF Next, Going

THEOREM Inductive == Spec => []IInv
BY InitInv, NextInv, PTL DEF Spec

\* The queue's state is always of its types: no pass, arm or request ever leaves
\* a file, a pin or a timer that is none.
THEOREM TypesHold == Spec => []TypeOK
BY Inductive, PTL DEF IInv

\* One yes of the owner lets its item be done, or handed to a turn, once.
THEOREM YesIsSpentOnce == Spec => []OneYesRunsOnce
BY Inductive, PTL DEF IInv, Promises

\* A yes taken back before a pass spent it is never acted on.
THEOREM TakenBackIsNeverRun == Spec => []RevokedNeverRuns
BY Inductive, PTL DEF IInv, Promises

\* What the daemon does itself is what the yes it did it under covered.
THEOREM DirectIsAsApproved == Spec => []DoneAsApproved
BY Inductive, PTL DEF IInv, Promises
=============================================================================
