---------------------------- MODULE Delivery_proofs ----------------------------
(***************************************************************************)
(* What delivery promises, for any conversations, lands, moves of the      *)
(* computer and restarts: every land is accounted for, none is sent twice  *)
(* but for a crash between the answer and the queue's write, and the       *)
(* sandbox's copy holds the newest.                                        *)
(***************************************************************************)
EXTENDS Delivery, FiniteSetTheorems, SequenceTheorems, TLAPS

Origins == {"land", "retry"}
Jobs == [conv : Convs, from : Nat, tip : Nat, stamp : Nat, origin : Origins]
Owings == [conv : Convs, from : Nat, tip : Nat, stamp : Nat]
Steps == {"locate", "take", "build", "send", "dequeue", "merge", "enqueue", "record"}
Attempts == [conv : Convs, from : Nat, tip : Nat, stamp : Nat, origin : Origins, step : Steps,
             where : {"none", "ready", "waiting"}, carried : BOOLEAN,
             verdict : {"none", "delivered", "merged", "failed", "waiting"}]
Shipments == [from : Nat, tip : Nat]

Typed ==
    /\ landed \in [Convs -> Nat]
    /\ line \in Seq(Jobs)
    /\ at \in Attempts \cup {Idle}
    /\ queue \in Seq(Owings)
    /\ sent \in [Convs -> Seq(Shipments)]
    /\ told \in [Convs -> SUBSET Nat] /\ lost \in [Convs -> SUBSET Nat]
    /\ crashes \in Nat
    /\ IsFiniteSet(Lands) /\ copy.land \in Nat

\* What an attempt or a wait covers is between lands there were.
Proper(o) == o.from <= o.tip /\ o.tip <= landed[o.conv]

Busy == at # Idle

\* A retry is what waits from its take on; before it, what waited at its check.
Firm == Busy /\ (at.origin = "land" \/ at.step \notin {"locate", "take"})

-----------------------------------------------------------------------------
(* The inductive invariant: lands of a conversation stay in order through  *)
(* the line, the attempt and the queue, and the step of an attempt says    *)
(* whether the queue still has what it carries.                            *)

Ordered ==
    /\ \A i, j \in DOMAIN line :
          i < j /\ line[i].conv = line[j].conv /\ line[i].origin = "land" /\ line[j].origin = "land"
            => line[i].tip <= line[j].from
    /\ \A i \in DOMAIN line, q \in DOMAIN queue :
          line[i].origin = "land" /\ line[i].conv = queue[q].conv => queue[q].tip <= line[i].from
    /\ \A i \in DOMAIN line :
          line[i].origin = "land" /\ Firm /\ line[i].conv = at.conv => at.tip <= line[i].from
    /\ \A q \in DOMAIN queue :
          Busy /\ at.origin = "land" /\ at.step \in {"locate", "take"} /\ queue[q].conv = at.conv
            => queue[q].tip <= at.from

OneEach == \A p, q \in DOMAIN queue : queue[p].conv = queue[q].conv => p = q

Waits(o) == \E q \in DOMAIN queue : queue[q].conv = o.conv /\ queue[q].from = o.from /\ queue[q].tip = o.tip
Absent(o) == \A q \in DOMAIN queue : queue[q].conv # o.conv

QueueAtStep ==
    Busy =>
        /\ at.step = "enqueue" => at.origin = "land"
        /\ at.step = "build" => at.where # "none"
        /\ at.step = "dequeue" => at.verdict # "waiting"
        /\ at.origin = "land" /\ at.step \in {"build", "send", "dequeue", "enqueue"} => Absent(at)
        /\ at.origin = "retry" /\ at.step \in {"build", "send", "dequeue"} => Waits(at)
        /\ at.step = "merge" => Absent(at)
        /\ at.step = "record" => IF at.verdict = "waiting" THEN Waits(at) ELSE Absent(at)

Shape ==
    /\ \A i \in DOMAIN line : Proper(line[i])
    /\ \A q \in DOMAIN queue : Proper(queue[q])
    /\ Busy => Proper(at)
    /\ Ordered /\ OneEach /\ QueueAtStep

\* The land is a fresh one's, in the line or under way, or a retry's that the
\* queue has let go.
Carries(c, k) ==
    \/ \E i \in DOMAIN line : line[i].conv = c /\ line[i].origin = "land" /\ k \in Span(line[i])
    \/ Busy /\ at.conv = c /\ k \in Span(at) /\ (at.origin = "land" \/ at.step \in {"merge", "record"})

InQueue(c, k) == \E q \in DOMAIN queue : queue[q].conv = c /\ k \in Span(queue[q])

Accounted ==
    \A c \in Convs : \A k \in 1 .. landed[c] :
        k \in told[c] \/ k \in lost[c] \/ InQueue(c, k) \/ Carries(c, k)

IInv == Typed /\ Shape /\ Accounted
-----------------------------------------------------------------------------
(* Facts the steps share. *)

\* A land taken out of the queue, and nothing else.
LEMMA QueueWithout ==
    ASSUME queue \in Seq(Owings), OneEach, NEW c \in Convs
    PROVE  /\ WithoutLand(c) \in Seq(Owings)
           /\ \A i \in DOMAIN WithoutLand(c) :
                 WithoutLand(c)[i].conv # c /\ \E q \in DOMAIN queue : WithoutLand(c)[i] = queue[q]
           /\ \A q \in DOMAIN queue :
                 queue[q].conv # c => \E i \in DOMAIN WithoutLand(c) : WithoutLand(c)[i] = queue[q]
           /\ \A i, j \in DOMAIN WithoutLand(c) :
                 WithoutLand(c)[i].conv = WithoutLand(c)[j].conv => i = j
<1>1. CASE Queued(c) = {}
    <2>1. \A q \in DOMAIN queue : queue[q].conv # c
        BY <1>1 DEF Queued
    <2>2. WithoutLand(c) = queue
        BY <1>1 DEF WithoutLand
    <2>3. QED BY <2>1, <2>2 DEF OneEach
<1>2. CASE Queued(c) # {}
    <2> DEFINE m == CHOOSE i \in Queued(c) : TRUE
    <2>1. m \in Queued(c)
        BY <1>2
    <2>2. m \in 1..Len(queue) /\ queue[m].conv = c /\ Len(queue) \in Nat
        BY <2>1 DEF Queued
    <2>3. WithoutLand(c) = SubSeq(queue, 1, m - 1) \o SubSeq(queue, m + 1, Len(queue))
        BY <1>2 DEF WithoutLand, RemoveAt
    <2> HIDE DEF m
    <2> DEFINE A == SubSeq(queue, 1, m - 1)
               B == SubSeq(queue, m + 1, Len(queue))
    <2>4. A \in Seq(Owings) /\ Len(A) = m - 1 /\ \A i \in 1..m - 1 : A[i] = queue[i]
        BY <2>2, SubSeqProperties
    <2>5. /\ B \in Seq(Owings) /\ Len(B) = Len(queue) - m
          /\ \A i \in 1..Len(queue) - m : B[i] = queue[m + i]
        BY <2>2, SubSeqProperties
    <2> HIDE DEF A, B
    <2>6. /\ A \o B \in Seq(Owings) /\ Len(A \o B) = Len(queue) - 1
          /\ \A i \in 1..Len(queue) - 1 : (A \o B)[i] = IF i < m THEN queue[i] ELSE queue[i + 1]
        <3>1. /\ A \o B \in Seq(Owings) /\ Len(A \o B) = Len(A) + Len(B)
              /\ \A i \in 1..Len(A) + Len(B) : (A \o B)[i] = IF i <= Len(A) THEN A[i] ELSE B[i - Len(A)]
            BY <2>4, <2>5, ConcatProperties
        <3>2. Len(A) + Len(B) = Len(queue) - 1
            BY <2>2, <2>4, <2>5
        <3>3. ASSUME NEW i \in 1..Len(queue) - 1
              PROVE  (A \o B)[i] = IF i < m THEN queue[i] ELSE queue[i + 1]
            <4>1. CASE i < m
                BY <2>2, <2>4, <3>1, <3>2, <4>1
            <4>2. CASE i >= m
                <5>1. i - Len(A) \in 1..Len(queue) - m /\ m + (i - Len(A)) = i + 1
                    BY <2>2, <2>4, <4>2
                <5>2. (A \o B)[i] = B[i - Len(A)]
                    BY <2>2, <2>4, <3>1, <3>2, <4>2
                <5>3. B[i - Len(A)] = queue[m + (i - Len(A))]
                    BY <2>5, <5>1
                <5>4. QED BY <2>2, <4>2, <5>1, <5>2, <5>3
            <4>3. i < m \/ i >= m
                BY <2>2
            <4>4. QED BY <4>1, <4>2, <4>3
        <3>4. QED BY <3>1, <3>2, <3>3
    <2> DEFINE W == WithoutLand(c)
    <2>7. W = A \o B
        BY <2>3 DEF A, B
    <2>8. /\ W \in Seq(Owings) /\ DOMAIN W = 1..Len(queue) - 1
          /\ \A i \in 1..Len(queue) - 1 : W[i] = IF i < m THEN queue[i] ELSE queue[i + 1]
        BY <2>6, <2>7
    <2> HIDE DEF W
    <2>9. \A q \in 1..Len(queue) : queue[q].conv = c => q = m
        BY <2>2 DEF OneEach
    <2>10. \A i \in DOMAIN W : W[i].conv # c /\ \E q \in DOMAIN queue : W[i] = queue[q]
        BY <2>2, <2>8, <2>9
    <2>11. ASSUME NEW q \in DOMAIN queue, queue[q].conv # c
           PROVE  \E i \in DOMAIN W : W[i] = queue[q]
        <3>1. q # m /\ q \in 1..Len(queue)
            BY <2>2, <2>11
        <3>2. CASE q < m
            BY <2>2, <2>8, <3>1, <3>2
        <3>3. CASE q > m
            <4>1. q - 1 \in DOMAIN W /\ W[q - 1] = queue[q]
                BY <2>2, <2>8, <3>1, <3>3
            <4>2. QED BY <4>1
        <3>4. QED BY <2>2, <3>1, <3>2, <3>3
    <2>12. \A i, j \in DOMAIN W : W[i].conv = W[j].conv => i = j
        <3> SUFFICES ASSUME NEW i \in DOMAIN W, NEW j \in DOMAIN W, W[i].conv = W[j].conv
                     PROVE  i = j
            OBVIOUS
        <3> DEFINE place(n) == IF n < m THEN n ELSE n + 1
        <3>1. \A n \in DOMAIN W : place(n) \in DOMAIN queue /\ W[n] = queue[place(n)]
            BY <2>2, <2>8
        <3>2. place(i) = place(j)
            BY <3>1 DEF OneEach
        <3>3. i \in Nat /\ j \in Nat /\ m \in Nat
            BY <2>2, <2>8
        <3>4. QED BY <3>2, <3>3
    <2>13. QED BY <2>8, <2>10, <2>11, <2>12 DEF W
<1>3. QED BY <1>1, <1>2

\* What waits of a conversation is one entry.
LEMMA TheWaiting ==
    ASSUME queue \in Seq(Owings), OneEach, NEW c \in Convs, NEW q \in DOMAIN queue, queue[q].conv = c
    PROVE  Queued(c) # {} /\ Waiting(c) = queue[q]
BY DEF Queued, Waiting, OneEach

LEMMA NothingWaits ==
    ASSUME NEW c
    PROVE  Queued(c) = {} <=> \A q \in DOMAIN queue : queue[q].conv # c
BY DEF Queued

-----------------------------------------------------------------------------
(* The steps. *)

LEMMA InitHolds == Init => IInv
<1> SUFFICES ASSUME Init PROVE IInv OBVIOUS
<1>1. Lands = {}
    BY DEF Init, Lands
<1>2. Typed
    BY <1>1, FS_EmptySet DEF Init, Typed, Idle
<1>3. Shape /\ Accounted
    BY DEF Init, Shape, Proper, Ordered, OneEach, QueueAtStep, Accounted, Busy, Firm, Idle
<1>4. QED BY <1>2, <1>3 DEF IInv

\* Each land is one more, numbered after its conversation's last.
LEMMA OneMoreLand ==
    ASSUME Typed, NEW c \in Convs, landed' = [landed EXCEPT ![c] = @ + 1]
    PROVE  Lands' = Lands \cup {<<c, landed[c] + 1>>} /\ <<c, landed[c] + 1>> \notin Lands
<1> USE DEF Typed
<1>1. \A d \in Convs : \A k : <<d, k>> \in Lands <=> k \in 1 .. landed[d]
    BY DEF Lands
<1>2. \A d \in Convs : \A k : <<d, k>> \in Lands' <=> k \in 1 .. landed'[d]
    BY DEF Lands
<1>3. \A d \in Convs : landed'[d] = IF d = c THEN landed[c] + 1 ELSE landed[d]
    OBVIOUS
<1>4. \A x \in Lands \cup Lands' : \E d \in Convs, k \in Nat : x = <<d, k>>
    BY DEF Lands
<1>5. ASSUME NEW d \in Convs, NEW k \in Nat
      PROVE  <<d, k>> \in Lands' <=> <<d, k>> \in Lands \cup {<<c, landed[c] + 1>>}
    <2>1. landed[c] \in Nat /\ landed[d] \in Nat
        OBVIOUS
    <2>2. k \in 1 .. landed'[d] <=> k \in 1 .. landed[d] \/ (d = c /\ k = landed[c] + 1)
        BY <1>3, <2>1
    <2>3. <<d, k>> = <<c, landed[c] + 1>> <=> d = c /\ k = landed[c] + 1
        OBVIOUS
    <2>4. QED BY <1>1, <1>2, <2>2, <2>3
<1>6. QED BY <1>1, <1>4, <1>5

\* A fresh land is the conversation's newest, and joins the line behind the others.
LEMMA LandHolds ==
    ASSUME IInv, NEW c \in Convs, Land(c)
    PROVE  IInv'
<1> USE DEF IInv
<1> DEFINE job == [conv |-> c, from |-> landed[c], tip |-> landed[c] + 1, stamp |-> Stamp,
                   origin |-> "land"]
<1>1. /\ landed' = [landed EXCEPT ![c] = @ + 1] /\ line' = Append(line, job)
      /\ copy' = [land |-> Stamp, merged |-> FALSE]
      /\ UNCHANGED <<at, queue, sent, told, lost, crashes>>
    BY DEF Land, Books, Histories
<1>2. landed[c] \in Nat /\ Stamp \in Nat
    BY FS_CardinalityType DEF Stamp, Typed
<1>3. IsFiniteSet(Lands')
    <2>1. Lands' = Lands \cup {<<c, landed[c] + 1>>} /\ IsFiniteSet(Lands)
        BY <1>1, OneMoreLand DEF Typed
    <2>2. QED BY <2>1, FS_AddElement
<1>4. job \in Jobs
    BY <1>2 DEF Jobs, Origins
<1> HIDE DEF job
<1>5. Typed'
    BY <1>1, <1>2, <1>3, <1>4 DEF Typed
<1>6. /\ Len(line) \in Nat /\ DOMAIN line = 1..Len(line)
      /\ DOMAIN line' = 1..Len(line) + 1 /\ line'[Len(line) + 1] = job
      /\ \A i \in DOMAIN line : line'[i] = line[i]
    BY <1>1, <1>4 DEF Typed
<1>7. \A d \in Convs : landed'[d] \in Nat /\ landed[d] \in Nat
                         /\ landed'[d] = IF d = c THEN landed[c] + 1 ELSE landed[d]
    BY <1>1 DEF Typed
<1>8. /\ \A i \in DOMAIN line : line[i] \in Jobs
      /\ \A q \in DOMAIN queue : queue[q] \in Owings
      /\ Busy => at \in Attempts
    BY DEF Typed, Busy
<1>9. /\ \A i \in DOMAIN line : Proper(line[i])
      /\ \A q \in DOMAIN queue : Proper(queue[q])
      /\ Busy => Proper(at)
    BY DEF Shape
<1>10. job.conv = c /\ job.from = landed[c] /\ job.tip = landed[c] + 1 /\ job.origin = "land"
    BY DEF job
<1>11. /\ (\A i \in DOMAIN line : Proper(line[i]))'
       /\ (\A q \in DOMAIN queue : Proper(queue[q]))'
       /\ (Busy => Proper(at))'
    <2>1. (\A i \in DOMAIN line : Proper(line[i]))'
        BY <1>1, <1>6, <1>7, <1>8, <1>10, <1>9 DEF Proper, Jobs
    <2>2. (\A q \in DOMAIN queue : Proper(queue[q]))'
        BY <1>1, <1>7, <1>8, <1>9 DEF Proper, Owings
    <2>3. (Busy => Proper(at))'
        BY <1>1, <1>7, <1>8, <1>9 DEF Proper, Attempts, Busy
    <2>4. QED BY <2>1, <2>2, <2>3
<1>12. Ordered'
    <2>1. \A i \in DOMAIN line : line[i].conv = c => line[i].tip <= landed[c]
        BY <1>8 DEF Shape, Proper, Jobs
    <2>2. \A q \in DOMAIN queue : queue[q].conv = c => queue[q].tip <= landed[c]
        BY <1>8 DEF Shape, Proper, Owings
    <2>3. Busy /\ at.conv = c => at.tip <= landed[c]
        BY <1>8 DEF Shape, Proper
    <2>4. QED BY <1>1, <1>6, <1>10, <2>1, <2>2, <2>3 DEF Shape, Ordered, Firm, Busy
<1>13. OneEach' /\ QueueAtStep'
    BY <1>1 DEF Shape, OneEach, QueueAtStep, Busy, Absent, Waits
<1>14. Accounted'
    <2> SUFFICES ASSUME NEW d \in Convs, NEW k \in 1 .. landed'[d]
                 PROVE  (k \in told[d] \/ k \in lost[d] \/ InQueue(d, k) \/ Carries(d, k))'
        BY DEF Accounted
    <2>1. CASE k \in 1 .. landed[d]
        <3>1. InQueue(d, k) => InQueue(d, k)'
            BY <1>1 DEF InQueue, Span
        <3>2. Carries(d, k) => Carries(d, k)'
            BY <1>1, <1>6 DEF Carries, Busy, Span
        <3>3. QED BY <1>1, <2>1, <3>1, <3>2 DEF Accounted
    <2>2. CASE d = c /\ k = landed[c] + 1
        <3>1. k \in Span(job)
            BY <1>2, <1>10, <2>2 DEF Span
        <3>2. QED BY <1>6, <1>10, <2>2, <3>1 DEF Carries
    <2>3. QED BY <1>7, <2>1, <2>2
<1>15. QED BY <1>5, <1>11, <1>12, <1>13, <1>14 DEF Shape

\* What reads of a state are the same where the lands, the line, the attempt and the
\* queue are.
LEMMA ElsewhereHolds ==
    ASSUME IInv, UNCHANGED <<landed, copy, line, at, queue, sent, told, lost, crashes>>
    PROVE  IInv'
BY DEF IInv, Typed, Lands, Shape, Proper, Ordered, OneEach, QueueAtStep, Accounted, Busy, Firm, Idle,
       Waits, Absent, InQueue, Carries, Span

\* What one sequence behind another holds.
LEMMA OneBehindOther ==
    ASSUME NEW S, NEW s \in Seq(S), NEW t \in Seq(S)
    PROVE  /\ s \o t \in Seq(S) /\ DOMAIN s \subseteq DOMAIN (s \o t)
           /\ \A i \in DOMAIN s : (s \o t)[i] = s[i]
           /\ \A i \in DOMAIN (s \o t) \ DOMAIN s : \E j \in DOMAIN t : (s \o t)[i] = t[j]
<1> DEFINE u == s \o t
<1>1. /\ u \in Seq(S) /\ Len(u) = Len(s) + Len(t)
      /\ \A i \in 1 .. Len(s) + Len(t) : u[i] = IF i <= Len(s) THEN s[i] ELSE t[i - Len(s)]
    BY ConcatProperties
<1> HIDE DEF u
<1>2. /\ Len(s) \in Nat /\ Len(t) \in Nat /\ DOMAIN s = 1 .. Len(s) /\ DOMAIN t = 1 .. Len(t)
      /\ DOMAIN u = 1 .. Len(s) + Len(t)
    BY <1>1
<1>3. \A i \in DOMAIN s : u[i] = s[i]
    BY <1>1, <1>2
<1>4. ASSUME NEW i \in DOMAIN u \ DOMAIN s
      PROVE  \E j \in DOMAIN t : u[i] = t[j]
    <2>1. i - Len(s) \in DOMAIN t /\ ~(i <= Len(s)) /\ i \in 1 .. Len(s) + Len(t)
        BY <1>2
    <2>2. u[i] = t[i - Len(s)]
        BY <1>1, <2>1
    <2>3. QED BY <2>1, <2>2
<1>5. QED BY <1>1, <1>2, <1>3, <1>4 DEF u

\* A round of retries goes behind whatever stands in the line.
LEMMA CheckHolds ==
    ASSUME IInv, Check
    PROVE  IInv'
<1> USE DEF IInv
<1> DEFINE round == [i \in DOMAIN queue |-> [conv |-> queue[i].conv, from |-> queue[i].from,
                                             tip |-> queue[i].tip, stamp |-> queue[i].stamp,
                                             origin |-> "retry"]]
<1>1. /\ line' = line \o round
      /\ UNCHANGED <<landed, copy, at, queue, sent, told, lost, crashes>>
    BY DEF Check, World, Books, Histories
<1>2. /\ queue \in Seq(Owings) /\ line \in Seq(Jobs) /\ DOMAIN queue = 1..Len(queue)
      /\ \A q \in DOMAIN queue : queue[q] \in Owings
    BY DEF Typed
<1>3. ASSUME NEW q \in DOMAIN queue
      PROVE  round[q] \in Jobs
    BY <1>2 DEF Owings, Jobs, Origins
<1>4. /\ round \in Seq(Jobs) /\ DOMAIN round = DOMAIN queue
      /\ \A q \in DOMAIN queue : /\ round[q].origin = "retry" /\ round[q].conv = queue[q].conv
                                 /\ round[q].from = queue[q].from /\ round[q].tip = queue[q].tip
    BY <1>2, <1>3
<1> HIDE DEF round
<1>5. /\ line' \in Seq(Jobs) /\ DOMAIN line \subseteq DOMAIN line'
      /\ \A i \in DOMAIN line : line'[i] = line[i]
      /\ \A i \in DOMAIN line' \ DOMAIN line : \E q \in DOMAIN queue : line'[i] = round[q]
    <2>1. line \in Seq(Jobs) /\ round \in Seq(Jobs)
        BY <1>2, <1>4
    <2>2. /\ line \o round \in Seq(Jobs) /\ DOMAIN line \subseteq DOMAIN (line \o round)
          /\ \A i \in DOMAIN line : (line \o round)[i] = line[i]
          /\ \A i \in DOMAIN (line \o round) \ DOMAIN line :
                \E q \in DOMAIN round : (line \o round)[i] = round[q]
        BY <2>1, OneBehindOther
    <2>3. QED BY <1>1, <1>4, <2>2
<1>6. Typed'
    BY <1>1, <1>5 DEF Typed, Lands
<1>7. \A i \in DOMAIN line' : line'[i].origin = "land" => i \in DOMAIN line /\ line'[i] = line[i]
    BY <1>4, <1>5
<1>8. (\A i \in DOMAIN line : Proper(line[i]))'
    <2>1. \A i \in DOMAIN line : Proper(line[i])
        BY DEF Shape
    <2>2. \A q \in DOMAIN queue : Proper(round[q])
        BY <1>4 DEF Shape, Proper
    <2>3. \A i \in DOMAIN line' : Proper(line'[i])
        BY <1>5, <2>1, <2>2
    <2>4. QED BY <1>1, <2>3 DEF Proper
<1>9. Ordered'
    <2>1. Ordered /\ UNCHANGED <<at, queue>> /\ DOMAIN line \subseteq DOMAIN line'
        BY <1>1, <1>5 DEF Shape
    <2>2. (\A i, j \in DOMAIN line :
              i < j /\ line[i].conv = line[j].conv /\ line[i].origin = "land" /\ line[j].origin = "land"
                => line[i].tip <= line[j].from)'
        BY <1>7, <2>1 DEF Ordered
    <2>3. (\A i \in DOMAIN line, q \in DOMAIN queue :
              line[i].origin = "land" /\ line[i].conv = queue[q].conv => queue[q].tip <= line[i].from)'
        BY <1>7, <2>1 DEF Ordered
    <2>4. (\A i \in DOMAIN line :
              line[i].origin = "land" /\ Firm /\ line[i].conv = at.conv => at.tip <= line[i].from)'
        BY <1>7, <2>1 DEF Ordered, Firm, Busy
    <2>5. (\A q \in DOMAIN queue :
              Busy /\ at.origin = "land" /\ at.step \in {"locate", "take"} /\ queue[q].conv = at.conv
                => queue[q].tip <= at.from)'
        BY <2>1 DEF Ordered, Busy
    <2>6. QED BY <2>2, <2>3, <2>4, <2>5 DEF Ordered
<1>10. Shape'
    BY <1>1, <1>8, <1>9 DEF Shape, Proper, OneEach, QueueAtStep, Busy, Absent, Waits
<1>11. Accounted'
    <2>1. \A c \in Convs, k \in Nat : Carries(c, k) => Carries(c, k)'
        BY <1>1, <1>5 DEF Carries, Busy, Span
    <2>2. QED BY <1>1, <2>1 DEF Accounted, InQueue, Typed
<1>12. QED BY <1>6, <1>10, <1>11

\* The first of the line is under way, or a retry of what is not owed any more is over.
LEMMA BeginHolds ==
    ASSUME IInv, Begin
    PROVE  IInv'
<1> USE DEF IInv
<1>1. /\ at = Idle /\ line # <<>> /\ line' = Tail(line)
      /\ UNCHANGED <<landed, copy, queue, sent, told, lost, crashes>>
    BY DEF Begin, World, Books, Histories
<1>2. line \in Seq(Jobs) /\ Head(line) = line[1] /\ line[1] \in Jobs /\ Len(line) \in Nat \ {0}
    BY <1>1 DEF Typed
<1>3. /\ line' \in Seq(Jobs) /\ DOMAIN line = 1 .. Len(line) /\ DOMAIN line' = 1 .. Len(line) - 1
      /\ \A i \in DOMAIN line' : i + 1 \in DOMAIN line /\ line'[i] = line[i + 1]
      /\ \A i \in DOMAIN line : i = 1 \/ (i - 1 \in DOMAIN line' /\ line'[i - 1] = line[i])
    BY <1>1, <1>2
<1>4. \/ at' = Idle /\ line[1].origin = "retry"
      \/ /\ at' \in Attempts /\ at'.step = "locate"
         /\ at'.conv = line[1].conv /\ at'.from = line[1].from /\ at'.tip = line[1].tip
         /\ at'.origin = line[1].origin
    BY <1>2 DEF Begin, Attempts, Steps, Jobs, Origins
<1>5. Typed'
    BY <1>1, <1>3, <1>4 DEF Typed, Lands
<1>6. at' # Idle => at' \in Attempts
    BY <1>4
<1>7. (\A i \in DOMAIN line : Proper(line[i]))' /\ (Busy => Proper(at))'
    BY <1>1, <1>2, <1>3, <1>4 DEF Shape, Proper, Busy
<1>8. Ordered'
    <2>1. \A i \in DOMAIN line' : line[1].conv = line'[i].conv /\ line[1].origin = "land"
             /\ line'[i].origin = "land" => line[1].tip <= line'[i].from
        <3>1. \A i \in DOMAIN line' : i + 1 \in DOMAIN line /\ 1 \in DOMAIN line /\ 1 < i + 1
            BY <1>2, <1>3
        <3>2. QED BY <1>3, <3>1 DEF Shape, Ordered
    <2>2. (\A i, j \in DOMAIN line :
              i < j /\ line[i].conv = line[j].conv /\ line[i].origin = "land" /\ line[j].origin = "land"
                => line[i].tip <= line[j].from)'
        BY <1>2, <1>3 DEF Shape, Ordered
    <2>3. (\A i \in DOMAIN line, q \in DOMAIN queue :
              line[i].origin = "land" /\ line[i].conv = queue[q].conv => queue[q].tip <= line[i].from)'
        BY <1>1, <1>2, <1>3 DEF Shape, Ordered
    <2>4. (\A q \in DOMAIN queue :
              Busy /\ at.origin = "land" /\ at.step \in {"locate", "take"} /\ queue[q].conv = at.conv
                => queue[q].tip <= at.from)'
        BY <1>1, <1>2, <1>3, <1>4 DEF Shape, Ordered, Busy
    <2>5. (\A i \in DOMAIN line :
              line[i].origin = "land" /\ Firm /\ line[i].conv = at.conv => at.tip <= line[i].from)'
        BY <1>4, <2>1 DEF Firm, Busy
    <2>6. QED BY <2>2, <2>3, <2>4, <2>5 DEF Ordered
<1>9. QueueAtStep'
    BY <1>4 DEF QueueAtStep, Busy
<1>10. Accounted'
    <2>1. \A c \in Convs, k \in Nat : Carries(c, k) => Carries(c, k)'
        <3> SUFFICES ASSUME NEW c \in Convs, NEW k \in Nat, NEW i \in DOMAIN line,
                            line[i].conv = c, line[i].origin = "land", k \in Span(line[i])
                     PROVE  Carries(c, k)'
            BY <1>1 DEF Carries, Busy
        <3>1. CASE i = 1
            BY <1>4, <3>1 DEF Carries, Busy, Span, Attempts, Idle
        <3>2. CASE i # 1
            BY <1>3, <3>2 DEF Carries
        <3>3. QED BY <3>1, <3>2
    <2>2. QED BY <1>1, <2>1 DEF Accounted, InQueue, Typed
<1>11. QED BY <1>1, <1>5, <1>7, <1>8, <1>9, <1>10 DEF Shape, Proper, OneEach

\* An attempt that goes on with the line and the queue as they are.
LEMMA AttemptGoesOn ==
    ASSUME IInv, Busy, at' \in Attempts, at'.conv = at.conv, at'.from = at.from, at'.tip = at.tip,
           at'.origin = at.origin,
           at'.step \in {"locate", "take"} <=> at.step \in {"locate", "take"},
           at.step \in {"merge", "record"} => at'.step \in {"merge", "record"},
           UNCHANGED <<landed, copy, line, queue, sent, told, lost, crashes>>,
           QueueAtStep'
    PROVE  IInv'
<1> USE DEF IInv
<1>1. Busy'
    BY DEF Busy, Idle, Attempts
<1>2. Typed'
    BY DEF Typed, Lands
<1>3. Firm' <=> Firm
    BY <1>1 DEF Firm
<1>4. Shape'
    BY <1>1, <1>3 DEF Shape, Proper, Ordered, OneEach, Busy
<1>5. \A c \in Convs, k \in Nat : Carries(c, k) => Carries(c, k)'
    BY <1>1 DEF Carries, Span
<1>6. QED BY <1>2, <1>4, <1>5 DEF Accounted, InQueue, Typed

LEMMA LocateHolds ==
    ASSUME IInv, Locate
    PROVE  IInv'
<1>1. Busy /\ at \in Attempts /\ at.step = "locate"
    BY DEF IInv, Typed, Locate, Busy, Idle
<1>2. PICK w \in {"none", "ready", "waiting"} : at' = [at EXCEPT !.where = w, !.step = "take"]
    BY DEF Locate
<1>3. at' \in Attempts /\ at'.step = "take" /\ at'.conv = at.conv /\ at'.from = at.from
      /\ at'.tip = at.tip /\ at'.origin = at.origin
    BY <1>1, <1>2 DEF Attempts, Steps
<1>4. UNCHANGED <<landed, copy, line, queue, sent, told, lost, crashes>>
    BY DEF Locate, World, Histories
<1>5. QueueAtStep'
    BY <1>3 DEF QueueAtStep
<1>6. QED BY <1>1, <1>3, <1>4, <1>5, AttemptGoesOn

\* An attempt past its take leaves the order of things as it is: what it waits for
\* or queues is what was in the queue, or what it carried.
LEMMA AttemptSteps ==
    ASSUME IInv, Busy, Typed', UNCHANGED <<landed, line>>, OneEach', QueueAtStep',
           \A q \in DOMAIN queue' :
              \/ \E p \in DOMAIN queue : queue'[q] = queue[p]
              \/ Firm /\ queue'[q].conv = at.conv /\ queue'[q].from = at.from /\ queue'[q].tip = at.tip,
           at' # Idle =>
              /\ at'.step \notin {"locate", "take"} /\ at'.conv = at.conv /\ Proper(at')
              /\ \/ Firm /\ at'.tip = at.tip
                 \/ \E p \in DOMAIN queue : queue[p].conv = at.conv /\ queue[p].tip = at'.tip,
           \A c \in Convs, k \in Nat :
              k \in told[c] \/ k \in lost[c] \/ InQueue(c, k) \/ Carries(c, k)
                => (k \in told[c] \/ k \in lost[c] \/ InQueue(c, k) \/ Carries(c, k))'
    PROVE  IInv'
<1> USE DEF IInv
<1>1. Ordered /\ DOMAIN line' = DOMAIN line
    BY DEF Shape
<1>2. (\A i \in DOMAIN line : Proper(line[i]))'
    BY DEF Shape, Proper
<1>3. (\A q \in DOMAIN queue : Proper(queue[q]))'
    <2> SUFFICES ASSUME NEW q \in DOMAIN queue'
                 PROVE  queue'[q].from <= queue'[q].tip /\ queue'[q].tip <= landed[queue'[q].conv]
        BY DEF Proper
    <2>1. CASE \E p \in DOMAIN queue : queue'[q] = queue[p]
        BY <2>1 DEF Shape, Proper
    <2>2. CASE Firm /\ queue'[q].conv = at.conv /\ queue'[q].from = at.from /\ queue'[q].tip = at.tip
        BY <2>2 DEF Shape, Proper
    <2>3. QED BY <2>1, <2>2
<1>4. (Busy => Proper(at))'
    BY DEF Busy, Proper
<1>5. Ordered'
    <2>1. (\A i, j \in DOMAIN line :
              i < j /\ line[i].conv = line[j].conv /\ line[i].origin = "land" /\ line[j].origin = "land"
                => line[i].tip <= line[j].from)'
        BY <1>1 DEF Ordered
    <2>2. (\A i \in DOMAIN line, q \in DOMAIN queue :
              line[i].origin = "land" /\ line[i].conv = queue[q].conv => queue[q].tip <= line[i].from)'
        BY <1>1 DEF Ordered
    <2>3. (\A i \in DOMAIN line :
              line[i].origin = "land" /\ Firm /\ line[i].conv = at.conv => at.tip <= line[i].from)'
        BY <1>1 DEF Ordered, Firm, Busy
    <2>4. (\A q \in DOMAIN queue :
              Busy /\ at.origin = "land" /\ at.step \in {"locate", "take"} /\ queue[q].conv = at.conv
                => queue[q].tip <= at.from)'
        BY DEF Busy
    <2>5. QED BY <2>1, <2>2, <2>3, <2>4 DEF Ordered
<1>6. Accounted'
    BY DEF Accounted, Typed
<1>7. QED BY <1>2, <1>3, <1>4, <1>5, <1>6 DEF Shape

\* A fresh land takes over what waited, from where that began; a retry is what waits.
LEMMA WhatIsOwed ==
    ASSUME IInv, Busy, at.step = "take"
    PROVE  /\ at \in Attempts
           /\ Absent(at) /\ at.origin = "land" => Owed = at
           /\ ~Absent(at) \/ at.origin = "land" =>
                /\ Owed \in Attempts
                /\ Owed.conv = at.conv /\ Owed.origin = at.origin /\ Owed.step = "take"
                /\ Owed.where = at.where /\ Owed.verdict = at.verdict /\ Proper(Owed)
                /\ at.origin = "land" => Owed.tip = at.tip /\ Owed.from <= at.from
           /\ ~Absent(at) => /\ Owed.carried
                             /\ \E q \in DOMAIN queue :
                                   /\ queue[q].conv = at.conv /\ queue[q].from = Owed.from
                                   /\ queue[q].tip <= Owed.tip
                                   /\ at.origin = "retry" => queue[q].tip = Owed.tip
<1> USE DEF IInv
<1>1. at \in Attempts
    BY DEF Typed, Busy
<1>2. CASE Absent(at)
    <2>1. Queued(at.conv) = {}
        BY <1>2 DEF Absent, Queued
    <2>2. at.origin = "land" => Owed = at
        BY <2>1 DEF Owed
    <2>3. Proper(at)
        BY DEF Shape
    <2>4. QED BY <1>1, <1>2, <2>2, <2>3 DEF Attempts
<1>3. CASE ~Absent(at)
    <2>1. PICK q \in DOMAIN queue : queue[q].conv = at.conv
        BY <1>3 DEF Absent
    <2>2. queue \in Seq(Owings) /\ OneEach /\ at.conv \in Convs /\ queue[q] \in Owings
        BY <1>1, <2>1 DEF Typed, Shape, Attempts
    <2>3. Queued(at.conv) # {} /\ Waiting(at.conv) = queue[q]
        BY <2>1, <2>2, TheWaiting
    <2>4. at.origin = "land" => queue[q].tip <= at.from
        BY <1>1, <2>1 DEF Shape, Ordered
    <2>5. Proper(queue[q]) /\ Proper(at)
        BY <2>1 DEF Shape
    <2>6. CASE at.origin = "land"
        <3>1. Owed = [at EXCEPT !.from = queue[q].from, !.carried = TRUE]
            BY <2>3, <2>6 DEF Owed
        <3>2. /\ Owed \in Attempts /\ Owed.conv = at.conv /\ Owed.origin = at.origin
              /\ Owed.step = "take" /\ Owed.where = at.where /\ Owed.verdict = at.verdict
              /\ Owed.from = queue[q].from /\ Owed.tip = at.tip /\ Owed.carried
            BY <1>1, <2>2, <3>1 DEF Attempts, Owings
        <3>3. queue[q].from <= at.from /\ queue[q].tip <= at.tip /\ queue[q].from <= at.tip
            BY <1>1, <2>2, <2>4, <2>5, <2>6 DEF Proper, Attempts, Owings
        <3>4. QED BY <1>1, <1>3, <2>1, <2>5, <2>6, <3>2, <3>3 DEF Proper
    <2>7. CASE at.origin = "retry"
        <3>1. Owed = [at EXCEPT !.from = queue[q].from, !.tip = queue[q].tip, !.stamp = queue[q].stamp,
                                !.carried = TRUE]
            BY <2>3, <2>7 DEF Owed
        <3>2. /\ Owed \in Attempts /\ Owed.conv = at.conv /\ Owed.origin = at.origin
              /\ Owed.step = "take" /\ Owed.where = at.where /\ Owed.verdict = at.verdict
              /\ Owed.from = queue[q].from /\ Owed.tip = queue[q].tip /\ Owed.carried
            BY <1>1, <2>2, <3>1 DEF Attempts, Owings
        <3>3. Proper(Owed) /\ queue[q].tip <= Owed.tip
            BY <2>1, <2>2, <2>5, <3>2 DEF Proper, Owings
        <3>4. at.origin # "land"
            BY <2>7
        <3>5. \E p \in DOMAIN queue :
                 /\ queue[p].conv = at.conv /\ queue[p].from = Owed.from /\ queue[p].tip <= Owed.tip
                 /\ at.origin = "retry" => queue[p].tip = Owed.tip
            BY <2>1, <3>2, <3>3
        <3>6. QED BY <1>1, <1>3, <3>2, <3>3, <3>4, <3>5
    <2>8. QED BY <1>1, <2>6, <2>7 DEF Attempts, Origins
<1>4. QED BY <1>2, <1>3

\* The queue once a conversation's land is out of it.
LEMMA QueueLetsGo ==
    ASSUME IInv, NEW c \in Convs, queue' = WithoutLand(c)
    PROVE  /\ queue' \in Seq(Owings) /\ OneEach'
           /\ \A q \in DOMAIN queue' : queue'[q].conv # c /\ \E p \in DOMAIN queue : queue'[q] = queue[p]
           /\ \A d \in Convs \ {c}, k \in Nat : InQueue(d, k) => InQueue(d, k)'
<1>1. queue \in Seq(Owings) /\ OneEach
    BY DEF IInv, Typed, Shape
<1>2. /\ WithoutLand(c) \in Seq(Owings)
      /\ \A i \in DOMAIN WithoutLand(c) :
            WithoutLand(c)[i].conv # c /\ \E q \in DOMAIN queue : WithoutLand(c)[i] = queue[q]
      /\ \A q \in DOMAIN queue :
            queue[q].conv # c => \E i \in DOMAIN WithoutLand(c) : WithoutLand(c)[i] = queue[q]
      /\ \A i, j \in DOMAIN WithoutLand(c) :
            WithoutLand(c)[i].conv = WithoutLand(c)[j].conv => i = j
    BY <1>1, QueueWithout
<1>3. /\ queue' \in Seq(Owings)
      /\ \A q \in DOMAIN queue' : queue'[q].conv # c /\ \E p \in DOMAIN queue : queue'[q] = queue[p]
      /\ \A q \in DOMAIN queue : queue[q].conv # c => \E i \in DOMAIN queue' : queue'[i] = queue[q]
      /\ \A i, j \in DOMAIN queue' : queue'[i].conv = queue'[j].conv => i = j
    BY <1>2
<1>4. ASSUME NEW d \in Convs \ {c}, NEW k \in Nat, InQueue(d, k)
      PROVE  InQueue(d, k)'
    <2>1. PICK q \in DOMAIN queue : queue[q].conv = d /\ k \in Span(queue[q])
        BY <1>4 DEF InQueue
    <2>2. PICK i \in DOMAIN queue' : queue'[i] = queue[q]
        BY <1>3, <2>1
    <2>3. QED BY <2>1, <2>2 DEF InQueue, Span
<1>5. QED BY <1>3, <1>4 DEF OneEach

\* A conversation's one entry of the queue is all that it is owed there.
LEMMA OwedOnDisk ==
    ASSUME IInv, NEW c \in Convs, NEW k \in Nat, InQueue(c, k),
           NEW q \in DOMAIN queue, queue[q].conv = c
    PROVE  k \in Span(queue[q])
BY DEF IInv, Shape, OneEach, InQueue

\* An attempt owes what waited for its conversation and what it began with.
LEMMA TakeHolds ==
    ASSUME IInv, Take
    PROVE  IInv'
<1>1. Busy /\ at \in Attempts /\ at.step = "take" /\ at.conv \in Convs /\ at.origin \in Origins
      /\ at.from \in Nat /\ at.tip \in Nat
    BY DEF IInv, Typed, Take, Busy, Idle, Attempts
<1>2. /\ Absent(at) /\ at.origin = "land" => Owed = at
      /\ ~Absent(at) \/ at.origin = "land" =>
           /\ Owed \in Attempts
           /\ Owed.conv = at.conv /\ Owed.origin = at.origin /\ Owed.step = "take"
           /\ Owed.where = at.where /\ Owed.verdict = at.verdict /\ Proper(Owed)
           /\ at.origin = "land" => Owed.tip = at.tip /\ Owed.from <= at.from
      /\ ~Absent(at) => /\ Owed.carried
                        /\ \E q \in DOMAIN queue :
                              /\ queue[q].conv = at.conv /\ queue[q].from = Owed.from
                              /\ queue[q].tip <= Owed.tip
                              /\ at.origin = "retry" => queue[q].tip = Owed.tip
    BY <1>1, WhatIsOwed
<1>3. UNCHANGED <<landed, copy, line, sent, lost, crashes>>
    BY DEF Take, World
<1>4. Queued(at.conv) = {} <=> Absent(at)
    BY NothingWaits DEF Absent
<1>5. CASE at.origin = "retry" /\ Absent(at)
    <2>1. at' = Idle /\ UNCHANGED <<queue, told>>
        BY <1>4, <1>5 DEF Take
    <2>2. Typed' /\ OneEach' /\ QueueAtStep'
        BY <1>3, <2>1 DEF IInv, Shape, Typed, Lands, OneEach, QueueAtStep, Busy
    <2>3. \A c \in Convs, k \in Nat : InQueue(c, k) => InQueue(c, k)'
        BY <2>1 DEF InQueue, Span
    <2>4. \A c \in Convs, k \in Nat : Carries(c, k) => Carries(c, k)'
        BY <1>1, <1>3, <1>5 DEF Carries, Span
    <2>5. QED BY <1>1, <1>3, <2>1, <2>2, <2>3, <2>4, AttemptSteps
<1>6. CASE at.origin = "land" \/ ~Absent(at)
    <2> DEFINE owed == Owed
    <2>1. /\ owed \in Attempts /\ owed.conv = at.conv /\ owed.origin = at.origin
          /\ owed.step = "take" /\ Proper(owed)
        BY <1>2, <1>6
    <2>2. \/ /\ at' = [owed EXCEPT !.step = "build"] /\ UNCHANGED told /\ owed.where # "none"
          \/ /\ at' = [owed EXCEPT !.step = "dequeue", !.verdict = "failed"] /\ UNCHANGED told
          \/ /\ at' = Idle /\ Absent(at) /\ at.origin = "land"
             /\ told' = [told EXCEPT ![owed.conv] = @ \cup Span(owed)]
        BY <1>2, <1>4, <1>6 DEF Take, Over
    <2>3. at.origin = "land" => queue' = WithoutLand(at.conv)
        BY DEF Take
    <2>4. at.origin = "retry" => queue' = queue
        BY DEF Take
    <2>5. /\ at.origin = "land" => owed.tip = at.tip /\ owed.from <= at.from
          /\ ~Absent(at) => \E q \in DOMAIN queue :
                               /\ queue[q].conv = at.conv /\ queue[q].from = owed.from
                               /\ queue[q].tip <= owed.tip
                               /\ at.origin = "retry" => queue[q].tip = owed.tip
        BY <1>2
    <2> HIDE DEF owed
    <2>6. at' # Idle => /\ at' \in Attempts /\ at'.step \in {"build", "dequeue"}
                        /\ at'.step = "dequeue" => at'.verdict = "failed"
                        /\ at'.step = "build" => at'.where # "none"
                        /\ at'.conv = at.conv /\ at'.origin = at.origin
                        /\ at'.from = owed.from /\ at'.tip = owed.tip
        BY <2>1, <2>2 DEF Attempts, Steps
    <2>7. owed.from \in Nat /\ owed.tip \in Nat /\ Span(owed) \subseteq Nat
        BY <2>1 DEF Attempts, Span
    <2>8. \A c \in Convs : told'[c] = told[c] \/ told'[c] = told[c] \cup Span(owed)
        BY <2>1, <2>2 DEF IInv, Typed
    <2>9. told' \in [Convs -> SUBSET Nat]
        BY <2>1, <2>2, <2>7 DEF IInv, Typed
    <2>10. /\ queue' \in Seq(Owings) /\ OneEach'
           /\ \A q \in DOMAIN queue' : \E p \in DOMAIN queue : queue'[q] = queue[p]
           /\ \A d \in Convs \ {at.conv}, k \in Nat : InQueue(d, k) => InQueue(d, k)'
           /\ at.origin = "land" => \A q \in DOMAIN queue' : queue'[q].conv # at.conv
        <3>1. CASE at.origin = "land"
            BY <1>1, <2>3, <3>1, QueueLetsGo
        <3>2. CASE at.origin = "retry"
            BY <2>4, <3>2 DEF IInv, Typed, Shape, OneEach, InQueue, Span
        <3>3. QED BY <1>1, <3>1, <3>2 DEF Origins
    <2>11. Typed'
        BY <1>3, <2>6, <2>9, <2>10 DEF IInv, Typed, Lands
    <2>12. at.origin = "retry" => Waits(owed)
        <3>1. at.origin = "retry" => ~Absent(at)
            BY <1>6
        <3>2. QED BY <2>1, <2>5, <3>1 DEF Waits
    <2>13. QueueAtStep'
        <3>1. at' # Idle /\ at.origin = "land" => Absent(at)'
            BY <2>6, <2>10 DEF Absent
        <3>2. at' # Idle /\ at.origin = "retry" => Waits(at)'
            BY <2>1, <2>4, <2>6, <2>12 DEF Waits
        <3>3. QED BY <2>6, <3>1, <3>2 DEF QueueAtStep, Busy
    <2>14. at' # Idle =>
              /\ at'.step \notin {"locate", "take"} /\ at'.conv = at.conv /\ Proper(at')
              /\ \/ Firm /\ at'.tip = at.tip
                 \/ \E p \in DOMAIN queue : queue[p].conv = at.conv /\ queue[p].tip = at'.tip
        <3>1. at' # Idle => Proper(at')
            BY <2>1, <2>6 DEF Proper
        <3>2. at' # Idle /\ at.origin = "land" => Firm /\ at'.tip = at.tip
            BY <1>1, <2>5, <2>6 DEF Firm
        <3>3. at' # Idle /\ at.origin = "retry" =>
                \E p \in DOMAIN queue : queue[p].conv = at.conv /\ queue[p].tip = at'.tip
            BY <2>6, <2>12, <2>1 DEF Waits
        <3>4. QED BY <1>1, <2>6, <3>1, <3>2, <3>3 DEF Origins
    <2>15. ASSUME NEW d \in Convs, d = at.conv, NEW k \in Nat, at.origin = "land", k \in Span(owed)
           PROVE  (k \in told[d] \/ Carries(d, k))'
        <3>1. CASE at' = Idle
            <4>1. told' = [told EXCEPT ![at.conv] = @ \cup Span(owed)]
                BY <2>1, <2>2, <3>1 DEF Idle, Attempts
            <4>2. QED BY <1>1, <2>15, <4>1 DEF IInv, Typed
        <3>2. CASE at' # Idle
            BY <2>6, <2>15, <3>2 DEF Carries, Busy, Span
        <3>3. QED BY <3>1, <3>2
    <2>16. ASSUME NEW c \in Convs, NEW k \in Nat,
                  k \in told[c] \/ k \in lost[c] \/ InQueue(c, k) \/ Carries(c, k)
           PROVE  (k \in told[c] \/ k \in lost[c] \/ InQueue(c, k) \/ Carries(c, k))'
        <3>1. CASE k \in told[c] \/ k \in lost[c]
            BY <1>3, <2>8, <3>1
        <3>2. CASE InQueue(c, k)
            <4>1. CASE c = at.conv /\ at.origin = "land"
                <5>1. ~Absent(at)
                    BY <3>2, <4>1 DEF InQueue, Absent
                <5>2. PICK q \in DOMAIN queue : queue[q].conv = c /\ queue[q].from = owed.from
                                                /\ queue[q].tip <= owed.tip
                    BY <2>5, <4>1, <5>1
                <5>3. k \in Span(queue[q]) /\ queue[q] \in Owings
                    BY <3>2, <5>2, OwedOnDisk DEF IInv, Typed
                <5>4. k \in Span(owed)
                    BY <2>7, <5>2, <5>3 DEF Span, Owings
                <5>5. QED BY <2>15, <4>1, <5>4
            <4>2. CASE at.origin = "retry"
                BY <2>4, <3>2, <4>2 DEF InQueue, Span
            <4>3. QED BY <1>1, <2>10, <3>2, <4>1, <4>2 DEF Origins
        <3>3. CASE Carries(c, k)
            <4>1. CASE \E i \in DOMAIN line : line[i].conv = c /\ line[i].origin = "land" /\ k \in Span(line[i])
                BY <1>3, <4>1 DEF Carries, Span
            <4>2. CASE at.conv = c /\ k \in Span(at) /\ at.origin = "land"
                <5>1. k \in Span(owed)
                    BY <1>1, <2>5, <2>7, <4>2 DEF Span
                <5>2. QED BY <2>15, <4>2, <5>1
            <4>3. QED BY <1>1, <3>3, <4>1, <4>2 DEF Carries
        <3>4. QED BY <2>16, <3>1, <3>2, <3>3
    <2>17. QED BY <1>1, <1>3, <2>10, <2>11, <2>13, <2>14, <2>16, AttemptSteps
<1>7. QED BY <1>1, <1>5, <1>6 DEF Origins

\* From its take to its verdict an attempt covers the same lands.
LEMMA OnTheWay ==
    ASSUME IInv, Busy, at' \in Attempts, at'.conv = at.conv, at'.from = at.from, at'.tip = at.tip,
           at'.origin = at.origin
    PROVE  /\ Proper(at) /\ (UNCHANGED landed => Proper(at'))
           /\ Busy'
           /\ \A k : k \in Span(at') <=> k \in Span(at)
BY DEF IInv, Shape, Proper, Busy, Idle, Attempts, Span

\* What the land changed may settle it, or end a retry that the queue still has.
LEMMA BuildHolds ==
    ASSUME IInv, Build
    PROVE  IInv'
<1>1. Busy /\ at \in Attempts /\ at.step = "build"
    BY DEF IInv, Typed, Build, Busy, Idle
<1>2. UNCHANGED <<landed, copy, line, queue, sent, told, lost, crashes>>
    BY DEF Build, World, Books, Histories
<1>3. \/ at' = Idle /\ at.origin = "retry"
      \/ at' = [at EXCEPT !.step = "send"]
      \/ at' = [at EXCEPT !.step = "enqueue"] /\ at.origin = "land"
      \/ \E v \in {"none", "delivered", "failed"} : at' = [at EXCEPT !.step = "dequeue", !.verdict = v]
    <2>1. at.where \in {"ready", "waiting"} /\ at.origin \in Origins
        BY <1>1 DEF IInv, Shape, QueueAtStep, Attempts
    <2>2. \/ \E v \in {"none", "delivered", "failed"} :
                at' = [at EXCEPT !.step = "dequeue", !.verdict = v]
          \/ at' = CASE at.where = "ready" -> [at EXCEPT !.step = "send"]
                     [] at.where = "waiting" /\ at.origin = "land" -> [at EXCEPT !.step = "enqueue"]
                     [] at.where = "waiting" /\ at.origin = "retry" -> Idle
        BY DEF Build
    <2>3. QED BY <2>1, <2>2 DEF Origins
<1>4. CASE at' = Idle /\ at.origin = "retry"
    <2>1. Typed' /\ OneEach' /\ QueueAtStep'
        BY <1>2, <1>4 DEF IInv, Shape, Typed, Lands, OneEach, QueueAtStep, Busy
    <2>2. \A c \in Convs, k \in Nat : InQueue(c, k) => InQueue(c, k)'
        BY <1>2 DEF InQueue, Span
    <2>3. \A c \in Convs, k \in Nat : Carries(c, k) => Carries(c, k)'
        BY <1>1, <1>2, <1>4 DEF Carries, Span
    <2>4. QED BY <1>1, <1>2, <1>4, <2>1, <2>2, <2>3, AttemptSteps
<1>5. CASE at' # Idle
    <2>1. /\ at' \in Attempts /\ at'.conv = at.conv /\ at'.from = at.from /\ at'.tip = at.tip
          /\ at'.origin = at.origin /\ at'.step \in {"send", "enqueue", "dequeue"}
          /\ at'.step = "enqueue" => at.origin = "land"
          /\ at'.step = "dequeue" => at'.verdict # "waiting"
        BY <1>1, <1>3, <1>5 DEF Attempts, Steps
    <2>2. QueueAtStep'
        BY <1>1, <1>2, <2>1 DEF IInv, Shape, QueueAtStep, Busy, Absent, Waits
    <2>3. QED BY <1>1, <1>2, <2>1, <2>2, AttemptGoesOn
<1>6. at' = Idle => at.origin = "retry"
    BY <1>1, <1>3 DEF Attempts, Idle
<1>7. QED BY <1>4, <1>5, <1>6

\* An answer, or none, leaves the lines and the queue alone.
LEMMA SendHolds ==
    ASSUME IInv, Send
    PROVE  IInv'
<1>1. Busy /\ at \in Attempts /\ at.step = "send" /\ at.conv \in Convs
    BY DEF IInv, Typed, Send, Busy, Idle, Attempts
<1>2. UNCHANGED <<landed, copy, line, queue, told, lost, crashes>>
    BY DEF Send, World, Books
<1>3. PICK v \in {"delivered", "merged", "failed"} : at' = [at EXCEPT !.step = "dequeue", !.verdict = v]
    BY DEF Send
<1>4. /\ at' \in Attempts /\ at'.conv = at.conv /\ at'.from = at.from /\ at'.tip = at.tip
      /\ at'.origin = at.origin /\ at'.step = "dequeue" /\ at'.verdict # "waiting"
    BY <1>1, <1>3 DEF Attempts, Steps
<1>5. sent' \in [Convs -> Seq(Shipments)]
    <2>1. [from |-> at.from, tip |-> at.tip] \in Shipments
        BY <1>1 DEF Attempts, Shipments
    <2>2. \/ UNCHANGED sent
          \/ sent' = [sent EXCEPT ![at.conv] = Append(@, [from |-> at.from, tip |-> at.tip])]
        BY DEF Send
    <2>3. sent \in [Convs -> Seq(Shipments)]
        BY DEF IInv, Typed
    <2>4. Append(sent[at.conv], [from |-> at.from, tip |-> at.tip]) \in Seq(Shipments)
        BY <1>1, <2>1, <2>3
    <2>5. QED BY <2>2, <2>3, <2>4
<1>6. Typed'
    BY <1>2, <1>4, <1>5 DEF IInv, Typed, Lands
<1>7. QueueAtStep' /\ OneEach'
    BY <1>1, <1>2, <1>4 DEF IInv, Shape, QueueAtStep, OneEach, Busy, Absent, Waits
<1>8. at'.step \notin {"locate", "take"} /\ Proper(at') /\ Firm
    BY <1>1, <1>2, <1>4, OnTheWay DEF Firm
<1>9. \A c \in Convs, k \in Nat : InQueue(c, k) => InQueue(c, k)'
    BY <1>2 DEF InQueue, Span
<1>10. \A c \in Convs, k \in Nat : Carries(c, k) => Carries(c, k)'
    BY <1>1, <1>2, <1>4, OnTheWay DEF Carries, Span
<1>11. QED BY <1>1, <1>2, <1>4, <1>6, <1>7, <1>8, <1>9, <1>10, AttemptSteps

\* Out of the queue with its verdict: the land is in the attempt, or said to be over.
LEMMA DequeueHolds ==
    ASSUME IInv, Dequeue
    PROVE  IInv'
<1>1. Busy /\ at \in Attempts /\ at.step = "dequeue" /\ at.conv \in Convs /\ at.verdict # "waiting"
    BY DEF IInv, Shape, QueueAtStep, Typed, Dequeue, Busy, Idle, Attempts
<1>2. UNCHANGED <<landed, copy, line, sent, lost, crashes>> /\ queue' = WithoutLand(at.conv)
    BY DEF Dequeue, World
<1>3. /\ queue' \in Seq(Owings) /\ OneEach'
      /\ \A q \in DOMAIN queue' :
            queue'[q].conv # at.conv /\ \E p \in DOMAIN queue : queue'[q] = queue[p]
      /\ \A d \in Convs \ {at.conv}, k \in Nat : InQueue(d, k) => InQueue(d, k)'
    BY <1>1, <1>2, QueueLetsGo
<1>4. \/ at' = Idle /\ told' = [told EXCEPT ![at.conv] = @ \cup Span(at)]
      \/ UNCHANGED told /\ \E s \in {"merge", "record"} : at' = [at EXCEPT !.step = s]
    BY DEF Dequeue, Over
<1>5. at' # Idle => /\ at' \in Attempts /\ at'.conv = at.conv /\ at'.from = at.from
                    /\ at'.tip = at.tip /\ at'.origin = at.origin /\ at'.step \in {"merge", "record"}
                    /\ at'.verdict = at.verdict
    BY <1>1, <1>4 DEF Attempts, Steps
<1>6. told' \in [Convs -> SUBSET Nat] /\ \A c \in Convs : told[c] \subseteq told'[c]
    <2>1. Span(at) \subseteq Nat
        BY <1>1 DEF Span, Attempts
    <2>2. told \in [Convs -> SUBSET Nat]
        BY DEF IInv, Typed
    <2>3. QED BY <1>1, <1>4, <2>1, <2>2
<1>7. Typed'
    BY <1>2, <1>3, <1>5, <1>6 DEF IInv, Typed, Lands
<1>8. QueueAtStep'
    <2>1. at' # Idle => Absent(at)'
        BY <1>3, <1>5 DEF Absent
    <2>2. QED BY <1>1, <1>5, <2>1 DEF QueueAtStep, Busy
<1>9. at' # Idle => at'.step \notin {"locate", "take"} /\ at'.conv = at.conv /\ Proper(at')
                     /\ Firm /\ at'.tip = at.tip
    BY <1>1, <1>2, <1>5, OnTheWay DEF Firm
<1>10. ASSUME NEW d \in Convs, d = at.conv, NEW k \in Nat, k \in Span(at)
       PROVE  (k \in told[d] \/ Carries(d, k))'
    <2>1. CASE at' = Idle
        <3>1. told' = [told EXCEPT ![at.conv] = @ \cup Span(at)]
            BY <1>4, <2>1 DEF Idle, Attempts, IInv, Typed
        <3>2. QED BY <1>10, <3>1 DEF IInv, Typed
    <2>2. CASE at' # Idle
        BY <1>5, <1>10, <2>2 DEF Carries, Busy, Span
    <2>3. QED BY <2>1, <2>2
<1>11. ASSUME NEW c \in Convs, NEW k \in Nat,
              k \in told[c] \/ k \in lost[c] \/ InQueue(c, k) \/ Carries(c, k)
       PROVE  (k \in told[c] \/ k \in lost[c] \/ InQueue(c, k) \/ Carries(c, k))'
    <2>1. CASE k \in told[c] \/ k \in lost[c]
        BY <1>2, <1>6, <2>1
    <2>2. CASE InQueue(c, k) /\ c # at.conv
        BY <1>3, <2>2
    <2>3. CASE InQueue(c, k) /\ c = at.conv
        <3>1. Waits(at) \/ Absent(at)
            BY <1>1 DEF IInv, Shape, QueueAtStep, Attempts, Origins
        <3>2. ~Absent(at)
            BY <2>3 DEF InQueue, Absent
        <3>3. PICK q \in DOMAIN queue :
                 queue[q].conv = at.conv /\ queue[q].from = at.from /\ queue[q].tip = at.tip
            BY <3>1, <3>2 DEF Waits
        <3>4. k \in Span(queue[q])
            BY <2>3, <3>3, OwedOnDisk
        <3>5. k \in Span(at)
            BY <3>3, <3>4 DEF Span
        <3>6. QED BY <1>10, <2>3, <3>5
    <2>4. CASE Carries(c, k) /\ ~(c = at.conv /\ k \in Span(at))
        BY <1>2, <2>4 DEF Carries, Span
    <2>5. QED BY <1>10, <1>11, <2>1, <2>2, <2>3, <2>4
<1>12. QED BY <1>1, <1>2, <1>3, <1>7, <1>8, <1>9, <1>11, AttemptSteps

LEMMA MergeHolds ==
    ASSUME IInv, Merge
    PROVE  IInv'
<1>1. Busy /\ at \in Attempts /\ at.step = "merge"
    BY DEF IInv, Typed, Merge, Busy, Idle
<1>2. UNCHANGED <<landed, line, queue, sent, told, lost, crashes>>
    BY DEF Merge, World, Books, Histories
<1>3. /\ at' \in Attempts /\ at'.conv = at.conv /\ at'.from = at.from /\ at'.tip = at.tip
      /\ at'.origin = at.origin /\ at'.step = "record" /\ at'.verdict = "delivered"
    BY <1>1 DEF Merge, Attempts, Steps
<1>4. copy'.land \in Nat
    BY <1>1 DEF Merge, IInv, Typed, Attempts
<1>5. Typed' /\ OneEach'
    BY <1>2, <1>3, <1>4 DEF IInv, Typed, Lands, Shape, OneEach
<1>6. QueueAtStep'
    BY <1>1, <1>2, <1>3 DEF IInv, Shape, QueueAtStep, Busy, Absent
<1>7. at'.step \notin {"locate", "take"} /\ Proper(at') /\ Firm
    BY <1>1, <1>2, <1>3, OnTheWay DEF Firm
<1>8. \A c \in Convs, k \in Nat : InQueue(c, k) => InQueue(c, k)'
    BY <1>2 DEF InQueue, Span
<1>9. \A c \in Convs, k \in Nat : Carries(c, k) => Carries(c, k)'
    BY <1>1, <1>2, <1>3, OnTheWay DEF Carries, Span
<1>10. QED BY <1>1, <1>2, <1>3, <1>5, <1>6, <1>7, <1>8, <1>9, AttemptSteps

\* On the disk, for a computer that is away.
LEMMA EnqueueHolds ==
    ASSUME IInv, Enqueue
    PROVE  IInv'
<1> DEFINE owing == [conv |-> at.conv, from |-> at.from, tip |-> at.tip, stamp |-> at.stamp]
<1>1. Busy /\ at \in Attempts /\ at.step = "enqueue" /\ at.conv \in Convs
    BY DEF IInv, Typed, Enqueue, Busy, Idle, Attempts
<1>2. UNCHANGED <<landed, copy, line, sent, told, lost, crashes>>
    BY DEF Enqueue, World, Histories
<1>3. Absent(at) /\ at.origin = "land"
    BY <1>1 DEF IInv, Shape, QueueAtStep
<1>4. queue' = Append(queue, owing)
    BY <1>3, NothingWaits DEF Enqueue, WithoutLand, Absent
<1>5. owing \in Owings /\ owing.conv = at.conv /\ owing.from = at.from /\ owing.tip = at.tip
    BY <1>1 DEF Attempts, Owings
<1> HIDE DEF owing
<1>6. queue \in Seq(Owings) /\ OneEach
    BY DEF IInv, Typed, Shape
<1>7. /\ queue' \in Seq(Owings) /\ Len(queue) \in Nat /\ DOMAIN queue = 1 .. Len(queue)
      /\ DOMAIN queue' = 1 .. Len(queue) + 1
      /\ queue'[Len(queue) + 1] = owing /\ \A q \in DOMAIN queue : queue'[q] = queue[q]
    BY <1>4, <1>5, <1>6
<1>8. /\ at' \in Attempts /\ at'.conv = at.conv /\ at'.from = at.from /\ at'.tip = at.tip
      /\ at'.origin = at.origin /\ at'.step = "record" /\ at'.verdict = "waiting"
    BY <1>1 DEF Enqueue, Attempts, Steps
<1>9. Typed'
    BY <1>2, <1>7, <1>8 DEF IInv, Typed, Lands
<1>10. OneEach'
    <2>1. \A q \in DOMAIN queue : queue[q].conv # owing.conv
        BY <1>3, <1>5 DEF Absent
    <2>2. QED BY <1>6, <1>7, <2>1 DEF OneEach
<1>11. QueueAtStep'
    <2>1. Waits(at)'
        BY <1>5, <1>7, <1>8 DEF Waits
    <2>2. QED BY <1>8, <2>1 DEF QueueAtStep
<1>12. at'.step \notin {"locate", "take"} /\ Proper(at') /\ Firm
    BY <1>1, <1>2, <1>8, OnTheWay DEF Firm
<1>13. \A q \in DOMAIN queue' :
          \/ \E p \in DOMAIN queue : queue'[q] = queue[p]
          \/ Firm /\ queue'[q].conv = at.conv /\ queue'[q].from = at.from /\ queue'[q].tip = at.tip
    BY <1>5, <1>7, <1>12
<1>14. \A c \in Convs, k \in Nat : InQueue(c, k) => InQueue(c, k)'
    BY <1>7 DEF InQueue, Span
<1>15. \A c \in Convs, k \in Nat : Carries(c, k) => Carries(c, k)'
    BY <1>1, <1>2, <1>8, OnTheWay DEF Carries, Span
<1>16. QED BY <1>1, <1>2, <1>8, <1>9, <1>10, <1>11, <1>12, <1>13, <1>14, <1>15, AttemptSteps

\* The card is told: what the attempt covered is over, or waits on the disk.
LEMMA RecordHolds ==
    ASSUME IInv, Record
    PROVE  IInv'
<1>1. Busy /\ at \in Attempts /\ at.step = "record" /\ at.conv \in Convs
    BY DEF IInv, Typed, Record, Busy, Idle, Attempts
<1>2. UNCHANGED <<landed, copy, line, queue, sent, lost, crashes>> /\ at' = Idle
    BY DEF Record, World, Books
<1>3. IF at.verdict = "waiting" THEN UNCHANGED told
      ELSE told' = [told EXCEPT ![at.conv] = @ \cup Span(at)]
    BY DEF Record, Over
<1>4. told' \in [Convs -> SUBSET Nat] /\ \A c \in Convs : told[c] \subseteq told'[c]
    <2>1. Span(at) \subseteq Nat
        BY <1>1 DEF Span, Attempts
    <2>2. told \in [Convs -> SUBSET Nat]
        BY DEF IInv, Typed
    <2>3. QED BY <1>1, <1>3, <2>1, <2>2
<1>5. Typed' /\ OneEach' /\ QueueAtStep'
    BY <1>2, <1>4 DEF IInv, Typed, Lands, Shape, OneEach, QueueAtStep, Busy
<1>6. \A c \in Convs, k \in Nat : InQueue(c, k) => InQueue(c, k)'
    BY <1>2 DEF InQueue, Span
<1>7. ASSUME NEW c \in Convs, NEW k \in Nat, Carries(c, k)
      PROVE  (k \in told[c] \/ InQueue(c, k) \/ Carries(c, k))'
    <2>1. CASE ~(c = at.conv /\ k \in Span(at))
        BY <1>2, <1>7, <2>1 DEF Carries, Span
    <2>2. CASE c = at.conv /\ k \in Span(at) /\ at.verdict = "waiting"
        <3>1. Waits(at)
            BY <1>1, <2>2 DEF IInv, Shape, QueueAtStep
        <3>2. InQueue(c, k)
            BY <2>2, <3>1 DEF Waits, InQueue, Span
        <3>3. QED BY <1>6, <3>2
    <2>3. CASE c = at.conv /\ k \in Span(at) /\ at.verdict # "waiting"
        BY <1>3, <2>3 DEF IInv, Typed
    <2>4. QED BY <2>1, <2>2, <2>3
<1>8. QED BY <1>1, <1>2, <1>4, <1>5, <1>6, <1>7, AttemptSteps

\* What the daemon holds in memory: the line and the attempt.
LEMMA WhatIsHeld ==
    ASSUME Typed
    PROVE  /\ \A i \in DOMAIN line : \E j \in DOMAIN Held : Held[j] = line[i]
           /\ Busy => \E j \in DOMAIN Held : Held[j] = at
           /\ \A j \in DOMAIN Held : (\E i \in DOMAIN line : Held[j] = line[i]) \/ (Busy /\ Held[j] = at)
<1> DEFINE S == Jobs \cup Attempts
<1>1. line \in Seq(S) /\ Len(line) \in Nat
    BY DEF Typed
<1>2. CASE at = Idle
    <2>1. Held = line \o <<>>
        BY <1>2 DEF Held
    <2>2. Held = line
        BY <1>1, <2>1, ConcatEmptySeq
    <2>3. QED BY <1>2, <2>2 DEF Busy
<1>3. CASE at # Idle
    <2>1. Held = line \o <<at>> /\ at \in S
        BY <1>3 DEF Held, Typed
    <2>2. /\ Len(Held) = Len(line) + 1 /\ DOMAIN Held = 1 .. Len(line) + 1
          /\ Held[Len(line) + 1] = at /\ \A i \in 1 .. Len(line) : Held[i] = line[i]
        BY <1>1, <2>1
    <2>3. DOMAIN line = 1 .. Len(line)
        BY <1>1
    <2>4. Len(line) + 1 \in DOMAIN Held
        BY <1>1, <2>2
    <2>5. QED BY <1>1, <1>3, <2>2, <2>3, <2>4 DEF Busy
<1>4. QED BY <1>2, <1>3

\* What was in memory is lost, and on the books of what was lost.
LEMMA CrashHolds ==
    ASSUME IInv, Crash
    PROVE  IInv'
<1> USE DEF IInv
<1> DEFINE gone(c) == InHand(c) \ told[c]
<1>1. /\ UNCHANGED <<landed, copy, queue, sent, told>> /\ crashes' = crashes + 1
      /\ line' = <<>> /\ at' = Idle /\ lost' = [c \in Convs |-> lost[c] \cup gone(c)]
    <2>1. UNCHANGED <<landed, copy, queue, sent, told>> /\ crashes' = crashes + 1
          /\ line' = <<>> /\ at' = Idle
        BY DEF Crash, Books
    <2>2. lost' = [c \in Convs |-> lost[c] \cup gone(c)]
        BY DEF Crash
    <2>3. QED BY <2>1, <2>2
<1>2. \A c \in Convs : gone(c) \subseteq Nat
    <2>1. \A j \in DOMAIN Held : Held[j] \in Jobs \cup Attempts
        <3>1. \A i \in DOMAIN line : line[i] \in Jobs
            BY DEF Typed
        <3>2. Busy => at \in Attempts
            BY DEF Typed, Busy
        <3>3. QED BY <3>1, <3>2, WhatIsHeld
    <2>2. \A o \in Jobs \cup Attempts : Span(o) \subseteq Nat
        BY DEF Span, Jobs, Attempts
    <2>3. QED BY <2>1, <2>2 DEF InHand
<1>3. Typed'
    BY <1>1, <1>2 DEF Typed, Lands
<1>4. Shape'
    BY <1>1 DEF Shape, Proper, Ordered, OneEach, QueueAtStep, Busy, Firm
<1>5. ASSUME NEW c \in Convs, NEW k \in Nat, Carries(c, k)
      PROVE  k \in told[c] \/ k \in gone(c)
    <2>1. \E j \in DOMAIN Held : Held[j].conv = c /\ k \in Span(Held[j])
        BY <1>5, WhatIsHeld DEF Carries
    <2>2. PICK j \in DOMAIN Held : Held[j].conv = c /\ k \in Span(Held[j])
        BY <2>1
    <2>3. k \in InHand(c)
        BY <2>2 DEF InHand
    <2>4. QED BY <2>3
<1>6. Accounted'
    <2>1. ASSUME NEW c \in Convs, NEW k \in 1 .. landed[c]
          PROVE  (k \in told[c] \/ k \in lost[c] \/ InQueue(c, k) \/ Carries(c, k))'
        <3>1. k \in told[c] \/ k \in lost[c] \/ InQueue(c, k) \/ Carries(c, k)
            BY DEF Accounted
        <3>2. Carries(c, k) => k \in told[c] \/ k \in gone(c)
            BY <1>5
        <3>3. InQueue(c, k) => InQueue(c, k)'
            BY <1>1 DEF InQueue, Span
        <3>4. lost'[c] = lost[c] \cup gone(c) /\ told'[c] = told[c]
            BY <1>1
        <3>5. QED BY <3>1, <3>2, <3>3, <3>4
    <2>2. QED BY <1>1, <2>1 DEF Accounted
<1>7. QED BY <1>3, <1>4, <1>6

LEMMA NextHolds ==
    ASSUME IInv, [Next]_vars
    PROVE  IInv'
<1>1. ASSUME NEW c \in Convs, Land(c) PROVE IInv'
    BY <1>1, LandHolds
<1>2. CASE Check
    BY <1>2, CheckHolds
<1>3. CASE Attempt
    BY <1>3, BeginHolds, LocateHolds, TakeHolds, BuildHolds, SendHolds, DequeueHolds, MergeHolds,
       EnqueueHolds, RecordHolds DEF Attempt
<1>4. CASE Away \/ Arrive
    <2>1. UNCHANGED <<landed, copy, line, at, queue, sent, told, lost, crashes>>
        BY <1>4 DEF Away, Arrive, Books, Histories
    <2>2. QED BY <2>1, ElsewhereHolds
<1>5. CASE Crash
    BY <1>5, CrashHolds
<1>6. CASE UNCHANGED vars
    <2>1. UNCHANGED <<landed, copy, line, at, queue, sent, told, lost, crashes>>
        BY <1>6 DEF vars
    <2>2. QED BY <2>1, ElsewhereHolds
<1>7. QED BY <1>1, <1>2, <1>3, <1>4, <1>5, <1>6 DEF Next
-----------------------------------------------------------------------------
(* The theorems. *)

\* The line, the attempt and the queue keep their order and their lands, whatever the
\* owner's computer and the daemon do (conversations/land/project-delivery.ts).
THEOREM DeliveryInvariant == Spec => []IInv
<1>1. Init => IInv
    BY InitHolds
<1>2. IInv /\ [Next]_vars => IInv'
    BY NextHolds
<1>3. QED BY <1>1, <1>2, PTL DEF Spec

\* Every land is accounted for: sent or given its verdict, owed on the disk, in the
\* line or under way, or in memory when the daemon died.
THEOREM EveryLandAccounted == Spec => []LandsAccounted
<1>1. IInv => LandsAccounted
    <2> SUFFICES ASSUME IInv, NEW c \in Convs, NEW k \in 1 .. landed[c]
                 PROVE  k \in told[c] \cup OnDisk(c) \cup InHand(c) \cup lost[c]
        BY DEF LandsAccounted
    <2>1. k \in told[c] \/ k \in lost[c] \/ InQueue(c, k) \/ Carries(c, k)
        BY DEF IInv, Accounted
    <2>2. InQueue(c, k) => k \in OnDisk(c)
        BY DEF InQueue, OnDisk, Queued
    <2>3. ASSUME Carries(c, k) PROVE k \in InHand(c)
        <3>1. \E j \in DOMAIN Held : Held[j].conv = c /\ k \in Span(Held[j])
            BY <2>3, WhatIsHeld DEF Carries, IInv
        <3>2. QED BY <3>1 DEF InHand
    <2>4. QED BY <2>1, <2>2, <2>3
<1>2. QED BY <1>1, DeliveryInvariant, PTL

-----------------------------------------------------------------------------
(* The newest land. *)

NewestHeld == copy.land = Cardinality(Lands)

LEMMA NewestKept ==
    ASSUME IInv, NewestHeld, [Next]_vars
    PROVE  NewestHeld'
<1> USE DEF NewestHeld
<1>1. IsFiniteSet(Lands) /\ Cardinality(Lands) \in Nat
    BY FS_CardinalityType DEF IInv, Typed
<1>2. ASSUME NEW c \in Convs, Land(c)
      PROVE  NewestHeld'
    <2>1. /\ landed' = [landed EXCEPT ![c] = @ + 1]
          /\ copy' = [land |-> Stamp, merged |-> FALSE]
        BY <1>2 DEF Land
    <2>2. Lands' = Lands \cup {<<c, landed[c] + 1>>} /\ <<c, landed[c] + 1>> \notin Lands
        BY <2>1, OneMoreLand DEF IInv
    <2>3. Cardinality(Lands \cup {<<c, landed[c] + 1>>}) = Cardinality(Lands) + 1
        BY <1>1, <2>2, FS_AddElement
    <2>4. QED BY <1>1, <2>1, <2>2, <2>3 DEF Stamp
<1>3. CASE Merge
    <2>1. UNCHANGED landed /\ copy'.land = copy.land
        BY <1>3 DEF Merge, World, Holds
    <2>2. QED BY <2>1 DEF Lands
<1>4. CASE Check \/ Begin \/ Locate \/ Take \/ Build \/ Send \/ Dequeue \/ Enqueue \/ Record
           \/ Away \/ Arrive \/ Crash \/ UNCHANGED vars
    <2>1. UNCHANGED <<landed, copy>>
        BY <1>4 DEF Check, Begin, Locate, Take, Build, Send, Dequeue, Enqueue, Record, Away, Arrive,
                    Crash, vars, World
    <2>2. QED BY <2>1 DEF Lands
<1>5. QED BY <1>2, <1>3, <1>4 DEF Next, Attempt

\* Landed work is never undone here by what the owner's machine merged: the sandbox's
\* copy holds the newest of all the lands (mergeHere, project-delivery.ts).
THEOREM TheNewestStands == Spec => []NewestLandStands
<1>1. Init => NewestHeld
    <2>1. Init => Lands = {}
        BY DEF Init, Lands
    <2>2. Cardinality({}) = 0
        BY FS_EmptySet
    <2>3. Init => copy.land = 0
        BY DEF Init
    <2>4. QED BY <2>1, <2>2, <2>3 DEF NewestHeld
<1>2. IInv /\ NewestHeld => NewestLandStands
    BY FS_CardinalityType DEF IInv, Typed, NewestHeld, NewestLandStands, Stamp
<1>3. QED BY <1>1, <1>2, NewestKept, DeliveryInvariant, PTL DEF Spec

-----------------------------------------------------------------------------
(* Sent once.  What a conversation has yet to be sent begins after what its *)
(* line, its attempt or its wait covers, and none of it went but for        *)
(* crashes: a machine that answered and a queue not yet written.            *)

Went(c, k) == {i \in DOMAIN sent[c] : k \in Span(sent[c][i])}
Times(c, k) == Cardinality(Went(c, k))

\* The answer is here, and the queue still has what it was an answer to.
Answered(c, k) == Busy /\ at.conv = c /\ at.step = "dequeue" /\ k \in Span(at)

Unsent(c, k) ==
    \/ \E i \in DOMAIN line : line[i].origin = "land" /\ line[i].conv = c /\ line[i].from < k
    \/ (\E q \in DOMAIN queue : queue[q].conv = c /\ queue[q].from < k) /\ ~Answered(c, k)
    \/ /\ Busy /\ at.conv = c /\ at.from < k /\ at.origin = "land"
       /\ at.step \in {"locate", "take", "build", "send", "enqueue"}

SentInv ==
    /\ \A c \in Convs : \A i \in DOMAIN sent[c] : sent[c][i].tip <= landed[c]
    /\ \A c \in Convs, k \in Nat : Times(c, k) <= (IF Unsent(c, k) THEN 0 ELSE 1) + crashes

LEMMA TimesIsANumber ==
    ASSUME IInv, NEW c \in Convs, NEW k \in Nat
    PROVE  IsFiniteSet(Went(c, k)) /\ Times(c, k) \in Nat
<1>1. sent[c] \in Seq(Shipments)
    BY DEF IInv, Typed
<1>2. IsFiniteSet(1 .. Len(sent[c])) /\ DOMAIN sent[c] = 1 .. Len(sent[c])
    BY <1>1, FS_Interval
<1>3. Went(c, k) \subseteq DOMAIN sent[c]
    BY DEF Went
<1>4. IsFiniteSet(Went(c, k))
    BY <1>2, <1>3, FS_Subset
<1>5. QED BY <1>4, FS_CardinalityType DEF Times

\* A step that sends nothing, and leaves unsent what was.
LEMMA SentAsBefore ==
    ASSUME IInv, SentInv, UNCHANGED <<landed, sent, crashes>>,
           \A c \in Convs, k \in Nat : Unsent(c, k)' => Unsent(c, k)
    PROVE  SentInv'
<1>1. \A c \in Convs, k \in Nat : Times(c, k)' = Times(c, k)
    BY DEF Times, Went, Span
<1>2. (\A c \in Convs : \A i \in DOMAIN sent[c] : sent[c][i].tip <= landed[c])'
    BY DEF SentInv
<1>3. ASSUME NEW c \in Convs, NEW k \in Nat
      PROVE  (Times(c, k) <= (IF Unsent(c, k) THEN 0 ELSE 1) + crashes)'
    <2>1. Times(c, k) <= (IF Unsent(c, k) THEN 0 ELSE 1) + crashes
        BY DEF SentInv
    <2>2. Unsent(c, k)' => Unsent(c, k)
        OBVIOUS
    <2>3. Times(c, k) \in Nat /\ crashes \in Nat
        BY TimesIsANumber DEF IInv, Typed
    <2>4. QED BY <1>1, <2>1, <2>2, <2>3
<1>4. QED BY <1>2, <1>3 DEF SentInv

LEMMA LandUnsent ==
    ASSUME IInv, SentInv, NEW c \in Convs, Land(c)
    PROVE  SentInv'
<1> DEFINE job == [conv |-> c, from |-> landed[c], tip |-> landed[c] + 1, stamp |-> Stamp,
                   origin |-> "land"]
<1>1. /\ landed' = [landed EXCEPT ![c] = @ + 1] /\ line' = Append(line, job)
      /\ UNCHANGED <<at, queue, sent, crashes>>
    BY DEF Land, Books, Histories
<1>2. job.conv = c /\ job.from = landed[c]
    OBVIOUS
<1> HIDE DEF job
<1>3. /\ landed \in [Convs -> Nat] /\ line \in Seq(Jobs) /\ crashes \in Nat
      /\ \A d \in Convs : sent[d] \in Seq(Shipments)
    BY DEF IInv, Typed
<1>4. /\ DOMAIN line' = DOMAIN line \cup {Len(line) + 1} /\ line'[Len(line) + 1] = job
      /\ \A i \in DOMAIN line : line'[i] = line[i]
    BY <1>1, <1>3
<1>5. \A d \in Convs : landed[d] <= landed'[d] /\ landed'[d] \in Nat
    BY <1>1, <1>3
<1>6. ASSUME NEW d \in Convs, NEW i \in DOMAIN sent'[d]
      PROVE  sent'[d][i].tip <= landed'[d]
    <2>1. sent[d][i] \in Shipments /\ sent[d][i].tip <= landed[d]
        BY <1>1, <1>3 DEF SentInv
    <2>2. QED BY <1>1, <1>3, <1>5, <2>1 DEF Shipments
<1>7. ASSUME NEW d \in Convs, NEW k \in Nat, Unsent(d, k)'
      PROVE  Unsent(d, k) \/ (d = c /\ landed[c] < k)
    BY <1>1, <1>2, <1>4, <1>7 DEF Unsent, Answered, Busy, Span
<1>8. ASSUME NEW k \in Nat, landed[c] < k
      PROVE  Times(c, k) = 0
    <2>1. \A i \in DOMAIN sent[c] : sent[c][i] \in Shipments /\ sent[c][i].tip <= landed[c]
        BY <1>3 DEF SentInv
    <2>2. \A i \in DOMAIN sent[c] : k \notin Span(sent[c][i])
        BY <1>3, <1>8, <2>1 DEF Span, Shipments
    <2>3. Went(c, k) = {}
        BY <2>2 DEF Went
    <2>4. Cardinality({}) = 0
        BY FS_EmptySet
    <2>5. QED BY <2>3, <2>4 DEF Times
<1>9. ASSUME NEW d \in Convs, NEW k \in Nat
      PROVE  (Times(d, k) <= (IF Unsent(d, k) THEN 0 ELSE 1) + crashes)'
    <2>1. Times(d, k)' = Times(d, k)
        BY <1>1 DEF Times, Went, Span
    <2>2. Times(d, k) <= (IF Unsent(d, k) THEN 0 ELSE 1) + crashes /\ Times(d, k) \in Nat
        BY TimesIsANumber DEF SentInv
    <2>3. CASE Unsent(d, k)'
        <3>1. Times(d, k) <= crashes
            BY <1>3, <1>7, <1>8, <2>2, <2>3
        <3>2. QED BY <1>1, <1>3, <2>1, <2>2, <2>3, <3>1
    <2>4. CASE ~Unsent(d, k)'
        BY <1>1, <1>3, <2>1, <2>2, <2>4
    <2>5. QED BY <2>3, <2>4
<1>10. QED BY <1>6, <1>9 DEF SentInv

\* What is sent had not gone, and is behind what remains unsent.
LEMMA SendOnce ==
    ASSUME IInv, SentInv, Send
    PROVE  SentInv'
<1>1. Busy /\ at \in Attempts /\ at.step = "send"
    BY DEF IInv, Typed, Send, Busy, Idle
<1>2. PICK c \in Convs : c = at.conv
    BY <1>1 DEF Attempts
<1>3. PICK e \in Shipments : e = [from |-> at.from, tip |-> at.tip]
    BY <1>1 DEF Attempts, Shipments
<1>4. Busy /\ at \in Attempts /\ at.step = "send" /\ c = at.conv /\ at.from \in Nat /\ at.tip \in Nat
    BY <1>1, <1>2 DEF Attempts
<1>5. UNCHANGED <<landed, line, queue, crashes>>
    BY DEF Send, World, Books
<1>6. /\ at'.step = "dequeue" /\ at'.conv = c /\ at'.from = at.from /\ at'.tip = at.tip
    BY <1>4 DEF Send, Attempts
<1>7. UNCHANGED sent \/ sent' = [sent EXCEPT ![c] = Append(@, e)]
    BY <1>2, <1>3 DEF Send
<1>8. crashes \in Nat /\ landed \in [Convs -> Nat] /\ sent \in [Convs -> Seq(Shipments)]
    BY DEF IInv, Typed
<1>9. e.from = at.from /\ e.tip = at.tip /\ \A k : k \in Span(e) <=> k \in Span(at)
    BY <1>3 DEF Span
<1>10. ASSUME NEW d \in Convs, NEW k \in Nat, Unsent(d, k)'
      PROVE  Unsent(d, k) /\ ~(d = c /\ k \in Span(at))
    <2>1. CASE \E i \in DOMAIN line : line[i].origin = "land" /\ line[i].conv = d /\ line[i].from < k
        <3>1. PICK i \in DOMAIN line : line[i].origin = "land" /\ line[i].conv = d /\ line[i].from < k
            BY <2>1
        <3>2. d = c => at.tip <= line[i].from
            BY <1>4, <3>1 DEF IInv, Shape, Ordered, Firm
        <3>3. line[i].from \in Nat
            <4>1. line \in Seq(Jobs)
                BY DEF IInv, Typed
            <4>2. line[i] \in Jobs
                BY <3>1, <4>1
            <4>3. QED BY <4>2 DEF Jobs
        <3>4. ~(d = c /\ k \in Span(at))
            BY <1>4, <3>1, <3>2, <3>3 DEF Span
        <3>5. Unsent(d, k)
            BY <3>1 DEF Unsent
        <3>6. QED BY <3>4, <3>5
    <2>2. CASE (\E q \in DOMAIN queue : queue[q].conv = d /\ queue[q].from < k) /\ ~Answered(d, k)'
        <3>1. ~(d = c /\ k \in Span(at))
            BY <1>4, <1>6, <2>2 DEF Answered, Busy, Span, Idle
        <3>2. ~Answered(d, k)
            BY <1>4 DEF Answered
        <3>3. QED BY <2>2, <3>1, <3>2 DEF Unsent
    <2>3. QED BY <1>5, <1>6, <1>10, <2>1, <2>2 DEF Unsent
<1>11. ASSUME NEW k \in Span(at)
      PROVE  Unsent(c, k) /\ k \in Nat
    <2>1. k \in Nat /\ at.from < k
        BY <1>4, <1>11 DEF Span
    <2>2. CASE at.origin = "land"
        BY <1>4, <2>1, <2>2 DEF Unsent
    <2>3. CASE at.origin = "retry"
        <3>1. \E q \in DOMAIN queue : queue[q].conv = c /\ queue[q].from = at.from
            BY <1>4, <2>3 DEF IInv, Shape, QueueAtStep, Waits
        <3>2. ~Answered(c, k)
            BY <1>4 DEF Answered
        <3>3. QED BY <2>1, <3>1, <3>2 DEF Unsent
    <2>4. QED BY <1>4, <2>1, <2>2, <2>3 DEF Attempts, Origins
<1>12. ASSUME UNCHANGED sent
      PROVE  SentInv'
    BY <1>5, <1>10, <1>12, SentAsBefore
<1>13. ASSUME sent' = [sent EXCEPT ![c] = Append(@, e)]
       PROVE  SentInv'
    <2>1. \A d \in Convs : sent'[d] = IF d = c THEN Append(sent[c], e) ELSE sent[d]
        BY <1>8, <1>13
    <2>2. /\ sent[c] \in Seq(Shipments) /\ Len(sent[c]) \in Nat
          /\ DOMAIN sent[c] = 1 .. Len(sent[c]) /\ DOMAIN sent'[c] = DOMAIN sent[c] \cup {Len(sent[c]) + 1}
          /\ sent'[c][Len(sent[c]) + 1] = e /\ \A i \in DOMAIN sent[c] : sent'[c][i] = sent[c][i]
        <3>1. sent[c] \in Seq(Shipments) /\ sent'[c] = Append(sent[c], e)
            BY <1>4, <1>8, <2>1
        <3>2. QED BY <3>1
    <2>3. at.tip <= landed[c]
        BY <1>4 DEF IInv, Shape, Proper
    <2>4. \A d \in Convs : \A i \in DOMAIN sent'[d] : sent'[d][i].tip <= landed'[d]
        BY <1>5, <1>9, <2>1, <2>2, <2>3 DEF SentInv
    <2>5. ASSUME NEW d \in Convs, NEW k \in Nat, ~(d = c /\ k \in Span(at))
          PROVE  Went(d, k)' = Went(d, k)
        BY <1>9, <2>1, <2>2, <2>5 DEF Went, Span
    <2>6. ASSUME NEW k \in Span(at)
          PROVE  Times(c, k)' <= 1 + crashes
        <3>1. Went(c, k)' = Went(c, k) \cup {Len(sent[c]) + 1}
            BY <1>9, <2>2, <2>6 DEF Went, Span
        <3>2. IsFiniteSet(Went(c, k)) /\ Times(c, k) \in Nat
            BY <1>4, <1>11, <2>6, TimesIsANumber
        <3>3. Len(sent[c]) + 1 \notin Went(c, k)
            BY <2>2 DEF Went
        <3>4. Cardinality(Went(c, k) \cup {Len(sent[c]) + 1}) = Times(c, k) + 1
            BY <3>2, <3>3, FS_AddElement DEF Times
        <3>5. Times(c, k) <= crashes
            BY <1>4, <1>8, <1>11, <2>6 DEF SentInv
        <3>6. QED BY <1>8, <3>1, <3>2, <3>4, <3>5 DEF Times
    <2>7. ASSUME NEW d \in Convs, NEW k \in Nat
          PROVE  (Times(d, k) <= (IF Unsent(d, k) THEN 0 ELSE 1) + crashes)'
        <3>1. CASE d = c /\ k \in Span(at)
            <4>1. ~Unsent(d, k)'
                BY <1>10, <3>1
            <4>2. QED BY <1>5, <2>6, <3>1, <4>1
        <3>2. CASE ~(d = c /\ k \in Span(at))
            <4>1. Times(d, k)' = Times(d, k) /\ Times(d, k) \in Nat
                BY <2>5, <3>2, TimesIsANumber DEF Times
            <4>2. Unsent(d, k)' => Unsent(d, k)
                BY <1>10
            <4>3. Times(d, k) <= (IF Unsent(d, k) THEN 0 ELSE 1) + crashes
                BY DEF SentInv
            <4>4. QED BY <1>5, <1>8, <4>1, <4>2, <4>3
        <3>3. QED BY <3>1, <3>2
    <2>8. QED BY <2>4, <2>7 DEF SentInv
<1>14. QED BY <1>7, <1>12, <1>13

\* The steps of the line leave unsent what was.
LEMMA LineUnsent ==
    ASSUME IInv, SentInv, Check \/ Begin \/ Locate
    PROVE  SentInv'
<1>1. UNCHANGED <<landed, queue, sent, crashes>>
    BY DEF Check, Begin, Locate, World, Books, Histories
<1>2. line \in Seq(Jobs) /\ queue \in Seq(Owings) /\ at \in Attempts \cup {Idle}
    BY DEF IInv, Typed
<1>3. CASE Check
    <2> DEFINE round == [i \in DOMAIN queue |-> [conv |-> queue[i].conv, from |-> queue[i].from,
                                                 tip |-> queue[i].tip, stamp |-> queue[i].stamp,
                                                 origin |-> "retry"]]
    <2>1. line' = line \o round /\ UNCHANGED at
        BY <1>3 DEF Check
    <2>2. \A q \in DOMAIN queue : queue[q] \in Owings /\ round[q].origin = "retry"
        BY <1>2
    <2>3. round \in Seq(Jobs) /\ DOMAIN round = DOMAIN queue
        <3>1. \A q \in DOMAIN queue : round[q] \in Jobs
            BY <2>2 DEF Owings, Jobs, Origins
        <3>2. QED BY <1>2, <3>1
    <2> HIDE DEF round
    <2>4. /\ DOMAIN line \subseteq DOMAIN (line \o round)
          /\ \A i \in DOMAIN line : (line \o round)[i] = line[i]
          /\ \A i \in DOMAIN (line \o round) \ DOMAIN line :
                \E q \in DOMAIN round : (line \o round)[i] = round[q]
        BY <1>2, <2>3, OneBehindOther
    <2>5. \A i \in DOMAIN line' : line'[i].origin = "land" => i \in DOMAIN line /\ line'[i] = line[i]
        BY <2>1, <2>2, <2>3, <2>4
    <2>6. \A c \in Convs, k \in Nat : Unsent(c, k)' => Unsent(c, k)
        BY <1>1, <2>1, <2>5 DEF Unsent, Answered, Busy, Span
    <2>7. QED BY <1>1, <2>6, SentAsBefore
<1>4. CASE Begin
    <2>1. /\ at = Idle /\ line' = Tail(line) /\ line # <<>>
          /\ \/ at' = Idle
             \/ /\ at'.conv = line[1].conv /\ at'.from = line[1].from /\ at'.origin = line[1].origin
                /\ at'.step = "locate"
        BY <1>2, <1>4 DEF Begin
    <2>2. 1 \in DOMAIN line /\ \A i \in DOMAIN line' : i + 1 \in DOMAIN line /\ line'[i] = line[i + 1]
        BY <1>2, <2>1
    <2>3. \A c \in Convs, k \in Nat : Unsent(c, k)' => Unsent(c, k)
        BY <1>1, <2>1, <2>2 DEF Unsent, Answered, Busy
    <2>4. QED BY <1>1, <2>3, SentAsBefore
<1>5. CASE Locate
    <2>1. /\ at \in Attempts /\ Busy /\ at.step = "locate" /\ at'.step = "take" /\ UNCHANGED line
          /\ at'.conv = at.conv /\ at'.from = at.from /\ at'.origin = at.origin
        <3>1. at \in Attempts /\ Busy /\ at.step = "locate" /\ UNCHANGED line
            <4>1. at.step = "locate" /\ UNCHANGED line
                BY <1>5 DEF Locate
            <4>2. at # Idle
                BY <4>1 DEF Idle
            <4>3. QED BY <1>2, <4>1, <4>2 DEF Busy
        <3>2. PICK w \in {"none", "ready", "waiting"} : at' = [at EXCEPT !.where = w, !.step = "take"]
            BY <1>5 DEF Locate
        <3>3. QED BY <3>1, <3>2 DEF Attempts
    <2>2. \A c \in Convs, k \in Nat : Unsent(c, k)' => Unsent(c, k)
        BY <1>1, <2>1 DEF Unsent, Answered
    <2>3. QED BY <1>1, <2>2, SentAsBefore
<1>6. QED BY <1>3, <1>4, <1>5

LEMMA TakeUnsent ==
    ASSUME IInv, SentInv, Take
    PROVE  SentInv'
<1>1. Busy /\ at \in Attempts /\ at.step = "take" /\ at.conv \in Convs /\ at.origin \in Origins
    BY DEF IInv, Typed, Take, Busy, Idle, Attempts
<1>2. UNCHANGED <<landed, line, sent, crashes>>
    BY DEF Take, World
<1>3. \A q \in DOMAIN queue' : \E p \in DOMAIN queue : queue'[q] = queue[p]
    <2>1. queue' = WithoutLand(at.conv) \/ queue' = queue
        BY DEF Take
    <2>2. QED BY <1>1, <2>1, QueueLetsGo
<1>4. at' = Idle \/ at.origin = "retry" \/
        /\ at'.conv = at.conv /\ at'.origin = "land" /\ at'.step \in {"build", "dequeue"}
        /\ at'.from = at.from \/ \E q \in DOMAIN queue : queue[q].conv = at.conv /\ queue[q].from = at'.from
    <2>1. CASE at.origin = "land"
        <3>1. /\ Owed \in Attempts /\ Owed.conv = at.conv /\ Owed.origin = "land"
              /\ Absent(at) => Owed = at
              /\ ~Absent(at) => \E q \in DOMAIN queue : queue[q].conv = at.conv /\ queue[q].from = Owed.from
            BY <1>1, <2>1, WhatIsOwed
        <3>2. \/ at' = Idle
              \/ at' = [Owed EXCEPT !.step = "build"]
              \/ at' = [Owed EXCEPT !.step = "dequeue", !.verdict = "failed"]
            BY DEF Take
        <3>3. at' = Idle \/ (/\ at'.conv = Owed.conv /\ at'.origin = Owed.origin
                             /\ at'.step \in {"build", "dequeue"} /\ at'.from = Owed.from)
            BY <3>1, <3>2 DEF Attempts
        <3>4. QED BY <3>1, <3>3
    <2>2. QED BY <1>1, <2>1 DEF Origins
<1>5. at.origin = "retry" => at' = Idle \/ at'.origin = "retry"
    <2>1. at.origin = "retry" /\ ~Absent(at) => Owed \in Attempts /\ Owed.origin = "retry"
        BY <1>1, WhatIsOwed
    <2>2. at.origin = "retry" /\ Absent(at) => at' = Idle
        BY <1>1, NothingWaits DEF Take, Absent
    <2>3. \/ at' = Idle
          \/ at' = [Owed EXCEPT !.step = "build"]
          \/ at' = [Owed EXCEPT !.step = "dequeue", !.verdict = "failed"]
        BY DEF Take
    <2>4. QED BY <2>1, <2>2, <2>3 DEF Attempts
<1>6. \A c, k : ~Answered(c, k)
    BY <1>1 DEF Answered
<1>7. ASSUME NEW c \in Convs, NEW k \in Nat, Unsent(c, k)'
      PROVE  Unsent(c, k)
    <2>1. CASE \E i \in DOMAIN line : line[i].origin = "land" /\ line[i].conv = c /\ line[i].from < k
        BY <2>1 DEF Unsent
    <2>2. CASE \E q \in DOMAIN queue' : queue'[q].conv = c /\ queue'[q].from < k
        BY <1>3, <1>6, <2>2 DEF Unsent
    <2>3. CASE at' # Idle /\ at'.conv = c /\ at'.from < k /\ at'.origin = "land"
        <3>1. /\ at.origin = "land" /\ at.conv = c
              /\ at'.from = at.from \/ \E q \in DOMAIN queue : queue[q].conv = c /\ queue[q].from = at'.from
            BY <1>1, <1>4, <1>5, <2>3 DEF Origins
        <3>2. QED BY <1>1, <1>6, <2>3, <3>1 DEF Unsent
    <2>4. QED BY <1>2, <1>7, <2>1, <2>2, <2>3 DEF Unsent, Busy
<1>8. QED BY <1>2, <1>7, SentAsBefore

\* From what the land changed to its card, but for the sending.
LEMMA VerdictUnsent ==
    ASSUME IInv, SentInv, Build \/ Dequeue \/ Merge \/ Enqueue \/ Record
    PROVE  SentInv'
<1>1. Busy /\ at \in Attempts /\ at.conv \in Convs
      /\ at.step \in {"build", "dequeue", "merge", "enqueue", "record"}
    BY DEF IInv, Typed, Build, Dequeue, Merge, Enqueue, Record, Busy, Idle, Attempts
<1>2. UNCHANGED <<landed, line, sent, crashes>>
    BY DEF Build, Dequeue, Merge, Enqueue, Record, World, Histories
<1>3. QueueAtStep
    BY DEF IInv, Shape
<1>4. CASE Build
    <2>1. /\ at.step = "build" /\ UNCHANGED queue
          /\ at' = Idle \/ (at'.conv = at.conv /\ at'.from = at.from /\ at'.origin = at.origin)
        <3>1. at.where \in {"ready", "waiting"} /\ at.origin \in Origins
            BY <1>1, <1>3, <1>4 DEF Build, QueueAtStep, Attempts
        <3>2. \/ \E v \in {"none", "delivered", "failed"} :
                    at' = [at EXCEPT !.step = "dequeue", !.verdict = v]
              \/ at' = CASE at.where = "ready" -> [at EXCEPT !.step = "send"]
                         [] at.where = "waiting" /\ at.origin = "land" -> [at EXCEPT !.step = "enqueue"]
                         [] at.where = "waiting" /\ at.origin = "retry" -> Idle
            BY <1>4 DEF Build
        <3>3. at' = Idle \/ (at'.conv = at.conv /\ at'.from = at.from /\ at'.origin = at.origin)
            BY <1>1, <3>1, <3>2 DEF Origins, Attempts
        <3>4. QED BY <1>4, <3>3 DEF Build, Books
    <2>2. \A c, k : ~Answered(c, k)
        BY <2>1 DEF Answered
    <2>3. \A c \in Convs, k \in Nat : Unsent(c, k)' => Unsent(c, k)
        BY <1>1, <1>2, <2>1, <2>2 DEF Unsent, Busy
    <2>4. QED BY <1>2, <2>3, SentAsBefore
<1>5. CASE Dequeue
    <2>1. queue' = WithoutLand(at.conv) /\ (at' = Idle \/ at'.step \in {"merge", "record"})
        BY <1>1, <1>5 DEF Dequeue, Attempts
    <2>2. \A q \in DOMAIN queue' :
             queue'[q].conv # at.conv /\ \E p \in DOMAIN queue : queue'[q] = queue[p]
        BY <1>1, <2>1, QueueLetsGo
    <2>3. \A c, k : c # at.conv => ~Answered(c, k)
        BY DEF Answered
    <2>4. \A c \in Convs, k \in Nat : Unsent(c, k)' => Unsent(c, k)
        BY <1>2, <2>1, <2>2, <2>3 DEF Unsent, Busy
    <2>5. QED BY <1>2, <2>4, SentAsBefore
<1>6. CASE Merge \/ Record
    <2>1. at.step # "dequeue" /\ UNCHANGED queue /\ (at' = Idle \/ at'.step = "record")
        BY <1>1, <1>6 DEF Merge, Record, Books, Attempts
    <2>2. \A c, k : ~Answered(c, k)
        BY <2>1 DEF Answered
    <2>3. \A c \in Convs, k \in Nat : Unsent(c, k)' => Unsent(c, k)
        BY <1>2, <2>1, <2>2 DEF Unsent, Busy
    <2>4. QED BY <1>2, <2>3, SentAsBefore
<1>7. CASE Enqueue
    <2>1. at.step = "enqueue" /\ at.origin = "land" /\ Absent(at) /\ at'.step = "record"
        BY <1>1, <1>3, <1>7 DEF Enqueue, QueueAtStep, Attempts
    <2>2. PICK e : e.conv = at.conv /\ e.from = at.from /\ queue' = Append(queue, e)
        BY <1>7, <2>1, NothingWaits DEF Enqueue, WithoutLand, Absent
    <2>3. queue \in Seq(Owings)
        BY DEF IInv, Typed
    <2>4. \A q \in DOMAIN queue' : queue'[q] = e \/ (q \in DOMAIN queue /\ queue'[q] = queue[q])
        BY <2>2, <2>3
    <2>5. \A c, k : ~Answered(c, k)
        BY <2>1 DEF Answered
    <2>6. \A c \in Convs, k \in Nat : Unsent(c, k)' => Unsent(c, k)
        BY <1>1, <1>2, <2>1, <2>2, <2>4, <2>5 DEF Unsent, Busy
    <2>7. QED BY <1>2, <2>6, SentAsBefore
<1>8. QED BY <1>4, <1>5, <1>6, <1>7

\* A crash may lose an answer, and counts for it.
LEMMA CrashUnsent ==
    ASSUME IInv, SentInv, Crash
    PROVE  SentInv'
<1>1. UNCHANGED <<landed, sent>> /\ crashes' = crashes + 1 /\ crashes \in Nat
    BY DEF Crash, IInv, Typed
<1>2. (\A c \in Convs : \A i \in DOMAIN sent[c] : sent[c][i].tip <= landed[c])'
    BY <1>1 DEF SentInv
<1>3. ASSUME NEW c \in Convs, NEW k \in Nat
      PROVE  (Times(c, k) <= (IF Unsent(c, k) THEN 0 ELSE 1) + crashes)'
    <2>1. Times(c, k)' = Times(c, k) /\ Times(c, k) \in Nat
        BY <1>1, TimesIsANumber DEF Times, Went, Span
    <2>2. Times(c, k) <= (IF Unsent(c, k) THEN 0 ELSE 1) + crashes
        BY DEF SentInv
    <2>3. QED BY <1>1, <2>1, <2>2
<1>4. QED BY <1>2, <1>3 DEF SentInv

LEMMA SentHolds ==
    ASSUME IInv, SentInv, [Next]_vars
    PROVE  SentInv'
<1>1. CASE Away \/ Arrive \/ UNCHANGED vars
    <2>1. UNCHANGED <<landed, line, at, queue, sent, crashes>>
        BY <1>1 DEF Away, Arrive, vars, Books, Histories
    <2>2. \A c \in Convs, k \in Nat : Unsent(c, k)' => Unsent(c, k)
        BY <2>1 DEF Unsent, Answered, Busy, Span
    <2>3. QED BY <2>1, <2>2, SentAsBefore
<1>2. QED BY <1>1, LandUnsent, LineUnsent, TakeUnsent, VerdictUnsent, SendOnce, CrashUnsent
      DEF Next, Attempt

\* The folder is sent no land twice: a retry and a later land that carries an earlier
\* one may both hold it, and only a crash between the machine's answer and the queue's
\* write (project-delivery.ts) can send one again.
THEOREM FolderSentOnce == Spec => []SentOnce
<1>1. Init => SentInv
    <2> SUFFICES ASSUME Init PROVE SentInv OBVIOUS
    <2>1. \A c \in Convs : sent[c] = <<>> /\ DOMAIN sent[c] = {}
        BY DEF Init
    <2>2. \A c \in Convs, k \in Nat : Went(c, k) = {}
        BY <2>1 DEF Went
    <2>3. Cardinality({}) = 0
        BY FS_EmptySet
    <2>4. \A c \in Convs, k \in Nat : Times(c, k) = 0
        BY <2>2, <2>3 DEF Times
    <2>5. crashes = 0
        BY DEF Init
    <2>6. QED BY <2>1, <2>4, <2>5 DEF SentInv
<1>2. IInv /\ SentInv => SentOnce
    <2> SUFFICES ASSUME IInv, SentInv, NEW c \in Convs, NEW k \in 1 .. landed[c]
                 PROVE  Times(c, k) <= 1 + crashes
        BY DEF SentOnce, Times, Went
    <2>1. k \in Nat /\ crashes \in Nat
        BY DEF IInv, Typed
    <2>2. Times(c, k) <= (IF Unsent(c, k) THEN 0 ELSE 1) + crashes /\ Times(c, k) \in Nat
        BY <2>1, TimesIsANumber DEF SentInv
    <2>3. QED BY <2>1, <2>2
<1>3. QED BY <1>1, <1>2, SentHolds, DeliveryInvariant, PTL DEF Spec

=============================================================================
