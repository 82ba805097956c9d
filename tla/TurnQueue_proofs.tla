--------------------------- MODULE TurnQueue_proofs ---------------------------
(***************************************************************************)
(* What the queue's functions return, for any queue: which messages it     *)
(* holds after each, that they are whole messages in a row, and that what  *)
(* a filter keeps stands in the order it stood in.                         *)
(***************************************************************************)
EXTENDS TurnQueue, SequenceTheorems, FiniteSetTheorems, WellFoundedInduction, TLAPS

\* A set of numbers has a least one.
LEMMA Least ==
    ASSUME NEW T, T \subseteq Nat, T # {}
    PROVE  \E m \in T : \A k \in T : m <= k
<1> DEFINE U == {1..n : n \in T}
<1>1. U \subseteq FiniteSubsetsOf(Nat) /\ U # {}
    <2>1. \A n \in T : IsFiniteSet(1..n) /\ 1..n \in SUBSET Nat
        BY FS_Interval
    <2>2. \A x \in U : x \in SUBSET Nat /\ IsFiniteSet(x)
        BY <2>1
    <2>3. QED BY <2>2 DEF FiniteSubsetsOf
<1>2. IsWellFoundedOn(StrictSubsetOrdering(Nat), FiniteSubsetsOf(Nat))
    BY FS_StrictSubsetOrderingWellFounded
<1> HIDE DEF U
<1>3. \E x \in U : \A y \in U : ~(<<y, x>> \in StrictSubsetOrdering(Nat))
    BY <1>1, <1>2, WFMin
<1>4. PICK m \in T : \A k \in T : ~(<<1..k, 1..m>> \in StrictSubsetOrdering(Nat))
    BY <1>3 DEF U
<1>5. ASSUME NEW k \in T, k < m PROVE FALSE
    <2>1. k \in Nat /\ m \in Nat
        OBVIOUS
    <2>2. 1..k \subseteq 1..m /\ 1..k # 1..m /\ 1..k \in SUBSET Nat /\ 1..m \in SUBSET Nat
        BY <1>5, <2>1
    <2>3. <<1..k, 1..m>> \in StrictSubsetOrdering(Nat)
        BY <2>2 DEF StrictSubsetOrdering
    <2>4. QED BY <1>4, <2>3
<1>6. QED BY <1>5

\* What holds of 0, and of n + 1 when of n, holds of every number.
LEMMA Inductive ==
    ASSUME NEW S, S \subseteq Nat, 0 \in S, \A n \in S : n + 1 \in S
    PROVE  S = Nat
<1>1. SUFFICES ASSUME Nat \ S # {} PROVE FALSE
  OBVIOUS
<1>2. PICK m \in Nat \ S : \A k \in Nat \ S : m <= k BY <1>1, Least
<1>3. m - 1 \in Nat /\ m - 1 \notin Nat \ S BY <1>2
<1>4. QED BY <1>2, <1>3

\* The folding of a filter, as far as the m-th item.
Grows(f, items, kept, m) ==
    /\ f = [n \in 0..m |-> f[n]]
    /\ f[0] = << >>
    /\ \A n \in 1..m : f[n] = IF n \in kept THEN Append(f[n - 1], items[n]) ELSE f[n - 1]

\* A filter is such a folding.
LEMMA OnlyGrows ==
    ASSUME NEW items, Len(items) \in Nat, NEW kept
    PROVE  \E f : Grows(f, items, kept, Len(items)) /\ Only(items, kept) = f[Len(items)]
<1> DEFINE S == {m \in Nat : \E f : Grows(f, items, kept, m)}
<1>1. 0 \in S
  <2>1. Grows([n \in 0..0 |-> << >>], items, kept, 0) BY DEF Grows
  <2>2. QED BY <2>1
<1>2. ASSUME NEW m \in S PROVE m + 1 \in S
  <2>1. PICK f : Grows(f, items, kept, m) BY DEF S
  <2> DEFINE g == [n \in 0..(m + 1) |-> IF n <= m THEN f[n]
                      ELSE IF n \in kept THEN Append(f[m], items[n]) ELSE f[m]]
  <2>2. m \in Nat /\ f[0] = << >>
        /\ \A n \in 1..m : f[n] = IF n \in kept THEN Append(f[n - 1], items[n]) ELSE f[n - 1]
    BY <2>1 DEF Grows
  <2>3. g = [n \in 0..(m + 1) |-> g[n]] OBVIOUS
  <2>4. g[0] = << >> BY <2>2
  <2>5. ASSUME NEW n \in 1..(m + 1)
        PROVE  g[n] = IF n \in kept THEN Append(g[n - 1], items[n]) ELSE g[n - 1]
    <3>1. g[n - 1] = f[n - 1] BY <2>2
    <3>2. CASE n = m + 1 BY <2>2, <3>1, <3>2
    <3>3. CASE n # m + 1
      <4>1. n \in 1..m BY <2>2, <3>3
      <4>2. g[n] = f[n] BY <4>1
      <4>3. QED BY <2>2, <3>1, <4>1, <4>2
    <3>4. QED BY <3>2, <3>3
  <2>6. Grows(g, items, kept, m + 1) 
    <3> HIDE DEF g
    <3> QED BY <2>3, <2>4, <2>5 DEF Grows
  <2>7. QED BY <2>2, <2>6
<1>3. Len(items) \in S 
  <2>1. S = Nat
   <3> HIDE DEF S
   <3>1. S \subseteq Nat BY DEF S
   <3> QED BY <1>1, <1>2, <3>1, Inductive
  <2> QED BY <2>1
<1>4. PICK f : Grows(f, items, kept, Len(items)) BY <1>3
<1> DEFINE Body(g) == [n \in 0..Len(items) |-> IF n = 0 THEN << >>
            ELSE IF n \in kept THEN Append(g[n - 1], items[n]) ELSE g[n - 1]]
    up == CHOOSE g : g = Body(g)
<1>5. f = Body(f)
  <2>1. \A n \in 0..Len(items) : n # 0 => n \in 1..Len(items) OBVIOUS
  <2>2. \A n \in 0..Len(items) : f[n] = IF n = 0 THEN << >>
            ELSE IF n \in kept THEN Append(f[n - 1], items[n]) ELSE f[n - 1]
    BY <1>4, <2>1 DEF Grows
  <2>3. Body(f) = [n \in 0..Len(items) |-> f[n]] BY <2>2
  <2>4. f = [n \in 0..Len(items) |-> f[n]] BY <1>4 DEF Grows
  <2>5. QED BY <2>3, <2>4
<1>6. up = Body(up) 
  <2> HIDE DEF Body
  <2> QED BY <1>5
<1>7. Grows(up, items, kept, Len(items))
  <2> HIDE DEF up
  <2>1. \A n \in 0..Len(items) : up[n] = IF n = 0 THEN << >>
            ELSE IF n \in kept THEN Append(up[n - 1], items[n]) ELSE up[n - 1]
    BY <1>6
  <2>2. up[0] = << >> BY <2>1
  <2>3. \A n \in 1..Len(items) :
           up[n] = IF n \in kept THEN Append(up[n - 1], items[n]) ELSE up[n - 1]
    BY <2>1
  <2>4. up = [n \in 0..Len(items) |-> up[n]] BY <1>6
  <2>5. QED BY <2>2, <2>3, <2>4 DEF Grows
<1>8. Only(items, kept) = up[Len(items)] BY DEF Only
<1>9. QED BY <1>7, <1>8

\* How the items kept stand among all of them, up to the m-th.
Stand(e, o, items, kept, m) ==
    /\ e \in [DOMAIN o -> {i \in 1..m : i \in kept}]
    /\ \A j, k \in DOMAIN o : j < k => e[j] < e[k]
    /\ \A i \in 1..m : i \in kept => \E j \in DOMAIN o : e[j] = i
    /\ \A j \in DOMAIN o : o[j] = items[e[j]]

\* What a filter keeps stands in the order it stood in, all of it and nothing
\* else.
LEMMA OnlyStand ==
    ASSUME NEW T, NEW items \in Seq(T), NEW kept
    PROVE  /\ Only(items, kept) \in Seq(T)
           /\ \E e : Stand(e, Only(items, kept), items, kept, Len(items))
<1> DEFINE L == Len(items)
<1>1. L \in Nat OBVIOUS
<1>2. PICK f : Grows(f, items, kept, L) /\ Only(items, kept) = f[L] BY <1>1, OnlyGrows
<1>3. f[0] = << >> /\ \A n \in 1..L : f[n] = IF n \in kept THEN Append(f[n - 1], items[n])
                                             ELSE f[n - 1]
  BY <1>2 DEF Grows
<1> DEFINE P(m) == f[m] \in Seq(T) /\ \E e : Stand(e, f[m], items, kept, m)
           S == {m \in Nat : m <= L => P(m)}
<1>4. 0 \in S
  <2> DEFINE e == [j \in {} |-> 0]
  <2>1. f[0] \in Seq(T) /\ DOMAIN f[0] = {} BY <1>3
  <2>2. Stand(e, f[0], items, kept, 0) BY <2>1 DEF Stand
  <2>3. QED BY <2>1, <2>2
<1>5. ASSUME NEW m \in S PROVE m + 1 \in S
  <2>1. SUFFICES ASSUME m \in Nat, m + 1 <= L PROVE P(m + 1)
    OBVIOUS
  <2>2. P(m) /\ m + 1 \in 1..L /\ (m + 1) - 1 = m BY <1>1, <2>1
  <2>3. PICK e : Stand(e, f[m], items, kept, m) BY <2>2
  <2> DEFINE o == f[m]
  <2>4. o \in Seq(T) BY <2>2
  <2>5. f[m + 1] = IF m + 1 \in kept THEN Append(o, items[m + 1]) ELSE o BY <1>3, <2>2
  <2>6. items[m + 1] \in T BY <2>2
  <2> HIDE DEF o, L
  <2>7. CASE m + 1 \in kept
    <3> DEFINE e2 == [j \in DOMAIN Append(o, items[m + 1]) |-> IF j = Len(o) + 1 THEN m + 1 ELSE e[j]]
               o2 == Append(o, items[m + 1])
    <3>1. /\ o2 \in Seq(T) /\ Len(o) \in Nat /\ DOMAIN o = 1..Len(o)
          /\ DOMAIN o2 = 1..(Len(o) + 1) /\ o2[Len(o) + 1] = items[m + 1]
          /\ \A j \in DOMAIN o : o2[j] = o[j]
      BY <2>4, <2>6
    <3>2. /\ \A j \in DOMAIN o : e[j] \in 1..m /\ e[j] \in kept
          /\ \A j, k \in DOMAIN o : j < k => e[j] < e[k]
          /\ \A i \in 1..m : i \in kept => \E j \in DOMAIN o : e[j] = i
          /\ \A j \in DOMAIN o : o[j] = items[e[j]]
      BY <2>3 DEF Stand, o
    <3>3. \A j \in DOMAIN o2 : /\ j \in DOMAIN o => e2[j] = e[j] /\ j < Len(o) + 1
                               /\ j \notin DOMAIN o => j = Len(o) + 1 /\ e2[j] = m + 1
      BY <3>1
    <3> HIDE DEF e2, o2
    <3>4. \A j \in DOMAIN o2 : e2[j] \in 1..(m + 1) /\ e2[j] \in kept
      BY <2>1, <2>7, <3>2, <3>3
    <3>5. \A j, k \in DOMAIN o2 : j < k => e2[j] < e2[k]
      BY <2>1, <3>1, <3>2, <3>3
    <3>6. \A i \in 1..(m + 1) : i \in kept => \E j \in DOMAIN o2 : e2[j] = i
      <4>1. Len(o) + 1 \in DOMAIN o2 /\ Len(o) + 1 \notin DOMAIN o /\ DOMAIN o \subseteq DOMAIN o2
        BY <3>1
      <4>2. \A i \in 1..(m + 1) : i \in 1..m \/ i = m + 1 BY <2>1
      <4>3. QED BY <3>2, <3>3, <4>1, <4>2
    <3>7. \A j \in DOMAIN o2 : o2[j] = items[e2[j]]
      BY <3>1, <3>2, <3>3
    <3>8. e2 \in [DOMAIN o2 -> {i \in 1..(m + 1) : i \in kept}]
      BY <3>4 DEF e2, o2
    <3>9. Stand(e2, o2, items, kept, m + 1) BY <3>5, <3>6, <3>7, <3>8 DEF Stand
    <3>10. QED BY <2>5, <2>7, <3>1, <3>9 DEF o2
  <2>8. CASE m + 1 \notin kept
    <3>1. {i \in 1..(m + 1) : i \in kept} = {i \in 1..m : i \in kept} BY <2>1, <2>8
    <3>2. Stand(e, o, items, kept, m + 1) BY <2>3, <3>1 DEF Stand, o
    <3>3. QED BY <2>4, <2>5, <2>8, <3>2
  <2>9. QED BY <2>7, <2>8
<1>6. L \in S
  <2> HIDE DEF S
  <2>1. S \subseteq Nat BY DEF S
  <2>2. QED BY <1>1, <1>4, <1>5, <2>1, Inductive
<1>7. QED BY <1>1, <1>2, <1>6

-----------------------------------------------------------------------------
(* Messages in a row.                                                      *)

Fields == {"id", "voice", "continues", "booking", "revision"}

InRow(items) == items \in Seq({items[i] : i \in DOMAIN items})

Whole(items) ==
    /\ InRow(items)
    /\ \A i \in DOMAIN items : Fields \subseteq DOMAIN items[i]

\* A row is a function on 1..n, and the other way round.
LEMMA RowShape ==
    ASSUME NEW items
    PROVE  /\ \A T : items \in Seq(T) => InRow(items)
           /\ InRow(items) => /\ Len(items) \in Nat /\ DOMAIN items = 1..Len(items)
                              /\ items = [i \in 1..Len(items) |-> items[i]]
           /\ \A n \in Nat : items = [i \in 1..n |-> items[i]] => InRow(items) /\ Len(items) = n
<1>1. InRow(items) => /\ Len(items) \in Nat /\ DOMAIN items = 1..Len(items)
                      /\ items = [i \in 1..Len(items) |-> items[i]]
    BY DEF InRow
<1>2. ASSUME NEW n \in Nat, items = [i \in 1..n |-> items[i]]
      PROVE  InRow(items) /\ Len(items) = n
    <2>1. DOMAIN items = 1..n
        BY <1>2
    <2>2. items \in [1..n -> {items[i] : i \in DOMAIN items}]
        BY <1>2, <2>1
    <2>3. items \in Seq({items[i] : i \in DOMAIN items})
        BY <2>2, SeqDef
    <2>4. QED BY <2>1, <2>3 DEF InRow
<1>3. ASSUME NEW T, items \in Seq(T) PROVE InRow(items)
    <2>1. Len(items) \in Nat /\ items = [i \in 1..Len(items) |-> items[i]]
        BY <1>3
    <2>2. QED BY <1>2, <2>1
<1>4. QED BY <1>1, <1>2, <1>3

\* A filter of a row is a row of what it keeps.
LEMMA OnlyHolds ==
    ASSUME NEW items, InRow(items), NEW kept
    PROVE  /\ InRow(Only(items, kept))
           /\ \A j \in DOMAIN Only(items, kept) :
                 \E i \in DOMAIN items : i \in kept /\ Only(items, kept)[j] = items[i]
           /\ \A i \in DOMAIN items :
                 i \in kept => \E j \in DOMAIN Only(items, kept) : Only(items, kept)[j] = items[i]
<1> DEFINE T == {items[i] : i \in DOMAIN items}
           o == Only(items, kept)
<1>1. items \in Seq(T) /\ DOMAIN items = 1..Len(items)
    BY RowShape DEF InRow
<1> HIDE DEF T
<1>2. o \in Seq(T) /\ \E e : Stand(e, o, items, kept, Len(items))
    BY <1>1, OnlyStand
<1>3. PICK e : Stand(e, o, items, kept, Len(items))
    BY <1>2
<1> HIDE DEF o
<1>4. InRow(o)
    BY <1>2, RowShape
<1>5. /\ \A j \in DOMAIN o : e[j] \in 1..Len(items) /\ e[j] \in kept /\ o[j] = items[e[j]]
      /\ \A i \in 1..Len(items) : i \in kept => \E j \in DOMAIN o : e[j] = i
    BY <1>3 DEF Stand
<1>6. /\ \A j \in DOMAIN o : \E i \in DOMAIN items : i \in kept /\ o[j] = items[i]
      /\ \A i \in DOMAIN items : i \in kept => \E j \in DOMAIN o : o[j] = items[i]
    BY <1>1, <1>5
<1>7. QED BY <1>4, <1>6 DEF o

LEMMA OnlyWhole ==
    ASSUME NEW items, InRow(items), NEW kept
    PROVE  /\ InRow(Only(items, kept)) /\ (Whole(items) => Whole(Only(items, kept)))
           /\ Ids(Only(items, kept)) = {items[i].id : i \in {k \in DOMAIN items : k \in kept}}
<1> DEFINE o == Only(items, kept)
<1>1. /\ InRow(o)
      /\ \A j \in DOMAIN o : \E i \in DOMAIN items : i \in kept /\ o[j] = items[i]
      /\ \A i \in DOMAIN items : i \in kept => \E j \in DOMAIN o : o[j] = items[i]
    BY OnlyHolds
<1> HIDE DEF o
<1>2. Whole(items) => Whole(o)
    BY <1>1 DEF Whole
<1>3. Ids(o) = {items[i].id : i \in {k \in DOMAIN items : k \in kept}}
    BY <1>1 DEF Ids
<1>4. QED BY <1>1, <1>2, <1>3 DEF o

\* Taking messages out by name takes out those, and nothing else.
LEMMA WithoutIds ==
    ASSUME NEW items, InRow(items), NEW ids
    PROVE  /\ InRow(Without(items, ids)) /\ (Whole(items) => Whole(Without(items, ids)))
           /\ Ids(Without(items, ids)) = Ids(items) \ ids
<1> DEFINE kept == {i \in DOMAIN items : items[i].id \notin ids}
<1>1. /\ InRow(Only(items, kept)) /\ (Whole(items) => Whole(Only(items, kept)))
      /\ Ids(Only(items, kept)) = {items[i].id : i \in {k \in DOMAIN items : k \in kept}}
    BY OnlyWhole
<1>2. {items[i].id : i \in {k \in DOMAIN items : k \in kept}} = Ids(items) \ ids
    BY DEF Ids
<1>3. QED BY <1>1, <1>2 DEF Without

\* One behind, or some ahead of, a row of whole messages.
LEMMA AppendWhole ==
    ASSUME NEW items, Whole(items), NEW item, Fields \subseteq DOMAIN item
    PROVE  Whole(Append(items, item)) /\ Ids(Append(items, item)) = Ids(items) \cup {item.id}
<1> DEFINE o == Append(items, item)
           n == Len(items)
<1>1. n \in Nat /\ DOMAIN items = 1..n /\ items \in Seq({items[i] : i \in DOMAIN items})
    BY RowShape DEF Whole, InRow
<1>2. /\ o = [i \in 1..(n + 1) |-> o[i]] /\ o[n + 1] = item
      /\ \A i \in 1..n : o[i] = items[i]
    <2> DEFINE T == {items[i] : i \in DOMAIN items} \cup {item}
    <2>1. items \in Seq(T) /\ item \in T
        BY <1>1, SeqMonotonic
    <2> HIDE DEF T
    <2>2. o \in Seq(T) /\ Len(o) = n + 1 /\ o[n + 1] = item /\ \A i \in 1..n : o[i] = items[i]
        BY <1>1, <2>1, AppendProperties
    <2> HIDE DEF o
    <2>3. o = [i \in 1..Len(o) |-> o[i]]
        BY <2>2
    <2>4. QED BY <2>2, <2>3
<1> HIDE DEF o, n
<1>3. InRow(o) /\ DOMAIN o = 1..(n + 1)
    BY <1>1, <1>2, RowShape
<1>4. \A i \in DOMAIN o : i \in DOMAIN items \/ i = n + 1
    BY <1>1, <1>3
<1>5. \A i \in DOMAIN items : i \in DOMAIN o
    BY <1>1, <1>3
<1>6. n + 1 \in DOMAIN o
    BY <1>1, <1>3
<1>7. Whole(o)
    BY <1>1, <1>2, <1>3, <1>4 DEF Whole
<1>8. Ids(o) \subseteq Ids(items) \cup {item.id}
    BY <1>1, <1>2, <1>4 DEF Ids
<1>9. Ids(items) \cup {item.id} \subseteq Ids(o)
    BY <1>1, <1>2, <1>5, <1>6 DEF Ids
<1>10. QED BY <1>7, <1>8, <1>9 DEF o

LEMMA ConcatWhole ==
    ASSUME NEW front, Whole(front), NEW items, Whole(items)
    PROVE  Whole(front \o items) /\ Ids(front \o items) = Ids(front) \cup Ids(items)
<1> DEFINE o == front \o items
           m == Len(front)
           n == Len(items)
<1>1. m \in Nat /\ n \in Nat /\ DOMAIN front = 1..m /\ DOMAIN items = 1..n
    BY RowShape DEF Whole
<1>2. /\ o = [i \in 1..(m + n) |-> o[i]]
      /\ \A i \in 1..m : o[i] = front[i]
      /\ \A i \in 1..n : o[m + i] = items[i]
    <2> DEFINE T == {items[i] : i \in DOMAIN items} \cup {front[i] : i \in DOMAIN front}
    <2>1. items \in Seq(T) /\ front \in Seq(T)
        BY SeqMonotonic DEF Whole, InRow
    <2> HIDE DEF T
    <2>2. o \in Seq(T) /\ Len(o) = m + n
        BY <2>1, ConcatProperties
    <2>3. \A i \in 1..(m + n) : o[i] = IF i <= m THEN front[i] ELSE items[i - m]
        BY <2>1, ConcatProperties
    <2> HIDE DEF o, m, n
    <2>4. o = [i \in 1..(m + n) |-> o[i]]
        <3>1. o = [i \in 1..Len(o) |-> o[i]]
            BY <2>2
        <3>2. QED BY <2>2, <3>1
    <2>5. \A i \in 1..m : i \in 1..(m + n) /\ i <= m
        BY <1>1
    <2>6. \A i \in 1..n : m + i \in 1..(m + n) /\ ~(m + i <= m) /\ (m + i) - m = i
        BY <1>1
    <2>7. QED BY <2>3, <2>4, <2>5, <2>6
<1> HIDE DEF o, m, n
<1>3. InRow(o) /\ DOMAIN o = 1..(m + n)
    BY <1>1, <1>2, RowShape
<1>4. \A i \in 1..(m + n) : i \in 1..m \/ (i - m \in 1..n /\ i = m + (i - m))
    BY <1>1
<1>5. Whole(o)
    BY <1>1, <1>2, <1>3, <1>4 DEF Whole
<1>6. Ids(o) = Ids(front) \cup Ids(items)
    <2>1. \A i \in 1..m : i \in 1..(m + n)
        BY <1>1
    <2>2. \A i \in 1..n : m + i \in 1..(m + n)
        BY <1>1
    <2>3. Ids(front) \cup Ids(items) \subseteq Ids(o)
        <3>1. ASSUME NEW i \in 1..m PROVE front[i].id \in Ids(o)
            BY <1>2, <1>3, <2>1 DEF Ids
        <3>2. ASSUME NEW i \in 1..n PROVE items[i].id \in Ids(o)
            BY <1>2, <1>3, <2>2 DEF Ids
        <3>3. QED BY <1>1, <3>1, <3>2 DEF Ids
    <2>4. Ids(o) \subseteq Ids(front) \cup Ids(items)
        <3>1. ASSUME NEW i \in 1..(m + n) PROVE o[i].id \in Ids(front) \cup Ids(items)
            BY <1>1, <1>2, <1>4 DEF Ids
        <3>2. QED BY <1>3, <3>1 DEF Ids
    <2>5. QED BY <2>3, <2>4
<1>7. QED BY <1>5, <1>6 DEF o

\* Messages changed where they stand, their ids left alone, are whole still.
LEMMA ChangedWhole ==
    ASSUME NEW items, Whole(items), NEW o, o = [i \in DOMAIN items |-> o[i]],
           \A i \in DOMAIN items : DOMAIN o[i] = DOMAIN items[i] /\ o[i].id = items[i].id
    PROVE  Whole(o) /\ Ids(o) = Ids(items)
<1>1. Len(items) \in Nat /\ DOMAIN items = 1..Len(items)
    BY RowShape DEF Whole
<1>2. InRow(o) /\ DOMAIN o = DOMAIN items
    BY <1>1, RowShape
<1>3. QED BY <1>2 DEF Whole, Ids

-----------------------------------------------------------------------------
(* What the queue holds after each of its functions.                       *)

\* A next queue holds what it was given.
LEMMA MovedItems ==
    ASSUME NEW queue, NEW items, NEW hold
    PROVE  /\ Moved(queue, items, hold).items = items
           /\ {"items", "revision"} \subseteq DOMAIN Moved(queue, items, hold)
BY DEF Moved

LEMMA EnteredWhole ==
    ASSUME NEW queue, NEW message, NEW booking
    PROVE  /\ Fields \subseteq DOMAIN Entered(queue, message, booking)
           /\ Entered(queue, message, booking).id = message.id
BY DEF Entered, Fields

Keeps(queue) == {"items", "revision"} \subseteq DOMAIN queue /\ Whole(queue.items)

LEMMA JoinedIds ==
    ASSUME NEW queue, Keeps(queue), NEW message
    PROVE  /\ Keeps(Joined(queue, message))
           /\ Ids(Joined(queue, message).items) = Ids(queue.items) \cup {message.id}
<1> DEFINE item == Entered(queue, message, NoBooking)
           items == Append(queue.items, item)
<1>1. Whole(items) /\ Ids(items) = Ids(queue.items) \cup {message.id}
    BY EnteredWhole, AppendWhole DEF Keeps
<1> HIDE DEF items
<1>2. CASE message.id \in Ids(queue.items)
    BY <1>2 DEF Joined
<1>3. CASE message.id \notin Ids(queue.items)
    <2> DEFINE hold == IF message.voice = "person" THEN "none" ELSE HoldOf(queue)
    <2>1. Joined(queue, message) = Moved(queue, items, hold)
        BY <1>3 DEF Joined, items
    <2> HIDE DEF hold
    <2>2. QED BY <1>1, <2>1, MovedItems DEF Keeps
<1>4. QED BY <1>2, <1>3

LEMMA ScheduledIds ==
    ASSUME NEW queue, Keeps(queue), NEW message, NEW booking
    PROVE  /\ Keeps(Scheduled(queue, message, booking))
           /\ Ids(Scheduled(queue, message, booking).items) = Ids(queue.items) \cup {message.id}
<1> DEFINE item == Entered(queue, message, booking)
           items == Append(queue.items, item)
<1>1. Whole(items) /\ Ids(items) = Ids(queue.items) \cup {message.id}
    BY EnteredWhole, AppendWhole DEF Keeps
<1> HIDE DEF items
<1>2. CASE message.id \in Ids(queue.items)
    BY <1>2 DEF Scheduled
<1>3. CASE message.id \notin Ids(queue.items)
    <2>1. Scheduled(queue, message, booking) = Moved(queue, items, HoldOf(queue))
        BY <1>3 DEF Scheduled, items
    <2>2. QED BY <1>1, <2>1, MovedItems DEF Keeps
<1>4. QED BY <1>2, <1>3

LEMMA ReleasedIds ==
    ASSUME NEW queue, Keeps(queue), NEW ids
    PROVE  /\ Keeps(Released(queue, ids))
           /\ Ids(Released(queue, ids).items) = Ids(queue.items)
<1> DEFINE freed(item) == item.id \in ids /\ IsBooked(item)
           items == [i \in DOMAIN queue.items |->
                        IF freed(queue.items[i])
                        THEN [queue.items[i] EXCEPT !.booking = NoBooking]
                        ELSE queue.items[i]]
<1>1. \A i \in DOMAIN queue.items : /\ DOMAIN items[i] = DOMAIN queue.items[i]
                                    /\ items[i].id = queue.items[i].id
    BY DEF Keeps, Whole, Fields
<1>2. items = [i \in DOMAIN queue.items |-> items[i]]
    OBVIOUS
<1>3. Released(queue, ids) = queue \/ Released(queue, ids) = Moved(queue, items, "none")
    BY DEF Released
<1> HIDE DEF items
<1>4. Whole(items) /\ Ids(items) = Ids(queue.items)
    BY <1>1, <1>2, ChangedWhole DEF Keeps
<1>5. QED BY <1>3, <1>4, MovedItems DEF Keeps

\* Only the version asked about is taken out.
LEMMA RemovedIds ==
    ASSUME NEW queue, Keeps(queue), NEW id, NEW revision
    PROVE  /\ Keeps(Removed(queue, id, revision))
           /\ Ids(Removed(queue, id, revision).items) =
                 IF \E i \in DOMAIN queue.items :
                        queue.items[i].id = id /\ queue.items[i].revision = revision
                 THEN Ids(queue.items) \ {id} ELSE Ids(queue.items)
<1> DEFINE found == \E i \in DOMAIN queue.items :
                        queue.items[i].id = id /\ queue.items[i].revision = revision
           items == Without(queue.items, {id})
<1>1. Whole(items) /\ Ids(items) = Ids(queue.items) \ {id}
    BY WithoutIds DEF Keeps, Whole
<1>2. ChangeOf(queue, id, revision) = "done" <=> found
    BY DEF ChangeOf, Ids
<1>3. Removed(queue, id, revision) = IF found THEN Moved(queue, items, HoldOf(queue)) ELSE queue
    BY <1>2 DEF Removed
<1> HIDE DEF items, found
<1>4. /\ Keeps(Removed(queue, id, revision))
      /\ Ids(Removed(queue, id, revision).items) =
            IF found THEN Ids(queue.items) \ {id} ELSE Ids(queue.items)
    BY <1>1, <1>3, MovedItems DEF Keeps
<1>5. QED BY <1>4 DEF found

LEMMA TakenIds ==
    ASSUME NEW queue, Keeps(queue), NEW ids
    PROVE  /\ Keeps(Taken(queue, ids))
           /\ Ids(Taken(queue, ids).items) = Ids(queue.items) \ ids
<1>1. /\ Whole(Without(queue.items, ids))
      /\ Ids(Without(queue.items, ids)) = Ids(queue.items) \ ids
    BY WithoutIds DEF Keeps, Whole
<1>2. QED BY <1>1, MovedItems DEF Keeps, Taken

LEMMA DroppedIds ==
    ASSUME NEW queue, Keeps(queue), NEW ids, NEW hold
    PROVE  /\ Keeps(Moved(queue, Without(queue.items, ids), hold))
           /\ Ids(Moved(queue, Without(queue.items, ids), hold).items) = Ids(queue.items) \ ids
<1>1. /\ Whole(Without(queue.items, ids))
      /\ Ids(Without(queue.items, ids)) = Ids(queue.items) \ ids
    BY WithoutIds DEF Keeps, Whole
<1>2. QED BY <1>1, MovedItems DEF Keeps

\* A turn's continuations go, and nothing is added.
LEMMA SupersededIds ==
    ASSUME NEW queue, Keeps(queue)
    PROVE  /\ Keeps(Superseded(queue))
           /\ Ids(Superseded(queue).items) \subseteq Ids(queue.items)
           /\ \A i \in DOMAIN queue.items :
                 ~queue.items[i].continues => queue.items[i].id \in Ids(Superseded(queue).items)
<1> DEFINE stays == {i \in DOMAIN queue.items : ~queue.items[i].continues}
           items == Only(queue.items, stays)
<1>1. /\ Whole(items)
      /\ Ids(items) = {queue.items[i].id : i \in {k \in DOMAIN queue.items : k \in stays}}
    BY OnlyWhole DEF Keeps, Whole
<1>2. Ids(items) \subseteq Ids(queue.items)
      /\ \A i \in DOMAIN queue.items : ~queue.items[i].continues => queue.items[i].id \in Ids(items)
    BY <1>1 DEF Ids
<1>3. \A i \in DOMAIN queue.items : queue.items[i].id \in Ids(queue.items)
    BY DEF Ids
<1>4. Superseded(queue) = queue \/ Superseded(queue) = Moved(queue, items, HoldOf(queue))
    BY DEF Superseded
<1> HIDE DEF items
<1>5. QED BY <1>1, <1>2, <1>3, <1>4, MovedItems DEF Keeps

\* What was handed back is in the queue again, once.
LEMMA ReturnedIds ==
    ASSUME NEW queue, Keeps(queue), NEW messages, InRow(messages)
    PROVE  /\ Keeps(Returned(queue, messages))
           /\ Ids(Returned(queue, messages).items) = Ids(queue.items) \cup Ids(messages)
<1> DEFINE back == Without(messages, Ids(queue.items))
           front == [i \in DOMAIN back |-> Entered(queue, back[i], NoBooking)]
<1>1. InRow(back) /\ Ids(back) = Ids(messages) \ Ids(queue.items)
    BY WithoutIds
<1>2. Returned(queue, messages) = Moved(queue, front \o queue.items, "refused")
    BY DEF Returned
<1> HIDE DEF back
<1>3. /\ front = [i \in DOMAIN back |-> front[i]]
      /\ \A i \in DOMAIN back : Fields \subseteq DOMAIN front[i] /\ front[i].id = back[i].id
    BY EnteredWhole
<1> HIDE DEF front
<1>4. Whole(front) /\ Ids(front) = Ids(back)
    <2>1. Len(back) \in Nat /\ DOMAIN back = 1..Len(back)
        BY <1>1, RowShape
    <2>2. InRow(front) /\ DOMAIN front = DOMAIN back
        BY <1>3, <2>1, RowShape
    <2>3. QED BY <1>3, <2>2 DEF Whole, Ids
<1>5. /\ Whole(front \o queue.items)
      /\ Ids(front \o queue.items) = Ids(front) \cup Ids(queue.items)
    BY <1>4, ConcatWhole DEF Keeps
<1>6. QED BY <1>1, <1>2, <1>4, <1>5, MovedItems DEF Keeps

LEMMA HeldIds ==
    ASSUME NEW queue, Keeps(queue), NEW reason
    PROVE  /\ Keeps(Held(queue, reason))
           /\ Ids(Held(queue, reason).items) = Ids(queue.items)
<1>1. Held(queue, reason) = queue \/ Held(queue, reason) = Moved(queue, queue.items, reason)
    BY DEF Held
<1>2. QED BY <1>1, MovedItems DEF Keeps

\* What goes as one turn is the head of what waits, and at least one message.
LEMMA TogetherHead ==
    ASSUME NEW items, InRow(items), items # << >>
    PROVE  /\ InRow(Together(items)) /\ Together(items) # << >>
           /\ \A i \in DOMAIN Together(items) : i \in DOMAIN items /\ Together(items)[i] = items[i]
<1> DEFINE n == Len(items)
           rides(m) ==
               \A i \in 1..m :
                   /\ items[i].voice = "person"
                   /\ ~items[i].continues
                   /\ items[i].actor = items[1].actor
           files[m \in 0..Len(items)] == IF m = 0 THEN 0 ELSE files[m - 1] + items[m].files
           fits(m) == \A i \in 2..m : files[i] <= ATTACHMENT_LIMIT
           R == {1} \cup {m \in 1..Len(items) : rides(m) /\ fits(m)}
<1>1. n \in Nat /\ DOMAIN items = 1..n /\ items \in Seq({items[i] : i \in DOMAIN items})
    BY RowShape DEF InRow
<1>2. Together(items) = IF n <= 1 THEN items ELSE SubSeq(items, 1, Max(R))
    BY DEF Together
<1>3. R \subseteq 1..n \cup {1} /\ 1 \in R
    OBVIOUS
<1> HIDE DEF R
<1>4. n # 0
    BY <1>1
<1>5. CASE n <= 1
    BY <1>1, <1>2, <1>5
<1>6. CASE ~(n <= 1)
    <2>1. R \subseteq 1..n
        BY <1>1, <1>3, <1>6
    <2> DEFINE T == {n - m : m \in R}
    <2>2. T \subseteq Nat /\ T # {}
        BY <1>1, <1>3, <2>1
    <2>3. PICK t \in T : \A k \in T : t <= k
        BY <2>2, Least
    <2>4. \E x \in R : \A y \in R : x >= y
        <3>1. PICK x \in R : t = n - x
            OBVIOUS
        <3>2. ASSUME NEW y \in R PROVE x >= y
            <4>1. n - x <= n - y
                BY <2>3, <3>1
            <4>2. x \in Nat /\ y \in Nat
                BY <2>1
            <4>3. QED BY <1>1, <4>1, <4>2
        <3>3. QED BY <3>2
    <2>5. Max(R) \in R
        BY <2>4 DEF Max
    <2> DEFINE m == Max(R)
               o == SubSeq(items, 1, m)
    <2>6. m \in 1..n
        BY <2>1, <2>5
    <2> HIDE DEF m
    <2>7. \A i \in 1..m : i \in DOMAIN items /\ items[i] \in {items[k] : k \in DOMAIN items}
        BY <1>1, <2>6
    <2>8. /\ o \in Seq({items[i] : i \in DOMAIN items}) /\ Len(o) = m
          /\ \A i \in 1..m : o[i] = items[i]
        <3> DEFINE S == {items[i] : i \in DOMAIN items}
        <3>1. m \in Int /\ 1 \in Int /\ 1 <= m /\ (m - 1) + 1 = m
            BY <2>6
        <3>2. \A i \in 1..m : items[i] \in S
            BY <2>7
        <3> HIDE DEF S
        <3>3. /\ o \in Seq(S) /\ Len(o) = IF 1 <= m THEN m - 1 + 1 ELSE 0
              /\ \A i \in 1..(m - 1 + 1) : o[i] = items[i + 1 - 1]
            BY <3>1, <3>2, SubSeqProperties
        <3> HIDE DEF o
        <3>4. QED BY <2>6, <3>1, <3>3 DEF S
    <2>9. Together(items) = o
        BY <1>2, <1>6 DEF m
    <2> HIDE DEF o
    <2>10. InRow(o) /\ DOMAIN o = 1..m
        BY <2>8, RowShape
    <2>11. o # << >>
        BY <2>6, <2>10
    <2>12. QED BY <2>7, <2>8, <2>9, <2>10, <2>11
<1>7. QED BY <1>5, <1>6

=============================================================================
