-------------------------- MODULE AsyncQueue_proof --------------------------
(***************************************************************************)
(* The AsyncQueue is a queue, for any values and any number of calls of    *)
(* add(), as long as no caller runs while the iterator is ending.          *)
(***************************************************************************)
EXTENDS AsyncQueue, SequenceTheorems, TLAPS

(***************************************************************************)
(* What the array holds beyond the iterator.                               *)
(***************************************************************************)
Rest(s, n) == SubSeq(s, n, Len(s))

LEMMA RestType ==
  ASSUME NEW s \in Seq(Values), NEW n \in 1..Len(s) + 1
  PROVE  /\ Rest(s, n) \in Seq(Values)
         /\ Len(Rest(s, n)) = Len(s) + 1 - n
         /\ \A i \in 1..(Len(s) + 1 - n) : Rest(s, n)[i] = s[n + i - 1]
BY DEF Rest

\* A value is added behind the rest.
LEMMA RestAppend ==
  ASSUME NEW s \in Seq(Values), NEW n \in 1..Len(s) + 1, NEW v \in Values,
         NEW c \in Seq(Values)
  PROVE  c \o Rest(Append(s, v), n) = Append(c \o Rest(s, n), v)
<1> DEFINE t == Append(s, v)
           r == Rest(s, n)
           l == Len(s) + 1 - n
<1>1. /\ t \in Seq(Values) /\ Len(t) = Len(s) + 1 /\ n \in 1..Len(t) + 1
      /\ \A i \in 1..Len(s) : t[i] = s[i]
      /\ t[Len(s) + 1] = v
  BY AppendProperties
<1>2. /\ l \in Nat
      /\ r \in Seq(Values) /\ Len(r) = l
      /\ \A i \in 1..l : r[i] = s[n + i - 1]
  BY RestType
<1> HIDE DEF t
<1>3. /\ Rest(t, n) \in Seq(Values)
      /\ Len(Rest(t, n)) = Len(t) + 1 - n
      /\ \A i \in 1..(Len(t) + 1 - n) : Rest(t, n)[i] = t[n + i - 1]
  BY <1>1, RestType
<1>4. Len(t) + 1 - n = l + 1
  BY <1>1
<1>5. /\ \A i \in 1..l : n + i - 1 \in 1..Len(s)
      /\ n + (l + 1) - 1 = Len(s) + 1
  OBVIOUS
<1> HIDE DEF r, l
<1>6. Rest(t, n) = Append(r, v)
  <2>1. /\ Append(r, v) \in Seq(Values)
        /\ Len(Append(r, v)) = l + 1
        /\ \A i \in 1..l : Append(r, v)[i] = r[i]
        /\ Append(r, v)[l + 1] = v
    BY <1>2, AppendProperties
  <2>2. \A i \in 1..l : Rest(t, n)[i] = Append(r, v)[i]
    <3> TAKE i \in 1..l
    <3>1. n + i - 1 \in 1..Len(s) /\ i \in 1..(l + 1)
      BY <1>2, <1>5
    <3>2. Rest(t, n)[i] = t[n + i - 1]
      BY <1>3, <1>4, <3>1
    <3>3. t[n + i - 1] = s[n + i - 1]
      BY <1>1, <3>1
    <3> QED
      BY <1>2, <2>1, <3>2, <3>3
  <2>3. Rest(t, n)[l + 1] = v
    <3>1. l + 1 \in 1..(l + 1)
      BY <1>2
    <3>2. Rest(t, n)[l + 1] = t[n + (l + 1) - 1]
      BY <1>3, <1>4, <3>1
    <3> QED
      BY <1>1, <1>5, <3>2
  <2>4. \A i \in 1..(l + 1) : Rest(t, n)[i] = Append(r, v)[i]
    BY <1>2, <2>1, <2>2, <2>3
  <2> QED
    BY <1>3, <1>4, <2>1, <2>4, SeqEqual
<1>7. c \o Append(r, v) = Append(c \o r, v)
  BY <1>2
<1> QED
  BY <1>6, <1>7 DEF t, r

\* A value is taken from the front of the rest.
LEMMA RestAdvance ==
  ASSUME NEW s \in Seq(Values), NEW n \in 1..Len(s), NEW c \in Seq(Values)
  PROVE  Append(c, s[n]) \o Rest(s, n + 1) = c \o Rest(s, n)
<1> DEFINE r == Rest(s, n)
           q == Rest(s, n + 1)
           d == Append(c, s[n])
           k == Len(c)
           l == Len(s) - n
<1>1. k \in Nat /\ l \in Nat /\ s[n] \in Values /\ n \in Nat
  OBVIOUS
<1>2. /\ r \in Seq(Values) /\ Len(r) = l + 1
      /\ \A i \in 1..(l + 1) : r[i] = s[n + i - 1]
  <2>1. Len(s) + 1 - n = l + 1
    OBVIOUS
  <2> QED
    BY <2>1, RestType
<1>3. /\ q \in Seq(Values) /\ Len(q) = l
      /\ \A i \in 1..l : q[i] = s[n + i]
  <2> DEFINE p == n + 1
  <2>1. p \in 1..Len(s) + 1 /\ Len(s) + 1 - p = l
    OBVIOUS
  <2>2. \A i \in 1..l : p + i - 1 = n + i
    OBVIOUS
  <2> HIDE DEF p, l
  <2>3. /\ Rest(s, p) \in Seq(Values) /\ Len(Rest(s, p)) = l
        /\ \A i \in 1..l : Rest(s, p)[i] = s[p + i - 1]
    BY <2>1, RestType
  <2> QED
    BY <2>2, <2>3 DEF p
<1>4. /\ d \in Seq(Values) /\ Len(d) = k + 1
      /\ \A i \in 1..k : d[i] = c[i]
      /\ d[k + 1] = s[n]
  BY <1>1, AppendProperties
<1> HIDE DEF r, q, d
<1>5. /\ d \o q \in Seq(Values) /\ Len(d \o q) = k + 1 + l
      /\ \A i \in 1..(k + 1 + l) :
           (d \o q)[i] = IF i <= k + 1 THEN d[i] ELSE q[i - (k + 1)]
  <2>1. /\ d \o q \in Seq(Values) /\ Len(d \o q) = Len(d) + Len(q)
        /\ \A i \in 1..(Len(d) + Len(q)) :
             (d \o q)[i] = IF i <= Len(d) THEN d[i] ELSE q[i - Len(d)]
    BY <1>3, <1>4, ConcatProperties
  <2> HIDE DEF k, l
  <2> QED
    BY <1>3, <1>4, <2>1
<1>6. /\ c \o r \in Seq(Values) /\ Len(c \o r) = k + 1 + l
      /\ \A i \in 1..(k + 1 + l) :
           (c \o r)[i] = IF i <= k THEN c[i] ELSE r[i - k]
  <2>1. /\ c \o r \in Seq(Values) /\ Len(c \o r) = k + Len(r)
        /\ \A i \in 1..(k + Len(r)) :
             (c \o r)[i] = IF i <= k THEN c[i] ELSE r[i - k]
    BY <1>2, ConcatProperties
  <2> HIDE DEF k, l
  <2>2. k + Len(r) = k + 1 + l
    BY <1>1, <1>2
  <2> QED
    BY <2>1, <2>2
<1> HIDE DEF k, l
<1>7. \A i \in 1..(k + 1 + l) : (d \o q)[i] = (c \o r)[i]
  <2> TAKE i \in 1..(k + 1 + l)
  <2>1. CASE i <= k
    BY <1>1, <1>4, <1>5, <1>6, <2>1
  <2>2. CASE i = k + 1
    <3>1. (d \o q)[i] = s[n]
      BY <1>1, <1>4, <1>5, <2>2
    <3>2. (c \o r)[i] = r[1]
      BY <1>1, <1>6, <2>2
    <3>3. r[1] = s[n]
      BY <1>1, <1>2
    <3> QED
      BY <3>1, <3>2, <3>3
  <2>3. CASE i > k + 1
    <3>1. (d \o q)[i] = q[i - (k + 1)] /\ i - (k + 1) \in 1..l
      BY <1>1, <1>5, <2>3
    <3>2. (c \o r)[i] = r[i - k] /\ i - k \in 1..(l + 1)
      BY <1>1, <1>6, <2>3
    <3>3. n + (i - (k + 1)) = n + (i - k) - 1
      BY <1>1
    <3> QED
      BY <1>2, <1>3, <3>1, <3>2, <3>3
  <2>4. i <= k \/ i = k + 1 \/ i > k + 1
    BY <1>1
  <2> QED
    BY <2>1, <2>2, <2>3, <2>4
<1> QED
  BY <1>5, <1>6, <1>7, SeqEqual DEF d, q, r

(***************************************************************************)
(* The theorem.                                                            *)
(***************************************************************************)
\* InOrder alone is not inductive: replacing the array keeps it only because
\* the iterator has reached the end, and that is what SleepsOnEmpty says.
QueueInv == TypeOK /\ SleepsOnEmpty /\ InOrder

LEMMA QueueInitially == Init => QueueInv
BY DEF Init, QueueInv, TypeOK, SleepsOnEmpty, InOrder

LEMMA QueueStep ==
  ASSUME ~AddsWhileEnding, QueueInv, [Next]_vars
  PROVE  QueueInv'
<1> USE DEF QueueInv, TypeOK
<1>1. ASSUME NEW v \in Values, Add(v) PROVE QueueInv'
  <2>1. /\ items' = Append(items, v) /\ added' = Append(added, v)
        /\ next' = next /\ consumed' = consumed
        /\ consumer # "ending"
        /\ consumer' = IF consumer = "waiting" THEN "woken" ELSE consumer
    BY <1>1 DEF Add, Wake
  <2>2. TypeOK'
    BY <2>1
  <2>3. SleepsOnEmpty'
    BY <2>1 DEF SleepsOnEmpty
  <2>4. consumed \o Rest(Append(items, v), next)
          = Append(consumed \o Rest(items, next), v)
    BY RestAppend
  <2>5. InOrder'
    BY <2>1, <2>4 DEF InOrder, Rest
  <2> QED
    BY <2>2, <2>3, <2>5
<1>2. CASE Ask
  <2>1. CASE next <= Len(items)
    <3>1. /\ consumed' = Append(consumed, items[next])
          /\ next' = next + 1 /\ consumer = "body"
          /\ UNCHANGED <<items, added, consumer>>
      BY <1>2, <2>1 DEF Ask
    <3>2. TypeOK' /\ SleepsOnEmpty'
      BY <2>1, <3>1 DEF SleepsOnEmpty
    <3>3. Append(consumed, items[next]) \o Rest(items, next + 1)
            = consumed \o Rest(items, next)
      BY <2>1, RestAdvance
    <3>4. InOrder'
      BY <3>1, <3>3 DEF InOrder, Rest
    <3> QED
      BY <3>2, <3>4
  <2>2. CASE next > Len(items)
    BY <1>2, <2>2 DEF Ask, SleepsOnEmpty, InOrder
  <2> QED
    BY <2>1, <2>2
<1>3. CASE Reset
  <2>1. /\ items' = <<>> /\ next' = 1 /\ consumer' = "waiting"
        /\ UNCHANGED <<added, consumed>>
        /\ consumer = "ending"
    BY <1>3 DEF Reset
  <2>2. TypeOK' /\ SleepsOnEmpty'
    BY <2>1 DEF SleepsOnEmpty
  <2>3. SubSeq(items, next, Len(items)) = <<>>
    BY <2>1 DEF SleepsOnEmpty
  <2>4. SubSeq(items', next', Len(items')) = <<>>
    BY <2>1
  <2>5. InOrder'
    BY <2>1, <2>3, <2>4 DEF InOrder
  <2> QED
    BY <2>2, <2>5
<1>4. CASE Resume
  BY <1>4 DEF Resume, SleepsOnEmpty, InOrder
<1>5. CASE UNCHANGED vars
  BY <1>5 DEF vars, SleepsOnEmpty, InOrder
<1> QED
  BY <1>1, <1>2, <1>3, <1>4, <1>5 DEF Next

\* AsyncQueue hands over every value once and in the order of the calls of
\* add(), provided no caller runs between the end of its array and the
\* replacement.
THEOREM ValuesInOrder == ~AddsWhileEnding => (Spec => []InOrder)
<1> SUFFICES ASSUME ~AddsWhileEnding PROVE Spec => []InOrder
  OBVIOUS
<1>1. QueueInv /\ [Next]_vars => QueueInv'
  BY QueueStep
<1>2. QueueInv => InOrder
  BY DEF QueueInv
<1> QED
  BY <1>1, <1>2, QueueInitially, PTL DEF Spec
=============================================================================
