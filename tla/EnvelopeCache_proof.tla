-------------------------- MODULE EnvelopeCache_proof --------------------------
(***************************************************************************)
(* No envelope is lost between the server and the app, for any number of   *)
(* messages, deliveries, failures, reconnections and restarts: what is     *)
(* acknowledged is in the table (KeptInv), "empty" comes behind what the   *)
(* server had sent (EarnedInv), and what is in the table and in no hand is *)
(* read again (WatchInv).                                                  *)
(***************************************************************************)
EXTENDS EnvelopeCache, FiniteSetTheorems, SequenceTheorems, TLAPS

-----------------------------------------------------------------------------
(***************************************************************************)
(* Sequences: what they hold, and in which order.                          *)
(***************************************************************************)
Rising(s, R) == \A m, n \in DOMAIN s : m < n => <<s[m], s[n]>> \in R

\* A sequence with one more member.
LEMMA HoldsAppend ==
  ASSUME NEW S, NEW s \in Seq(S), NEW e \in S
  PROVE  /\ Append(s, e) \in Seq(S)
         /\ ToSet(Append(s, e)) = ToSet(s) \cup {e}
         /\ \A R : Rising(s, R) /\ (\A x \in ToSet(s) : <<x, e>> \in R) => Rising(Append(s, e), R)
<1> DEFINE t == Append(s, e)
<1>1. /\ DOMAIN t = 1..(Len(s) + 1) /\ DOMAIN s = 1..Len(s) /\ Len(s) \in Nat
      /\ \A i \in 1..Len(s) : t[i] = s[i]
      /\ t[Len(s) + 1] = e
      /\ t \in Seq(S)
  BY AppendProperties, LenProperties
<1> HIDE DEF t
<1>2. ToSet(t) = ToSet(s) \cup {e}
  BY <1>1 DEF ToSet
<1>3. ASSUME NEW R, Rising(s, R), \A x \in ToSet(s) : <<x, e>> \in R,
             NEW m \in DOMAIN t, NEW n \in DOMAIN t, m < n
      PROVE  <<t[m], t[n]>> \in R
  <2>1. m \in DOMAIN s
    BY <1>1, <1>3
  <2>2. CASE n \in DOMAIN s
    BY <1>1, <1>3, <2>1, <2>2 DEF Rising
  <2>3. CASE n = Len(s) + 1
    BY <1>1, <1>3, <2>1, <2>3 DEF ToSet
  <2> QED
    BY <1>1, <2>2, <2>3
<1> QED
  BY <1>1, <1>2, <1>3 DEF Rising, t

\* A sequence without its head.
LEMMA HoldsTail ==
  ASSUME NEW S, NEW s \in Seq(S), s # <<>>
  PROVE  /\ Head(s) \in S /\ Tail(s) \in Seq(S)
         /\ ToSet(s) = ToSet(Tail(s)) \cup {Head(s)}
         /\ \A R : Rising(s, R) => Rising(Tail(s), R) /\ \A x \in ToSet(Tail(s)) : <<Head(s), x>> \in R
<1> DEFINE t == Tail(s)
<1>1. /\ Len(s) \in Nat /\ Len(s) >= 1 /\ DOMAIN s = 1..Len(s)
      /\ DOMAIN t = 1..(Len(s) - 1)
      /\ \A i \in 1..(Len(s) - 1) : t[i] = s[i + 1]
      /\ Head(s) = s[1]
      /\ Head(s) \in S /\ t \in Seq(S)
  BY HeadTailProperties, LenProperties, EmptySeq
<1> HIDE DEF t
<1>2. \A i \in 1..Len(s) : i # 1 => i - 1 \in 1..(Len(s) - 1) /\ (i - 1) + 1 = i
  BY <1>1
<1>3. \A i \in 1..(Len(s) - 1) : i + 1 \in 1..Len(s)
  BY <1>1
<1>4. ToSet(s) \subseteq ToSet(t) \cup {Head(s)}
  <2> SUFFICES ASSUME NEW i \in 1..Len(s) PROVE s[i] \in ToSet(t) \cup {Head(s)}
    BY <1>1 DEF ToSet
  <2>1. i = 1 \/ (i - 1 \in DOMAIN t /\ t[i - 1] = s[i])
    BY <1>1, <1>2
  <2> QED
    BY <1>1, <2>1 DEF ToSet
<1>5. ToSet(t) \subseteq ToSet(s) /\ Head(s) \in ToSet(s)
  <2>1. 1 \in DOMAIN s
    BY <1>1
  <2>2. \A i \in DOMAIN t : i + 1 \in DOMAIN s /\ t[i] = s[i + 1]
    BY <1>1, <1>3
  <2> QED
    BY <1>1, <2>1, <2>2 DEF ToSet
<1>6. ASSUME NEW R, Rising(s, R)
      PROVE  Rising(t, R) /\ \A x \in ToSet(t) : <<Head(s), x>> \in R
  <2>0. /\ 1 \in DOMAIN s
        /\ \A i \in DOMAIN t : i + 1 \in DOMAIN s /\ t[i] = s[i + 1] /\ 1 < i + 1
        /\ \A i, j \in DOMAIN t : i < j => i + 1 < j + 1
    BY <1>1, <1>3
  <2>1. Rising(t, R)
    <3> SUFFICES ASSUME NEW i \in DOMAIN t, NEW j \in DOMAIN t, i < j PROVE <<t[i], t[j]>> \in R
      BY DEF Rising
    <3>1. <<s[i + 1], s[j + 1]>> \in R
      BY <1>6, <2>0 DEF Rising
    <3> QED
      BY <2>0, <3>1
  <2>2. \A i \in DOMAIN t : <<s[1], t[i]>> \in R
    <3> TAKE i \in DOMAIN t
    <3>1. <<s[1], s[i + 1]>> \in R
      BY <1>6, <2>0 DEF Rising
    <3> QED
      BY <2>0, <3>1
  <2> QED
    BY <1>1, <2>1, <2>2 DEF ToSet
<1> QED
  BY <1>1, <1>4, <1>5, <1>6 DEF t

\* Two sequences, one behind the other.
LEMMA HoldsBoth ==
  ASSUME NEW S, NEW s \in Seq(S), NEW t \in Seq(S)
  PROVE  /\ s \o t \in Seq(S)
         /\ ToSet(s \o t) = ToSet(s) \cup ToSet(t)
         /\ \A R : /\ Rising(s, R) /\ Rising(t, R)
                   /\ \A x \in ToSet(s), y \in ToSet(t) : <<x, y>> \in R
                   => Rising(s \o t, R)
<1> DEFINE c == s \o t
           m == Len(s)
           n == Len(t)
<1>1. /\ DOMAIN c = 1..(m + n) /\ DOMAIN s = 1..m /\ DOMAIN t = 1..n
      /\ m \in Nat /\ n \in Nat
      /\ \A i \in 1..(m + n) : c[i] = IF i <= m THEN s[i] ELSE t[i - m]
      /\ c \in Seq(S)
  BY ConcatProperties, LenProperties
<1> HIDE DEF c, m, n
<1>2. /\ \A i \in 1..m : i \in 1..(m + n) /\ c[i] = s[i]
      /\ \A i \in 1..(m + n) : i \in 1..m \/ (i - m \in 1..n /\ c[i] = t[i - m])
  BY <1>1
<1>3. \A i \in 1..n : i + m \in 1..(m + n) /\ c[i + m] = t[i]
  <2> TAKE i \in 1..n
  <2>1. i + m \in 1..(m + n) /\ ~(i + m <= m) /\ (i + m) - m = i
    BY <1>1
  <2> QED
    BY <1>1, <2>1
<1>4. ToSet(c) = ToSet(s) \cup ToSet(t)
  <2>1. ToSet(c) \subseteq ToSet(s) \cup ToSet(t)
    BY <1>1, <1>2 DEF ToSet
  <2>2. ToSet(s) \subseteq ToSet(c)
    BY <1>1, <1>2 DEF ToSet
  <2>3. ToSet(t) \subseteq ToSet(c)
    BY <1>1, <1>3 DEF ToSet
  <2> QED
    BY <2>1, <2>2, <2>3
<1>5. ASSUME NEW R, Rising(s, R), Rising(t, R), \A x \in ToSet(s), y \in ToSet(t) : <<x, y>> \in R,
             NEW i \in DOMAIN c, NEW j \in DOMAIN c, i < j
      PROVE  <<c[i], c[j]>> \in R
  <2>1. CASE i \in 1..m /\ j \in 1..m
    BY <1>1, <1>2, <1>5, <2>1 DEF Rising
  <2>2. CASE i \in 1..m /\ j \notin 1..m
    BY <1>1, <1>2, <1>5, <2>2 DEF ToSet
  <2>3. CASE i \notin 1..m
    <3>1. j \notin 1..m /\ i - m < j - m
      BY <1>1, <1>5, <2>3
    <3>2. i - m \in 1..n /\ j - m \in 1..n /\ c[i] = t[i - m] /\ c[j] = t[j - m]
      BY <1>1, <1>2, <2>3, <3>1
    <3> QED
      BY <1>1, <1>5, <3>1, <3>2 DEF Rising
  <2> QED
    BY <2>1, <2>2, <2>3
<1> QED
  BY <1>1, <1>4, <1>5 DEF Rising, c

\* A sequence cut in two.
LEMMA HoldsCut ==
  ASSUME NEW S, NEW s \in Seq(S), NEW n \in 1..Len(s)
  PROVE  /\ SubSeq(s, 1, n) \in Seq(S) /\ SubSeq(s, n + 1, Len(s)) \in Seq(S)
         /\ DOMAIN SubSeq(s, 1, n) = 1..n
         /\ ToSet(s) = ToSet(SubSeq(s, 1, n)) \cup ToSet(SubSeq(s, n + 1, Len(s)))
         /\ \A R : Rising(s, R) =>
              /\ Rising(SubSeq(s, 1, n), R) /\ Rising(SubSeq(s, n + 1, Len(s)), R)
              /\ \A x \in ToSet(SubSeq(s, 1, n)), y \in ToSet(SubSeq(s, n + 1, Len(s))) : <<x, y>> \in R
<1> DEFINE a == SubSeq(s, 1, n)
           b == SubSeq(s, n + 1, Len(s))
           l == Len(s)
<1>1. /\ l \in Nat /\ n \in 1..l /\ DOMAIN s = 1..l
      /\ DOMAIN a = 1..n /\ \A i \in 1..n : a[i] = s[i]
      /\ DOMAIN b = 1..(l - n) /\ \A i \in 1..(l - n) : b[i] = s[n + i]
      /\ a \in Seq(S) /\ b \in Seq(S)
  OBVIOUS
<1> HIDE DEF a, b, l
<1>2. /\ \A i \in 1..n : i \in 1..l
      /\ \A i \in 1..(l - n) : n + i \in 1..l
      /\ \A i \in 1..l : i \in 1..n \/ (i - n \in 1..(l - n) /\ n + (i - n) = i)
      /\ \A i \in 1..n, j \in 1..(l - n) : i < n + j
      /\ \A i, j \in 1..(l - n) : i < j => n + i < n + j
  BY <1>1
<1>3. ToSet(s) \subseteq ToSet(a) \cup ToSet(b)
  <2> SUFFICES ASSUME NEW i \in 1..l PROVE s[i] \in ToSet(a) \cup ToSet(b)
    BY <1>1 DEF ToSet
  <2>1. CASE i \in 1..n
    BY <1>1, <2>1 DEF ToSet
  <2>2. CASE i \notin 1..n
    <3>1. i - n \in 1..(l - n) /\ b[i - n] = s[i]
      BY <1>1, <1>2, <2>2
    <3> QED
      BY <1>1, <3>1 DEF ToSet
  <2> QED
    BY <2>1, <2>2
<1>4. ToSet(a) \cup ToSet(b) \subseteq ToSet(s)
  BY <1>1, <1>2 DEF ToSet
<1>5. ASSUME NEW R, Rising(s, R)
      PROVE  Rising(a, R) /\ Rising(b, R) /\ \A x \in ToSet(a), y \in ToSet(b) : <<x, y>> \in R
  <2>1. Rising(a, R)
    <3>1. \A i \in DOMAIN a : i \in DOMAIN s /\ a[i] = s[i]
      BY <1>1, <1>2
    <3> QED
      BY <1>5, <3>1 DEF Rising
  <2>2. Rising(b, R)
    <3> SUFFICES ASSUME NEW i \in DOMAIN b, NEW j \in DOMAIN b, i < j PROVE <<b[i], b[j]>> \in R
      BY DEF Rising
    <3>1. n + i \in DOMAIN s /\ n + j \in DOMAIN s /\ n + i < n + j
      BY <1>1, <1>2
    <3>2. <<s[n + i], s[n + j]>> \in R
      BY <1>5, <3>1 DEF Rising
    <3> QED
      BY <1>1, <3>2
  <2>3. \A i \in 1..n, j \in 1..(l - n) : <<s[i], s[n + j]>> \in R
    BY <1>1, <1>2, <1>5 DEF Rising
  <2>4. /\ \A x \in ToSet(a) : \E i \in 1..n : x = s[i]
        /\ \A y \in ToSet(b) : \E j \in 1..(l - n) : y = s[n + j]
    BY <1>1 DEF ToSet
  <2>5. \A x \in ToSet(a), y \in ToSet(b) : <<x, y>> \in R
    BY <2>3, <2>4
  <2> QED
    BY <2>1, <2>2, <2>5
<1> QED
  BY <1>1, <1>3, <1>4, <1>5 DEF a, b, l

\* The empty sequence.
LEMMA HoldsNothing == ToSet(<<>>) = {} /\ \A R : Rising(<<>>, R)
BY DEF ToSet, Rising

\* What a sequence holds has the type of its members.
LEMMA HoldsTyped ==
  ASSUME NEW S, NEW s \in Seq(S)
  PROVE  ToSet(s) \subseteq S
<1>1. DOMAIN s = 1..Len(s) /\ \A i \in 1..Len(s) : s[i] \in S
  BY LenProperties, ElementOfSeq
<1> QED
  BY <1>1 DEF ToSet

\* The members of a finite set, each once.
LEMMA InSomeOrder ==
  ASSUME NEW S, IsFiniteSet(S)
  PROVE  /\ SetToSeq(S) \in Seq(S)
         /\ ToSet(SetToSeq(S)) = S
         /\ \A i, j \in DOMAIN SetToSeq(S) : SetToSeq(S)[i] = SetToSeq(S)[j] => i = j
<1>1. PICK n \in Nat : ExistsBijection(1..n, S)
  BY FS_NatBijection
<1>2. Cardinality(S) = n
  BY <1>1, FS_CountingElements
<1>3. \E f \in [1..n -> S] : IsInjective(f)
  BY <1>1 DEF ExistsBijection, Bijection, Injection
<1> DEFINE f == SetToSeq(S)
<1>4. f \in [1..n -> S] /\ IsInjective(f)
  <2>1. f = CHOOSE g \in [1..n -> S] : IsInjective(g)
    BY <1>2 DEF SetToSeq
  <2> HIDE DEF f
  <2> QED
    BY <1>3, <2>1, Zenon
<1> HIDE DEF f
<1>5. f \in Seq(S) /\ DOMAIN f = 1..n
  BY <1>4
<1>6. \A y \in S : \E i \in 1..n : f[i] = y
  <2> DEFINE T == {f[i] : i \in 1..n}
  <2>1. f \in Bijection(1..n, T)
    BY <1>4 DEF Bijection, Injection, Surjection
  <2>2. ExistsBijection(1..n, T)
    BY <2>1 DEF ExistsBijection
  <2>3. IsFiniteSet(T) /\ Cardinality(T) = n
    BY <2>2, FS_NatBijection, FS_CountingElements
  <2>4. T \subseteq S
    BY <1>4
  <2> HIDE DEF T
  <2>5. T = S
    BY <1>2, <2>3, <2>4, FS_Subset
  <2> QED
    BY <2>5 DEF T
<1>7. ToSet(f) = S
  BY <1>4, <1>5, <1>6 DEF ToSet
<1> QED
  BY <1>4, <1>5, <1>7 DEF f, IsInjective

-----------------------------------------------------------------------------
(***************************************************************************)
(* The invariant of the two properties about the table.                    *)
(*                                                                         *)
(* A message has several envelopes when it has been delivered again.  Its  *)
(* first one to be decrypted commits the ratchet step, and every later one *)
(* meets an old counter and is removed.  That the first one keeps its row  *)
(* rests on the order of the envelopes: FirstIn, LiveFresh.  The messages  *)
(* of "doubled" are excepted throughout.                                   *)
(***************************************************************************)
\* The types, with any number of attempts.
AnItem == [id : Ids, attempts : Nat]
ARow == [encrypted : BOOLEAN, attempts : Nat]
Task ==
  [task : {"request"}, id : Ids] \cup [task : {"read"}] \cup [task : {"empty", "drain"}, before : SUBSET Ids]
    \cup [task : {"decrypt"}, item : AnItem] \cup [task : {"handle"}, id : Ids, last : BOOLEAN]

HandsTyped ==
  /\ pipe \in [incoming : Seq(Task), items : Seq(AnItem), encrypted : Seq(Task), decrypted : Seq(Task),
               app : Seq(Task), emptying : SUBSET SUBSET Ids]
  /\ batch \in [at : {"idle", "decrypting", "committed"}, items : Seq(AnItem), plain : Seq(AnItem),
                failed : SUBSET AnItem]
  /\ unprocessed \in [Ids -> ARow \cup {None}]
  /\ deliveries \in [Messages -> 0..MaxDeliveries]
  /\ reading \in (SUBSET Ids) \cup {None}
  /\ live \in SUBSET Ids /\ removing \in SUBSET Ids /\ errors \in SUBSET Ids
  /\ acked \in SUBSET Messages /\ used \in SUBSET Messages

\* The properties say nothing of these.
Exempt(m) == m \in Settled \cup doubled
Number(id) == id[2]
M(x) == MessageOf(x.id)

Requests(tasks) == {t \in ToSet(tasks) : t.task = "request"}
Decryptions(tasks) == {t.item : t \in {u \in ToSet(tasks) : u.task = "decrypt"}}

\* The hands: requests, the envelopes that wait on encryptedQueue, the list of the
\* batcher, and the parts of the running batch.
Requested == Requests(pipe.incoming)
Due == Decryptions(pipe.encrypted)
Listed == ToSet(pipe.items)
Taken == ToSet(batch.items)
Plain == ToSet(batch.plain)
Failed == batch.failed
Fresh(x) == x.attempts = 0
Current == IF batch.at = "decrypting" THEN Taken ELSE {}

\* What a batch has taken waits, is decrypted, has failed, or is dropped.
BatchParts ==
  /\ batch.at = "idle" => batch = NoBatch
  /\ batch.at # "decrypting" => Due = {}
  /\ Due \cup Plain \cup Failed \subseteq Taken
  /\ \A x \in Taken : x \in Due \cup Plain \cup Failed \/ M(x) \in dropped

\* Pairs for Rising: no envelope twice.
OneEach == {p \in AnItem \X AnItem : p[1].id = p[2].id => M(p[1]) \in doubled}
OneTask == {p \in Task \X Task : p[1].task = "decrypt" /\ p[2].task = "decrypt" /\ p[1].item.id = p[2].item.id
                                    => M(p[1].item) \in doubled}
Apart(X, Y) == \A x \in X, y \in Y : x.id = y.id => M(x) \in doubled
\* No envelope is in two hands.
OneHand ==
  /\ Rising(pipe.items, OneEach)
  /\ Rising(pipe.encrypted, OneTask)
  /\ Apart(Listed, Taken) /\ Apart(Due, Plain \cup Failed) /\ Apart(Plain, Failed)

\* Nothing has a number that is not yet given; what is live is the newest.
Numbered ==
  /\ \A x \in Requested \cup Listed \cup Taken : Number(x.id) <= deliveries[M(x)]
  /\ \A id \in Ids : unprocessed[id] # None => Number(id) <= deliveries[MessageOf(id)]
  /\ \A id \in live : Number(id) = deliveries[MessageOf(id)]

\* A request is new: no row, and no hand has it.
NewRequests ==
  \A r \in Requested : /\ unprocessed[r.id] = None
                       /\ \A x \in Listed \cup Taken : x.id # r.id

\* An envelope that waits to be decrypted has no row in plain text.
Closed ==
  \A x \in Listed \cup Current : M(x) \in doubled \/ unprocessed[x.id] = None \/ unprocessed[x.id].encrypted

\* An envelope without an answer has not been stored by an earlier batch, and what
\* has been read from the table is not live.
LiveFresh ==
  /\ \A id \in live : unprocessed[id] = None \/ (batch.at = "committed" /\ \E x \in Taken : x.id = id)
  /\ \A x \in Listed \cup Taken : x.id \in live => Fresh(x) \/ M(x) \in doubled

\* Deliveries of one message have rising numbers.
Earlier(x, y) == M(x) = M(y) => Number(x.id) < Number(y.id)
FreshOrder == {p \in AnItem \X AnItem : Fresh(p[1]) /\ Fresh(p[2]) => Earlier(p[1], p[2])}
RequestOrder == {p \in Task \X Task : p[1].task = "request" /\ p[2].task = "request" => Earlier(p[1], p[2])}
\* Of one message, the earlier delivery is ahead.
FirstIn ==
  /\ Rising(pipe.incoming, RequestOrder)
  /\ Rising(pipe.items, FreshOrder)
  /\ \A x \in Listed \cup Taken, r \in Requested : Fresh(x) => Earlier(x, r)
  /\ \A x \in Taken, y \in Listed : Fresh(x) /\ Fresh(y) => Earlier(x, y)

\* What has been read from the table still has its row, unless something settled
\* the message.
RowThere ==
  \A x \in Listed \cup Due \cup Plain :
    Fresh(x) \/ Exempt(M(x)) \/ M(x) \in used \/ unprocessed[x.id] # None

\* An envelope that has not been stored, of an acknowledged message, comes after
\* one that has been decrypted.
AckedLast ==
  /\ \A r \in Requested : M(r) \in acked => Exempt(M(r)) \/ M(r) \in used
  /\ \A x \in Listed \cup Current : Fresh(x) /\ M(x) \in acked => Exempt(M(x)) \/ M(x) \in used

\* A row is removed when its message is settled, when a ratchet step is stored or
\* about to be, and never a plain one that is needed.
Removals ==
  \A id \in removing :
    \/ Exempt(MessageOf(id))
    \/ /\ \/ MessageOf(id) \in used
          \/ /\ batch.at = "decrypting"
             /\ \E x \in Plain : M(x) = MessageOf(id)
             /\ \E x \in Failed : x.id = id
       /\ unprocessed[id] = None \/ unprocessed[id].encrypted
       /\ \A x \in Plain : x.id # id

\* Before it is answered, a batch has stored a row of all it has taken.
CommittedRows ==
  batch.at = "committed" => \A x \in Taken : Exempt(M(x)) \/ M(x) \in used \/ unprocessed[x.id] # None

KeptInv ==
  /\ HandsTyped /\ BatchParts /\ OneHand /\ Numbered /\ NewRequests /\ Closed /\ LiveFresh /\ FirstIn
  /\ RowThere /\ AckedLast /\ Removals /\ CommittedRows /\ PlainKept /\ NoneLost

-----------------------------------------------------------------------------
\* An id is a message and the number of its delivery.
LEMMA IdParts ==
  /\ MaxDeliveries \in Nat
  /\ \A id \in Ids : MessageOf(id) \in Messages /\ Number(id) \in 1..MaxDeliveries
  /\ \A m \in Messages, n \in 1..MaxDeliveries : <<m, n>> \in Ids /\ MessageOf(<<m, n>>) = m /\ Number(<<m, n>>) = n
BY EnvelopeAssumption DEF Ids, MessageOf, Number

\* A row is not the mark of a missing one.
LEMMA RowIsNotNone == ARow \cap {None} = {}
BY EnvelopeAssumption DEF ARow

\* What the hands hold.
LEMMA HandTypes ==
  ASSUME HandsTyped
  PROVE  /\ Requested \subseteq [task : {"request"}, id : Ids]
         /\ Listed \cup Taken \cup Plain \cup Failed \cup Due \subseteq AnItem
<1>1. /\ pipe.incoming \in Seq(Task) /\ pipe.encrypted \in Seq(Task) /\ pipe.items \in Seq(AnItem)
      /\ batch.items \in Seq(AnItem) /\ batch.plain \in Seq(AnItem) /\ batch.failed \in SUBSET AnItem
  BY DEF HandsTyped
<1>2. /\ ToSet(pipe.incoming) \subseteq Task /\ ToSet(pipe.encrypted) \subseteq Task
      /\ Listed \subseteq AnItem /\ Taken \subseteq AnItem /\ Plain \subseteq AnItem
  BY <1>1, HoldsTyped DEF Listed, Taken, Plain
<1>3. \A t \in Task : /\ t.task = "request" => t \in [task : {"request"}, id : Ids]
                      /\ t.task = "decrypt" => t.item \in AnItem
  BY DEF Task
<1> QED
  BY <1>1, <1>2, <1>3 DEF Requested, Due, Requests, Decryptions, Failed

\* A task that is neither a request nor a decryption changes nothing.
LEMMA OtherTask ==
  ASSUME NEW s \in Seq(Task), NEW e \in Task, e.task \notin {"request", "decrypt"}
  PROVE  /\ Append(s, e) \in Seq(Task)
         /\ Requests(Append(s, e)) = Requests(s) /\ Decryptions(Append(s, e)) = Decryptions(s)
         /\ Rising(s, RequestOrder) => Rising(Append(s, e), RequestOrder)
         /\ Rising(s, OneTask) => Rising(Append(s, e), OneTask)
<1>1. /\ Append(s, e) \in Seq(Task) /\ ToSet(Append(s, e)) = ToSet(s) \cup {e}
      /\ \A R : Rising(s, R) /\ (\A x \in ToSet(s) : <<x, e>> \in R) => Rising(Append(s, e), R)
  BY HoldsAppend
<1>2. ToSet(s) \subseteq Task
  BY HoldsTyped
<1>3. \A x \in ToSet(s) : <<x, e>> \in RequestOrder /\ <<x, e>> \in OneTask
  BY <1>2 DEF RequestOrder, OneTask
<1>4. Requests(Append(s, e)) = Requests(s) /\ Decryptions(Append(s, e)) = Decryptions(s)
  BY <1>1 DEF Requests, Decryptions
<1> QED
  BY <1>1, <1>3, <1>4

\* The head of a queue is taken: what remains, and in which order.
LEMMA TailTasks ==
  ASSUME NEW s \in Seq(Task), s # <<>>
  PROVE  /\ Head(s) \in Task /\ Tail(s) \in Seq(Task)
         /\ Requests(Tail(s)) \subseteq Requests(s) /\ Decryptions(Tail(s)) \subseteq Decryptions(s)
         /\ Head(s).task # "decrypt" => Decryptions(Tail(s)) = Decryptions(s)
         /\ Head(s).task = "request" =>
              /\ Head(s) \in Requests(s)
              /\ Rising(s, RequestOrder) => \A r \in Requests(Tail(s)) : Earlier(Head(s), r)
         /\ Head(s).task = "decrypt" =>
              /\ Decryptions(s) = Decryptions(Tail(s)) \cup {Head(s).item}
              /\ Rising(s, OneTask) => Apart(Decryptions(Tail(s)), {Head(s).item})
         /\ \A R : Rising(s, R) => Rising(Tail(s), R)
<1>1. /\ Head(s) \in Task /\ Tail(s) \in Seq(Task)
      /\ ToSet(s) = ToSet(Tail(s)) \cup {Head(s)}
      /\ \A R : Rising(s, R) => Rising(Tail(s), R) /\ \A x \in ToSet(Tail(s)) : <<Head(s), x>> \in R
  BY HoldsTail
<1>2. /\ Requests(Tail(s)) \subseteq Requests(s) /\ Decryptions(Tail(s)) \subseteq Decryptions(s)
      /\ Head(s).task # "decrypt" => Decryptions(Tail(s)) = Decryptions(s)
      /\ Head(s).task = "request" => Head(s) \in Requests(s)
      /\ Head(s).task = "decrypt" => Decryptions(s) = Decryptions(Tail(s)) \cup {Head(s).item}
  BY <1>1 DEF Requests, Decryptions
<1>3. ASSUME Head(s).task = "request", Rising(s, RequestOrder), NEW r \in Requests(Tail(s))
      PROVE  Earlier(Head(s), r)
  <2>1. r \in ToSet(Tail(s)) /\ r.task = "request"
    BY <1>3 DEF Requests
  <2>2. <<Head(s), r>> \in RequestOrder
    BY <1>1, <1>3, <2>1
  <2> QED
    BY <1>3, <2>1, <2>2 DEF RequestOrder
<1>4. ASSUME Head(s).task = "decrypt", Rising(s, OneTask), NEW x \in Decryptions(Tail(s)), x.id = Head(s).item.id
      PROVE  M(x) \in doubled
  <2>1. PICK t \in ToSet(Tail(s)) : t.task = "decrypt" /\ x = t.item
    BY DEF Decryptions
  <2>2. <<Head(s), t>> \in OneTask
    BY <1>1, <1>4
  <2>3. M(Head(s).item) \in doubled
    BY <1>4, <2>1, <2>2 DEF OneTask
  <2> QED
    BY <1>4, <2>3 DEF M
<1> QED
  BY <1>1, <1>2, <1>3, <1>4 DEF Apart

(***************************************************************************)
(* Most steps change nothing the invariant is about, or take from it.      *)
(***************************************************************************)
Quiet ==
  /\ UNCHANGED <<used, acked, deliveries, batch, doubled>>
  /\ dropped \subseteq dropped'
  /\ live' \subseteq live
  /\ \A m \in Messages : Exempt(m) => Exempt(m)'
  /\ \A id \in Ids : unprocessed'[id] = unprocessed[id] \/ (unprocessed'[id] = None /\ Exempt(MessageOf(id))')
  /\ \A id \in removing' : id \in removing \/ Exempt(MessageOf(id))'
  /\ pipe'.items = pipe.items
  /\ Requests(pipe'.incoming) \subseteq Requested /\ Decryptions(pipe'.encrypted) = Due
  /\ Rising(pipe'.incoming, RequestOrder) /\ Rising(pipe'.encrypted, OneTask)

\* A quiet step keeps the invariant.
LEMMA QuietStep ==
  ASSUME KeptInv, Quiet, HandsTyped'
  PROVE  KeptInv'
<1>1. /\ Taken' = Taken /\ Plain' = Plain /\ Failed' = Failed /\ Listed' = Listed /\ Due' = Due
      /\ Current' = Current /\ Requested' \subseteq Requested
  BY DEF Quiet, Taken, Plain, Failed, Listed, Due, Current, Requested
<1>2. /\ used' = used /\ acked' = acked /\ deliveries' = deliveries /\ batch' = batch /\ doubled' = doubled
      /\ live' \subseteq live /\ dropped \subseteq dropped' /\ pipe'.items = pipe.items
  BY DEF Quiet
<1>3. OneEach' = OneEach /\ OneTask' = OneTask
  BY <1>2 DEF OneEach, OneTask, M
<1>4. /\ Requested \cup Listed \cup Taken \cup Plain \cup Failed \cup Due
           \subseteq [id : Ids] \cup AnItem \cup [task : {"request"}, id : Ids]
      /\ \A x \in Requested \cup Listed \cup Taken \cup Plain \cup Failed \cup Due :
           x.id \in Ids /\ M(x) \in Messages /\ M(x) = MessageOf(x.id)
      /\ \A id \in Ids : MessageOf(id) \in Messages
      /\ live \subseteq Ids /\ removing' \subseteq Ids
      /\ Current \subseteq Taken
  <2>1. /\ HandsTyped
        /\ \A i \in Ids : MessageOf(i) \in Messages
    BY IdParts DEF KeptInv
  <2>2. /\ Requested \subseteq [task : {"request"}, id : Ids]
        /\ Listed \cup Taken \cup Plain \cup Failed \cup Due \subseteq AnItem
    BY <2>1, HandTypes
  <2>3. \A x \in Requested \cup Listed \cup Taken \cup Plain \cup Failed \cup Due : x.id \in Ids
    BY <2>2 DEF AnItem
  <2>4. live \subseteq Ids /\ removing' \subseteq Ids
    BY <2>1 DEF HandsTyped
  <2>5. Current \subseteq Taken
    BY DEF Current
  <2> QED
    BY <2>1, <2>2, <2>3, <2>4, <2>5 DEF M
<1>5. BatchParts' /\ OneHand'
  <2>1. BatchParts'
    BY <1>1, <1>2 DEF KeptInv, BatchParts
  <2>2. OneHand'
    <3>1. Rising(pipe.encrypted, OneTask)' /\ Rising(pipe.items, OneEach)'
      BY <1>2, <1>3 DEF KeptInv, OneHand, Quiet
    <3>2. Apart(Listed, Taken)' /\ Apart(Due, Plain \cup Failed)' /\ Apart(Plain, Failed)'
      BY <1>1, <1>2 DEF KeptInv, OneHand, Apart
    <3> QED
      BY <3>1, <3>2 DEF OneHand
  <2> QED
    BY <2>1, <2>2
<1>6. Numbered' /\ NewRequests'
  <2>1. Numbered'
    BY <1>1, <1>2, <1>4 DEF KeptInv, Numbered, Quiet
  <2>2. NewRequests'
    BY <1>1, <1>2, <1>4 DEF KeptInv, NewRequests, Quiet
  <2> QED
    BY <2>1, <2>2
<1>7. Closed' /\ LiveFresh'
  <2>1. Closed'
    BY <1>1, <1>2, <1>4 DEF KeptInv, Closed, Quiet
  <2>2. LiveFresh'
    BY <1>1, <1>2, <1>4 DEF KeptInv, LiveFresh, Quiet
  <2> QED
    BY <2>1, <2>2
<1>8. FirstIn'
  <2>1. RequestOrder' = RequestOrder /\ FreshOrder' = FreshOrder
    BY DEF RequestOrder, FreshOrder
  <2> QED
    BY <1>1, <1>2, <2>1 DEF KeptInv, FirstIn, Quiet
<1>9. RowThere' /\ AckedLast' /\ CommittedRows'
  <2>1. RowThere'
    BY <1>1, <1>2, <1>4 DEF KeptInv, RowThere, BatchParts, Quiet
  <2>2. AckedLast'
    BY <1>1, <1>2, <1>4 DEF KeptInv, AckedLast, Quiet
  <2>3. CommittedRows'
    BY <1>1, <1>2, <1>4 DEF KeptInv, CommittedRows, Quiet
  <2> QED
    BY <2>1, <2>2, <2>3
<1>10. Removals'
  BY <1>1, <1>2, <1>4 DEF KeptInv, Removals, Quiet
<1>11. PlainKept' /\ NoneLost'
  <2>1. ASSUME NEW m \in Messages, NEW closed \in SUBSET BOOLEAN, HasRow(m, closed), ~Exempt(m)'
        PROVE  HasRow(m, closed)'
    BY <2>1 DEF HasRow, Quiet
  <2>2. acked \subseteq Messages /\ used \subseteq Messages
    BY DEF KeptInv, HandsTyped
  <2>3. \A m \in Messages : ~Exempt(m)' => ~Exempt(m)
    BY DEF Quiet
  <2>4. \A m \in used' : ~Exempt(m)' => HasRow(m, {FALSE})'
    BY <1>2, <2>1, <2>2, <2>3 DEF KeptInv, PlainKept, Exempt
  <2>5. \A m \in acked' : ~Exempt(m)' => HasRow(m, BOOLEAN)'
    BY <1>2, <2>1, <2>2, <2>3 DEF KeptInv, NoneLost, Exempt
  <2> QED
    BY <2>4, <2>5 DEF PlainKept, NoneLost, Exempt
<1> QED
  BY <1>5, <1>6, <1>7, <1>8, <1>9, <1>10, <1>11 DEF KeptInv

\* A queue stays, gets a task of another kind, or loses its head.
Passes(s, t) ==
  \/ t = s
  \/ \E e \in Task : e.task \notin {"request", "decrypt"} /\ t = Append(s, e)
  \/ s # <<>> /\ Head(s).task # "decrypt" /\ t = Tail(s)

\* Such a queue has the same requests, or fewer, and the same decryptions.
LEMMA PassesQuietly ==
  ASSUME NEW s \in Seq(Task), NEW t, Passes(s, t)
  PROVE  /\ t \in Seq(Task)
         /\ Requests(t) \subseteq Requests(s) /\ Decryptions(t) = Decryptions(s)
         /\ Rising(s, RequestOrder) => Rising(t, RequestOrder)
         /\ Rising(s, OneTask) => Rising(t, OneTask)
<1>1. CASE t = s
  BY <1>1
<1>2. CASE \E e \in Task : e.task \notin {"request", "decrypt"} /\ t = Append(s, e)
  BY <1>2, OtherTask
<1>3. CASE s # <<>> /\ Head(s).task # "decrypt" /\ t = Tail(s)
  BY <1>3, TailTasks
<1> QED
  BY <1>1, <1>2, <1>3 DEF Passes

\* The queues, each with its type.
LEMMA PipeFields ==
  ASSUME HandsTyped
  PROVE  /\ pipe.incoming \in Seq(Task) /\ pipe.encrypted \in Seq(Task) /\ pipe.items \in Seq(AnItem)
         /\ pipe.decrypted \in Seq(Task) /\ pipe.app \in Seq(Task) /\ pipe.emptying \in SUBSET SUBSET Ids
         /\ DOMAIN pipe = {"incoming", "items", "encrypted", "decrypted", "app", "emptying"}
BY DEF HandsTyped

\* The steps that only move tasks along.
MovesTasks ==
  /\ pipe' \in [incoming : {pipe'.incoming}, items : {pipe.items}, encrypted : {pipe'.encrypted},
                decrypted : Seq(Task), app : Seq(Task), emptying : SUBSET SUBSET Ids]
  /\ Passes(pipe.incoming, pipe'.incoming) /\ Passes(pipe.encrypted, pipe'.encrypted)

\* Moving tasks along keeps the requests and the decryptions in their order.
LEMMA MovesAreQuiet ==
  ASSUME KeptInv, MovesTasks
  PROVE  /\ pipe' \in [incoming : Seq(Task), items : Seq(AnItem), encrypted : Seq(Task), decrypted : Seq(Task),
                       app : Seq(Task), emptying : SUBSET SUBSET Ids]
         /\ pipe'.items = pipe.items
         /\ Requests(pipe'.incoming) \subseteq Requested /\ Decryptions(pipe'.encrypted) = Due
         /\ Rising(pipe'.incoming, RequestOrder) /\ Rising(pipe'.encrypted, OneTask)
<1>1. /\ pipe.incoming \in Seq(Task) /\ pipe.encrypted \in Seq(Task) /\ pipe.items \in Seq(AnItem)
      /\ Rising(pipe.incoming, RequestOrder) /\ Rising(pipe.encrypted, OneTask)
  BY PipeFields DEF KeptInv, FirstIn, OneHand
<1>2. /\ pipe'.incoming \in Seq(Task) /\ pipe'.encrypted \in Seq(Task)
      /\ Requests(pipe'.incoming) \subseteq Requested /\ Decryptions(pipe'.encrypted) = Due
      /\ Rising(pipe'.incoming, RequestOrder) /\ Rising(pipe'.encrypted, OneTask)
  BY <1>1, PassesQuietly DEF MovesTasks, Requested, Due
<1> QED
  BY <1>1, <1>2 DEF MovesTasks

\* The tasks of onEmpty, of its drains and of the re-reading.
LEMMA NewTasks ==
  /\ ReadCache \in Task /\ ReadCache.task = "read"
  /\ \A before \in SUBSET Ids : /\ Empty(before) \in Task /\ Empty(before).task = "empty"
                                /\ Drain(before) \in Task /\ Drain(before).task = "drain"
BY DEF ReadCache, Empty, Drain, Task

\* A task that is only handed over.
LEMMA QuietHandOver ==
  ASSUME KeptInv, HandOver, ~TakeRequest
  PROVE  HandsTyped' /\ Quiet
<1>1. /\ pipe.incoming \in Seq(Task) /\ pipe.encrypted \in Seq(Task) /\ pipe.items \in Seq(AnItem)
      /\ pipe.decrypted \in Seq(Task) /\ pipe.app \in Seq(Task) /\ pipe.emptying \in SUBSET SUBSET Ids
      /\ DOMAIN pipe = {"incoming", "items", "encrypted", "decrypted", "app", "emptying"}
  BY PipeFields DEF KeptInv
<1>2. MovesTasks
  <2>1. CASE /\ IncomingDue("empty")
             /\ pipe' = [pipe EXCEPT !.incoming = Tail(@), !.emptying = @ \cup {Head(pipe.incoming).before}]
    <3>1. pipe.incoming # <<>> /\ Head(pipe.incoming).task = "empty" /\ Head(pipe.incoming) \in Task
      BY <1>1, <2>1, TailTasks DEF IncomingDue, Turn
    <3>2. Head(pipe.incoming).before \in SUBSET Ids
      BY <3>1 DEF Task
    <3> QED
      BY <1>1, <2>1, <3>1, <3>2 DEF MovesTasks, Passes
  <2>2. CASE /\ IncomingDue("drain")
             /\ pipe' = [pipe EXCEPT !.incoming = Tail(@), !.encrypted = Append(@, Head(pipe.incoming))]
    <3>1. pipe.incoming # <<>> /\ Head(pipe.incoming).task = "drain" /\ Head(pipe.incoming) \in Task
      BY <1>1, <2>2, TailTasks DEF IncomingDue, Turn
    <3> QED
      BY <1>1, <2>2, <3>1 DEF MovesTasks, Passes
  <2>3. CASE /\ EncryptedDue
             /\ pipe' = [pipe EXCEPT !.encrypted = Tail(@), !.decrypted = Append(@, Head(pipe.encrypted))]
    <3>1. pipe.encrypted # <<>> /\ Head(pipe.encrypted).task # "decrypt" /\ Head(pipe.encrypted) \in Task
      BY <1>1, <2>3, TailTasks DEF EncryptedDue, Turn
    <3>2. Append(pipe.decrypted, Head(pipe.encrypted)) \in Seq(Task)
      BY <1>1, <3>1, HoldsAppend
    <3> QED
      BY <1>1, <2>3, <3>1, <3>2 DEF MovesTasks, Passes
  <2>4. CASE /\ DecryptedDue
             /\ pipe' = [pipe EXCEPT !.decrypted = Tail(@), !.app = Append(@, Head(pipe.decrypted))]
    <3>1. Head(pipe.decrypted) \in Task /\ Tail(pipe.decrypted) \in Seq(Task)
      BY <1>1, <2>4, TailTasks DEF DecryptedDue, Turn
    <3>2. Append(pipe.app, Head(pipe.decrypted)) \in Seq(Task)
      BY <1>1, <3>1, HoldsAppend
    <3> QED
      BY <1>1, <2>4, <3>1, <3>2 DEF MovesTasks, Passes
  <2> QED
    BY <2>1, <2>2, <2>3, <2>4 DEF HandOver
<1> QED
  BY <1>2, MovesAreQuiet
     DEF KeptInv, HandsTyped, Quiet, HandOver, server, disk, outcome, flags, Exempt, Settled

\* The steps that put at most one task of another kind on incomingQueue.
LEMMA QuietOthers ==
  ASSUME KeptInv,
         \/ ServerEmpty \/ RetryTimerFires \/ AppReady \/ Online \/ StopProcessing
         \/ \E before \in pipe.emptying : WaitForBatcher(before)
  PROVE  HandsTyped' /\ Quiet
<1>1. /\ pipe.incoming \in Seq(Task) /\ pipe.encrypted \in Seq(Task) /\ pipe.items \in Seq(AnItem)
      /\ pipe.decrypted \in Seq(Task) /\ pipe.app \in Seq(Task) /\ pipe.emptying \in SUBSET SUBSET Ids
      /\ DOMAIN pipe = {"incoming", "items", "encrypted", "decrypted", "app", "emptying"}
      /\ pipe = [incoming |-> pipe.incoming, items |-> pipe.items, encrypted |-> pipe.encrypted,
                 decrypted |-> pipe.decrypted, app |-> pipe.app, emptying |-> pipe.emptying]
  BY PipeFields DEF KeptInv, HandsTyped
<1>2. ASSUME NEW e \in Task, e.task \notin {"request", "decrypt"}, Enqueue(e)
      PROVE  MovesTasks
  BY <1>1, <1>2 DEF Enqueue, MovesTasks, Passes
<1>3. UNCHANGED pipe => MovesTasks
  BY <1>1 DEF MovesTasks, Passes
<1>4. Reset => MovesTasks
  BY <1>2, <1>3, NewTasks DEF Reset
<1>5. CASE ServerEmpty
  <2>1. Delivered \in SUBSET Ids
    BY DEF Delivered
  <2>2. MovesTasks
    BY <1>2, <1>5, <2>1, NewTasks DEF ServerEmpty
  <2> QED
    BY <1>5, <2>2, MovesAreQuiet
       DEF KeptInv, HandsTyped, Quiet, ServerEmpty, disk, outcome, flags, Exempt, Settled
<1>6. CASE RetryTimerFires
  <2>1. MovesTasks
    BY <1>2, <1>6, NewTasks DEF RetryTimerFires
  <2> QED
    BY <1>6, <2>1, MovesAreQuiet
       DEF KeptInv, HandsTyped, Quiet, RetryTimerFires, server, disk, outcome, Exempt, Settled
<1>7. CASE AppReady
  <2>1. MovesTasks
    BY <1>4, <1>7 DEF AppReady
  <2> QED
    BY <1>7, <2>1, MovesAreQuiet
       DEF KeptInv, HandsTyped, Quiet, AppReady, Reset, server, disk, outcome, Exempt, Settled
<1>8. CASE Online
  <2>1. MovesTasks
    BY <1>4, <1>8 DEF Online
  <2> QED
    BY <1>8, <2>1, MovesAreQuiet
       DEF KeptInv, HandsTyped, Quiet, Online, Reset, disk, outcome, Exempt, Settled
<1>9. CASE StopProcessing
  <2>1. MovesTasks
    BY <1>3, <1>9 DEF StopProcessing
  <2> QED
    BY <1>9, <2>1, MovesAreQuiet
       DEF KeptInv, HandsTyped, Quiet, StopProcessing, server, disk, outcome, Exempt, Settled
<1>10. ASSUME NEW before \in pipe.emptying, WaitForBatcher(before)
       PROVE  HandsTyped' /\ Quiet
  <2>1. before \in SUBSET Ids
    BY <1>1, <1>10
  <2>2. Drain(before) \in Task /\ Drain(before).task \notin {"request", "decrypt"}
    BY <2>1, NewTasks
  <2>3. MovesTasks
    BY <1>1, <1>10, <2>2 DEF WaitForBatcher, MovesTasks, Passes
  <2> QED
    BY <1>10, <2>3, MovesAreQuiet
       DEF KeptInv, HandsTyped, Quiet, WaitForBatcher, server, disk, outcome, Exempt, Settled
<1> QED
  BY <1>5, <1>6, <1>7, <1>8, <1>9, <1>10

\* The steps behind the batches, and the first read of the table.
LEMMA QuietBehind ==
  ASSUME KeptInv,
         HandleDecrypted \/ AppHandles \/ EmitEmpty \/ ReadIds \/ \E id \in errors : ErrorHandled(id)
  PROVE  HandsTyped' /\ Quiet
<1>1. /\ pipe.incoming \in Seq(Task) /\ pipe.encrypted \in Seq(Task) /\ pipe.items \in Seq(AnItem)
      /\ pipe.decrypted \in Seq(Task) /\ pipe.app \in Seq(Task) /\ pipe.emptying \in SUBSET SUBSET Ids
      /\ DOMAIN pipe = {"incoming", "items", "encrypted", "decrypted", "app", "emptying"}
      /\ pipe = [incoming |-> pipe.incoming, items |-> pipe.items, encrypted |-> pipe.encrypted,
                 decrypted |-> pipe.decrypted, app |-> pipe.app, emptying |-> pipe.emptying]
      /\ \A id \in Ids : MessageOf(id) \in Messages
  BY PipeFields, IdParts DEF KeptInv, HandsTyped
<1>2. CASE HandleDecrypted
  <2>1. Head(pipe.decrypted) \in Task /\ Tail(pipe.decrypted) \in Seq(Task)
    BY <1>1, <1>2, TailTasks DEF HandleDecrypted, Turn
  <2>2. Append(pipe.app, Head(pipe.decrypted)) \in Seq(Task)
    BY <1>1, <2>1, HoldsAppend
  <2>3. MovesTasks
    BY <1>1, <1>2, <2>1, <2>2 DEF HandleDecrypted, MovesTasks, Passes
  <2> QED
    BY <1>2, <2>3, MovesAreQuiet
       DEF KeptInv, HandsTyped, Quiet, HandleDecrypted, server, disk, outcome, Exempt, Settled
<1>3. CASE AppHandles
  <2>1. /\ Head(pipe.app) \in Task /\ Tail(pipe.app) \in Seq(Task)
        /\ Head(pipe.app).task = "handle"
    BY <1>1, <1>3, TailTasks DEF AppHandles, Turn
  <2>2. Head(pipe.app).id \in Ids
    BY <2>1 DEF Task
  <2>3. MovesTasks
    BY <1>1, <1>3, <2>1 DEF AppHandles, MovesTasks, Passes
  <2>4. /\ UNCHANGED <<server, disk, reading, batch, errors, reported, dropped, expired, doubled>>
        /\ handled \subseteq handled'
        /\ removing' \subseteq removing \cup {Head(pipe.app).id}
        /\ removing' # removing => MessageOf(Head(pipe.app).id) \in handled'
    BY <1>3 DEF AppHandles
  <2> QED
    BY <1>1, <2>2, <2>3, <2>4, MovesAreQuiet
       DEF KeptInv, HandsTyped, Quiet, server, disk, Exempt, Settled
<1>4. CASE EmitEmpty
  <2>1. Tail(pipe.app) \in Seq(Task)
    BY <1>1, <1>4, TailTasks DEF EmitEmpty, Turn
  <2>2. MovesTasks
    BY <1>1, <1>4, <2>1 DEF EmitEmpty, MovesTasks, Passes
  <2> QED
    BY <1>4, <2>2, MovesAreQuiet
       DEF KeptInv, HandsTyped, Quiet, EmitEmpty, server, disk, outcome, Exempt, Settled
<1>5. CASE ReadIds
  <2>1. pipe.incoming # <<>> /\ Head(pipe.incoming).task = "read"
    BY <1>5 DEF ReadIds, IncomingDue, Turn
  <2>2. MovesTasks
    BY <1>1, <1>5, <2>1 DEF ReadIds, MovesTasks, Passes
  <2>3. /\ UNCHANGED <<server, used, batch, errors, removing, handled, reported, dropped, doubled>>
        /\ \/ UNCHANGED <<reading, unprocessed, expired>>
           \/ /\ unprocessed' = [id \in Ids |-> IF id \in Worn THEN None ELSE unprocessed[id]]
              /\ expired' = expired \cup {MessageOf(id) : id \in Worn}
              /\ reading' \in SUBSET Ids
    BY <1>5 DEF ReadIds
  <2>4. unprocessed \in [Ids -> ARow \cup {None}]
    BY DEF KeptInv, HandsTyped
  <2>5. /\ unprocessed' \in [Ids -> ARow \cup {None}]
        /\ \A id \in Ids : unprocessed'[id] = unprocessed[id] \/ (unprocessed'[id] = None /\ MessageOf(id) \in expired')
        /\ expired \subseteq expired'
        /\ reading' \in (SUBSET Ids) \cup {None}
    <3>1. CASE UNCHANGED <<reading, unprocessed, expired>>
      BY <2>4, <3>1 DEF KeptInv, HandsTyped
    <3>2. CASE /\ unprocessed' = [id \in Ids |-> IF id \in Worn THEN None ELSE unprocessed[id]]
               /\ expired' = expired \cup {MessageOf(id) : id \in Worn}
               /\ reading' \in SUBSET Ids
      BY <2>4, <3>2
    <3> QED
      BY <2>3, <3>1, <3>2
  <2> QED
    BY <2>2, <2>3, <2>5, MovesAreQuiet
       DEF KeptInv, HandsTyped, Quiet, server, Exempt, Settled
<1>6. ASSUME NEW id \in errors, ErrorHandled(id)
      PROVE  HandsTyped' /\ Quiet
  <2>1. MovesTasks
    BY <1>1, <1>6 DEF ErrorHandled, MovesTasks, Passes
  <2>2. id \in Ids
    BY DEF KeptInv, HandsTyped
  <2> QED
    BY <1>6, <2>1, <2>2, MovesAreQuiet
       DEF KeptInv, HandsTyped, Quiet, ErrorHandled, server, disk, Exempt, Settled
<1> QED
  BY <1>2, <1>3, <1>4, <1>5, <1>6

\* A step that leaves the batch leaves what it holds.
LEMMA SameBatch ==
  ASSUME batch' = batch
  PROVE  Taken' = Taken /\ Plain' = Plain /\ Failed' = Failed /\ Current' = Current
BY DEF Taken, Plain, Failed, Current

\* What a member of a hand is.
LEMMA HandIds ==
  ASSUME HandsTyped
  PROVE  /\ \A x \in Requested \cup Listed \cup Taken \cup Plain \cup Failed \cup Due :
              x.id \in Ids /\ M(x) = MessageOf(x.id) /\ M(x) \in Messages /\ Number(x.id) \in Nat
         /\ \A id \in Ids : MessageOf(id) \in Messages /\ Number(id) \in Nat
         /\ \A m \in Messages : deliveries[m] \in Nat
         /\ live \subseteq Ids /\ removing \subseteq Ids /\ Current \subseteq Taken
BY HandTypes, IdParts DEF AnItem, M, HandsTyped, Current

\* A step that leaves the table keeps what the two properties say of it.
LEMMA SameRows ==
  ASSUME UNCHANGED <<unprocessed, used, acked, outcome>>, doubled \subseteq doubled', PlainKept, NoneLost
  PROVE  PlainKept' /\ NoneLost'
BY DEF outcome, PlainKept, NoneLost, HasRow, Settled

\* An order does not depend on the state, but for the messages in doubled.
LEMMA SameOrders ==
  /\ FreshOrder' = FreshOrder /\ RequestOrder' = RequestOrder
  /\ doubled \subseteq doubled' => /\ OneEach \subseteq OneEach' /\ OneTask \subseteq OneTask'
                                   /\ \A X, Y : Apart(X, Y) => Apart(X, Y)'
BY DEF FreshOrder, RequestOrder, OneEach, OneTask, Apart, M

\* An order that gets weaker still holds.
LEMMA RisingMore ==
  ASSUME NEW s, NEW R, NEW Q, R \subseteq Q, Rising(s, R)
  PROVE  Rising(s, Q)
BY DEF Rising

\* A request becomes an item of the batcher.
LEMMA RequestIsListed ==
  ASSUME KeptInv, HandOver, TakeRequest
  PROVE  KeptInv'
<1> DEFINE r == Head(pipe.incoming)
           y == [id |-> r.id, attempts |-> 0]
<1>1. /\ pipe.incoming \in Seq(Task) /\ pipe.encrypted \in Seq(Task) /\ pipe.items \in Seq(AnItem)
      /\ pipe.decrypted \in Seq(Task) /\ pipe.app \in Seq(Task) /\ pipe.emptying \in SUBSET SUBSET Ids
      /\ DOMAIN pipe = {"incoming", "items", "encrypted", "decrypted", "app", "emptying"}
      /\ pipe = [incoming |-> pipe.incoming, items |-> pipe.items, encrypted |-> pipe.encrypted,
                 decrypted |-> pipe.decrypted, app |-> pipe.app, emptying |-> pipe.emptying]
  BY PipeFields DEF KeptInv, HandsTyped
<1>2. /\ pipe' = [pipe EXCEPT !.incoming = Tail(@), !.items = Append(@, y)]
      /\ UNCHANGED <<server, disk, flags, reading, batch, errors, removing, outcome, tried, doubled, bounds>>
      /\ pipe.incoming # <<>> /\ r.task = "request"
  BY <1>1 DEF HandOver, TakeRequest, IncomingDue, Turn
<1>3. /\ UNCHANGED <<acked, live, deliveries, unprocessed, used, reading, batch, errors, removing, doubled>>
      /\ UNCHANGED <<handled, reported, dropped, expired>>
  BY <1>2 DEF server, disk, outcome
<1>4. /\ r \in Requested /\ r.id \in Ids /\ Tail(pipe.incoming) \in Seq(Task)
      /\ Requests(Tail(pipe.incoming)) \subseteq Requested
      /\ \A q \in Requests(Tail(pipe.incoming)) : Earlier(r, q)
      /\ Rising(Tail(pipe.incoming), RequestOrder)
  <2>1. Rising(pipe.incoming, RequestOrder) /\ Requested \subseteq [task : {"request"}, id : Ids]
    BY HandTypes DEF KeptInv, FirstIn
  <2>2. /\ Tail(pipe.incoming) \in Seq(Task) /\ Requests(Tail(pipe.incoming)) \subseteq Requested
        /\ r \in Requested /\ \A q \in Requests(Tail(pipe.incoming)) : Earlier(r, q)
        /\ Rising(Tail(pipe.incoming), RequestOrder)
    BY <1>1, <1>2, <2>1, TailTasks DEF Requested
  <2> QED
    BY <2>1, <2>2
<1> HIDE DEF r
<1>5. y \in AnItem /\ y.id = r.id /\ M(y) = M(r) /\ Fresh(y)
  BY <1>4 DEF AnItem, M, Fresh
<1>6. /\ Append(pipe.items, y) \in Seq(AnItem)
      /\ ToSet(Append(pipe.items, y)) = Listed \cup {y}
      /\ \A R : Rising(pipe.items, R) /\ (\A x \in Listed : <<x, y>> \in R) => Rising(Append(pipe.items, y), R)
  BY <1>1, <1>5, HoldsAppend DEF Listed
<1> HIDE DEF y
<1>7. /\ pipe'.incoming = Tail(pipe.incoming) /\ pipe'.items = Append(pipe.items, y)
      /\ pipe'.encrypted = pipe.encrypted
      /\ HandsTyped'
  BY <1>1, <1>2, <1>3, <1>4, <1>6 DEF KeptInv, HandsTyped
<1>8. /\ Requested' \subseteq Requested /\ \A q \in Requested' : Earlier(r, q)
      /\ Listed' = Listed \cup {y} /\ Due' = Due
      /\ Taken' = Taken /\ Plain' = Plain /\ Failed' = Failed /\ Current' = Current
  BY <1>3, <1>4, <1>6, <1>7, SameBatch DEF Requested, Listed, Due
<1>9. /\ \A m : Exempt(m)' <=> Exempt(m)
      /\ FreshOrder' = FreshOrder /\ RequestOrder' = RequestOrder
      /\ OneEach' = OneEach /\ OneTask' = OneTask /\ \A X, Y : Apart(X, Y)' <=> Apart(X, Y)
  BY <1>3 DEF Exempt, Settled, FreshOrder, RequestOrder, OneEach, OneTask, Apart, M
<1>10. /\ \A x \in Listed \cup Taken : x.id # y.id
       /\ unprocessed[y.id] = None
       /\ Number(y.id) <= deliveries[M(y)]
       /\ M(y) \in acked => Exempt(M(y)) \/ M(y) \in used
       /\ \A x \in Listed \cup Taken : Fresh(x) => Earlier(x, y)
       /\ \A q \in Requested' : Earlier(y, q) /\ q.id # y.id
  <2>1. \A q \in Requested' : Earlier(y, q)
    BY <1>5, <1>8 DEF Earlier
  <2>2. \A q \in Requested' : q.id # y.id
    BY <1>5, <1>8, <2>1, HandIds DEF Earlier, M, KeptInv
  <2> QED
    BY <1>4, <1>5, <2>1, <2>2 DEF KeptInv, NewRequests, Numbered, AckedLast, FirstIn, Earlier
<1>11. BatchParts'
  BY <1>3, <1>8 DEF KeptInv, BatchParts
<1>12. OneHand'
  <2>1. \A x \in Listed : <<x, y>> \in OneEach
    BY <1>5, <1>10, HandTypes DEF KeptInv, OneEach
  <2>2. Apart(Listed \cup {y}, Taken)
    BY <1>10 DEF KeptInv, OneHand, Apart
  <2> QED
    BY <1>6, <1>7, <1>8, <1>9, <2>1, <2>2 DEF KeptInv, OneHand
<1>13. Numbered' /\ NewRequests'
  BY <1>3, <1>8, <1>10 DEF KeptInv, Numbered, NewRequests
<1>14. Closed'
  BY <1>3, <1>8, <1>10 DEF KeptInv, Closed
<1>15. LiveFresh'
  BY <1>3, <1>5, <1>8 DEF KeptInv, LiveFresh
<1>16. FirstIn'
  <2>1. \A x \in Listed : <<x, y>> \in FreshOrder
    BY <1>5, <1>10, HandTypes DEF KeptInv, FreshOrder
  <2> QED
    BY <1>4, <1>6, <1>7, <1>8, <1>9, <1>10, <2>1 DEF KeptInv, FirstIn
<1>17. RowThere' /\ CommittedRows'
  BY <1>3, <1>5, <1>8, <1>9 DEF KeptInv, RowThere, CommittedRows
<1>18. AckedLast'
  BY <1>3, <1>8, <1>9, <1>10 DEF KeptInv, AckedLast
<1>19. Removals'
  BY <1>3, <1>8, <1>9 DEF KeptInv, Removals
<1>20. PlainKept' /\ NoneLost'
  BY <1>3, SameRows DEF KeptInv, outcome
<1> QED
  BY <1>7, <1>11, <1>12, <1>13, <1>14, <1>15, <1>16, <1>17, <1>18, <1>19, <1>20 DEF KeptInv

\* A new delivery has a number that nothing has.
LEMMA DeliverKeeps ==
  ASSUME KeptInv, NEW m \in Messages, Deliver(m)
  PROVE  KeptInv'
<1> DEFINE n == deliveries[m] + 1
           r == Request(<<m, n>>)
<1>1. /\ pipe.incoming \in Seq(Task) /\ pipe.encrypted \in Seq(Task) /\ pipe.items \in Seq(AnItem)
      /\ pipe.decrypted \in Seq(Task) /\ pipe.app \in Seq(Task) /\ pipe.emptying \in SUBSET SUBSET Ids
      /\ DOMAIN pipe = {"incoming", "items", "encrypted", "decrypted", "app", "emptying"}
      /\ pipe = [incoming |-> pipe.incoming, items |-> pipe.items, encrypted |-> pipe.encrypted,
                 decrypted |-> pipe.decrypted, app |-> pipe.app, emptying |-> pipe.emptying]
      /\ deliveries \in [Messages -> 0..MaxDeliveries] /\ MaxDeliveries \in Nat
  BY PipeFields, IdParts DEF KeptInv, HandsTyped
<1>2. /\ deliveries[m] \in Nat /\ n \in 1..MaxDeliveries
      /\ deliveries' = [deliveries EXCEPT ![m] = n] /\ deliveries'[m] = n
      /\ live' = live \cup {<<m, n>>}
      /\ m \notin acked /\ \A id \in live : MessageOf(id) # m
      /\ pipe' = [pipe EXCEPT !.incoming = Append(@, r)]
      /\ UNCHANGED <<acked, unprocessed, used, reading, batch, errors, removing, doubled>>
      /\ UNCHANGED <<handled, reported, dropped, expired>>
  BY <1>1 DEF Deliver, Enqueue, disk, outcome
<1>3. /\ <<m, n>> \in Ids /\ MessageOf(<<m, n>>) = m /\ Number(<<m, n>>) = n
      /\ r \in Task /\ r.task = "request" /\ r.id = <<m, n>> /\ M(r) = m
  BY <1>2, IdParts DEF Request, Task, M
<1> HIDE DEF n, r
<1>4. /\ Append(pipe.incoming, r) \in Seq(Task)
      /\ ToSet(Append(pipe.incoming, r)) = ToSet(pipe.incoming) \cup {r}
      /\ \A R : Rising(pipe.incoming, R) /\ (\A x \in ToSet(pipe.incoming) : <<x, r>> \in R)
                  => Rising(Append(pipe.incoming, r), R)
      /\ ToSet(pipe.incoming) \subseteq Task
  BY <1>1, <1>3, HoldsAppend, HoldsTyped
<1>5. /\ pipe'.incoming = Append(pipe.incoming, r) /\ pipe'.items = pipe.items /\ pipe'.encrypted = pipe.encrypted
      /\ pipe' \in [incoming : Seq(Task), items : Seq(AnItem), encrypted : Seq(Task), decrypted : Seq(Task),
                    app : Seq(Task), emptying : SUBSET SUBSET Ids]
  BY <1>1, <1>2, <1>4
<1>6. HandsTyped'
  <2>1. deliveries' \in [Messages -> 0..MaxDeliveries]
    BY <1>1, <1>2
  <2>2. live' \in SUBSET Ids
    BY <1>2, <1>3 DEF KeptInv, HandsTyped
  <2> QED
    BY <1>2, <1>5, <2>1, <2>2 DEF KeptInv, HandsTyped
<1>7. /\ Requested' = Requested \cup {r} /\ Listed' = Listed /\ Due' = Due
      /\ Taken' = Taken /\ Plain' = Plain /\ Failed' = Failed /\ Current' = Current
  BY <1>2, <1>3, <1>4, <1>5, SameBatch DEF Requested, Requests, Listed, Due
<1>8. /\ \A k : Exempt(k)' <=> Exempt(k)
      /\ FreshOrder' = FreshOrder /\ RequestOrder' = RequestOrder
      /\ OneEach' = OneEach /\ OneTask' = OneTask /\ \A X, Y : Apart(X, Y)' <=> Apart(X, Y)
  BY <1>2 DEF Exempt, Settled, FreshOrder, RequestOrder, OneEach, OneTask, Apart, M
<1>9. /\ \A k \in Messages : deliveries[k] \in Nat /\ deliveries'[k] \in Nat /\ deliveries[k] <= deliveries'[k]
                             /\ (k # m => deliveries'[k] = deliveries[k])
      /\ n = deliveries[m] + 1 /\ n \in Nat
  BY <1>1, <1>2 DEF n
<1>10. /\ \A x \in Requested \cup Listed \cup Taken : M(x) = m => Number(x.id) < n
       /\ \A id \in Ids : unprocessed[id] # None /\ MessageOf(id) = m => Number(id) < n
  BY <1>9, HandIds DEF KeptInv, Numbered
<1>11. /\ unprocessed[r.id] = None
       /\ \A x \in Requested \cup Listed \cup Taken : Earlier(x, r) /\ x.id # r.id
  <2>1. \A x \in Requested \cup Listed \cup Taken : Earlier(x, r)
    BY <1>3, <1>10 DEF Earlier
  <2>2. \A x \in Requested \cup Listed \cup Taken : x.id # r.id
    BY <1>3, <1>9, <1>10 DEF M
  <2>3. unprocessed[r.id] = None
    BY <1>3, <1>9, <1>10
  <2> QED
    BY <2>1, <2>2, <2>3
<1>12. BatchParts' /\ OneHand'
  BY <1>2, <1>5, <1>7, <1>8 DEF KeptInv, BatchParts, OneHand
<1>13. Numbered'
  <2>1. \A x \in Requested' \cup Listed' \cup Taken' : Number(x.id) <= deliveries'[M(x)]
    BY <1>2, <1>3, <1>7, <1>9, HandIds DEF KeptInv, Numbered
  <2>2. \A id \in Ids : unprocessed'[id] # None => Number(id) <= deliveries'[MessageOf(id)]
    BY <1>2, <1>9, HandIds DEF KeptInv, Numbered
  <2>3. \A id \in live' : Number(id) = deliveries'[MessageOf(id)]
    BY <1>2, <1>3, <1>9, HandIds DEF KeptInv, Numbered
  <2> QED
    BY <2>1, <2>2, <2>3 DEF Numbered
<1>14. NewRequests'
  BY <1>2, <1>7, <1>11 DEF KeptInv, NewRequests
<1>15. Closed' /\ CommittedRows'
  BY <1>2, <1>7, <1>8 DEF KeptInv, Closed, CommittedRows
<1>16. LiveFresh'
  BY <1>2, <1>3, <1>7, <1>11 DEF KeptInv, LiveFresh
<1>17. FirstIn'
  <2>1. \A x \in ToSet(pipe.incoming) : <<x, r>> \in RequestOrder
    BY <1>3, <1>4, <1>11 DEF RequestOrder, Requested, Requests
  <2> QED
    BY <1>4, <1>5, <1>7, <1>8, <1>11, <2>1 DEF KeptInv, FirstIn
<1>18. RowThere' /\ AckedLast'
  BY <1>2, <1>3, <1>7, <1>8 DEF KeptInv, RowThere, AckedLast
<1>19. Removals'
  BY <1>2, <1>7, <1>8 DEF KeptInv, Removals
<1>20. PlainKept' /\ NoneLost'
  BY <1>2, SameRows DEF KeptInv, outcome
<1> QED
  BY <1>6, <1>12, <1>13, <1>14, <1>15, <1>16, <1>17, <1>18, <1>19, <1>20 DEF KeptInv

\* The batcher hands over the first of its list.
LEMMA StartBatchKeeps ==
  ASSUME KeptInv, StartBatch
  PROVE  KeptInv'
<1>1. /\ pipe.incoming \in Seq(Task) /\ pipe.encrypted \in Seq(Task) /\ pipe.items \in Seq(AnItem)
      /\ pipe.decrypted \in Seq(Task) /\ pipe.app \in Seq(Task) /\ pipe.emptying \in SUBSET SUBSET Ids
      /\ DOMAIN pipe = {"incoming", "items", "encrypted", "decrypted", "app", "emptying"}
      /\ pipe = [incoming |-> pipe.incoming, items |-> pipe.items, encrypted |-> pipe.encrypted,
                 decrypted |-> pipe.decrypted, app |-> pipe.app, emptying |-> pipe.emptying]
  BY PipeFields DEF KeptInv, HandsTyped
<1>2. /\ batch = NoBatch
      /\ UNCHANGED <<acked, live, deliveries, unprocessed, used, reading, errors, removing, doubled>>
      /\ UNCHANGED <<handled, reported, dropped, expired>>
  BY DEF StartBatch, server, disk, outcome
<1> DEFINE taken(n) == SubSeq(pipe.items, 1, n)
           rest(n) == SubSeq(pipe.items, n + 1, Len(pipe.items))
           tasks(n) == [i \in 1..n |-> Decryption(taken(n)[i])]
<1>3. PICK n \in 1..Len(pipe.items) :
        /\ batch' = [NoBatch EXCEPT !.at = "decrypting", !.items = taken(n)]
        /\ pipe' = [pipe EXCEPT !.items = rest(n), !.encrypted = @ \o tasks(n)]
  BY DEF StartBatch
<1> DEFINE head == taken(n)
           tail == rest(n)
           new == tasks(n)
<1>4. /\ head \in Seq(AnItem) /\ tail \in Seq(AnItem) /\ DOMAIN head = 1..n
      /\ Listed = ToSet(head) \cup ToSet(tail)
      /\ \A R : Rising(pipe.items, R) =>
           /\ Rising(head, R) /\ Rising(tail, R)
           /\ \A x \in ToSet(head), y \in ToSet(tail) : <<x, y>> \in R
  BY <1>1, HoldsCut DEF Listed
<1>5. /\ new = [i \in 1..n |-> Decryption(head[i])] /\ n \in Nat
  BY <1>1
<1>6. /\ batch' = [at |-> "decrypting", items |-> head, plain |-> <<>>, failed |-> {}]
      /\ pipe'.incoming = pipe.incoming /\ pipe'.items = tail /\ pipe'.encrypted = pipe.encrypted \o new
      /\ pipe' = [pipe EXCEPT !.items = tail, !.encrypted = pipe.encrypted \o new]
  BY <1>1, <1>3 DEF NoBatch
<1> HIDE DEF head, tail, new, taken, rest, tasks
<1>7. \A i \in 1..n : head[i] \in AnItem /\ Decryption(head[i]) \in Task
                      /\ Decryption(head[i]).task = "decrypt" /\ Decryption(head[i]).item = head[i]
  <2>1. \A i \in 1..n : head[i] \in AnItem
    BY <1>4, <1>5, ElementOfSeq, LenProperties
  <2> QED
    BY <2>1 DEF Decryption, Task
<1>8. /\ new \in Seq(Task) /\ DOMAIN new = 1..n
      /\ \A i \in 1..n : new[i].task = "decrypt" /\ new[i].item = head[i] /\ new[i] \in Task
  BY <1>5, <1>7
<1>9. /\ pipe.encrypted \o new \in Seq(Task)
      /\ ToSet(pipe.encrypted \o new) = ToSet(pipe.encrypted) \cup ToSet(new)
      /\ \A R : /\ Rising(pipe.encrypted, R) /\ Rising(new, R)
                /\ \A x \in ToSet(pipe.encrypted), y \in ToSet(new) : <<x, y>> \in R
                => Rising(pipe.encrypted \o new, R)
  BY <1>1, <1>8, HoldsBoth
<1>10. Due = {} /\ Taken = {} /\ Plain = {} /\ Failed = {} /\ Current = {}
  BY <1>2, HoldsNothing DEF KeptInv, BatchParts, NoBatch, Taken, Plain, Failed, Current
<1>11. \A t \in ToSet(pipe.encrypted) : t.task # "decrypt"
  BY <1>10 DEF Due, Decryptions
<1>12. Due' = ToSet(head)
  <2>1. Due' = {t.item : t \in {u \in ToSet(new) : u.task = "decrypt"}}
    BY <1>6, <1>9, <1>11 DEF Due, Decryptions
  <2>2. \A t \in ToSet(new) : t.task = "decrypt" /\ t.item \in ToSet(head)
    BY <1>4, <1>8 DEF ToSet
  <2>3. \A x \in ToSet(head) : \E t \in ToSet(new) : t.task = "decrypt" /\ t.item = x
    BY <1>4, <1>8 DEF ToSet
  <2> QED
    BY <2>1, <2>2, <2>3
<1>13. Taken' = ToSet(head) /\ Plain' = {} /\ Failed' = {} /\ Current' = ToSet(head)
       /\ Listed' = ToSet(tail) /\ Requested' = Requested
  BY <1>6, HoldsNothing DEF Taken, Plain, Failed, Current, Listed, Requested
<1>14. HandsTyped'
  <2>1. batch' \in [at : {"idle", "decrypting", "committed"}, items : Seq(AnItem), plain : Seq(AnItem),
                    failed : SUBSET AnItem]
    BY <1>4, <1>6
  <2>2. pipe' \in [incoming : Seq(Task), items : Seq(AnItem), encrypted : Seq(Task), decrypted : Seq(Task),
                   app : Seq(Task), emptying : SUBSET SUBSET Ids]
    BY <1>1, <1>4, <1>6, <1>9
  <2> QED
    BY <1>2, <2>1, <2>2 DEF KeptInv, HandsTyped
<1>15. /\ \A m : Exempt(m)' <=> Exempt(m)
       /\ FreshOrder' = FreshOrder /\ RequestOrder' = RequestOrder
       /\ OneEach' = OneEach /\ OneTask' = OneTask /\ \A X, Y : Apart(X, Y)' <=> Apart(X, Y)
  BY <1>2 DEF Exempt, Settled, FreshOrder, RequestOrder, OneEach, OneTask, Apart, M
<1>16. BatchParts'
  BY <1>6, <1>12, <1>13 DEF BatchParts
<1>17. OneHand'
  <2>1. /\ Rising(head, OneEach) /\ Rising(tail, OneEach)
        /\ \A x \in ToSet(head), y \in ToSet(tail) : <<x, y>> \in OneEach
    BY <1>4 DEF KeptInv, OneHand
  <2>2. Apart(ToSet(tail), ToSet(head))
    BY <2>1 DEF OneEach, Apart, M
  <2>3. Rising(new, OneTask)
    <3> SUFFICES ASSUME NEW i \in 1..n, NEW j \in 1..n, i < j PROVE <<new[i], new[j]>> \in OneTask
      BY <1>8 DEF Rising
    <3>1. <<head[i], head[j]>> \in OneEach
      BY <1>4, <2>1 DEF Rising
    <3> QED
      BY <1>8, <3>1 DEF OneEach, OneTask
  <2>4. \A x \in ToSet(pipe.encrypted), y \in ToSet(new) : <<x, y>> \in OneTask
    BY <1>1, <1>8, <1>11, HoldsTyped DEF OneTask
  <2>5. Rising(pipe'.encrypted, OneTask)
    BY <1>6, <1>9, <2>3, <2>4 DEF KeptInv, OneHand
  <2> QED
    BY <1>6, <1>12, <1>13, <1>15, <2>1, <2>2, <2>5 DEF OneHand, Apart
<1>18. Numbered' /\ NewRequests'
  BY <1>2, <1>4, <1>13 DEF KeptInv, Numbered, NewRequests
<1>19. Closed' /\ LiveFresh'
  BY <1>2, <1>4, <1>6, <1>10, <1>13 DEF KeptInv, Closed, LiveFresh, NoBatch
<1>20. FirstIn'
  <2>1. /\ Rising(tail, FreshOrder)
        /\ \A x \in ToSet(head), y \in ToSet(tail) : <<x, y>> \in FreshOrder
    BY <1>4 DEF KeptInv, FirstIn
  <2>2. \A x \in ToSet(head), y \in ToSet(tail) : Fresh(x) /\ Fresh(y) => Earlier(x, y)
    BY <2>1 DEF FreshOrder
  <2> QED
    BY <1>4, <1>6, <1>13, <1>15, <2>1, <2>2 DEF KeptInv, FirstIn
<1>21. RowThere' /\ AckedLast' /\ CommittedRows'
  BY <1>2, <1>4, <1>6, <1>12, <1>13, <1>15 DEF KeptInv, RowThere, AckedLast, CommittedRows
<1>22. Removals'
  BY <1>2, <1>13, <1>15 DEF KeptInv, Removals, NoBatch
<1>23. PlainKept' /\ NoneLost'
  BY <1>2, SameRows DEF KeptInv, outcome
<1> QED
  BY <1>14, <1>16, <1>17, <1>18, <1>19, <1>20, <1>21, <1>22, <1>23 DEF KeptInv

\* One envelope of the batch: it is decrypted, fails, or is dropped.
LEMMA DecryptKeeps ==
  ASSUME KeptInv, Decrypt
  PROVE  KeptInv'
<1> DEFINE t == Head(pipe.encrypted)
           y == t.item
<1>1. /\ pipe.incoming \in Seq(Task) /\ pipe.encrypted \in Seq(Task) /\ pipe.items \in Seq(AnItem)
      /\ pipe.decrypted \in Seq(Task) /\ pipe.app \in Seq(Task) /\ pipe.emptying \in SUBSET SUBSET Ids
      /\ DOMAIN pipe = {"incoming", "items", "encrypted", "decrypted", "app", "emptying"}
      /\ pipe = [incoming |-> pipe.incoming, items |-> pipe.items, encrypted |-> pipe.encrypted,
                 decrypted |-> pipe.decrypted, app |-> pipe.app, emptying |-> pipe.emptying]
      /\ batch.items \in Seq(AnItem) /\ batch.plain \in Seq(AnItem) /\ batch.failed \in SUBSET AnItem
      /\ batch = [at |-> batch.at, items |-> batch.items, plain |-> batch.plain, failed |-> batch.failed]
  BY PipeFields DEF KeptInv, HandsTyped
<1>2. /\ pipe' = [pipe EXCEPT !.encrypted = Tail(@)]
      /\ pipe.encrypted # <<>> /\ t.task = "decrypt"
      /\ UNCHANGED <<acked, live, deliveries, unprocessed, used, reading, doubled>>
      /\ UNCHANGED <<handled, reported, expired>>
  BY DEF Decrypt, Turn, server, disk
<1>3. Stopped(y) \/ OldCounter(y) \/ Opened(y) \/ DecryptionError(y) \/ Refused(y) \/ DroppedEarly(y)
  BY DEF Decrypt
<1>4. /\ Tail(pipe.encrypted) \in Seq(Task) /\ t \in Task
      /\ Due = Decryptions(Tail(pipe.encrypted)) \cup {y}
      /\ Rising(Tail(pipe.encrypted), OneTask)
      /\ Apart(Decryptions(Tail(pipe.encrypted)), {y})
  <2>1. Rising(pipe.encrypted, OneTask)
    BY DEF KeptInv, OneHand
  <2> QED
    BY <1>1, <1>2, <2>1, TailTasks DEF Due
<1>5. y \in AnItem /\ y \in Due
  BY <1>4, HandTypes DEF KeptInv
<1> HIDE DEF y, t
<1>6. /\ pipe'.incoming = pipe.incoming /\ pipe'.items = pipe.items /\ pipe'.encrypted = Tail(pipe.encrypted)
      /\ pipe' \in [incoming : Seq(Task), items : Seq(AnItem), encrypted : Seq(Task), decrypted : Seq(Task),
                    app : Seq(Task), emptying : SUBSET SUBSET Ids]
  BY <1>1, <1>2, <1>4
<1>7. /\ Listed' = Listed /\ Requested' = Requested /\ Due = Due' \cup {y} /\ Apart(Due', {y})
  BY <1>4, <1>6 DEF Listed, Requested, Due
\* Where the envelope goes.
<1>8. /\ batch'.at = batch.at /\ batch'.items = batch.items
      /\ batch' \in [at : {batch.at}, items : {batch.items}, plain : Seq(AnItem), failed : SUBSET AnItem]
      /\ dropped \subseteq dropped'
      /\ \/ Plain' = Plain \cup {y} /\ Failed' = Failed
         \/ Plain' = Plain /\ Failed' = Failed \cup {y}
         \/ Plain' = Plain /\ Failed' = Failed /\ M(y) \in dropped'
  <2>1. CASE Opened(y)
    <3>1. batch' = [batch EXCEPT !.plain = Append(@, y)] /\ UNCHANGED dropped
      BY <2>1 DEF Opened
    <3>2. Append(batch.plain, y) \in Seq(AnItem) /\ ToSet(Append(batch.plain, y)) = Plain \cup {y}
      BY <1>1, <1>5, HoldsAppend DEF Plain
    <3> QED
      BY <1>1, <3>1, <3>2 DEF Plain, Failed
  <2>2. CASE DroppedEarly(y)
    BY <1>1, <2>2, SameBatch DEF DroppedEarly, M
  <2>3. CASE Fail(y) /\ dropped \subseteq dropped'
    <3>1. batch' = [batch EXCEPT !.failed = @ \cup {y}]
      BY <2>3 DEF Fail
    <3> QED
      BY <1>1, <1>5, <2>3, <3>1 DEF Plain, Failed
  <2> QED
    BY <1>3, <2>1, <2>2, <2>3 DEF Stopped, OldCounter, DecryptionError, Refused
<1>9. Taken' = Taken /\ Current' = Current /\ Failed \subseteq Failed' /\ Plain \subseteq Plain'
      /\ Plain' \subseteq Plain \cup {y} /\ Failed' \subseteq Failed \cup {y}
  BY <1>8 DEF Taken, Current
<1>10. /\ \A m : Exempt(m) => Exempt(m)'
       /\ FreshOrder' = FreshOrder /\ RequestOrder' = RequestOrder
       /\ OneEach' = OneEach /\ OneTask' = OneTask /\ \A X, Y : Apart(X, Y)' <=> Apart(X, Y)
  BY <1>2, <1>8 DEF Exempt, Settled, FreshOrder, RequestOrder, OneEach, OneTask, Apart, M
<1>11. /\ batch.at = "decrypting" /\ y \in Current
       /\ \A x \in Plain \cup Failed : x.id = y.id => M(y) \in doubled
  BY <1>5 DEF KeptInv, BatchParts, Current, OneHand, Apart
\* What is removed.
<1>12. /\ removing' \subseteq removing \cup {y.id} /\ errors' \subseteq errors \cup {y.id}
       /\ y.id \in removing' =>
            \/ y.id \in removing
            \/ M(y) \in dropped'
            \/ (M(y) \in used \/ \E x \in Plain : M(x) = M(y)) /\ Plain' = Plain /\ Failed' = Failed \cup {y}
       /\ Plain' # Plain => M(y) \notin used /\ \A x \in Plain : M(x) # M(y)
  <2>1. \A z : MessageOf(z.id) \in used \cup Stepped <=> M(z) \in used \/ \E x \in Plain : M(x) = M(z)
    BY DEF Stepped, M, Plain
  <2>2. CASE Opened(y)
    BY <2>1, <2>2 DEF Opened
  <2>3. CASE OldCounter(y)
    <3>1. batch' = [batch EXCEPT !.failed = @ \cup {y}] /\ removing' = removing \cup {y.id} /\ errors' = errors
      BY <2>3 DEF OldCounter, Fail
    <3>2. Plain' = Plain /\ Failed' = Failed \cup {y}
      BY <1>1, <3>1 DEF Plain, Failed
    <3> QED
      BY <2>1, <2>3, <3>1, <3>2 DEF OldCounter
  <2>4. CASE Stopped(y) \/ DecryptionError(y) \/ DroppedEarly(y)
    <3>1. Plain' = Plain
      BY <1>1, <2>4 DEF Stopped, DecryptionError, DroppedEarly, Fail, Plain
    <3> QED
      BY <2>4, <3>1 DEF Stopped, DecryptionError, DroppedEarly
  <2>5. CASE Refused(y)
    <3>1. Plain' = Plain
      BY <1>1, <2>5 DEF Refused, Fail, Plain
    <3> QED
      BY <2>5, <3>1 DEF Refused, M
  <2> QED
    BY <1>3, <2>2, <2>3, <2>4, <2>5
<1>13. HandsTyped'
  BY <1>2, <1>5, <1>6, <1>8, <1>12 DEF KeptInv, HandsTyped, AnItem
<1>14. BatchParts'
  BY <1>7, <1>8, <1>9, <1>11 DEF KeptInv, BatchParts
<1>15. OneHand'
  <2>1. Apart(Due', Plain' \cup Failed')
    BY <1>7, <1>9 DEF KeptInv, OneHand, Apart
  <2>2. Apart(Plain', Failed')
    BY <1>8, <1>11 DEF KeptInv, OneHand, Apart, M
  <2> QED
    BY <1>4, <1>6, <1>7, <1>9, <1>10, <2>1, <2>2 DEF KeptInv, OneHand
<1>16. Numbered' /\ NewRequests'
  BY <1>2, <1>7, <1>9 DEF KeptInv, Numbered, NewRequests
<1>17. Closed' /\ LiveFresh' /\ FirstIn'
  BY <1>2, <1>6, <1>7, <1>8, <1>9, <1>10 DEF KeptInv, Closed, LiveFresh, FirstIn
<1>18. RowThere' /\ AckedLast' /\ CommittedRows'
  BY <1>2, <1>7, <1>8, <1>9, <1>10, <1>11 DEF KeptInv, RowThere, AckedLast, CommittedRows
<1>19. Removals'
  <2> SUFFICES ASSUME NEW id \in removing', ~Exempt(MessageOf(id))'
               PROVE  /\ \/ MessageOf(id) \in used
                         \/ /\ \E x \in Plain' : M(x) = MessageOf(id)
                            /\ \E x \in Failed' : x.id = id
                      /\ unprocessed[id] = None \/ unprocessed[id].encrypted
                      /\ \A x \in Plain' : x.id # id
    BY <1>2, <1>8, <1>11 DEF Removals
  <2>1. ~Exempt(MessageOf(id)) /\ MessageOf(id) \notin doubled
    BY <1>2, <1>10 DEF Exempt
  <2>2. CASE id \in removing
    BY <1>9, <1>12, <2>1, <2>2 DEF KeptInv, Removals, M
  <2>3. CASE id \notin removing
    <3>1. id = y.id /\ MessageOf(id) = M(y) /\ M(y) \notin dropped'
      BY <1>12, <2>3 DEF M, Exempt, Settled
    <3>2. /\ M(y) \in used \/ \E x \in Plain : M(x) = M(y)
          /\ Plain' = Plain /\ Failed' = Failed \cup {y}
      BY <1>12, <2>3, <3>1
    <3>3. unprocessed[id] = None \/ unprocessed[id].encrypted
      BY <1>11, <2>1, <3>1 DEF KeptInv, Closed
    <3>4. \A x \in Plain : x.id # id
      BY <1>11, <2>1, <3>1
    <3> QED
      BY <3>1, <3>2, <3>3, <3>4
  <2> QED
    BY <2>2, <2>3
<1>20. PlainKept' /\ NoneLost'
  BY <1>2, <1>8 DEF KeptInv, PlainKept, NoneLost, HasRow, Settled
<1> QED
  BY <1>13, <1>14, <1>15, <1>16, <1>17, <1>18, <1>19, <1>20 DEF KeptInv

\* A row is removed when its message is settled or there is a better one.
LEMMA RemoveBatchKeeps ==
  ASSUME KeptInv, RemoveBatch
  PROVE  KeptInv'
<1>1. /\ UNCHANGED <<acked, live, deliveries, used, reading, pipe, batch, errors, doubled>>
      /\ UNCHANGED <<handled, reported, dropped, expired>>
      /\ removing' = {}
      /\ unprocessed \in [Ids -> ARow \cup {None}] /\ removing \subseteq Ids
      /\ unprocessed' = [id \in Ids |-> IF id \in removing THEN None ELSE unprocessed[id]]
  BY DEF RemoveBatch, server, outcome, KeptInv, HandsTyped
<1>2. /\ Taken' = Taken /\ Plain' = Plain /\ Failed' = Failed /\ Current' = Current
      /\ Listed' = Listed /\ Due' = Due /\ Requested' = Requested
      /\ \A m : Exempt(m)' <=> Exempt(m)
      /\ FreshOrder' = FreshOrder /\ RequestOrder' = RequestOrder
      /\ OneEach' = OneEach /\ OneTask' = OneTask /\ \A X, Y : Apart(X, Y)' <=> Apart(X, Y)
  BY <1>1, SameBatch
     DEF Exempt, Settled, FreshOrder, RequestOrder, OneEach, OneTask, Apart, M, Listed, Due, Requested
<1>3. /\ unprocessed' \in [Ids -> ARow \cup {None}]
      /\ \A id \in Ids : unprocessed'[id] = None \/ unprocessed'[id] = unprocessed[id]
      /\ \A id \in Ids \ removing : unprocessed'[id] = unprocessed[id]
  BY <1>1
<1>4. /\ \A x \in Requested \cup Listed \cup Taken \cup Plain \cup Failed \cup Due :
           x.id \in Ids /\ M(x) = MessageOf(x.id)
      /\ live \subseteq Ids /\ Current \subseteq Taken
  BY HandIds DEF KeptInv
<1>5. HandsTyped'
  BY <1>1, <1>3 DEF KeptInv, HandsTyped
<1>6. BatchParts' /\ OneHand' /\ FirstIn' /\ AckedLast'
  BY <1>1, <1>2 DEF KeptInv, BatchParts, OneHand, FirstIn, AckedLast
<1>7. Numbered' /\ NewRequests' /\ Closed' /\ LiveFresh'
  <2>1. Numbered'
    BY <1>1, <1>2, <1>3 DEF KeptInv, Numbered
  <2>2. NewRequests'
    BY <1>1, <1>2, <1>3, <1>4 DEF KeptInv, NewRequests
  <2>3. Closed'
    BY <1>1, <1>2, <1>3, <1>4 DEF KeptInv, Closed
  <2>4. LiveFresh'
    BY <1>1, <1>2, <1>3, <1>4 DEF KeptInv, LiveFresh
  <2> QED
    BY <2>1, <2>2, <2>3, <2>4
<1>8. RowThere'
  <2> SUFFICES ASSUME NEW x \in Listed \cup Due \cup Plain, ~Fresh(x), ~Exempt(M(x)), M(x) \notin used
               PROVE  unprocessed'[x.id] # None
    BY <1>1, <1>2 DEF RowThere
  <2>1. unprocessed[x.id] # None /\ M(x) \notin doubled
    BY DEF KeptInv, RowThere, Exempt
  <2>2. x.id \notin removing
    <3> SUFFICES ASSUME x.id \in removing PROVE FALSE
      OBVIOUS
    <3>1. (\E z \in Failed : z.id = x.id) /\ \A z \in Plain : z.id # x.id
      BY <1>4 DEF KeptInv, Removals
    <3>2. x \in Listed \cup Due
      BY <3>1
    <3>3. \A z \in Failed : z \in Taken
      BY DEF KeptInv, BatchParts
    <3> QED
      BY <2>1, <3>1, <3>2, <3>3 DEF KeptInv, OneHand, Apart
  <2> QED
    BY <1>3, <1>4, <2>1, <2>2
<1>9. CommittedRows'
  <2> SUFFICES ASSUME batch.at = "committed", NEW x \in Taken, ~Exempt(M(x)), M(x) \notin used
               PROVE  unprocessed'[x.id] # None
    BY <1>1, <1>2 DEF CommittedRows
  <2>1. x.id \notin removing
    BY <1>4 DEF KeptInv, Removals
  <2> QED
    BY <1>3, <1>4, <2>1 DEF KeptInv, CommittedRows
<1>10. Removals'
  BY <1>1 DEF Removals
<1>11. PlainKept'
  <2> SUFFICES ASSUME NEW m \in used, ~Exempt(m) PROVE HasRow(m, {FALSE})'
    BY <1>1 DEF PlainKept, Exempt, Settled
  <2>1. PICK id \in Ids : MessageOf(id) = m /\ unprocessed[id] # None /\ unprocessed[id].encrypted = FALSE
    BY DEF KeptInv, PlainKept, HasRow, Exempt
  <2>2. id \notin removing
    BY <2>1 DEF KeptInv, Removals
  <2> QED
    BY <1>3, <2>1, <2>2 DEF HasRow
<1>12. NoneLost'
  <2> SUFFICES ASSUME NEW m \in acked, ~Exempt(m) PROVE HasRow(m, BOOLEAN)'
    BY <1>1 DEF NoneLost, Exempt, Settled
  <2>1. CASE m \in used
    <3>1. HasRow(m, {FALSE})'
      BY <1>1, <1>2, <1>11, <2>1 DEF PlainKept, Exempt
    <3> QED
      BY <3>1 DEF HasRow
  <2>2. CASE m \notin used
    <3>1. PICK id \in Ids : /\ MessageOf(id) = m /\ unprocessed[id] # None /\ unprocessed[id].encrypted \in BOOLEAN
      BY DEF KeptInv, NoneLost, HasRow, Exempt
    <3>2. CASE id \notin removing
      BY <1>3, <3>1, <3>2 DEF HasRow
    <3>3. CASE id \in removing
      <4>1. /\ batch.at = "decrypting" /\ \E z \in Plain : M(z) = m
        BY <2>2, <3>1, <3>3 DEF KeptInv, Removals
      <4>2. PICK z \in Plain : M(z) = m
        BY <4>1
      <4>3. z \in Current
        BY <4>1 DEF KeptInv, BatchParts, Current
      <4>4. ~Fresh(z)
        BY <2>2, <4>2, <4>3 DEF KeptInv, AckedLast
      <4>5. unprocessed[z.id] # None
        BY <2>2, <4>2, <4>4 DEF KeptInv, RowThere
      <4>6. z.id \notin removing
        BY <1>4, <2>2, <4>2 DEF KeptInv, Removals
      <4>7. unprocessed'[z.id] # None /\ unprocessed'[z.id].encrypted \in BOOLEAN /\ z.id \in Ids
        BY <1>1, <1>3, <1>4, <4>5, <4>6 DEF ARow
      <4> QED
        BY <1>4, <4>2, <4>7 DEF HasRow
    <3> QED
      BY <3>2, <3>3
  <2> QED
    BY <2>1, <2>2
<1> QED
  BY <1>5, <1>6, <1>7, <1>8, <1>9, <1>10, <1>11, <1>12 DEF KeptInv

\* A new process has only the table.
LEMMA EmptyHands ==
  ASSUME pipe = NoTasks, batch = NoBatch
  PROVE  /\ Requested = {} /\ Due = {} /\ Listed = {} /\ Taken = {} /\ Plain = {} /\ Failed = {} /\ Current = {}
         /\ Rising(pipe.items, OneEach) /\ Rising(pipe.items, FreshOrder)
         /\ Rising(pipe.encrypted, OneTask) /\ Rising(pipe.incoming, RequestOrder)
         /\ pipe \in [incoming : Seq(Task), items : Seq(AnItem), encrypted : Seq(Task), decrypted : Seq(Task),
                      app : Seq(Task), emptying : SUBSET SUBSET Ids]
         /\ batch \in [at : {"idle", "decrypting", "committed"}, items : Seq(AnItem), plain : Seq(AnItem),
                       failed : SUBSET AnItem]
         /\ batch.at = "idle"
BY HoldsNothing
   DEF NoTasks, NoBatch, Requested, Due, Requests, Decryptions, Listed, Taken, Plain, Failed, Current

\* At the start nothing is stored and nothing is in hand.
LEMMA StartsKept == Init => KeptInv
<1> SUFFICES ASSUME Init PROVE KeptInv
  OBVIOUS
<1>1. /\ acked = {} /\ live = {} /\ deliveries = [m \in Messages |-> 0]
      /\ unprocessed = [id \in Ids |-> None] /\ used = {}
      /\ pipe = NoTasks /\ batch = NoBatch /\ reading = None /\ errors = {} /\ removing = {}
  BY DEF Init, ProcessInit
<1>2. HandsTyped
  BY <1>1, EmptyHands, IdParts DEF HandsTyped
<1>3. BatchParts /\ OneHand /\ NewRequests /\ Closed /\ LiveFresh /\ FirstIn /\ RowThere /\ AckedLast /\ CommittedRows
  BY <1>1, EmptyHands
     DEF BatchParts, OneHand, Apart, NewRequests, Closed, LiveFresh, FirstIn, RowThere, AckedLast, CommittedRows
<1>4. Numbered /\ Removals /\ PlainKept /\ NoneLost
  BY <1>1, EmptyHands DEF Numbered, Removals, PlainKept, NoneLost
<1> QED
  BY <1>2, <1>3, <1>4 DEF KeptInv

\* A restart loses the queues: the rows, the ratchets and what the server keeps
\* remain.
LEMMA RestartKeeps ==
  ASSUME KeptInv, Restart
  PROVE  KeptInv'
<1>1. /\ UNCHANGED <<acked, deliveries, unprocessed, used, doubled>>
      /\ UNCHANGED <<handled, reported, dropped, expired>>
      /\ live' = {} /\ pipe' = NoTasks /\ batch' = NoBatch /\ reading' = None /\ errors' = {} /\ removing' = {}
  BY DEF Restart, disk, outcome
<1>2. /\ Requested' = {} /\ Due' = {} /\ Listed' = {} /\ Taken' = {} /\ Plain' = {} /\ Failed' = {} /\ Current' = {}
      /\ Rising(pipe.items, OneEach)' /\ Rising(pipe.items, FreshOrder)'
      /\ Rising(pipe.encrypted, OneTask)' /\ Rising(pipe.incoming, RequestOrder)'
      /\ pipe' \in [incoming : Seq(Task), items : Seq(AnItem), encrypted : Seq(Task), decrypted : Seq(Task),
                    app : Seq(Task), emptying : SUBSET SUBSET Ids]
      /\ batch' \in [at : {"idle", "decrypting", "committed"}, items : Seq(AnItem), plain : Seq(AnItem),
                     failed : SUBSET AnItem]
      /\ batch'.at = "idle"
  BY <1>1, HoldsNothing
     DEF NoTasks, NoBatch, Requested, Due, Requests, Decryptions, Listed, Taken, Plain, Failed, Current
<1>3. HandsTyped'
  BY <1>1, <1>2 DEF KeptInv, HandsTyped
<1>4. BatchParts' /\ OneHand' /\ NewRequests' /\ Closed' /\ LiveFresh' /\ FirstIn' /\ RowThere' /\ AckedLast'
      /\ CommittedRows'
  BY <1>1, <1>2
     DEF BatchParts, OneHand, Apart, NewRequests, Closed, LiveFresh, FirstIn, RowThere, AckedLast, CommittedRows
<1>5. Numbered' /\ Removals'
  BY <1>1, <1>2 DEF KeptInv, Numbered, Removals
<1>6. PlainKept' /\ NoneLost'
  BY <1>1, SameRows DEF KeptInv, outcome
<1> QED
  BY <1>3, <1>4, <1>5, <1>6 DEF KeptInv

\* The zone is reverted, and the server keeps the envelopes.
LEMMA BatchFailsKeeps ==
  ASSUME KeptInv, BatchFails
  PROVE  KeptInv'
<1>1. /\ UNCHANGED <<acked, deliveries, unprocessed, used, pipe, reading, errors, removing>>
      /\ UNCHANGED <<handled, reported, dropped, expired>>
      /\ batch.at = "decrypting" /\ ~Decrypting
      /\ live' \subseteq live /\ batch' = NoBatch
      /\ doubled' = doubled \cup Undone
  BY DEF BatchFails, disk, outcome
<1>2. /\ Listed' = Listed /\ Requested' = Requested /\ Due' = {}
      /\ Taken' = {} /\ Plain' = {} /\ Failed' = {} /\ Current' = {} /\ batch'.at = "idle"
  <2>1. Due' = {}
    BY <1>1 DEF Due, Decryptions, Decrypting
  <2> QED
    BY <1>1, <2>1, HoldsNothing DEF Listed, Requested, Taken, Plain, Failed, Current, NoBatch
<1>3. /\ \A m : Exempt(m) => Exempt(m)'
      /\ FreshOrder' = FreshOrder /\ RequestOrder' = RequestOrder
      /\ OneEach \subseteq OneEach' /\ OneTask \subseteq OneTask' /\ \A X, Y : Apart(X, Y) => Apart(X, Y)'
      /\ doubled \subseteq doubled'
  BY <1>1, SameOrders DEF Exempt, Settled
<1>4. HandsTyped'
  <2>1. NoBatch \in [at : {"idle", "decrypting", "committed"}, items : Seq(AnItem), plain : Seq(AnItem),
                     failed : SUBSET AnItem]
    BY DEF NoBatch
  <2> QED
    BY <1>1, <2>1 DEF KeptInv, HandsTyped
<1>5. BatchParts'
  BY <1>1, <1>2 DEF BatchParts
<1>6. OneHand'
  <2>1. Rising(pipe.items, OneEach') /\ Rising(pipe.encrypted, OneTask')
    BY <1>3, RisingMore DEF KeptInv, OneHand
  <2> QED
    BY <1>1, <1>2, <2>1 DEF OneHand, Apart
<1>7. Numbered' /\ NewRequests' /\ Closed' /\ LiveFresh' /\ FirstIn'
  <2>1. Numbered' /\ NewRequests'
    BY <1>1, <1>2 DEF KeptInv, Numbered, NewRequests
  <2>2. Closed' /\ LiveFresh'
    BY <1>1, <1>2, <1>3 DEF KeptInv, Closed, LiveFresh
  <2>3. FirstIn'
    BY <1>1, <1>2, <1>3 DEF KeptInv, FirstIn
  <2> QED
    BY <2>1, <2>2, <2>3
<1>8. RowThere' /\ AckedLast' /\ CommittedRows'
  BY <1>1, <1>2, <1>3 DEF KeptInv, RowThere, AckedLast, CommittedRows
<1>9. Removals'
  <2> SUFFICES ASSUME NEW id \in removing, ~Exempt(MessageOf(id))'
               PROVE  /\ MessageOf(id) \in used
                      /\ unprocessed[id] = None \/ unprocessed[id].encrypted
    BY <1>1, <1>2 DEF Removals
  <2>1. ~Exempt(MessageOf(id)) /\ MessageOf(id) \notin Undone
    BY <1>1, <1>3 DEF Exempt
  <2>2. ~((\E x \in Plain : M(x) = MessageOf(id)) /\ \E x \in Failed : x.id = id)
    BY <2>1 DEF Undone, Stepped, Plain, Failed, M
  <2> QED
    BY <2>1, <2>2 DEF KeptInv, Removals
<1>10. PlainKept' /\ NoneLost'
  BY <1>1, SameRows DEF KeptInv, outcome
<1> QED
  BY <1>4, <1>5, <1>6, <1>7, <1>8, <1>9, <1>10 DEF KeptInv

\* What the commit stores.
LEMMA StoredRows ==
  ASSUME HandsTyped
  PROVE  /\ Stored \in [Ids -> ARow \cup {None}]
         /\ \A id \in Ids :
              /\ (\E x \in Failed : x.id = id) => Stored[id] \in ARow /\ Stored[id].encrypted = TRUE
              /\ (\E x \in Plain : x.id = id) /\ ~(\E x \in Failed : x.id = id)
                   => Stored[id] \in ARow /\ Stored[id].encrypted = FALSE
              /\ ~(\E x \in Plain \cup Failed : x.id = id) => Stored[id] = unprocessed[id]
<1>1. unprocessed \in [Ids -> ARow \cup {None}] /\ Plain \subseteq AnItem /\ Failed \subseteq AnItem
  BY HandTypes DEF HandsTyped
<1>2. ASSUME NEW stored \in SUBSET AnItem, NEW id, \E x \in stored : x.id = id
      PROVE  RowOf(id, stored).attempts \in Nat
  <2>1. RowOf(id, stored) \in stored
    BY <1>2 DEF RowOf
  <2> QED
    BY <2>1 DEF AnItem
<1>3. Stored = [id \in Ids |->
        IF \E x \in Failed : x.id = id THEN [encrypted |-> TRUE, attempts |-> RowOf(id, Failed).attempts]
        ELSE IF \E x \in Plain : x.id = id THEN [encrypted |-> FALSE, attempts |-> RowOf(id, Plain).attempts]
        ELSE unprocessed[id]]
  <2>1. \A id : /\ id \in {item.id : item \in batch.failed} <=> \E x \in Failed : x.id = id
                /\ id \in {item.id : item \in ToSet(batch.plain)} <=> \E x \in Plain : x.id = id
    BY DEF Failed, Plain
  <2> QED
    BY <2>1 DEF Stored, Failed, Plain
<1>4. \A id \in Ids :
        /\ (\E x \in Failed : x.id = id) =>
             Stored[id] = [encrypted |-> TRUE, attempts |-> RowOf(id, Failed).attempts]
                /\ RowOf(id, Failed).attempts \in Nat
        /\ (\E x \in Plain : x.id = id) /\ ~(\E x \in Failed : x.id = id) =>
             Stored[id] = [encrypted |-> FALSE, attempts |-> RowOf(id, Plain).attempts]
                /\ RowOf(id, Plain).attempts \in Nat
        /\ ~(\E x \in Plain \cup Failed : x.id = id) => Stored[id] = unprocessed[id]
  BY <1>1, <1>2, <1>3
<1>5. ASSUME NEW id \in Ids
      PROVE  /\ (\E x \in Failed : x.id = id) => Stored[id] \in ARow /\ Stored[id].encrypted = TRUE
             /\ (\E x \in Plain : x.id = id) /\ ~(\E x \in Failed : x.id = id)
                  => Stored[id] \in ARow /\ Stored[id].encrypted = FALSE
             /\ ~(\E x \in Plain \cup Failed : x.id = id) => Stored[id] = unprocessed[id]
  <2>1. CASE \E x \in Failed : x.id = id
    <3>1. /\ Stored[id] = [encrypted |-> TRUE, attempts |-> RowOf(id, Failed).attempts]
          /\ RowOf(id, Failed).attempts \in Nat
      BY <1>4, <2>1
    <3>2. Stored[id] \in ARow /\ Stored[id].encrypted = TRUE
      BY <3>1 DEF ARow
    <3> QED
      BY <2>1, <3>2
  <2>2. CASE (\E x \in Plain : x.id = id) /\ ~(\E x \in Failed : x.id = id)
    <3>1. /\ Stored[id] = [encrypted |-> FALSE, attempts |-> RowOf(id, Plain).attempts]
          /\ RowOf(id, Plain).attempts \in Nat
      BY <1>4, <2>2
    <3>2. Stored[id] \in ARow /\ Stored[id].encrypted = FALSE
      BY <3>1 DEF ARow
    <3> QED
      BY <2>2, <3>2
  <2>3. CASE ~(\E x \in Plain \cup Failed : x.id = id)
    BY <1>4, <2>3
  <2> QED
    BY <2>1, <2>2, <2>3
<1>6. \A id \in Ids : Stored[id] \in ARow \cup {None}
  BY <1>1, <1>5
<1>7. Stored \in [Ids -> ARow \cup {None}]
  BY <1>3, <1>6
<1> QED
  BY <1>5, <1>7

\* The commit writes the ratchet steps of the batch and its rows at once.
LEMMA CommitKeeps ==
  ASSUME KeptInv, Commit
  PROVE  KeptInv'
<1>1. /\ UNCHANGED <<acked, live, deliveries, pipe, reading, errors, removing, doubled>>
      /\ UNCHANGED <<handled, reported, dropped, expired>>
      /\ batch.at = "decrypting" /\ batch' = [batch EXCEPT !.at = "committed"]
      /\ unprocessed' = Stored
      /\ ~Decrypting /\ used' = used \cup Stepped
  BY DEF Commit, server, outcome
<1>2. /\ batch' \in [at : {"committed"}, items : {batch.items}, plain : {batch.plain}, failed : {batch.failed}]
      /\ batch'.at = "committed"
  BY <1>1 DEF KeptInv, HandsTyped
<1>3. /\ Taken' = Taken /\ Plain' = Plain /\ Failed' = Failed /\ Current = Taken /\ Current' = {}
      /\ Listed' = Listed /\ Requested' = Requested /\ Due = {} /\ Due' = {}
  <2>1. Due = {} /\ Due' = {}
    BY <1>1 DEF Due, Decryptions, Decrypting
  <2> QED
    BY <1>1, <1>2, <2>1 DEF Taken, Plain, Failed, Current, Listed, Requested
<1>4. /\ \A m : Exempt(m)' <=> Exempt(m)
      /\ FreshOrder' = FreshOrder /\ RequestOrder' = RequestOrder
      /\ OneEach' = OneEach /\ OneTask' = OneTask /\ \A X, Y : Apart(X, Y)' <=> Apart(X, Y)
  BY <1>1 DEF Exempt, Settled, FreshOrder, RequestOrder, OneEach, OneTask, Apart, M
<1>5. /\ unprocessed' \in [Ids -> ARow \cup {None}]
      /\ \A id \in Ids :
           /\ (\E x \in Failed : x.id = id) => unprocessed'[id] \in ARow /\ unprocessed'[id].encrypted = TRUE
           /\ (\E x \in Plain : x.id = id) /\ ~(\E x \in Failed : x.id = id)
                => unprocessed'[id] \in ARow /\ unprocessed'[id].encrypted = FALSE
           /\ ~(\E x \in Plain \cup Failed : x.id = id) => unprocessed'[id] = unprocessed[id]
  BY <1>1, StoredRows DEF KeptInv
<1>6. \A m : m \in used' <=> m \in used \/ \E x \in Plain : M(x) = m
  BY <1>1 DEF Stepped, Plain, M
<1>7. /\ \A x \in Requested \cup Listed \cup Taken \cup Plain \cup Failed \cup Due :
           x.id \in Ids /\ M(x) = MessageOf(x.id) /\ M(x) \in Messages
      /\ live \subseteq Ids /\ removing \subseteq Ids
      /\ Plain \cup Failed \subseteq Taken
      /\ \A x \in Taken : x \in Plain \cup Failed \/ M(x) \in dropped
      /\ \A r \in ARow : r # None
      /\ unprocessed \in [Ids -> ARow \cup {None}]
  BY <1>3, HandIds, RowIsNotNone DEF KeptInv, BatchParts, HandsTyped
<1>8. \A id \in Ids : /\ unprocessed[id] # None => unprocessed'[id] # None
                      /\ (\A x \in Taken : x.id # id) => unprocessed'[id] = unprocessed[id]
                      /\ (\E x \in Plain \cup Failed : x.id = id) => unprocessed'[id] # None
  BY <1>5, <1>7
<1>9. HandsTyped'
  <2>1. Stepped \subseteq Messages
    BY <1>7 DEF Stepped, Plain, M
  <2> QED
    BY <1>1, <1>2, <1>5, <2>1 DEF KeptInv, HandsTyped
<1>10. BatchParts' /\ OneHand' /\ FirstIn'
  BY <1>1, <1>2, <1>3, <1>4 DEF KeptInv, BatchParts, OneHand, FirstIn
<1>11. Numbered'
  <2>1. \A id \in Ids : unprocessed'[id] # None => Number(id) <= deliveries[MessageOf(id)]
    <3> SUFFICES ASSUME NEW id \in Ids, unprocessed'[id] # None PROVE Number(id) <= deliveries[MessageOf(id)]
      OBVIOUS
    <3>1. CASE \E x \in Taken : x.id = id
      BY <1>7, <3>1 DEF KeptInv, Numbered
    <3>2. CASE \A x \in Taken : x.id # id
      BY <1>8, <3>2 DEF KeptInv, Numbered
    <3> QED
      BY <3>1, <3>2
  <2> QED
    BY <1>1, <1>3, <2>1 DEF KeptInv, Numbered
<1>12. NewRequests'
  BY <1>3, <1>7, <1>8 DEF KeptInv, NewRequests
<1>13. Closed'
  <2> SUFFICES ASSUME NEW x \in Listed, M(x) \notin doubled
               PROVE  unprocessed'[x.id] = None \/ unprocessed'[x.id].encrypted
    BY <1>1, <1>3 DEF Closed
  <2>1. \A z \in Taken : z.id # x.id
    BY DEF KeptInv, OneHand, Apart
  <2> QED
    BY <1>7, <1>8, <2>1 DEF KeptInv, Closed
<1>14. LiveFresh'
  <2>1. \A id \in live : unprocessed'[id] = None \/ \E x \in Taken : x.id = id
    BY <1>1, <1>7, <1>8 DEF KeptInv, LiveFresh
  <2> QED
    BY <1>1, <1>2, <1>3, <2>1 DEF KeptInv, LiveFresh
<1>15. RowThere' /\ AckedLast'
  <2>1. RowThere'
    BY <1>1, <1>3, <1>4, <1>6, <1>7, <1>8 DEF KeptInv, RowThere
  <2>2. AckedLast'
    BY <1>1, <1>3, <1>4, <1>6 DEF KeptInv, AckedLast
  <2> QED
    BY <2>1, <2>2
<1>16. CommittedRows'
  <2> SUFFICES ASSUME NEW x \in Taken, ~Exempt(M(x)) PROVE M(x) \in used' \/ unprocessed'[x.id] # None
    BY <1>3, <1>4 DEF CommittedRows
  <2>1. x \in Plain \cup Failed
    BY <1>7 DEF Exempt, Settled
  <2> QED
    BY <1>7, <1>8, <2>1
<1>17. Removals'
  <2> SUFFICES ASSUME NEW id \in removing, ~Exempt(MessageOf(id))
               PROVE  /\ MessageOf(id) \in used'
                      /\ unprocessed'[id] = None \/ unprocessed'[id].encrypted
                      /\ \A x \in Plain : x.id # id
    BY <1>1, <1>3, <1>4 DEF Removals
  <2>1. /\ MessageOf(id) \in used \/ \E x \in Plain : M(x) = MessageOf(id)
        /\ unprocessed[id] = None \/ unprocessed[id].encrypted
        /\ \A x \in Plain : x.id # id
    BY DEF KeptInv, Removals
  <2>2. unprocessed'[id] = None \/ unprocessed'[id].encrypted
    BY <1>5, <1>7, <2>1
  <2> QED
    BY <1>6, <2>1, <2>2
<1>18. PlainKept'
  <2> SUFFICES ASSUME NEW m \in used', ~Exempt(m) PROVE HasRow(m, {FALSE})'
    BY <1>1 DEF PlainKept, Exempt, Settled
  <2>1. CASE \E x \in Plain : M(x) = m
    <3>1. PICK x \in Plain : M(x) = m
      BY <2>1
    <3>2. ~\E z \in Failed : z.id = x.id
      BY <3>1 DEF KeptInv, OneHand, Apart, Exempt
    <3>3. unprocessed'[x.id] \in ARow /\ unprocessed'[x.id].encrypted = FALSE
      BY <1>5, <1>7, <3>2
    <3> QED
      BY <1>7, <3>1, <3>3 DEF HasRow
  <2>2. CASE m \in used
    <3>1. PICK id \in Ids : MessageOf(id) = m /\ unprocessed[id] # None /\ unprocessed[id].encrypted = FALSE
      BY <2>2 DEF KeptInv, PlainKept, HasRow, Exempt
    <3>2. ~\E z \in Failed : z.id = id
      BY <1>3, <1>7, <3>1 DEF KeptInv, Closed, Exempt
    <3>3. unprocessed'[id] # None /\ unprocessed'[id].encrypted = FALSE
      BY <1>5, <1>7, <3>1, <3>2
    <3> QED
      BY <3>1, <3>3 DEF HasRow
  <2> QED
    BY <1>6, <2>1, <2>2
<1>19. NoneLost'
  <2> SUFFICES ASSUME NEW m \in acked, ~Exempt(m) PROVE HasRow(m, BOOLEAN)'
    BY <1>1 DEF NoneLost, Exempt, Settled
  <2>1. PICK id \in Ids : MessageOf(id) = m /\ unprocessed[id] # None
    BY DEF KeptInv, NoneLost, HasRow, Exempt
  <2>2. unprocessed'[id] # None /\ unprocessed'[id] \in ARow
    BY <1>5, <1>8, <2>1
  <2> QED
    BY <2>1, <2>2 DEF HasRow, ARow
<1> QED
  BY <1>9, <1>10, <1>11, <1>12, <1>13, <1>14, <1>15, <1>16, <1>17, <1>18, <1>19 DEF KeptInv

\* The batch is answered, and its plaintexts go on.
LEMMA AcknowledgeKeeps ==
  ASSUME KeptInv, Acknowledge
  PROVE  KeptInv'
<1> DEFINE new == [i \in DOMAIN batch.plain |-> Handling(batch.plain[i].id, i = Len(batch.plain))]
<1>1. /\ pipe.incoming \in Seq(Task) /\ pipe.encrypted \in Seq(Task) /\ pipe.items \in Seq(AnItem)
      /\ pipe.decrypted \in Seq(Task) /\ pipe.app \in Seq(Task) /\ pipe.emptying \in SUBSET SUBSET Ids
      /\ DOMAIN pipe = {"incoming", "items", "encrypted", "decrypted", "app", "emptying"}
      /\ pipe = [incoming |-> pipe.incoming, items |-> pipe.items, encrypted |-> pipe.encrypted,
                 decrypted |-> pipe.decrypted, app |-> pipe.app, emptying |-> pipe.emptying]
      /\ batch.plain \in Seq(AnItem)
  BY PipeFields DEF KeptInv, HandsTyped
<1>2. new \in Seq(Task)
  <2>1. DOMAIN batch.plain = 1..Len(batch.plain) /\ Len(batch.plain) \in Nat
    BY <1>1, LenProperties
  <2>2. \A i \in DOMAIN batch.plain : batch.plain[i] \in AnItem
    BY <1>1, <2>1, ElementOfSeq
  <2>3. \A i \in DOMAIN batch.plain : Handling(batch.plain[i].id, i = Len(batch.plain)) \in Task
    BY <2>2 DEF Handling, Task, AnItem
  <2> QED
    BY <2>1, <2>3
<1>3. /\ UNCHANGED <<deliveries, unprocessed, used, reading, errors, removing, doubled>>
      /\ UNCHANGED <<handled, reported, dropped, expired>>
      /\ batch.at = "committed" /\ batch' = NoBatch
      /\ acked' = acked \cup {MessageOf(id) : id \in BatchIds \cap live}
      /\ live' = live \ BatchIds
      /\ pipe' = [pipe EXCEPT !.decrypted = pipe.decrypted \o new]
  BY DEF Acknowledge, disk, outcome
<1> HIDE DEF new
<1>4. pipe.decrypted \o new \in Seq(Task)
  BY <1>1, <1>2, HoldsBoth
<1>5. /\ pipe'.incoming = pipe.incoming /\ pipe'.items = pipe.items /\ pipe'.encrypted = pipe.encrypted
      /\ pipe' \in [incoming : Seq(Task), items : Seq(AnItem), encrypted : Seq(Task), decrypted : Seq(Task),
                    app : Seq(Task), emptying : SUBSET SUBSET Ids]
  BY <1>1, <1>3, <1>4
<1>6. /\ Listed' = Listed /\ Requested' = Requested /\ Due' = {}
      /\ Taken' = {} /\ Plain' = {} /\ Failed' = {} /\ Current' = {} /\ Current = {} /\ batch'.at = "idle"
  <2>1. Due' = {}
    BY <1>3, <1>5 DEF KeptInv, BatchParts, Due
  <2> QED
    BY <1>3, <1>5, <2>1, HoldsNothing DEF Listed, Requested, Taken, Plain, Failed, Current, NoBatch
<1>7. /\ \A m : Exempt(m)' <=> Exempt(m)
      /\ FreshOrder' = FreshOrder /\ RequestOrder' = RequestOrder
      /\ OneEach' = OneEach /\ OneTask' = OneTask
  BY <1>3 DEF Exempt, Settled, FreshOrder, RequestOrder, OneEach, OneTask, M
<1>8. /\ \A x \in Requested \cup Listed \cup Taken \cup Plain \cup Failed \cup Due :
           x.id \in Ids /\ M(x) = MessageOf(x.id) /\ M(x) \in Messages /\ Number(x.id) \in Nat
      /\ \A m \in Messages : deliveries[m] \in Nat
      /\ live \subseteq Ids
      /\ unprocessed \in [Ids -> ARow \cup {None}]
  BY HandIds DEF KeptInv, HandsTyped
<1>9. \A id : id \in BatchIds <=> \E x \in Taken : x.id = id
  BY DEF BatchIds, Taken
\* An acknowledged envelope is the newest of its message.
<1>10. ASSUME NEW m \in acked' \ acked, ~Exempt(m)
       PROVE  \E x \in Taken : x.id \in live /\ M(x) = m /\ Fresh(x) /\ Number(x.id) = deliveries[m]
  <2>1. PICK id \in live : m = MessageOf(id) /\ id \in BatchIds
    BY <1>3, <1>10
  <2>2. PICK x \in Taken : x.id = id
    BY <1>9, <2>1
  <2>3. M(x) = m
    BY <1>8, <2>1, <2>2
  <2>4. Fresh(x)
    BY <1>10, <2>1, <2>2, <2>3 DEF KeptInv, LiveFresh, Exempt
  <2> QED
    BY <2>1, <2>2, <2>3, <2>4 DEF KeptInv, Numbered
<1>11. HandsTyped'
  <2>1. batch' \in [at : {"idle", "decrypting", "committed"}, items : Seq(AnItem), plain : Seq(AnItem),
                    failed : SUBSET AnItem]
    BY <1>3 DEF NoBatch
  <2>2. acked' \in SUBSET Messages /\ live' \in SUBSET Ids
    BY <1>3, <1>8, IdParts DEF KeptInv, HandsTyped
  <2> QED
    BY <1>3, <1>5, <2>1, <2>2 DEF KeptInv, HandsTyped
<1>12. BatchParts' /\ OneHand' /\ FirstIn'
  BY <1>3, <1>5, <1>6, <1>7 DEF KeptInv, BatchParts, OneHand, FirstIn, Apart
<1>13. Numbered' /\ NewRequests' /\ Closed' /\ CommittedRows'
  BY <1>3, <1>6 DEF KeptInv, Numbered, NewRequests, Closed, CommittedRows
<1>14. LiveFresh'
  BY <1>3, <1>6, <1>9 DEF KeptInv, LiveFresh
<1>15. RowThere' /\ Removals'
  BY <1>3, <1>6, <1>7 DEF KeptInv, RowThere, Removals
<1>16. AckedLast'
  <2>1. ASSUME NEW r \in Requested, M(r) \in acked', ~Exempt(M(r))
        PROVE  M(r) \in used
    <3>1. CASE M(r) \in acked
      BY <2>1, <3>1 DEF KeptInv, AckedLast
    <3>2. CASE M(r) \notin acked
      <4>1. PICK x \in Taken : M(x) = M(r) /\ Fresh(x) /\ Number(x.id) = deliveries[M(r)]
        BY <1>10, <2>1, <3>2
      <4>2. Number(x.id) < Number(r.id) /\ Number(r.id) <= deliveries[M(r)]
        BY <4>1 DEF KeptInv, FirstIn, Earlier, Numbered
      <4> QED
        BY <1>8, <4>1, <4>2
    <3> QED
      BY <3>1, <3>2
  <2>2. ASSUME NEW y \in Listed, Fresh(y), M(y) \in acked', ~Exempt(M(y))
        PROVE  M(y) \in used
    <3>1. CASE M(y) \in acked
      BY <2>2, <3>1 DEF KeptInv, AckedLast
    <3>2. CASE M(y) \notin acked
      <4>1. PICK x \in Taken : M(x) = M(y) /\ Fresh(x) /\ Number(x.id) = deliveries[M(y)]
        BY <1>10, <2>2, <3>2
      <4>2. Number(x.id) < Number(y.id) /\ Number(y.id) <= deliveries[M(y)]
        BY <2>2, <4>1 DEF KeptInv, FirstIn, Earlier, Numbered
      <4> QED
        BY <1>8, <4>1, <4>2
    <3> QED
      BY <3>1, <3>2
  <2> QED
    BY <1>3, <1>6, <1>7, <2>1, <2>2 DEF AckedLast
<1>17. PlainKept'
  BY <1>3 DEF KeptInv, PlainKept, HasRow, Settled
<1>18. NoneLost'
  <2> SUFFICES ASSUME NEW m \in acked', ~Exempt(m) PROVE HasRow(m, BOOLEAN)
    BY <1>3 DEF NoneLost, HasRow, Exempt, Settled
  <2>1. CASE m \in acked
    BY <2>1 DEF KeptInv, NoneLost, Exempt
  <2>2. CASE m \in used
    BY <2>2 DEF KeptInv, PlainKept, HasRow, Exempt
  <2>3. CASE m \notin acked /\ m \notin used
    <3>1. PICK x \in Taken : M(x) = m
      BY <1>10, <2>3
    <3>2. unprocessed[x.id] # None
      BY <1>3, <2>3, <3>1 DEF KeptInv, CommittedRows
    <3>3. unprocessed[x.id] \in ARow /\ x.id \in Ids /\ MessageOf(x.id) = m
      BY <1>8, <3>1, <3>2
    <3> QED
      BY <3>2, <3>3 DEF HasRow, ARow
  <2> QED
    BY <2>1, <2>2, <2>3
<1> QED
  BY <1>11, <1>12, <1>13, <1>14, <1>15, <1>16, <1>17, <1>18 DEF KeptInv

\* There are finitely many ids.
LEMMA IdsAreFinite == IsFiniteSet(Ids)
<1>1. IsFiniteSet(Messages) /\ MaxDeliveries \in Nat
  BY EnvelopeAssumption
<1>2. IsFiniteSet(1..MaxDeliveries)
  BY <1>1, FS_Interval
<1> QED
  BY <1>1, <1>2, FS_Product DEF Ids

\* The rows that are read again, each with one more attempt.
LEMMA FetchRowsKeeps ==
  ASSUME KeptInv, FetchRows
  PROVE  KeptInv'
<1> DEFINE present == {id \in reading : unprocessed[id] # None}
           closed == {id \in present : unprocessed[id].encrypted}
           toBatcher == SetToSeq(closed)
           toQueue == SetToSeq(present \ closed)
           new == [i \in DOMAIN toBatcher |->
                     [id |-> toBatcher[i], attempts |-> unprocessed'[toBatcher[i]].attempts]]
           opened == [i \in DOMAIN toQueue |-> Handling(toQueue[i], FALSE)]
<1>1. /\ pipe.incoming \in Seq(Task) /\ pipe.encrypted \in Seq(Task) /\ pipe.items \in Seq(AnItem)
      /\ pipe.decrypted \in Seq(Task) /\ pipe.app \in Seq(Task) /\ pipe.emptying \in SUBSET SUBSET Ids
      /\ DOMAIN pipe = {"incoming", "items", "encrypted", "decrypted", "app", "emptying"}
      /\ pipe = [incoming |-> pipe.incoming, items |-> pipe.items, encrypted |-> pipe.encrypted,
                 decrypted |-> pipe.decrypted, app |-> pipe.app, emptying |-> pipe.emptying]
      /\ unprocessed \in [Ids -> ARow \cup {None}]
      /\ \A r \in ARow : r # None
  BY PipeFields, RowIsNotNone DEF KeptInv, HandsTyped
<1>2. /\ UNCHANGED <<acked, live, deliveries, used, batch, errors, removing>>
      /\ UNCHANGED <<handled, reported, dropped, expired>>
      /\ reading # None /\ reading' = None
      /\ unprocessed' = [id \in Ids |->
           IF id \in present THEN [unprocessed[id] EXCEPT !.attempts = @ + 1] ELSE unprocessed[id]]
      /\ doubled' = doubled \cup {MessageOf(id) : id \in {i \in closed : InBatcher(i)}}
      /\ pipe' = [pipe EXCEPT !.items = pipe.items \o new, !.encrypted = pipe.encrypted \o opened]
  BY DEF FetchRows, server, outcome
<1>3. closed \subseteq present /\ present \subseteq Ids /\ present \ closed \subseteq Ids /\ reading \subseteq Ids
  BY <1>2 DEF KeptInv, HandsTyped
<1>4. \A id \in closed : unprocessed[id] # None /\ unprocessed[id].encrypted
  OBVIOUS
<1>5. \A id \in Ids : /\ unprocessed'[id] = None <=> unprocessed[id] = None
                      /\ id \notin present => unprocessed'[id] = unprocessed[id]
                      /\ id \in present => /\ unprocessed'[id] \in ARow /\ unprocessed'[id].attempts > 0
                                           /\ unprocessed'[id].encrypted = unprocessed[id].encrypted
  <2>1. ASSUME NEW id \in present
        PROVE  /\ unprocessed'[id] \in ARow /\ unprocessed'[id].attempts > 0
               /\ unprocessed'[id].encrypted = unprocessed[id].encrypted
    <3>1. unprocessed[id] \in ARow
      BY <1>1, <1>3
    <3>2. unprocessed'[id] = [unprocessed[id] EXCEPT !.attempts = @ + 1]
      BY <1>2, <1>3
    <3> QED
      BY <3>1, <3>2 DEF ARow
  <2>2. \A id \in Ids : id \notin present => unprocessed'[id] = unprocessed[id]
    BY <1>2
  <2>3. \A id \in present : unprocessed[id] # None /\ unprocessed'[id] # None
    BY <1>1, <2>1
  <2> QED
    BY <2>1, <2>2, <2>3
<1>6. /\ toBatcher \in Seq(closed) /\ ToSet(toBatcher) = closed
      /\ \A i, j \in DOMAIN toBatcher : toBatcher[i] = toBatcher[j] => i = j
      /\ toQueue \in Seq(present \ closed)
  <2>1. IsFiniteSet(closed) /\ IsFiniteSet(present \ closed)
    BY <1>3, IdsAreFinite, FS_Subset
  <2> QED
    BY <2>1, InSomeOrder
<1>7. \A id \in closed : id \in present /\ id \in Ids
  BY <1>3
<1>8. doubled' = doubled \cup {MessageOf(id) : id \in {i \in closed : InBatcher(i)}}
  BY <1>2
<1> HIDE DEF present, closed, toBatcher, toQueue
\* The items.
<1>9. /\ DOMAIN toBatcher = 1..Len(toBatcher) /\ Len(toBatcher) \in Nat
      /\ \A i \in 1..Len(toBatcher) : toBatcher[i] \in closed
  BY <1>6, LenProperties, ElementOfSeq
<1>10. \A i \in 1..Len(toBatcher) :
         /\ new[i] \in AnItem /\ new[i].id = toBatcher[i] /\ ~Fresh(new[i])
  <2> SUFFICES ASSUME NEW i \in 1..Len(toBatcher)
               PROVE  new[i] \in AnItem /\ new[i].id = toBatcher[i] /\ ~Fresh(new[i])
    OBVIOUS
  <2>1. new[i] = [id |-> toBatcher[i], attempts |-> unprocessed'[toBatcher[i]].attempts]
    BY <1>9
  <2>2. toBatcher[i] \in closed /\ toBatcher[i] \in Ids
    BY <1>7, <1>9
  <2>3. unprocessed'[toBatcher[i]] \in ARow /\ unprocessed'[toBatcher[i]].attempts > 0
    BY <1>5, <1>7, <2>2
  <2>4. unprocessed'[toBatcher[i]].attempts \in Nat \ {0}
    BY <2>3 DEF ARow
  <2> QED
    BY <2>1, <2>2, <2>4 DEF AnItem, Fresh
<1>11. new \in Seq(AnItem) /\ DOMAIN new = 1..Len(toBatcher)
  BY <1>9, <1>10
<1>12. opened \in Seq(Task) /\ \A t \in ToSet(opened) : t.task = "handle"
  <2>1. /\ DOMAIN toQueue = 1..Len(toQueue) /\ Len(toQueue) \in Nat
        /\ \A i \in 1..Len(toQueue) : toQueue[i] \in Ids
    BY <1>3, <1>6, LenProperties, ElementOfSeq
  <2>2. /\ DOMAIN opened = 1..Len(toQueue)
        /\ \A i \in 1..Len(toQueue) : opened[i] = Handling(toQueue[i], FALSE)
    BY <2>1
  <2>3. \A i \in 1..Len(toQueue) : opened[i] \in Task /\ opened[i].task = "handle"
    BY <2>1, <2>2 DEF Handling, Task
  <2>4. opened = [i \in 1..Len(toQueue) |-> opened[i]]
    BY <2>2
  <2>5. opened \in Seq(Task)
    <3> HIDE DEF opened
    <3> QED
      BY <2>1, <2>3, <2>4
  <2> HIDE DEF opened
  <2> QED
    BY <2>2, <2>3, <2>5 DEF ToSet
<1> HIDE DEF new, opened
<1>13. \A y \in ToSet(new) : /\ y \in AnItem /\ ~Fresh(y) /\ y.id \in closed /\ y.id \in Ids
                             /\ unprocessed[y.id] # None /\ unprocessed'[y.id] # None
                             /\ unprocessed'[y.id].encrypted
  <2>1. \A y \in ToSet(new) : y \in AnItem /\ ~Fresh(y) /\ y.id \in closed
    BY <1>9, <1>10, <1>11 DEF ToSet
  <2> QED
    BY <1>4, <1>5, <1>7, <2>1
<1>14. /\ pipe.items \o new \in Seq(AnItem)
       /\ ToSet(pipe.items \o new) = Listed \cup ToSet(new)
       /\ \A R : /\ Rising(pipe.items, R) /\ Rising(new, R)
                 /\ \A x \in Listed, y \in ToSet(new) : <<x, y>> \in R
                 => Rising(pipe.items \o new, R)
  BY <1>1, <1>11, HoldsBoth DEF Listed
<1>15. /\ pipe.encrypted \o opened \in Seq(Task)
       /\ ToSet(pipe.encrypted \o opened) = ToSet(pipe.encrypted) \cup ToSet(opened)
       /\ \A R : /\ Rising(pipe.encrypted, R) /\ Rising(opened, R)
                 /\ \A x \in ToSet(pipe.encrypted), y \in ToSet(opened) : <<x, y>> \in R
                 => Rising(pipe.encrypted \o opened, R)
  BY <1>1, <1>12, HoldsBoth
<1>16. /\ pipe'.incoming = pipe.incoming /\ pipe'.items = pipe.items \o new
       /\ pipe'.encrypted = pipe.encrypted \o opened
       /\ pipe' \in [incoming : Seq(Task), items : Seq(AnItem), encrypted : Seq(Task), decrypted : Seq(Task),
                     app : Seq(Task), emptying : SUBSET SUBSET Ids]
  BY <1>1, <1>2, <1>14, <1>15
<1>17. /\ Listed' = Listed \cup ToSet(new) /\ Requested' = Requested /\ Due' = Due
       /\ Taken' = Taken /\ Plain' = Plain /\ Failed' = Failed /\ Current' = Current
  <2>1. Due' = Due
    BY <1>12, <1>15, <1>16 DEF Due, Decryptions
  <2> QED
    BY <1>2, <1>14, <1>16, <2>1, SameBatch DEF Listed, Requested
<1>18. /\ doubled \subseteq doubled'
       /\ \A m : Exempt(m) => Exempt(m)'
       /\ FreshOrder' = FreshOrder /\ RequestOrder' = RequestOrder
       /\ OneEach \subseteq OneEach' /\ OneTask \subseteq OneTask' /\ \A X, Y : Apart(X, Y) => Apart(X, Y)'
  BY <1>2, SameOrders DEF Exempt, Settled
<1>19. \A y \in ToSet(new), x \in Listed \cup Taken : x.id = y.id => M(y) \in doubled' /\ M(x) \in doubled'
  <2> SUFFICES ASSUME NEW y \in ToSet(new), NEW x \in Listed \cup Taken, x.id = y.id
               PROVE  MessageOf(y.id) \in doubled'
    BY DEF M
  <2>1. InBatcher(y.id)
    BY DEF InBatcher, Listed, Taken
  <2> QED
    BY <1>8, <1>13, <2>1
<1>20. /\ \A x \in Requested \cup Listed \cup Taken \cup Plain \cup Failed \cup Due : x.id \in Ids
       /\ live \subseteq Ids /\ removing \subseteq Ids /\ Current \subseteq Taken
  BY HandIds DEF KeptInv
<1>21. HandsTyped'
  <2>1. unprocessed' \in [Ids -> ARow \cup {None}]
    BY <1>1, <1>2, <1>5
  <2> QED
    BY <1>2, <1>16, <2>1 DEF KeptInv, HandsTyped
<1>22. BatchParts'
  BY <1>2, <1>17 DEF KeptInv, BatchParts
<1>23. OneHand'
  <2>1. Rising(new, OneEach')
    <3> SUFFICES ASSUME NEW i \in 1..Len(toBatcher), NEW j \in 1..Len(toBatcher), i < j
                 PROVE  <<new[i], new[j]>> \in OneEach'
      BY <1>11 DEF Rising
    <3>1. new[i].id # new[j].id
      BY <1>6, <1>9, <1>10
    <3> QED
      BY <1>10, <3>1 DEF OneEach
  <2>2. \A x \in Listed, y \in ToSet(new) : <<x, y>> \in OneEach'
    BY <1>13, <1>19, HandTypes DEF KeptInv, OneEach
  <2>3. Rising(pipe.items, OneEach') /\ Rising(pipe.encrypted, OneTask')
    BY <1>18, RisingMore DEF KeptInv, OneHand
  <2>4. Rising(pipe'.items, OneEach')
    BY <1>14, <1>16, <2>1, <2>2, <2>3
  <2>5. /\ Rising(opened, OneTask')
        /\ \A x \in ToSet(pipe.encrypted), y \in ToSet(opened) : <<x, y>> \in OneTask'
    <3>1. ToSet(pipe.encrypted) \subseteq Task /\ ToSet(opened) \subseteq Task
      BY <1>1, <1>12, HoldsTyped
    <3>2. \A x \in Task, y \in ToSet(opened) : <<x, y>> \in OneTask'
      BY <1>12, <3>1 DEF OneTask
    <3>3. \A i \in DOMAIN opened : opened[i] \in ToSet(opened)
      BY DEF ToSet
    <3> QED
      BY <3>1, <3>2, <3>3 DEF Rising
  <2>6. Rising(pipe'.encrypted, OneTask')
    BY <1>15, <1>16, <2>3, <2>5
  <2>7. \A x \in Listed', y \in Taken' : x.id = y.id => M(x) \in doubled'
    BY <1>17, <1>18, <1>19 DEF KeptInv, OneHand, Apart
  <2>8. Apart(Due, Plain \cup Failed)' /\ Apart(Plain, Failed)'
    BY <1>17, <1>18 DEF KeptInv, OneHand, Apart
  <2> QED
    BY <1>17, <2>4, <2>6, <2>7, <2>8 DEF OneHand, Apart
<1>24. Numbered'
  <2>1. \A y \in ToSet(new) : Number(y.id) <= deliveries[M(y)]
    BY <1>13 DEF KeptInv, Numbered, M
  <2> QED
    BY <1>2, <1>5, <1>17, <2>1 DEF KeptInv, Numbered
<1>25. NewRequests'
  BY <1>2, <1>5, <1>13, <1>17, <1>20 DEF KeptInv, NewRequests
<1>26. Closed'
  <2>1. \A x \in Listed \cup Current : x.id \in Ids
    BY <1>20
  <2>2. \A x \in Listed \cup Current : M(x) \in doubled' \/ unprocessed'[x.id] = None \/ unprocessed'[x.id].encrypted
    BY <1>5, <1>18, <2>1 DEF KeptInv, Closed
  <2> QED
    BY <1>13, <1>17, <2>2 DEF Closed
<1>27. LiveFresh'
  <2>1. \A y \in ToSet(new) : y.id \in live => M(y) \in doubled'
    BY <1>13, <1>19 DEF KeptInv, LiveFresh
  <2> QED
    BY <1>2, <1>5, <1>17, <1>18, <1>20, <2>1 DEF KeptInv, LiveFresh
<1>28. FirstIn'
  <2>1. Rising(new, FreshOrder)
    BY <1>10, <1>11 DEF Rising, FreshOrder
  <2>2. \A x \in Listed, y \in ToSet(new) : <<x, y>> \in FreshOrder
    BY <1>13, HandTypes DEF KeptInv, FreshOrder
  <2> QED
    BY <1>13, <1>14, <1>16, <1>17, <1>18, <2>1, <2>2 DEF KeptInv, FirstIn
<1>29. RowThere' /\ CommittedRows'
  BY <1>2, <1>5, <1>13, <1>17, <1>18, <1>20 DEF KeptInv, RowThere, CommittedRows, BatchParts
<1>30. AckedLast'
  BY <1>2, <1>13, <1>17, <1>18 DEF KeptInv, AckedLast
<1>31. Removals'
  <2>1. \A id \in removing : unprocessed[id] = None \/ unprocessed[id].encrypted
                               => unprocessed'[id] = None \/ unprocessed'[id].encrypted
    BY <1>5, <1>20
  <2> QED
    BY <1>2, <1>17, <1>18, <2>1 DEF KeptInv, Removals
<1>32. PlainKept' /\ NoneLost'
  <2>1. \A m, e : HasRow(m, e) => HasRow(m, e)'
    BY <1>5 DEF HasRow
  <2> QED
    BY <1>2, <1>18, <2>1 DEF KeptInv, PlainKept, NoneLost, Settled
<1> QED
  BY <1>21, <1>22, <1>23, <1>24, <1>25, <1>26, <1>27, <1>28, <1>29, <1>30, <1>31, <1>32 DEF KeptInv

\* A step of no variable.
LEMMA StutterKeeps ==
  ASSUME KeptInv, UNCHANGED vars
  PROVE  KeptInv'
<1>1. HandsTyped' /\ Quiet
  BY DEF vars, server, disk, flags, outcome, bounds, KeptInv, HandsTyped, Quiet, Exempt, Settled, Requested, Due,
         FirstIn, OneHand
<1> QED
  BY <1>1, QuietStep

\* The invariant holds in every state: the hands hold what decryptAndCacheBatch,
\* the re-reading and the server have given them, in that order.
THEOREM KeptInvariant == Spec => []KeptInv
<1>1. KeptInv /\ [Next]_vars => KeptInv'
  <2> SUFFICES ASSUME KeptInv, [Next]_vars PROVE KeptInv'
    OBVIOUS
  <2>1. CASE HandOver
    BY <2>1, RequestIsListed, QuietHandOver, QuietStep
  <2>2. CASE ServerEmpty \/ RetryTimerFires \/ AppReady \/ Online \/ StopProcessing
               \/ \E before \in pipe.emptying : WaitForBatcher(before)
    BY <2>2, QuietOthers, QuietStep
  <2>3. CASE HandleDecrypted \/ AppHandles \/ EmitEmpty \/ ReadIds \/ \E id \in errors : ErrorHandled(id)
    BY <2>3, QuietBehind, QuietStep
  <2>4. CASE \E m \in Messages : Deliver(m)
    BY <2>4, DeliverKeeps
  <2>5. CASE FetchRows
    BY <2>5, FetchRowsKeeps
  <2>6. CASE StartBatch
    BY <2>6, StartBatchKeeps
  <2>7. CASE Decrypt
    BY <2>7, DecryptKeeps
  <2>8. CASE Commit
    BY <2>8, CommitKeeps
  <2>9. CASE Acknowledge
    BY <2>9, AcknowledgeKeeps
  <2>10. CASE BatchFails
    BY <2>10, BatchFailsKeeps
  <2>11. CASE RemoveBatch
    BY <2>11, RemoveBatchKeeps
  <2>12. CASE Restart
    BY <2>12, RestartKeeps
  <2>13. CASE UNCHANGED vars
    BY <2>13, StutterKeeps
  <2> QED
    BY <2>1, <2>2, <2>3, <2>4, <2>5, <2>6, <2>7, <2>8, <2>9, <2>10, <2>11, <2>12, <2>13
       DEF Next, ServerStep, ReadStep, BatchStep, AppStep, OtherStep
<1> QED
  BY <1>1, StartsKept, PTL DEF Spec

\* What the server has been told it may forget (respond(200) of
\* decryptAndCacheBatch) is in the table until it is settled.
THEOREM AcknowledgedIsKept == Spec => []NoneLost
<1>1. KeptInv => NoneLost
  BY DEF KeptInv
<1> QED
  BY <1>1, KeptInvariant, PTL

\* A message whose ratchet step is stored, so that it can not be decrypted again,
\* has a row with its plaintext until it is settled.
THEOREM PlaintextIsKept == Spec => []PlainKept
<1>1. KeptInv => PlainKept
  BY DEF KeptInv
<1> QED
  BY <1>1, KeptInvariant, PTL

-----------------------------------------------------------------------------
(***************************************************************************)
(* "empty" comes last.                                                     *)
(***************************************************************************)
\* The ids that the tasks of one kind name.
Named(s, kind) == {t.id : t \in {u \in ToSet(s) : u.task = kind}}

\* What a task of "late" has to come after is done, or ahead of it.
Behind(s, done, late, kind) ==
  \A i \in DOMAIN s : s[i].task \in late =>
    \A id \in s[i].before : id \in done \/ \E j \in DOMAIN s : j < i /\ s[j].task = kind /\ s[j].id = id

\* What is through with the queues up to...
ThroughApp == tried
ThroughDecrypted == ThroughApp \cup Named(pipe.app, "handle")
ThroughEncrypted == ThroughDecrypted \cup Named(pipe.decrypted, "handle")
ThroughBatcher == ThroughEncrypted \cup Named(pipe.encrypted, "handle")
ThroughIncoming == ThroughBatcher \cup {x.id : x \in Listed \cup Taken}

Lasts == {"empty", "drain"}

\* What onEmpty and its drains come after is through with the queue they are in, or
\* ahead of them in it.
EarnedInv ==
  /\ Delivered \subseteq ThroughIncoming \cup Named(pipe.incoming, "request")
  /\ Behind(pipe.incoming, ThroughIncoming, {"empty"}, "request")
  /\ \A before \in pipe.emptying : before \subseteq ThroughIncoming
  /\ \A t \in ToSet(pipe.incoming) : t.task = "drain" => t.before \subseteq ThroughBatcher
  /\ Behind(pipe.encrypted, ThroughEncrypted, Lasts, "handle")
  /\ Behind(pipe.decrypted, ThroughDecrypted, Lasts, "handle")
  /\ Behind(pipe.app, ThroughApp, Lasts, "handle")

\* The ids a queue names, with one more task.
LEMMA NamedAppend ==
  ASSUME NEW S, NEW s \in Seq(S), NEW e \in S, NEW kind
  PROVE  /\ Named(s, kind) \subseteq Named(Append(s, e), kind)
         /\ Named(Append(s, e), kind) \subseteq Named(s, kind) \cup {e.id}
         /\ e.task = kind => e.id \in Named(Append(s, e), kind)
         /\ e.task # kind => Named(Append(s, e), kind) = Named(s, kind)
<1>1. ToSet(Append(s, e)) = ToSet(s) \cup {e}
  BY HoldsAppend
<1> QED
  BY <1>1 DEF Named

\* ... without its head.
LEMMA NamedTail ==
  ASSUME NEW S, NEW s \in Seq(S), s # <<>>, NEW kind
  PROVE  /\ Named(Tail(s), kind) \subseteq Named(s, kind)
         /\ Head(s).task = kind => Named(s, kind) = Named(Tail(s), kind) \cup {Head(s).id}
         /\ Head(s).task # kind => Named(s, kind) = Named(Tail(s), kind)
<1>1. ToSet(s) = ToSet(Tail(s)) \cup {Head(s)}
  BY HoldsTail
<1> QED
  BY <1>1 DEF Named

\* ... and with a sequence of tasks behind it.
LEMMA NamedBoth ==
  ASSUME NEW S, NEW s \in Seq(S), NEW t \in Seq(S), NEW kind
  PROVE  Named(s \o t, kind) = Named(s, kind) \cup Named(t, kind)
<1>1. ToSet(s \o t) = ToSet(s) \cup ToSet(t)
  BY HoldsBoth
<1> QED
  BY <1>1 DEF Named

\* More is done than before.
LEMMA BehindMore ==
  ASSUME NEW s, NEW done, NEW more, NEW late, NEW kind, done \subseteq more, Behind(s, done, late, kind)
  PROVE  Behind(s, more, late, kind)
BY DEF Behind

\* A task joins a queue: what it comes after is done, or in the queue.
LEMMA BehindAppend ==
  ASSUME NEW S, NEW s \in Seq(S), NEW e \in S, NEW done, NEW late, NEW kind,
         Behind(s, done, late, kind),
         e.task \in late => e.before \subseteq done \cup Named(s, kind)
  PROVE  Behind(Append(s, e), done, late, kind)
<1> DEFINE t == Append(s, e)
<1>1. /\ DOMAIN t = 1..(Len(s) + 1) /\ DOMAIN s = 1..Len(s) /\ Len(s) \in Nat
      /\ \A i \in 1..Len(s) : t[i] = s[i]
      /\ t[Len(s) + 1] = e
  BY AppendProperties, LenProperties
<1> HIDE DEF t
<1>2. /\ \A j \in DOMAIN s : j \in DOMAIN t /\ t[j] = s[j] /\ j < Len(s) + 1
      /\ \A i \in DOMAIN t : i \in DOMAIN s \/ i = Len(s) + 1
  BY <1>1
<1> SUFFICES ASSUME NEW i \in DOMAIN t, t[i].task \in late, NEW id \in t[i].before, id \notin done
             PROVE  \E j \in DOMAIN t : j < i /\ t[j].task = kind /\ t[j].id = id
  BY DEF Behind, t
<1>3. CASE i \in DOMAIN s
  BY <1>2, <1>3 DEF Behind
<1>4. CASE i = Len(s) + 1
  <2>1. id \in Named(s, kind)
    BY <1>1, <1>4
  <2>2. PICK j \in DOMAIN s : s[j].task = kind /\ s[j].id = id
    BY <2>1 DEF Named, ToSet
  <2> QED
    BY <1>2, <1>4, <2>2
<1> QED
  BY <1>2, <1>3, <1>4

\* The head of a queue is taken: if it is late, all it comes after is done; if
\* anything waited for it, it is done now.
LEMMA BehindTail ==
  ASSUME NEW S, NEW s \in Seq(S), s # <<>>, NEW done, NEW more, NEW late, NEW kind,
         Behind(s, done, late, kind), done \subseteq more, Head(s).task = kind => Head(s).id \in more
  PROVE  /\ Head(s).task \in late => Head(s).before \subseteq done
         /\ Behind(Tail(s), more, late, kind)
<1> DEFINE t == Tail(s)
<1>1. /\ Len(s) \in Nat /\ Len(s) >= 1 /\ DOMAIN s = 1..Len(s)
      /\ DOMAIN t = 1..(Len(s) - 1)
      /\ \A i \in 1..(Len(s) - 1) : t[i] = s[i + 1]
      /\ Head(s) = s[1]
  BY HeadTailProperties, LenProperties, EmptySeq
<1> HIDE DEF t
<1>2. /\ 1 \in DOMAIN s /\ \A j \in DOMAIN s : ~(j < 1)
      /\ \A i \in DOMAIN t : i + 1 \in DOMAIN s /\ t[i] = s[i + 1]
      /\ \A i \in DOMAIN t, j \in DOMAIN s : j < i + 1 => j = 1 \/ (j - 1 \in DOMAIN t /\ j - 1 < i /\ t[j - 1] = s[j])
  BY <1>1
<1>3. Head(s).task \in late => Head(s).before \subseteq done
  BY <1>1, <1>2 DEF Behind
<1>4. ASSUME NEW i \in DOMAIN t, t[i].task \in late, NEW id \in t[i].before, id \notin more
      PROVE  \E j \in DOMAIN t : j < i /\ t[j].task = kind /\ t[j].id = id
  <2>1. PICK j \in DOMAIN s : j < i + 1 /\ s[j].task = kind /\ s[j].id = id
    BY <1>2, <1>4 DEF Behind
  <2>2. j # 1
    BY <1>1, <1>4, <2>1
  <2> QED
    BY <1>2, <2>1, <2>2
<1> QED
  BY <1>3, <1>4 DEF Behind, t

\* Tasks that are not late may follow.
LEMMA BehindBoth ==
  ASSUME NEW S, NEW s \in Seq(S), NEW t \in Seq(S), NEW done, NEW late, NEW kind,
         Behind(s, done, late, kind), \A x \in ToSet(t) : x.task \notin late
  PROVE  Behind(s \o t, done, late, kind)
<1> DEFINE c == s \o t
           m == Len(s)
           n == Len(t)
<1>1. /\ DOMAIN c = 1..(m + n) /\ DOMAIN s = 1..m /\ DOMAIN t = 1..n
      /\ m \in Nat /\ n \in Nat
      /\ \A i \in 1..(m + n) : c[i] = IF i <= m THEN s[i] ELSE t[i - m]
  BY ConcatProperties, LenProperties
<1> HIDE DEF c, m, n
<1>2. /\ \A i \in DOMAIN s : i \in DOMAIN c /\ c[i] = s[i]
      /\ \A i \in DOMAIN c : i \in DOMAIN s \/ (i - m \in DOMAIN t /\ c[i] = t[i - m])
  BY <1>1
<1>3. \A i \in DOMAIN c : i \notin DOMAIN s => c[i].task \notin late
  BY <1>2 DEF ToSet
<1> QED
  BY <1>2, <1>3 DEF Behind, c

\* Nothing is late in an empty queue.
LEMMA BehindNothing ==
  \A done, late, kind : Behind(<<>>, done, late, kind) /\ Named(<<>>, kind) = {}
BY HoldsNothing DEF Behind, Named

\* Nothing that is through comes back.
Flows ==
  /\ ThroughApp \subseteq ThroughApp' /\ ThroughDecrypted \subseteq ThroughDecrypted'
  /\ ThroughEncrypted \subseteq ThroughEncrypted' /\ ThroughBatcher \subseteq ThroughBatcher'
  /\ ThroughIncoming \subseteq ThroughIncoming'

\* The parts of EarnedInv, one for each queue.
IncomingInTurn ==
  /\ Behind(pipe.incoming, ThroughIncoming, {"empty"}, "request")
  /\ \A t \in ToSet(pipe.incoming) : t.task = "drain" => t.before \subseteq ThroughBatcher
EmptyingInTurn == \A before \in pipe.emptying : before \subseteq ThroughIncoming
EncryptedInTurn == Behind(pipe.encrypted, ThroughEncrypted, Lasts, "handle")
DecryptedInTurn == Behind(pipe.decrypted, ThroughDecrypted, Lasts, "handle")
AppInTurn == Behind(pipe.app, ThroughApp, Lasts, "handle")

\* The invariant follows for a step by which nothing comes back, from the queues
\* it has changed.
LEMMA FlowKeeps ==
  ASSUME EarnedInv, Flows,
         Delivered' \subseteq Delivered \cup ThroughIncoming' \cup Named(pipe'.incoming, "request"),
         Named(pipe.incoming, "request") \subseteq ThroughIncoming' \cup Named(pipe'.incoming, "request"),
         pipe'.incoming = pipe.incoming \/ IncomingInTurn',
         pipe'.emptying \subseteq pipe.emptying \/ EmptyingInTurn',
         pipe'.encrypted = pipe.encrypted \/ EncryptedInTurn',
         pipe'.decrypted = pipe.decrypted \/ DecryptedInTurn',
         pipe'.app = pipe.app \/ AppInTurn'
  PROVE  EarnedInv'
<1>1. IncomingInTurn'
  BY BehindMore DEF EarnedInv, IncomingInTurn, Flows
<1>2. EmptyingInTurn'
  BY DEF EarnedInv, EmptyingInTurn, Flows
<1>3. EncryptedInTurn' /\ DecryptedInTurn' /\ AppInTurn'
  <2>1. EncryptedInTurn'
    BY BehindMore DEF EarnedInv, EncryptedInTurn, Flows
  <2>2. DecryptedInTurn'
    BY BehindMore DEF EarnedInv, DecryptedInTurn, Flows
  <2>3. AppInTurn'
    BY BehindMore DEF EarnedInv, AppInTurn, Flows
  <2> QED
    BY <2>1, <2>2, <2>3
<1>4. Delivered' \subseteq ThroughIncoming' \cup Named(pipe'.incoming, "request")
  BY DEF EarnedInv, Flows
<1> QED
  BY <1>1, <1>2, <1>3, <1>4 DEF EarnedInv, IncomingInTurn, EmptyingInTurn, EncryptedInTurn, DecryptedInTurn, AppInTurn

\* How the five sets change, from the queues.
LEMMA FlowOf ==
  ASSUME tried \subseteq tried',
         Named(pipe.app, "handle") \subseteq tried' \cup Named(pipe'.app, "handle"),
         Named(pipe.decrypted, "handle") \subseteq
           tried' \cup Named(pipe'.app, "handle") \cup Named(pipe'.decrypted, "handle"),
         Named(pipe.encrypted, "handle") \subseteq
           tried' \cup Named(pipe'.app, "handle") \cup Named(pipe'.decrypted, "handle")
             \cup Named(pipe'.encrypted, "handle"),
         {x.id : x \in Listed \cup Taken} \subseteq ThroughIncoming'
  PROVE  Flows
BY DEF Flows, ThroughApp, ThroughDecrypted, ThroughEncrypted, ThroughBatcher, ThroughIncoming

\* The fields of the queues and of the batch.
LEMMA PipeShape ==
  ASSUME HandsTyped
  PROVE  /\ pipe.incoming \in Seq(Task) /\ pipe.encrypted \in Seq(Task) /\ pipe.items \in Seq(AnItem)
         /\ pipe.decrypted \in Seq(Task) /\ pipe.app \in Seq(Task)
         /\ pipe = [incoming |-> pipe.incoming, items |-> pipe.items, encrypted |-> pipe.encrypted,
                    decrypted |-> pipe.decrypted, app |-> pipe.app, emptying |-> pipe.emptying]
         /\ batch.items \in Seq(AnItem) /\ batch.plain \in Seq(AnItem)
BY DEF HandsTyped

\* Tasks that are only handed over.
LEMMA HandOverEarned ==
  ASSUME KeptInv, EarnedInv, HandOver
  PROVE  EarnedInv'
<1>1. /\ pipe.incoming \in Seq(Task) /\ pipe.encrypted \in Seq(Task) /\ pipe.items \in Seq(AnItem)
      /\ pipe.decrypted \in Seq(Task) /\ pipe.app \in Seq(Task)
      /\ pipe = [incoming |-> pipe.incoming, items |-> pipe.items, encrypted |-> pipe.encrypted,
                 decrypted |-> pipe.decrypted, app |-> pipe.app, emptying |-> pipe.emptying]
  BY PipeShape DEF KeptInv
<1>2. tried' = tried /\ deliveries' = deliveries /\ batch' = batch
  BY DEF HandOver, server
<1>3. Delivered' = Delivered /\ Taken' = Taken
  BY <1>2 DEF Delivered, Taken
<1>4. CASE TakeRequest
  <2> DEFINE y == [id |-> Head(pipe.incoming).id, attempts |-> 0]
  <2>1. /\ pipe' = [pipe EXCEPT !.incoming = Tail(@), !.items = Append(@, y)]
        /\ pipe.incoming # <<>> /\ Head(pipe.incoming).task = "request"
    BY <1>1, <1>4 DEF TakeRequest, IncomingDue, Turn
  <2>2. /\ pipe'.incoming = Tail(pipe.incoming) /\ pipe'.items = Append(pipe.items, y)
        /\ UNCHANGED <<pipe.encrypted, pipe.decrypted, pipe.app, pipe.emptying>>
    BY <1>1, <2>1
  <2>3. y \in AnItem
    <3>1. Head(pipe.incoming) \in Task
      BY <1>1, <2>1, TailTasks
    <3> QED
      BY <2>1, <3>1 DEF Task, AnItem
  <2>4. Listed' = Listed \cup {y} /\ y.id = Head(pipe.incoming).id
    BY <1>1, <2>2, <2>3, HoldsAppend DEF Listed
  <2> HIDE DEF y
  <2>5. Flows /\ Head(pipe.incoming).id \in ThroughIncoming'
    <3>1. {x.id : x \in Listed \cup Taken} \cup {Head(pipe.incoming).id} \subseteq ThroughIncoming'
      BY <1>3, <2>4 DEF ThroughIncoming
    <3> QED
      BY <1>2, <2>2, <3>1, FlowOf
  <2>6. /\ IncomingInTurn'
        /\ Named(pipe.incoming, "request") \subseteq ThroughIncoming' \cup Named(pipe'.incoming, "request")
    <3>1. Behind(Tail(pipe.incoming), ThroughIncoming', {"empty"}, "request")
      BY <1>1, <2>1, <2>5, BehindTail DEF EarnedInv, Flows
    <3>2. ToSet(Tail(pipe.incoming)) \subseteq ToSet(pipe.incoming)
      BY <1>1, <2>1, HoldsTail
    <3>3. Named(pipe.incoming, "request") = Named(Tail(pipe.incoming), "request") \cup {Head(pipe.incoming).id}
      BY <1>1, <2>1, NamedTail
    <3> QED
      BY <2>2, <2>5, <3>1, <3>2, <3>3 DEF EarnedInv, IncomingInTurn, Flows
  <2> QED
    BY <1>3, <2>2, <2>5, <2>6, FlowKeeps
<1>5. CASE /\ IncomingDue("empty")
           /\ pipe' = [pipe EXCEPT !.incoming = Tail(@), !.emptying = @ \cup {Head(pipe.incoming).before}]
  <2>1. pipe.incoming # <<>> /\ Head(pipe.incoming).task = "empty"
    BY <1>5 DEF IncomingDue, Turn
  <2>2. /\ pipe'.incoming = Tail(pipe.incoming) /\ pipe'.emptying = pipe.emptying \cup {Head(pipe.incoming).before}
        /\ UNCHANGED <<pipe.items, pipe.encrypted, pipe.decrypted, pipe.app>>
    BY <1>1, <1>5
  <2>3. Listed' = Listed
    BY <2>2 DEF Listed
  <2>4. Flows
    BY <1>2, <1>3, <2>2, <2>3, FlowOf DEF ThroughIncoming
  <2>5. /\ Head(pipe.incoming).before \subseteq ThroughIncoming
        /\ Behind(Tail(pipe.incoming), ThroughIncoming', {"empty"}, "request")
    <3>1. Behind(pipe.incoming, ThroughIncoming, {"empty"}, "request") /\ ThroughIncoming \subseteq ThroughIncoming'
      BY <2>4 DEF EarnedInv, Flows
    <3>2. Head(pipe.incoming).task \in {"empty"} /\ Head(pipe.incoming).task # "request"
      BY <2>1
    <3> QED
      BY <1>1, <2>1, <3>1, <3>2, BehindTail
  <2>6. /\ ToSet(Tail(pipe.incoming)) \subseteq ToSet(pipe.incoming)
        /\ Named(pipe.incoming, "request") = Named(Tail(pipe.incoming), "request")
    BY <1>1, <2>1, HoldsTail, NamedTail
  <2>7. IncomingInTurn' /\ EmptyingInTurn'
    BY <2>2, <2>4, <2>5, <2>6 DEF EarnedInv, IncomingInTurn, EmptyingInTurn, Flows
  <2> QED
    BY <1>3, <2>2, <2>4, <2>6, <2>7, FlowKeeps
<1>6. CASE /\ IncomingDue("drain")
           /\ pipe' = [pipe EXCEPT !.incoming = Tail(@), !.encrypted = Append(@, Head(pipe.incoming))]
  <2>1. pipe.incoming # <<>> /\ Head(pipe.incoming).task = "drain"
    BY <1>6 DEF IncomingDue, Turn
  <2>2. /\ pipe'.incoming = Tail(pipe.incoming) /\ pipe'.encrypted = Append(pipe.encrypted, Head(pipe.incoming))
        /\ UNCHANGED <<pipe.items, pipe.emptying, pipe.decrypted, pipe.app>>
    BY <1>1, <1>6
  <2>3. Listed' = Listed
    BY <2>2 DEF Listed
  <2>4. /\ Head(pipe.incoming) \in Task
        /\ ToSet(pipe.incoming) = ToSet(Tail(pipe.incoming)) \cup {Head(pipe.incoming)}
        /\ Named(pipe.incoming, "request") = Named(Tail(pipe.incoming), "request")
    BY <1>1, <2>1, HoldsTail, NamedTail
  <2>5. Named(pipe'.encrypted, "handle") = Named(pipe.encrypted, "handle")
    BY <1>1, <2>1, <2>2, <2>4, NamedAppend
  <2>6. Flows
    BY <1>2, <1>3, <2>2, <2>3, <2>5, FlowOf DEF ThroughIncoming
  <2>7. Behind(Tail(pipe.incoming), ThroughIncoming', {"empty"}, "request")
    BY <1>1, <2>1, <2>6, BehindTail DEF EarnedInv, Flows
  <2>8. IncomingInTurn'
    BY <2>2, <2>4, <2>6, <2>7 DEF EarnedInv, IncomingInTurn, Flows
  <2>9. EncryptedInTurn'
    <3>1. Head(pipe.incoming).before \subseteq ThroughEncrypted \cup Named(pipe.encrypted, "handle")
      BY <2>1, <2>4 DEF EarnedInv, ThroughBatcher
    <3>2. Behind(Append(pipe.encrypted, Head(pipe.incoming)), ThroughEncrypted, Lasts, "handle")
      BY <1>1, <2>4, <3>1, BehindAppend DEF EarnedInv
    <3> QED
      BY <2>2, <2>6, <3>2, BehindMore DEF EncryptedInTurn, Flows
  <2> QED
    BY <1>3, <2>2, <2>4, <2>6, <2>8, <2>9, FlowKeeps
<1>7. CASE /\ EncryptedDue
           /\ pipe' = [pipe EXCEPT !.encrypted = Tail(@), !.decrypted = Append(@, Head(pipe.encrypted))]
  <2> DEFINE t == Head(pipe.encrypted)
  <2>1. pipe.encrypted # <<>> /\ t.task \in {"handle", "drain"} /\ t \in Task
    BY <1>1, <1>7, HoldsTail DEF EncryptedDue, Turn
  <2>2. /\ pipe'.encrypted = Tail(pipe.encrypted) /\ pipe'.decrypted = Append(pipe.decrypted, t)
        /\ UNCHANGED <<pipe.incoming, pipe.items, pipe.emptying, pipe.app>>
    BY <1>1, <1>7
  <2>3. Listed' = Listed
    BY <2>2 DEF Listed
  <2>4. /\ t.task = "handle" => Named(pipe.encrypted, "handle") = Named(Tail(pipe.encrypted), "handle") \cup {t.id}
        /\ t.task # "handle" => Named(pipe.encrypted, "handle") = Named(Tail(pipe.encrypted), "handle")
        /\ Named(pipe.decrypted, "handle") \subseteq Named(pipe'.decrypted, "handle")
        /\ t.task = "handle" => t.id \in Named(pipe'.decrypted, "handle")
    <3>1. /\ t.task = "handle" => Named(pipe.encrypted, "handle") = Named(Tail(pipe.encrypted), "handle") \cup {t.id}
          /\ t.task # "handle" => Named(pipe.encrypted, "handle") = Named(Tail(pipe.encrypted), "handle")
      BY <1>1, <2>1, NamedTail
    <3>2. /\ Named(pipe.decrypted, "handle") \subseteq Named(Append(pipe.decrypted, t), "handle")
          /\ t.task = "handle" => t.id \in Named(Append(pipe.decrypted, t), "handle")
      BY <1>1, <2>1, NamedAppend
    <3> QED
      BY <2>2, <3>1, <3>2
  <2>5. Flows
    <3>1. {x.id : x \in Listed \cup Taken} \subseteq ThroughIncoming'
      BY <1>3, <2>3 DEF ThroughIncoming
    <3> QED
      BY <1>2, <2>2, <2>4, <3>1, FlowOf
  <2>6. t.task = "handle" => t.id \in ThroughEncrypted'
    BY <2>4 DEF ThroughEncrypted
  <2>7. /\ t.task \in Lasts => t.before \subseteq ThroughEncrypted
        /\ Behind(Tail(pipe.encrypted), ThroughEncrypted', Lasts, "handle")
    BY <1>1, <2>1, <2>5, <2>6, BehindTail DEF EarnedInv, Flows
  <2>8. Behind(Append(pipe.decrypted, t), ThroughDecrypted, Lasts, "handle")
    BY <1>1, <2>1, <2>7, BehindAppend DEF EarnedInv, ThroughEncrypted
  <2>9. EncryptedInTurn' /\ DecryptedInTurn'
    BY <2>2, <2>5, <2>7, <2>8, BehindMore DEF EncryptedInTurn, DecryptedInTurn, Flows
  <2> QED
    BY <1>3, <2>2, <2>5, <2>9, FlowKeeps
<1>8. CASE /\ DecryptedDue
           /\ pipe' = [pipe EXCEPT !.decrypted = Tail(@), !.app = Append(@, Head(pipe.decrypted))]
  <2> DEFINE t == Head(pipe.decrypted)
  <2>1. pipe.decrypted # <<>> /\ t.task = "drain" /\ t \in Task
    BY <1>1, <1>8, HoldsTail DEF DecryptedDue, Turn
  <2>2. /\ pipe'.decrypted = Tail(pipe.decrypted) /\ pipe'.app = Append(pipe.app, t)
        /\ UNCHANGED <<pipe.incoming, pipe.items, pipe.emptying, pipe.encrypted>>
    BY <1>1, <1>8
  <2>3. Listed' = Listed
    BY <2>2 DEF Listed
  <2>4. /\ Named(pipe.decrypted, "handle") = Named(pipe'.decrypted, "handle")
        /\ Named(pipe.app, "handle") \subseteq Named(pipe'.app, "handle")
    BY <1>1, <2>1, <2>2, NamedTail, NamedAppend
  <2>5. Flows
    <3>1. {x.id : x \in Listed \cup Taken} \subseteq ThroughIncoming'
      BY <1>3, <2>3 DEF ThroughIncoming
    <3> QED
      BY <1>2, <2>2, <2>4, <3>1, FlowOf
  <2>6. /\ t.before \subseteq ThroughDecrypted
        /\ Behind(Tail(pipe.decrypted), ThroughDecrypted', Lasts, "handle")
    <3>1. Behind(pipe.decrypted, ThroughDecrypted, Lasts, "handle") /\ ThroughDecrypted \subseteq ThroughDecrypted'
      BY <2>5 DEF EarnedInv, Flows
    <3>2. t.task \in Lasts /\ t.task # "handle"
      BY <2>1 DEF Lasts
    <3> QED
      BY <1>1, <2>1, <3>1, <3>2, BehindTail
  <2>7. Behind(Append(pipe.app, t), ThroughApp, Lasts, "handle")
    BY <1>1, <2>1, <2>6, BehindAppend DEF EarnedInv, ThroughDecrypted
  <2>8. DecryptedInTurn' /\ AppInTurn'
    BY <2>2, <2>5, <2>6, <2>7, BehindMore DEF DecryptedInTurn, AppInTurn, Flows
  <2> QED
    BY <1>3, <2>2, <2>5, <2>8, FlowKeeps
<1> QED
  BY <1>4, <1>5, <1>6, <1>7, <1>8 DEF HandOver

\* A step that leaves the queues as they are.
LEMMA StillEarned ==
  ASSUME EarnedInv, pipe' = pipe, Taken' = Taken, tried \subseteq tried', deliveries' = deliveries
  PROVE  EarnedInv'
<1>1. Listed' = Listed /\ Delivered' = Delivered
  BY DEF Listed, Delivered
<1>2. Flows
  BY <1>1, FlowOf DEF ThroughIncoming
<1>3. /\ Delivered' \subseteq Delivered \cup ThroughIncoming' \cup Named(pipe'.incoming, "request")
      /\ Named(pipe.incoming, "request") \subseteq ThroughIncoming' \cup Named(pipe'.incoming, "request")
  BY <1>1
<1> QED
  BY <1>2, <1>3, FlowKeeps

\* A task joins incomingQueue.
Enqueued(e) ==
  pipe' = [pipe EXCEPT !.incoming = Append(@, e), !.emptying = pipe'.emptying]

\* A task that joins incomingQueue says nothing too early.
LEMMA EnqueuedEarned ==
  ASSUME KeptInv, EarnedInv, NEW e \in Task, Enqueued(e), pipe'.emptying \subseteq pipe.emptying,
         batch' = batch, tried' = tried,
         Delivered' \subseteq Delivered \cup Named(pipe'.incoming, "request"),
         e.task = "empty" => e.before \subseteq Delivered,
         e.task = "drain" => e.before \subseteq ThroughBatcher
  PROVE  EarnedInv'
<1>1. /\ pipe.incoming \in Seq(Task)
      /\ pipe = [incoming |-> pipe.incoming, items |-> pipe.items, encrypted |-> pipe.encrypted,
                 decrypted |-> pipe.decrypted, app |-> pipe.app, emptying |-> pipe.emptying]
  BY PipeShape DEF KeptInv
<1>2. /\ pipe'.incoming = Append(pipe.incoming, e)
      /\ UNCHANGED <<pipe.items, pipe.encrypted, pipe.decrypted, pipe.app>>
  BY <1>1 DEF Enqueued
<1>3. Listed' = Listed /\ Taken' = Taken
  BY <1>2 DEF Listed, Taken
<1>4. Flows
  <2>1. {x.id : x \in Listed \cup Taken} \subseteq ThroughIncoming'
    BY <1>3 DEF ThroughIncoming
  <2> QED
    BY <1>2, <2>1, FlowOf
<1>5. Named(pipe.incoming, "request") \subseteq Named(pipe'.incoming, "request")
  BY <1>1, <1>2, NamedAppend
<1>6. IncomingInTurn'
  <2>1. e.task \in {"empty"} => e.before \subseteq ThroughIncoming \cup Named(pipe.incoming, "request")
    BY DEF EarnedInv
  <2>2. Behind(Append(pipe.incoming, e), ThroughIncoming, {"empty"}, "request")
    BY <1>1, <2>1, BehindAppend DEF EarnedInv
  <2>3. ToSet(Append(pipe.incoming, e)) = ToSet(pipe.incoming) \cup {e}
    BY <1>1, HoldsAppend
  <2>4. Behind(pipe'.incoming, ThroughIncoming', {"empty"}, "request")
    BY <1>2, <1>4, <2>2, BehindMore DEF Flows
  <2>5. \A t \in ToSet(pipe'.incoming) : t.task = "drain" => t.before \subseteq ThroughBatcher'
    BY <1>2, <1>4, <2>3 DEF EarnedInv, Flows
  <2> QED
    BY <2>4, <2>5 DEF IncomingInTurn
<1>7. Named(pipe.incoming, "request") \subseteq ThroughIncoming' \cup Named(pipe'.incoming, "request")
  BY <1>5
<1> QED
  BY <1>2, <1>4, <1>6, <1>7, FlowKeeps

\* The steps that put a task on incomingQueue.
LEMMA IncomingEarned ==
  ASSUME KeptInv, EarnedInv,
         \/ ServerEmpty \/ RetryTimerFires \/ AppReady \/ Online
         \/ (\E before \in pipe.emptying : WaitForBatcher(before)) \/ \E m \in Messages : Deliver(m)
  PROVE  EarnedInv'
<1>1. /\ pipe.incoming \in Seq(Task) /\ pipe.emptying \in SUBSET SUBSET Ids
      /\ pipe = [incoming |-> pipe.incoming, items |-> pipe.items, encrypted |-> pipe.encrypted,
                 decrypted |-> pipe.decrypted, app |-> pipe.app, emptying |-> pipe.emptying]
  BY PipeShape DEF KeptInv, HandsTyped
<1>2. ASSUME NEW e, Enqueue(e)
      PROVE  Enqueued(e) /\ pipe'.emptying = pipe.emptying
  BY <1>1, <1>2 DEF Enqueue, Enqueued
<1>3. deliveries' = deliveries => Delivered' = Delivered
  BY DEF Delivered
<1>4. ASSUME Reset, UNCHANGED <<deliveries, batch, tried>>
      PROVE  EarnedInv'
  <2>1. CASE UNCHANGED pipe
    <3>1. Taken' = Taken
      BY <1>4 DEF Taken
    <3> QED
      BY <1>4, <2>1, <3>1, StillEarned
  <2>2. CASE Enqueue(ReadCache)
    <3>1. ReadCache \in Task /\ ReadCache.task \notin {"empty", "drain"}
      BY NewTasks
    <3> QED
      BY <1>2, <1>3, <1>4, <2>2, <3>1, EnqueuedEarned
  <2> QED
    BY <1>4, <2>1, <2>2 DEF Reset
<1>5. CASE ServerEmpty
  <2>1. Delivered \in SUBSET Ids
    BY DEF Delivered
  <2>2. /\ Empty(Delivered) \in Task /\ Empty(Delivered).task = "empty" /\ Empty(Delivered).before = Delivered
        /\ Enqueue(Empty(Delivered)) /\ UNCHANGED <<deliveries, batch, tried>>
    BY <1>5, <2>1, NewTasks DEF ServerEmpty, Empty
  <2> QED
    BY <1>2, <1>3, <2>2, EnqueuedEarned
<1>6. CASE RetryTimerFires
  <2>1. /\ ReadCache \in Task /\ ReadCache.task \notin {"empty", "drain"}
        /\ Enqueue(ReadCache) /\ UNCHANGED <<deliveries, batch, tried>>
    BY <1>6, NewTasks DEF RetryTimerFires, server
  <2> QED
    BY <1>2, <1>3, <2>1, EnqueuedEarned
<1>7. CASE AppReady
  BY <1>4, <1>7 DEF AppReady, server
<1>8. CASE Online
  BY <1>4, <1>8 DEF Online
<1>9. ASSUME NEW before \in pipe.emptying, WaitForBatcher(before)
      PROVE  EarnedInv'
  <2>1. before \in SUBSET Ids
    BY <1>1
  <2>2. /\ Drain(before) \in Task /\ Drain(before).task = "drain" /\ Drain(before).before = before
    BY <2>1, NewTasks DEF Drain
  <2>3. pipe' = [pipe EXCEPT !.emptying = @ \ {before}, !.incoming = Append(@, Drain(before))]
        /\ UNCHANGED <<deliveries, batch, tried>> /\ pipe.items = <<>> /\ batch = NoBatch
    BY <1>9 DEF WaitForBatcher, BatcherIdle, server
  <2>4. Enqueued(Drain(before)) /\ pipe'.emptying \subseteq pipe.emptying
    BY <1>1, <2>3 DEF Enqueued
  <2>5. Listed = {} /\ Taken = {}
    BY <2>3, HoldsNothing DEF Listed, Taken, NoBatch
  <2>6. before \subseteq ThroughBatcher
    BY <2>5 DEF EarnedInv, ThroughIncoming
  <2> QED
    BY <1>3, <2>2, <2>3, <2>4, <2>6, EnqueuedEarned
<1>10. ASSUME NEW m \in Messages, Deliver(m)
       PROVE  EarnedInv'
  <2> DEFINE n == deliveries[m] + 1
             r == Request(<<m, n>>)
  <2>1. deliveries \in [Messages -> 0..MaxDeliveries] /\ MaxDeliveries \in Nat
    BY IdParts DEF KeptInv, HandsTyped
  <2>2. /\ n \in 1..MaxDeliveries /\ deliveries' = [deliveries EXCEPT ![m] = n] /\ Enqueue(r)
        /\ UNCHANGED <<batch, tried>>
    BY <1>10, <2>1 DEF Deliver
  <2>3. r \in Task /\ r.task = "request" /\ r.id = <<m, n>>
    BY <2>2, IdParts DEF Request, Task
  <2>4. Delivered' \subseteq Delivered \cup {<<m, n>>}
    <3> SUFFICES ASSUME NEW id \in Delivered', id \notin Delivered PROVE id = <<m, n>>
      OBVIOUS
    <3>1. id \in Ids /\ id[2] <= deliveries'[id[1]] /\ ~(id[2] <= deliveries[id[1]])
      BY DEF Delivered
    <3>2. /\ id[1] \in Messages /\ id[2] \in 1..MaxDeliveries /\ id = <<id[1], id[2]>>
      BY <3>1 DEF Ids
    <3>3. id[1] = m
      BY <2>1, <2>2, <3>1, <3>2
    <3>4. id[2] = n
      BY <2>1, <2>2, <3>1, <3>2, <3>3
    <3> QED
      BY <3>2, <3>3, <3>4
  <2> HIDE DEF n, r
  <2>5. pipe'.incoming = Append(pipe.incoming, r)
    BY <1>1, <2>2 DEF Enqueue
  <2>6. <<m, n>> \in Named(pipe'.incoming, "request")
    BY <1>1, <2>3, <2>5, NamedAppend
  <2> QED
    BY <1>2, <2>2, <2>3, <2>4, <2>6, EnqueuedEarned
<1> QED
  BY <1>5, <1>6, <1>7, <1>8, <1>9, <1>10

\* The task of the re-reading is taken.
LEMMA ReadIdsEarned ==
  ASSUME KeptInv, EarnedInv, ReadIds
  PROVE  EarnedInv'
<1>1. /\ pipe.incoming \in Seq(Task)
      /\ pipe = [incoming |-> pipe.incoming, items |-> pipe.items, encrypted |-> pipe.encrypted,
                 decrypted |-> pipe.decrypted, app |-> pipe.app, emptying |-> pipe.emptying]
  BY PipeShape DEF KeptInv
<1>2. /\ pipe.incoming # <<>> /\ Head(pipe.incoming).task = "read"
      /\ pipe' = [pipe EXCEPT !.incoming = Tail(@)] /\ UNCHANGED <<deliveries, batch, tried>>
  BY DEF ReadIds, IncomingDue, Turn, server
<1>3. /\ pipe'.incoming = Tail(pipe.incoming)
      /\ UNCHANGED <<pipe.items, pipe.encrypted, pipe.decrypted, pipe.app, pipe.emptying>>
  BY <1>1, <1>2
<1>4. Listed' = Listed /\ Taken' = Taken /\ Delivered' = Delivered
  BY <1>2, <1>3 DEF Listed, Taken, Delivered
<1>5. Flows
  <2>1. {x.id : x \in Listed \cup Taken} \subseteq ThroughIncoming'
    BY <1>4 DEF ThroughIncoming
  <2> QED
    BY <1>2, <1>3, <2>1, FlowOf
<1>6. /\ Named(pipe.incoming, "request") = Named(pipe'.incoming, "request")
      /\ ToSet(pipe'.incoming) \subseteq ToSet(pipe.incoming)
  BY <1>1, <1>2, <1>3, NamedTail, HoldsTail
<1>7. IncomingInTurn'
  <2>1. Behind(pipe.incoming, ThroughIncoming, {"empty"}, "request") /\ ThroughIncoming \subseteq ThroughIncoming'
    BY <1>5 DEF EarnedInv, Flows
  <2>2. Behind(Tail(pipe.incoming), ThroughIncoming', {"empty"}, "request")
    BY <1>1, <1>2, <2>1, BehindTail
  <2> QED
    BY <1>3, <1>5, <1>6, <2>2 DEF EarnedInv, IncomingInTurn, Flows
<1> QED
  BY <1>3, <1>4, <1>5, <1>6, <1>7, FlowKeeps

\* encryptedQueue gets tasks that are neither "empty" nor a drain, or loses a
\* decryption.
LEMMA EncryptedMoves ==
  ASSUME KeptInv, FetchRows \/ StartBatch \/ Decrypt
  PROVE  /\ UNCHANGED <<pipe.incoming, pipe.decrypted, pipe.app, pipe.emptying>>
         /\ Listed \cup Taken \subseteq Listed' \cup Taken'
         /\ \/ \E t \in Seq(Task) : /\ pipe'.encrypted = pipe.encrypted \o t
                                    /\ \A x \in ToSet(t) : x.task \notin Lasts
            \/ /\ pipe.encrypted # <<>> /\ Head(pipe.encrypted).task = "decrypt"
               /\ pipe'.encrypted = Tail(pipe.encrypted)
<1>0. /\ pipe.encrypted \in Seq(Task) /\ pipe.items \in Seq(AnItem)
      /\ pipe = [incoming |-> pipe.incoming, items |-> pipe.items, encrypted |-> pipe.encrypted,
                 decrypted |-> pipe.decrypted, app |-> pipe.app, emptying |-> pipe.emptying]
      /\ batch \in [at : {"idle", "decrypting", "committed"}, items : Seq(AnItem), plain : Seq(AnItem),
                    failed : SUBSET AnItem]
  BY PipeShape DEF KeptInv, HandsTyped
<1>1. CASE Decrypt
  <2>1. batch'.items = batch.items /\ pipe' = [pipe EXCEPT !.encrypted = Tail(@)]
        /\ pipe.encrypted # <<>> /\ Head(pipe.encrypted).task = "decrypt"
    BY <1>0, <1>1
       DEF Decrypt, Stopped, OldCounter, Opened, DecryptionError, Refused, DroppedEarly, Fail, Turn
  <2> QED
    BY <1>0, <2>1 DEF Listed, Taken
<1>2. CASE StartBatch
  <2>1. PICK n \in 1..Len(pipe.items) :
          /\ batch = NoBatch
          /\ batch' = [NoBatch EXCEPT !.at = "decrypting", !.items = SubSeq(pipe.items, 1, n)]
          /\ pipe' = [pipe EXCEPT !.items = SubSeq(@, n + 1, Len(@)),
                                  !.encrypted = @ \o [i \in 1..n |-> Decryption(SubSeq(pipe.items, 1, n)[i])]]
    BY <1>2 DEF StartBatch
  <2> DEFINE head == SubSeq(pipe.items, 1, n)
             new == [i \in 1..n |-> Decryption(head[i])]
  <2>2. /\ head \in Seq(AnItem) /\ DOMAIN head = 1..n
        /\ Listed = ToSet(head) \cup ToSet(SubSeq(pipe.items, n + 1, Len(pipe.items)))
    BY <1>0, HoldsCut DEF Listed
  <2>3. /\ batch'.items = head /\ pipe'.items = SubSeq(pipe.items, n + 1, Len(pipe.items))
        /\ pipe'.encrypted = pipe.encrypted \o new
        /\ UNCHANGED <<pipe.incoming, pipe.decrypted, pipe.app, pipe.emptying>>
    BY <1>0, <2>1 DEF NoBatch
  <2> HIDE DEF head
  <2>4. \A i \in 1..n : Decryption(head[i]) \in Task /\ Decryption(head[i]).task = "decrypt"
    <3>1. \A i \in 1..n : head[i] \in AnItem
      BY <2>2, ElementOfSeq, LenProperties
    <3> QED
      BY <3>1 DEF Decryption, Task
  <2>5. n \in Nat
    BY <1>0
  <2>6. new \in Seq(Task) /\ DOMAIN new = 1..n /\ \A i \in 1..n : new[i].task = "decrypt"
    BY <2>4, <2>5
  <2> HIDE DEF new
  <2>7. \A x \in ToSet(new) : x.task \notin Lasts
    BY <2>6 DEF ToSet, Lasts
  <2>8. Taken = {}
    BY <2>1, HoldsNothing DEF Taken, NoBatch
  <2>9. Listed \cup Taken \subseteq Listed' \cup Taken'
    BY <2>2, <2>3, <2>8 DEF Listed, Taken
  <2> QED
    BY <2>3, <2>6, <2>7, <2>9
<1>3. CASE FetchRows
  <2> DEFINE present == {id \in reading : unprocessed[id] # None}
             closed == {id \in present : unprocessed[id].encrypted}
             toBatcher == SetToSeq(closed)
             toQueue == SetToSeq(present \ closed)
             items == [i \in DOMAIN toBatcher |->
                         [id |-> toBatcher[i], attempts |-> unprocessed'[toBatcher[i]].attempts]]
             new == [i \in DOMAIN toQueue |-> Handling(toQueue[i], FALSE)]
  <2>1. /\ reading # None /\ batch' = batch
        /\ pipe' = [pipe EXCEPT !.items = pipe.items \o items, !.encrypted = pipe.encrypted \o new]
    BY <1>3 DEF FetchRows
  <2>2. present \ closed \subseteq Ids
    BY <2>1 DEF KeptInv, HandsTyped
  <2>3. toQueue \in Seq(present \ closed)
    BY <2>2, IdsAreFinite, FS_Subset, InSomeOrder
  <2>4. /\ DOMAIN toQueue = 1..Len(toQueue) /\ Len(toQueue) \in Nat
        /\ \A i \in 1..Len(toQueue) : toQueue[i] \in Ids
    BY <2>2, <2>3, LenProperties, ElementOfSeq
  <2> HIDE DEF toQueue
  <2>5. /\ DOMAIN new = 1..Len(toQueue)
        /\ \A i \in 1..Len(toQueue) : new[i] = Handling(toQueue[i], FALSE)
    BY <2>4
  <2>6. \A i \in 1..Len(toQueue) : new[i] \in Task /\ new[i].task = "handle"
    BY <2>4, <2>5 DEF Handling, Task
  <2>7. new = [i \in 1..Len(toQueue) |-> new[i]]
    BY <2>5
  <2>8. DOMAIN pipe.items = 1..Len(pipe.items) /\ Len(pipe.items) \in Nat
    BY <1>0, LenProperties
  <2>9. \A i \in DOMAIN pipe.items : i \in DOMAIN (pipe.items \o items) /\ (pipe.items \o items)[i] = pipe.items[i]
    <3>1. items \in Seq(Range(items))
      <4>1. DOMAIN toBatcher = 1..Len(toBatcher) /\ Len(toBatcher) \in Nat
        <5>1. closed \subseteq Ids
          BY <2>1 DEF KeptInv, HandsTyped
        <5>2. toBatcher \in Seq(closed)
          BY <5>1, IdsAreFinite, FS_Subset, InSomeOrder
        <5> QED
          BY <5>2, LenProperties
      <4> HIDE DEF toBatcher
      <4>2. DOMAIN items = 1..Len(toBatcher)
        BY <4>1
      <4>3. items = [i \in 1..Len(toBatcher) |-> items[i]]
        BY <4>2
      <4> HIDE DEF items
      <4> QED
        BY <4>1, <4>2, <4>3 DEF Range
    <3> HIDE DEF items
    <3> QED
      BY <1>0, <2>8, <3>1, ConcatProperties, LenProperties
  <2> HIDE DEF new, items
  <2>10. new \in Seq(Task) /\ \A x \in ToSet(new) : x.task \notin Lasts
    <3>1. new \in Seq(Task)
      BY <2>4, <2>6, <2>7
    <3> QED
      BY <2>5, <2>6, <3>1 DEF ToSet, Lasts
  <2>11. /\ pipe'.items = pipe.items \o items /\ pipe'.encrypted = pipe.encrypted \o new
         /\ UNCHANGED <<pipe.incoming, pipe.decrypted, pipe.app, pipe.emptying>>
    BY <1>0, <2>1
  <2>12. Listed \cup Taken \subseteq Listed' \cup Taken'
    BY <2>1, <2>9, <2>11 DEF Listed, Taken, ToSet
  <2> QED
    BY <2>10, <2>11, <2>12
<1> QED
  BY <1>1, <1>2, <1>3

\* What has been taken is still there, behind encryptedQueue or ahead of it.
LEMMA EncryptedEarned ==
  ASSUME KeptInv, EarnedInv, FetchRows \/ StartBatch \/ Decrypt
  PROVE  EarnedInv'
<1>1. /\ pipe.encrypted \in Seq(Task) /\ pipe.items \in Seq(AnItem)
      /\ pipe = [incoming |-> pipe.incoming, items |-> pipe.items, encrypted |-> pipe.encrypted,
                 decrypted |-> pipe.decrypted, app |-> pipe.app, emptying |-> pipe.emptying]
      /\ batch \in [at : {"idle", "decrypting", "committed"}, items : Seq(AnItem), plain : Seq(AnItem),
                    failed : SUBSET AnItem]
  BY PipeShape DEF KeptInv, HandsTyped
<1>2. UNCHANGED <<deliveries, tried>>
  BY DEF FetchRows, StartBatch, Decrypt, server
<1>3. Delivered' = Delivered
  BY <1>2 DEF Delivered
<1>4. /\ UNCHANGED <<pipe.incoming, pipe.decrypted, pipe.app, pipe.emptying>>
      /\ Listed \cup Taken \subseteq Listed' \cup Taken'
      /\ \/ \E t \in Seq(Task) : /\ pipe'.encrypted = pipe.encrypted \o t
                                 /\ \A x \in ToSet(t) : x.task \notin Lasts
         \/ /\ pipe.encrypted # <<>> /\ Head(pipe.encrypted).task = "decrypt"
            /\ pipe'.encrypted = Tail(pipe.encrypted)
  BY EncryptedMoves
<1>5. Named(pipe.encrypted, "handle") \subseteq Named(pipe'.encrypted, "handle")
  <2>1. CASE \E t \in Seq(Task) : pipe'.encrypted = pipe.encrypted \o t
    BY <1>1, <2>1, NamedBoth
  <2>2. CASE /\ pipe.encrypted # <<>> /\ Head(pipe.encrypted).task = "decrypt"
             /\ pipe'.encrypted = Tail(pipe.encrypted)
    <3>1. Head(pipe.encrypted).task # "handle"
      BY <2>2
    <3> QED
      BY <1>1, <2>2, <3>1, NamedTail
  <2> QED
    BY <1>4, <2>1, <2>2
<1>6. Flows
  <2>1. {x.id : x \in Listed \cup Taken} \subseteq ThroughIncoming'
    BY <1>4 DEF ThroughIncoming
  <2> QED
    BY <1>2, <1>4, <1>5, <2>1, FlowOf
<1>7. EncryptedInTurn'
  <2>1. Behind(pipe.encrypted, ThroughEncrypted, Lasts, "handle") /\ ThroughEncrypted \subseteq ThroughEncrypted'
    BY <1>6 DEF EarnedInv, Flows
  <2>2. Behind(pipe'.encrypted, ThroughEncrypted', Lasts, "handle")
    <3>1. CASE \E t \in Seq(Task) : /\ pipe'.encrypted = pipe.encrypted \o t
                                    /\ \A x \in ToSet(t) : x.task \notin Lasts
      <4>1. PICK t \in Seq(Task) : /\ pipe'.encrypted = pipe.encrypted \o t
                                   /\ \A x \in ToSet(t) : x.task \notin Lasts
        BY <3>1
      <4>2. Behind(pipe.encrypted, ThroughEncrypted', Lasts, "handle")
        BY <2>1, BehindMore
      <4> QED
        BY <1>1, <4>1, <4>2, BehindBoth
    <3>2. CASE /\ pipe.encrypted # <<>> /\ Head(pipe.encrypted).task = "decrypt"
               /\ pipe'.encrypted = Tail(pipe.encrypted)
      BY <1>1, <2>1, <3>2, BehindTail
    <3> QED
      BY <1>4, <3>1, <3>2
  <2> QED
    BY <2>2 DEF EncryptedInTurn
<1> QED
  BY <1>3, <1>4, <1>6, <1>7, FlowKeeps

\* What a batch has decrypted goes to decryptedQueue, the last with its mark.
GoOn(new) ==
  /\ pipe'.decrypted = pipe.decrypted \o new
  /\ UNCHANGED <<pipe.incoming, pipe.items, pipe.encrypted, pipe.app, pipe.emptying>>
  /\ \A t \in ToSet(new) : t.task = "handle"
  /\ {x.id : x \in Plain} \subseteq Named(new, "handle")
  /\ batch.plain # <<>> => \E t \in ToSet(new) : t.last

\* Acknowledge hands on what the batch has decrypted.
LEMMA AcknowledgedGoOn ==
  ASSUME KeptInv, Acknowledge
  PROVE  \E new \in Seq(Task) : GoOn(new)
<1>1. /\ batch.plain \in Seq(AnItem)
      /\ pipe = [incoming |-> pipe.incoming, items |-> pipe.items, encrypted |-> pipe.encrypted,
                 decrypted |-> pipe.decrypted, app |-> pipe.app, emptying |-> pipe.emptying]
  BY PipeShape DEF KeptInv
<1> DEFINE new == [i \in DOMAIN batch.plain |-> Handling(batch.plain[i].id, i = Len(batch.plain))]
<1>2. pipe' = [pipe EXCEPT !.decrypted = @ \o new]
  BY DEF Acknowledge
<1>3. /\ DOMAIN batch.plain = 1..Len(batch.plain) /\ Len(batch.plain) \in Nat
      /\ \A i \in 1..Len(batch.plain) : batch.plain[i] \in AnItem
  BY <1>1, LenProperties, ElementOfSeq
<1>4. /\ DOMAIN new = 1..Len(batch.plain)
      /\ \A i \in 1..Len(batch.plain) : new[i] = Handling(batch.plain[i].id, i = Len(batch.plain))
  BY <1>3
<1>5. \A i \in 1..Len(batch.plain) : /\ new[i].task = "handle" /\ new[i].id = batch.plain[i].id
                                     /\ i = Len(batch.plain) => new[i].last
  BY <1>3, <1>4 DEF Handling, AnItem
<1>6. new \in Seq(Task)
  <2>1. \A i \in DOMAIN batch.plain : Handling(batch.plain[i].id, i = Len(batch.plain)) \in Task
    BY <1>3 DEF Handling, Task, AnItem
  <2> QED
    BY <1>3, <2>1
<1>7. /\ pipe'.decrypted = pipe.decrypted \o new
      /\ UNCHANGED <<pipe.incoming, pipe.items, pipe.encrypted, pipe.app, pipe.emptying>>
  BY <1>1, <1>2
<1> HIDE DEF new
<1>8. ToSet(new) = {new[i] : i \in 1..Len(batch.plain)} /\ Plain = {batch.plain[i] : i \in 1..Len(batch.plain)}
  BY <1>3, <1>4 DEF ToSet, Plain
<1>9. \A t \in ToSet(new) : t.task = "handle"
  BY <1>5, <1>8
<1>10. ASSUME NEW x \in Plain PROVE x.id \in Named(new, "handle")
  <2>1. PICK i \in 1..Len(batch.plain) : x = batch.plain[i]
    BY <1>8, <1>10
  <2>2. new[i] \in ToSet(new) /\ new[i].task = "handle" /\ new[i].id = x.id
    BY <1>5, <1>8, <2>1
  <2> QED
    BY <2>2 DEF Named
<1>11. batch.plain # <<>> => \E t \in ToSet(new) : t.last
  <2> SUFFICES ASSUME batch.plain # <<>> PROVE \E t \in ToSet(new) : t.last
    OBVIOUS
  <2>1. Len(batch.plain) \in 1..Len(batch.plain)
    BY <1>1, <1>3, EmptySeq, LenProperties
  <2> QED
    BY <1>5, <1>8, <2>1
<1> QED
  BY <1>6, <1>7, <1>9, <1>10, <1>11 DEF GoOn

\* What a batch has taken is through with it, decrypted or not.
LEMMA BatchOver ==
  ASSUME KeptInv, EarnedInv, Commit \/ Acknowledge \/ BatchFails
  PROVE  EarnedInv'
<1>1. /\ pipe.decrypted \in Seq(Task) /\ batch.plain \in Seq(AnItem) /\ batch.items \in Seq(AnItem)
      /\ pipe = [incoming |-> pipe.incoming, items |-> pipe.items, encrypted |-> pipe.encrypted,
                 decrypted |-> pipe.decrypted, app |-> pipe.app, emptying |-> pipe.emptying]
  BY PipeShape DEF KeptInv
<1>2. BatchIds = {x.id : x \in Taken}
  BY DEF BatchIds, Taken
<1>3. deliveries' = deliveries /\ Delivered' = Delivered
  BY DEF Commit, Acknowledge, BatchFails, server, Delivered
<1>4. CASE Commit
  <2>1. batch'.items = batch.items /\ UNCHANGED <<pipe, tried>>
    BY <1>4 DEF Commit, KeptInv, HandsTyped
  <2>2. Taken' = Taken
    BY <2>1 DEF Taken
  <2> QED
    BY <1>3, <2>1, <2>2, StillEarned
<1>5. CASE BatchFails
  <2>1. tried' = tried \cup BatchIds /\ UNCHANGED pipe
    BY <1>5 DEF BatchFails
  <2>2. Listed' = Listed
    BY <2>1 DEF Listed
  <2>3. {x.id : x \in Listed \cup Taken} \subseteq ThroughIncoming'
    BY <1>2, <2>1, <2>2 DEF ThroughIncoming, ThroughBatcher, ThroughEncrypted, ThroughDecrypted, ThroughApp
  <2>4. Flows
    BY <2>1, <2>3, FlowOf
  <2>5. /\ Delivered' \subseteq Delivered \cup ThroughIncoming' \cup Named(pipe'.incoming, "request")
        /\ Named(pipe.incoming, "request") \subseteq ThroughIncoming' \cup Named(pipe'.incoming, "request")
    BY <1>3, <2>1
  <2> QED
    BY <2>1, <2>4, <2>5, FlowKeeps
<1>6. CASE Acknowledge
  <2> DEFINE plain == {item.id : item \in Plain}
  <2>1. tried' = tried \cup (BatchIds \ plain)
    BY <1>6 DEF Acknowledge, Plain
  <2>2. PICK new \in Seq(Task) : GoOn(new)
    BY <1>6, AcknowledgedGoOn
  <2>3. (\A x \in ToSet(new) : x.task \notin Lasts) /\ plain \subseteq Named(new, "handle")
    BY <2>2 DEF GoOn, Lasts
  <2>4. /\ pipe'.decrypted = pipe.decrypted \o new
        /\ UNCHANGED <<pipe.incoming, pipe.items, pipe.encrypted, pipe.app, pipe.emptying>>
    BY <2>2 DEF GoOn
  <2>5. Named(pipe'.decrypted, "handle") = Named(pipe.decrypted, "handle") \cup Named(new, "handle")
    BY <1>1, <2>2, <2>4, NamedBoth
  <2>6. Listed' = Listed
    BY <2>4 DEF Listed
  <2>7. BatchIds \subseteq ThroughEncrypted'
    BY <2>1, <2>3, <2>5 DEF ThroughEncrypted, ThroughDecrypted, ThroughApp
  <2>8. {x.id : x \in Listed \cup Taken} \subseteq ThroughIncoming'
    <3>1. {x.id : x \in Listed} \subseteq ThroughIncoming'
      BY <2>6 DEF ThroughIncoming
    <3>2. {x.id : x \in Taken} \subseteq ThroughIncoming'
      BY <1>2, <2>7 DEF ThroughIncoming, ThroughBatcher
    <3> QED
      BY <3>1, <3>2
  <2>9. Flows
    BY <2>1, <2>4, <2>5, <2>8, FlowOf
  <2>10. DecryptedInTurn'
    <3>1. Behind(pipe.decrypted, ThroughDecrypted', Lasts, "handle")
      BY <2>9, BehindMore DEF EarnedInv, Flows
    <3>2. Behind(pipe.decrypted \o new, ThroughDecrypted', Lasts, "handle")
      BY <1>1, <2>2, <2>3, <3>1, BehindBoth
    <3> QED
      BY <2>4, <3>2 DEF DecryptedInTurn
  <2>11. /\ Delivered' \subseteq Delivered \cup ThroughIncoming' \cup Named(pipe'.incoming, "request")
         /\ Named(pipe.incoming, "request") \subseteq ThroughIncoming' \cup Named(pipe'.incoming, "request")
    BY <1>3, <2>4
  <2> QED
    BY <2>4, <2>9, <2>10, <2>11, FlowKeeps
<1> QED
  BY <1>4, <1>5, <1>6

\* decryptedQueue and appQueue give up their first task.
LEMMA HandledEarned ==
  ASSUME KeptInv, EarnedInv, HandleDecrypted \/ AppHandles \/ EmitEmpty
  PROVE  EarnedInv'
<1>1. /\ pipe.decrypted \in Seq(Task) /\ pipe.app \in Seq(Task)
      /\ pipe = [incoming |-> pipe.incoming, items |-> pipe.items, encrypted |-> pipe.encrypted,
                 decrypted |-> pipe.decrypted, app |-> pipe.app, emptying |-> pipe.emptying]
  BY PipeShape DEF KeptInv
<1>2. UNCHANGED <<deliveries, batch>>
  BY DEF HandleDecrypted, AppHandles, EmitEmpty, server
<1>3. Delivered' = Delivered /\ Taken' = Taken
  BY <1>2 DEF Delivered, Taken
<1>4. CASE HandleDecrypted
  <2> DEFINE t == Head(pipe.decrypted)
  <2>1. pipe.decrypted # <<>> /\ t.task = "handle" /\ t \in Task
    BY <1>1, <1>4, HoldsTail DEF HandleDecrypted, Turn
  <2>2. /\ pipe'.decrypted = Tail(pipe.decrypted)
        /\ \/ pipe'.app = pipe.app /\ tried' = tried \cup {t.id}
           \/ pipe'.app = Append(pipe.app, t) /\ tried' = tried
        /\ UNCHANGED <<pipe.incoming, pipe.items, pipe.encrypted, pipe.emptying>>
    BY <1>1, <1>4 DEF HandleDecrypted
  <2>3. Listed' = Listed
    BY <2>2 DEF Listed
  <2>4. Named(pipe.decrypted, "handle") = Named(Tail(pipe.decrypted), "handle") \cup {t.id}
    BY <1>1, <2>1, NamedTail
  <2>5. Named(pipe.app, "handle") \cup {t.id} \subseteq tried' \cup Named(pipe'.app, "handle")
    <3>1. /\ Named(pipe.app, "handle") \subseteq Named(Append(pipe.app, t), "handle")
          /\ t.id \in Named(Append(pipe.app, t), "handle")
      BY <1>1, <2>1, NamedAppend
    <3> QED
      BY <2>2, <3>1
  <2>6. Flows
    <3>1. {x.id : x \in Listed \cup Taken} \subseteq ThroughIncoming'
      BY <1>3, <2>3 DEF ThroughIncoming
    <3>2. tried \subseteq tried'
      BY <2>2
    <3> QED
      BY <2>2, <2>4, <2>5, <3>1, <3>2, FlowOf
  <2>7. DecryptedInTurn'
    <3>1. t.id \in ThroughDecrypted'
      BY <2>5 DEF ThroughDecrypted, ThroughApp
    <3>2. Behind(pipe.decrypted, ThroughDecrypted, Lasts, "handle") /\ ThroughDecrypted \subseteq ThroughDecrypted'
      BY <2>6 DEF EarnedInv, Flows
    <3>3. Behind(Tail(pipe.decrypted), ThroughDecrypted', Lasts, "handle")
      BY <1>1, <2>1, <3>1, <3>2, BehindTail
    <3> QED
      BY <2>2, <3>3 DEF DecryptedInTurn
  <2>8. AppInTurn'
    <3>1. Behind(pipe.app, ThroughApp', Lasts, "handle")
      BY <2>6, BehindMore DEF EarnedInv, Flows
    <3>2. t.task \notin Lasts
      BY <2>1 DEF Lasts
    <3>3. Behind(Append(pipe.app, t), ThroughApp', Lasts, "handle")
      BY <1>1, <2>1, <3>1, <3>2, BehindAppend
    <3> QED
      BY <2>2, <3>1, <3>3 DEF AppInTurn
  <2>9. /\ Delivered' \subseteq Delivered \cup ThroughIncoming' \cup Named(pipe'.incoming, "request")
        /\ Named(pipe.incoming, "request") \subseteq ThroughIncoming' \cup Named(pipe'.incoming, "request")
    BY <1>3, <2>2
  <2> QED
    BY <2>2, <2>6, <2>7, <2>8, <2>9, FlowKeeps
<1>5. CASE AppHandles \/ EmitEmpty
  <2> DEFINE t == Head(pipe.app)
  <2>1. /\ pipe.app # <<>> /\ pipe' = [pipe EXCEPT !.app = Tail(@)] /\ tried \subseteq tried'
        /\ t.task = "handle" => t.id \in tried'
    BY <1>5 DEF AppHandles, EmitEmpty, Turn
  <2>2. /\ pipe'.app = Tail(pipe.app)
        /\ UNCHANGED <<pipe.incoming, pipe.items, pipe.encrypted, pipe.decrypted, pipe.emptying>>
    BY <1>1, <2>1
  <2>3. Listed' = Listed
    BY <2>2 DEF Listed
  <2>4. Named(pipe.app, "handle") \subseteq tried' \cup Named(pipe'.app, "handle")
    <3>1. /\ t.task = "handle" => Named(pipe.app, "handle") = Named(Tail(pipe.app), "handle") \cup {t.id}
          /\ t.task # "handle" => Named(pipe.app, "handle") = Named(Tail(pipe.app), "handle")
      BY <1>1, <2>1, NamedTail
    <3> QED
      BY <2>1, <2>2, <3>1
  <2>5. Flows
    <3>1. {x.id : x \in Listed \cup Taken} \subseteq ThroughIncoming'
      BY <1>3, <2>3 DEF ThroughIncoming
    <3> QED
      BY <2>1, <2>2, <2>4, <3>1, FlowOf
  <2>6. AppInTurn'
    <3>1. Behind(pipe.app, ThroughApp, Lasts, "handle") /\ ThroughApp \subseteq ThroughApp'
      BY <2>5 DEF EarnedInv, Flows
    <3>2. t.task = "handle" => t.id \in ThroughApp'
      BY <2>1 DEF ThroughApp
    <3>3. Behind(Tail(pipe.app), ThroughApp', Lasts, "handle")
      BY <1>1, <2>1, <3>1, <3>2, BehindTail
    <3> QED
      BY <2>2, <3>3 DEF AppInTurn
  <2>7. /\ Delivered' \subseteq Delivered \cup ThroughIncoming' \cup Named(pipe'.incoming, "request")
        /\ Named(pipe.incoming, "request") \subseteq ThroughIncoming' \cup Named(pipe'.incoming, "request")
    BY <1>3, <2>2
  <2> QED
    BY <2>2, <2>5, <2>6, <2>7, FlowKeeps
<1> QED
  BY <1>4, <1>5

\* A new process has nothing in its queues.
LEMMA NothingToEarn ==
  ASSUME pipe = NoTasks, Delivered \subseteq tried
  PROVE  EarnedInv
<1>1. ToSet(<<>>) = {}
  BY HoldsNothing
<1> QED
  BY <1>1, BehindNothing
     DEF EarnedInv, NoTasks, ThroughIncoming, ThroughBatcher, ThroughEncrypted, ThroughDecrypted, ThroughApp

\* "empty" (emitEmpty, behind onEmpty and its drains) reaches the app behind
\* everything that the server had sent before it.
THEOREM EmptyComesLast == Spec => []EmptyIsEarned
<1>1. KeptInv /\ Init => EarnedInv
  <2> SUFFICES ASSUME KeptInv, Init PROVE EarnedInv
    OBVIOUS
  <2>1. Delivered = {}
    <3> SUFFICES ASSUME NEW id \in Ids PROVE ~(id[2] <= deliveries[id[1]])
      BY DEF Delivered
    <3>1. id[1] \in Messages /\ id[2] \in 1..MaxDeliveries
      BY DEF Ids
    <3>2. deliveries[id[1]] = 0
      BY <3>1 DEF Init
    <3>3. MaxDeliveries \in Nat
      BY EnvelopeAssumption DEF EnvelopeAssumption
    <3> QED
      BY <3>1, <3>2, <3>3
  <2> QED
    BY <2>1, NothingToEarn DEF Init, ProcessInit
<1>2. KeptInv /\ EarnedInv /\ [Next]_vars => EarnedInv'
  <2> SUFFICES ASSUME KeptInv, EarnedInv, [Next]_vars PROVE EarnedInv'
    OBVIOUS
  <2>1. CASE UNCHANGED vars \/ (\E id \in errors : ErrorHandled(id)) \/ RemoveBatch \/ StopProcessing
    <3>1. UNCHANGED <<pipe, batch, tried, deliveries>>
      BY <2>1 DEF vars, server, ErrorHandled, RemoveBatch, StopProcessing
    <3> QED
      BY <3>1, StillEarned DEF Taken
  <2>2. CASE Restart
    <3>1. pipe' = NoTasks /\ tried' = Delivered /\ Delivered' = Delivered
      BY <2>2 DEF Restart, Delivered
    <3>2. NoTasks' = NoTasks
      BY DEF NoTasks
    <3>3. ToSet(<<>>) = {}
      BY HoldsNothing
    <3> QED
      BY <3>1, <3>3, BehindNothing
         DEF EarnedInv, NoTasks, ThroughIncoming, ThroughBatcher, ThroughEncrypted, ThroughDecrypted, ThroughApp
  <2>3. CASE HandOver
    BY <2>3, HandOverEarned
  <2>4. CASE ReadIds
    BY <2>4, ReadIdsEarned
  <2>5. CASE FetchRows \/ StartBatch \/ Decrypt
    BY <2>5, EncryptedEarned
  <2>6. CASE Commit \/ Acknowledge \/ BatchFails
    BY <2>6, BatchOver
  <2>7. CASE HandleDecrypted \/ AppHandles \/ EmitEmpty
    BY <2>7, HandledEarned
  <2>8. CASE \/ ServerEmpty \/ RetryTimerFires \/ AppReady \/ Online
             \/ (\E before \in pipe.emptying : WaitForBatcher(before)) \/ \E m \in Messages : Deliver(m)
    BY <2>8, IncomingEarned
  <2> QED
    BY <2>1, <2>2, <2>3, <2>4, <2>5, <2>6, <2>7, <2>8
       DEF Next, ServerStep, ReadStep, BatchStep, AppStep, OtherStep
<1>3. KeptInv /\ EarnedInv => EmptyIsEarned
  <2> SUFFICES ASSUME KeptInv, EarnedInv, pipe.app # <<>>, Head(pipe.app).task = "drain"
               PROVE  Head(pipe.app).before \subseteq tried
    BY DEF EmptyIsEarned
  <2>1. pipe.app \in Seq(Task)
    BY PipeShape DEF KeptInv
  <2>2. Behind(pipe.app, tried, Lasts, "handle")
    BY DEF EarnedInv, ThroughApp
  <2>3. Head(pipe.app).task \in Lasts /\ Head(pipe.app).task # "handle"
    BY DEF Lasts
  <2> QED
    BY <2>1, <2>2, <2>3, BehindTail
<1> QED
  BY <1>1, <1>2, <1>3, KeptInvariant, PTL DEF Spec

-----------------------------------------------------------------------------
(***************************************************************************)
(* A row that nobody holds is read again.                                  *)
(***************************************************************************)
\* "empty" is on its way; the last envelope of a batch is; a batch is stored and
\* has not been answered.
Announced == pipe.emptying # {} \/ \E t \in Tasks : t.task \in Lasts
LastToCome == \E t \in ToSet(pipe.decrypted) : t.task = "handle" /\ t.last
Unanswered(id) == batch.at = "committed" /\ id \in BatchIds

\* Until "empty" is out, the server has still to say it or it is on its way.
EmptyAnnounced ==
  /\ phase = "starting" => ~emptySent
  /\ stopping => phase = "stopped"
  /\ isEmptied \/ ~emptySent \/ Announced

\* Once it is out, a new row is in the hands of a batch or read again.
NewRowsWatched ==
  \A id \in Ids :
    unprocessed[id] # None /\ unprocessed[id].attempts = 0 /\ isEmptied => Unanswered(id) \/ ReadToCome(id)

WatchInv == EmptyAnnounced /\ NewRowsWatched

\* What a step leaves in the queues: all that has been read or says "empty",
\* and all that waits on decryptedQueue.
Stays ==
  /\ pipe.emptying \subseteq pipe'.emptying
  /\ \A t \in Tasks : t.task \in Lasts \cup {"read"} => t \in Tasks'
  /\ \A t \in ToSet(pipe.decrypted) : t.task = "handle" => t \in ToSet(pipe'.decrypted)

\* ... and what follows for the two ways in which a row is read again.
StaysToCome ==
  /\ Announced => Announced'
  /\ ReadCache \in Tasks => ReadCache \in Tasks'
  /\ LastToCome => LastToCome'

\* What stays in the queues is still to come.
LEMMA StaysIsToCome ==
  ASSUME Stays
  PROVE  StaysToCome
<1>1. ReadCache.task = "read" /\ ReadCache' = ReadCache
  BY DEF ReadCache
<1> QED
  BY <1>1 DEF Stays, StaysToCome, Announced, LastToCome

\* A task that is handed over is behind the next queue.
LEMMA HandOverStays ==
  ASSUME KeptInv, HandOver
  PROVE  StaysToCome
<1>1. /\ pipe.incoming \in Seq(Task) /\ pipe.encrypted \in Seq(Task)
      /\ pipe.decrypted \in Seq(Task) /\ pipe.app \in Seq(Task)
      /\ pipe = [incoming |-> pipe.incoming, items |-> pipe.items, encrypted |-> pipe.encrypted,
                 decrypted |-> pipe.decrypted, app |-> pipe.app, emptying |-> pipe.emptying]
  BY PipeShape DEF KeptInv
<1>2. CASE TakeRequest
  <2>1. /\ pipe.incoming # <<>> /\ Head(pipe.incoming).task = "request" /\ pipe'.incoming = Tail(pipe.incoming)
        /\ UNCHANGED <<pipe.encrypted, pipe.decrypted, pipe.app, pipe.emptying>>
    BY <1>1, <1>2 DEF TakeRequest, IncomingDue, Turn
  <2>2. ToSet(pipe.incoming) = ToSet(Tail(pipe.incoming)) \cup {Head(pipe.incoming)}
    BY <1>1, <2>1, HoldsTail
  <2> QED
    BY <2>1, <2>2, StaysIsToCome DEF Stays, Tasks, Lasts
<1>3. CASE /\ IncomingDue("empty")
           /\ pipe' = [pipe EXCEPT !.incoming = Tail(@), !.emptying = @ \cup {Head(pipe.incoming).before}]
  <2>1. /\ pipe.incoming # <<>> /\ Head(pipe.incoming).task = "empty" /\ pipe'.incoming = Tail(pipe.incoming)
        /\ pipe'.emptying # {}
        /\ UNCHANGED <<pipe.encrypted, pipe.decrypted, pipe.app>>
    BY <1>1, <1>3 DEF IncomingDue, Turn
  <2>2. ToSet(pipe.incoming) = ToSet(Tail(pipe.incoming)) \cup {Head(pipe.incoming)}
    BY <1>1, <2>1, HoldsTail
  <2>3. ReadCache.task = "read" /\ ReadCache' = ReadCache
    BY DEF ReadCache
  <2> QED
    BY <2>1, <2>2, <2>3 DEF StaysToCome, Announced, LastToCome, Tasks
<1>4. CASE /\ IncomingDue("drain")
           /\ pipe' = [pipe EXCEPT !.incoming = Tail(@), !.encrypted = Append(@, Head(pipe.incoming))]
  <2>1. /\ pipe.incoming # <<>> /\ pipe'.incoming = Tail(pipe.incoming)
        /\ pipe'.encrypted = Append(pipe.encrypted, Head(pipe.incoming))
        /\ UNCHANGED <<pipe.emptying, pipe.decrypted, pipe.app>>
    BY <1>1, <1>4 DEF IncomingDue, Turn
  <2>2. /\ ToSet(pipe.incoming) = ToSet(Tail(pipe.incoming)) \cup {Head(pipe.incoming)}
        /\ Head(pipe.incoming) \in Task
    BY <1>1, <2>1, HoldsTail
  <2>3. ToSet(Append(pipe.encrypted, Head(pipe.incoming))) = ToSet(pipe.encrypted) \cup {Head(pipe.incoming)}
    BY <1>1, <2>2, HoldsAppend
  <2> QED
    BY <2>1, <2>2, <2>3, StaysIsToCome DEF Stays, Tasks
<1>5. CASE /\ EncryptedDue
           /\ pipe' = [pipe EXCEPT !.encrypted = Tail(@), !.decrypted = Append(@, Head(pipe.encrypted))]
  <2>1. /\ pipe.encrypted # <<>> /\ pipe'.encrypted = Tail(pipe.encrypted)
        /\ pipe'.decrypted = Append(pipe.decrypted, Head(pipe.encrypted))
        /\ UNCHANGED <<pipe.incoming, pipe.emptying, pipe.app>>
    BY <1>1, <1>5 DEF EncryptedDue, Turn
  <2>2. /\ ToSet(pipe.encrypted) = ToSet(Tail(pipe.encrypted)) \cup {Head(pipe.encrypted)}
        /\ Head(pipe.encrypted) \in Task
    BY <1>1, <2>1, HoldsTail
  <2>3. ToSet(Append(pipe.decrypted, Head(pipe.encrypted))) = ToSet(pipe.decrypted) \cup {Head(pipe.encrypted)}
    BY <1>1, <2>2, HoldsAppend
  <2> QED
    BY <2>1, <2>2, <2>3, StaysIsToCome DEF Stays, Tasks
<1>6. CASE /\ DecryptedDue
           /\ pipe' = [pipe EXCEPT !.decrypted = Tail(@), !.app = Append(@, Head(pipe.decrypted))]
  <2>1. /\ pipe.decrypted # <<>> /\ Head(pipe.decrypted).task = "drain" /\ pipe'.decrypted = Tail(pipe.decrypted)
        /\ pipe'.app = Append(pipe.app, Head(pipe.decrypted))
        /\ UNCHANGED <<pipe.incoming, pipe.emptying, pipe.encrypted>>
    BY <1>1, <1>6 DEF DecryptedDue, Turn
  <2>2. /\ ToSet(pipe.decrypted) = ToSet(Tail(pipe.decrypted)) \cup {Head(pipe.decrypted)}
        /\ Head(pipe.decrypted) \in Task
    BY <1>1, <2>1, HoldsTail
  <2>3. ToSet(Append(pipe.app, Head(pipe.decrypted))) = ToSet(pipe.app) \cup {Head(pipe.decrypted)}
    BY <1>1, <2>2, HoldsAppend
  <2> QED
    BY <2>1, <2>2, <2>3, StaysIsToCome DEF Stays, Tasks
<1> QED
  BY <1>2, <1>3, <1>4, <1>5, <1>6 DEF HandOver

\* A task that joins incomingQueue takes nothing away; onEmpty goes on with its
\* drain.
LEMMA EnqueuedStays ==
  ASSUME KeptInv,
         \/ ServerEmpty \/ RetryTimerFires \/ AppReady \/ Online
         \/ (\E before \in pipe.emptying : WaitForBatcher(before)) \/ \E m \in Messages : Deliver(m)
  PROVE  /\ StaysToCome
         /\ RetryTimerFires => ReadCache \in Tasks'
         /\ ServerEmpty => Announced'
<1>1. /\ pipe.incoming \in Seq(Task) /\ pipe.emptying \in SUBSET SUBSET Ids
      /\ pipe = [incoming |-> pipe.incoming, items |-> pipe.items, encrypted |-> pipe.encrypted,
                 decrypted |-> pipe.decrypted, app |-> pipe.app, emptying |-> pipe.emptying]
  BY PipeShape DEF KeptInv, HandsTyped
<1>2. ASSUME NEW e \in Task, pipe'.incoming = Append(pipe.incoming, e),
             UNCHANGED <<pipe.encrypted, pipe.decrypted, pipe.app>>
      PROVE  Tasks \subseteq Tasks' /\ e \in Tasks'
  BY <1>1, <1>2, HoldsAppend DEF Tasks
<1>3. ASSUME NEW e \in Task, Enqueue(e)
      PROVE  StaysToCome /\ e \in Tasks'
  <2>1. /\ pipe'.incoming = Append(pipe.incoming, e)
        /\ UNCHANGED <<pipe.encrypted, pipe.decrypted, pipe.app, pipe.emptying>>
    BY <1>1, <1>3 DEF Enqueue
  <2> QED
    BY <1>2, <2>1, StaysIsToCome DEF Stays
<1>4. CASE ServerEmpty
  <2>1. Delivered \in SUBSET Ids
    BY DEF Delivered
  <2>2. Empty(Delivered) \in Task /\ Empty(Delivered).task = "empty" /\ Enqueue(Empty(Delivered))
    BY <1>4, <2>1, NewTasks DEF ServerEmpty, Empty
  <2>3. StaysToCome /\ Announced'
    BY <1>3, <2>2 DEF Announced, Lasts
  <2>4. ReadCache \in Task
    BY NewTasks
  <2>5. RetryTimerFires => Enqueue(ReadCache)
    BY DEF RetryTimerFires
  <2> QED
    BY <1>3, <2>3, <2>4, <2>5
<1>5. CASE RetryTimerFires
  BY <1>3, <1>4, <1>5, NewTasks DEF RetryTimerFires
<1>6. CASE AppReady \/ Online
  <2>1. UNCHANGED pipe \/ Enqueue(ReadCache)
    BY <1>6 DEF AppReady, Online, Reset
  <2>2. UNCHANGED pipe => StaysToCome
    BY StaysIsToCome DEF Stays, Tasks
  <2> QED
    BY <1>3, <1>4, <1>5, <2>1, <2>2, NewTasks
<1>7. ASSUME NEW before \in pipe.emptying, WaitForBatcher(before)
      PROVE  StaysToCome
  <2>1. Drain(before) \in Task /\ Drain(before).task = "drain"
    BY <1>1, NewTasks
  <2>2. /\ pipe'.incoming = Append(pipe.incoming, Drain(before))
        /\ UNCHANGED <<pipe.encrypted, pipe.decrypted, pipe.app>>
    BY <1>1, <1>7 DEF WaitForBatcher
  <2>3. Tasks \subseteq Tasks' /\ Drain(before) \in Tasks'
    BY <1>2, <2>1, <2>2
  <2>4. ReadCache' = ReadCache
    BY DEF ReadCache
  <2> QED
    BY <2>1, <2>2, <2>3, <2>4 DEF StaysToCome, Announced, LastToCome, Lasts
<1>8. ASSUME NEW m \in Messages, Deliver(m)
      PROVE  StaysToCome
  <2> DEFINE n == deliveries[m] + 1
  <2>1. deliveries \in [Messages -> 0..MaxDeliveries] /\ MaxDeliveries \in Nat
    BY IdParts DEF KeptInv, HandsTyped
  <2>2. n \in 1..MaxDeliveries /\ Enqueue(Request(<<m, n>>))
    BY <1>8, <2>1 DEF Deliver
  <2>3. Request(<<m, n>>) \in Task
    BY <2>2, IdParts DEF Request, Task
  <2> QED
    BY <1>3, <2>2, <2>3
<1> QED
  BY <1>4, <1>5, <1>6, <1>7, <1>8

\* The steps that take from encryptedQueue or put on it, or on decryptedQueue.
LEMMA BatchStays ==
  ASSUME KeptInv, FetchRows \/ StartBatch \/ Decrypt \/ Acknowledge
  PROVE  StaysToCome
<1>1. /\ pipe.encrypted \in Seq(Task) /\ pipe.decrypted \in Seq(Task)
  BY PipeShape DEF KeptInv
<1>2. CASE FetchRows \/ StartBatch \/ Decrypt
  <2>1. UNCHANGED <<pipe.incoming, pipe.decrypted, pipe.app, pipe.emptying>>
    BY <1>2, EncryptedMoves
  <2>2. \A t \in ToSet(pipe.encrypted) : t.task # "decrypt" => t \in ToSet(pipe'.encrypted)
    <3>1. CASE \E t \in Seq(Task) : pipe'.encrypted = pipe.encrypted \o t
      BY <1>1, <3>1, HoldsBoth
    <3>2. CASE /\ pipe.encrypted # <<>> /\ Head(pipe.encrypted).task = "decrypt"
               /\ pipe'.encrypted = Tail(pipe.encrypted)
      BY <1>1, <3>2, HoldsTail
    <3> QED
      BY <1>2, <3>1, <3>2, EncryptedMoves
  <2> QED
    BY <2>1, <2>2, StaysIsToCome DEF Stays, Tasks, Lasts
<1>3. CASE Acknowledge
  <2>1. PICK new \in Seq(Task) : GoOn(new)
    BY <1>3, AcknowledgedGoOn
  <2>2. ToSet(pipe'.decrypted) = ToSet(pipe.decrypted) \cup ToSet(new)
    BY <1>1, <2>1, HoldsBoth DEF GoOn
  <2> QED
    BY <2>1, <2>2, StaysIsToCome DEF Stays, Tasks, GoOn
<1> QED
  BY <1>2, <1>3

\* A queue gives up its first task.
LEMMA TakenStays ==
  ASSUME KeptInv
  PROVE  /\ AppHandles => StaysToCome
         /\ ReadIds => (Announced => Announced') /\ (LastToCome => LastToCome')
         /\ HandleDecrypted => /\ Announced => Announced'
                               /\ ReadCache \in Tasks => ReadCache \in Tasks'
                               /\ LastToCome => LastToCome' \/ Head(pipe.decrypted).last
<1>1. /\ pipe.incoming \in Seq(Task) /\ pipe.decrypted \in Seq(Task) /\ pipe.app \in Seq(Task)
      /\ pipe = [incoming |-> pipe.incoming, items |-> pipe.items, encrypted |-> pipe.encrypted,
                 decrypted |-> pipe.decrypted, app |-> pipe.app, emptying |-> pipe.emptying]
  BY PipeShape DEF KeptInv
<1>2. ASSUME ReadIds
      PROVE  (Announced => Announced') /\ (LastToCome => LastToCome')
  <2>1. /\ pipe.incoming # <<>> /\ Head(pipe.incoming).task = "read" /\ pipe'.incoming = Tail(pipe.incoming)
        /\ UNCHANGED <<pipe.encrypted, pipe.decrypted, pipe.app, pipe.emptying>>
    BY <1>1, <1>2 DEF ReadIds, IncomingDue, Turn
  <2>2. ToSet(pipe.incoming) = ToSet(pipe'.incoming) \cup {Head(pipe.incoming)}
    BY <1>1, <2>1, HoldsTail
  <2> QED
    BY <2>1, <2>2 DEF Announced, LastToCome, Tasks, Lasts
<1>3. ASSUME HandleDecrypted
      PROVE  /\ Announced => Announced'
             /\ ReadCache \in Tasks => ReadCache \in Tasks'
             /\ LastToCome => LastToCome' \/ Head(pipe.decrypted).last
  <2> DEFINE t == Head(pipe.decrypted)
  <2>1. /\ pipe.decrypted # <<>> /\ t.task = "handle" /\ pipe'.decrypted = Tail(pipe.decrypted)
        /\ pipe'.app = pipe.app \/ pipe'.app = Append(pipe.app, t)
        /\ UNCHANGED <<pipe.incoming, pipe.encrypted, pipe.emptying>>
    BY <1>1, <1>3 DEF HandleDecrypted, Turn
  <2>2. ToSet(pipe.decrypted) = ToSet(pipe'.decrypted) \cup {t} /\ t \in Task
    BY <1>1, <2>1, HoldsTail
  <2>3. ToSet(pipe.app) \subseteq ToSet(pipe'.app)
    <3>1. ToSet(Append(pipe.app, t)) = ToSet(pipe.app) \cup {t}
      BY <1>1, <2>2, HoldsAppend
    <3> QED
      BY <2>1, <3>1
  <2>4. \A u \in Tasks : u.task \in Lasts \cup {"read"} => u \in Tasks'
    BY <2>1, <2>2, <2>3 DEF Tasks, Lasts
  <2>5. ReadCache.task = "read" /\ ReadCache' = ReadCache
    BY DEF ReadCache
  <2>6. (ReadCache \in Tasks => ReadCache \in Tasks') /\ (Announced => Announced')
    BY <2>1, <2>4, <2>5 DEF Announced
  <2>7. LastToCome => LastToCome' \/ t.last
    BY <2>2 DEF LastToCome
  <2> QED
    BY <2>6, <2>7
<1>4. ASSUME AppHandles
      PROVE  StaysToCome
  <2>1. /\ pipe.app # <<>> /\ Head(pipe.app).task = "handle" /\ pipe'.app = Tail(pipe.app)
        /\ UNCHANGED <<pipe.incoming, pipe.encrypted, pipe.decrypted, pipe.emptying>>
    BY <1>1, <1>4 DEF AppHandles, Turn
  <2>2. ToSet(pipe.app) = ToSet(pipe'.app) \cup {Head(pipe.app)}
    BY <1>1, <2>1, HoldsTail
  <2> QED
    BY <2>1, <2>2, StaysIsToCome DEF Stays, Tasks, Lasts
<1> QED
  BY <1>2, <1>3, <1>4

\* A step that leaves the rows, or takes some away, and cancels no reading.
RowsStay ==
  /\ isEmptied' => isEmptied
  /\ \A id \in Ids : unprocessed'[id] = unprocessed[id] \/ unprocessed'[id] = None
  /\ phase # "ready" => phase' # "ready"
  /\ reading' = reading
  /\ retryTimer => retryTimer' \/ ReadCache \in Tasks'
  /\ batch.at = "committed" => batch' = batch

\* Such a step leaves every new row watched.
LEMMA RowsStayWatched ==
  ASSUME NewRowsWatched, RowsStay, ReadCache \in Tasks => ReadCache \in Tasks', LastToCome => LastToCome'
  PROVE  NewRowsWatched'
<1> SUFFICES ASSUME NEW id \in Ids, unprocessed'[id] # None, unprocessed'[id].attempts = 0, isEmptied'
             PROVE  Unanswered(id)' \/ ReadToCome(id)'
  BY DEF NewRowsWatched
<1>1. Unanswered(id) \/ ReadToCome(id)
  BY DEF NewRowsWatched, RowsStay
<1>2. Unanswered(id) => Unanswered(id)'
  BY DEF RowsStay, Unanswered, BatchIds
<1>3. ReadToCome(id) => ReadToCome(id)'
  <2>1. ReadCache' = ReadCache
    BY DEF ReadCache
  <2> QED
    BY <2>1 DEF ReadToCome, RowsStay, LastToCome
<1> QED
  BY <1>1, <1>2, <1>3

\* The steps that store rows, read them or take a last task.
LEMMA RowStepsWatched ==
  ASSUME KeptInv, WatchInv,
         Commit \/ Acknowledge \/ ReadIds \/ FetchRows \/ HandleDecrypted \/ EmitEmpty
  PROVE  NewRowsWatched'
<1> SUFFICES ASSUME NEW id \in Ids, unprocessed'[id] # None, unprocessed'[id].attempts = 0, isEmptied'
             PROVE  Unanswered(id)' \/ ReadToCome(id)'
  BY DEF NewRowsWatched
<1>1. ReadCache' = ReadCache
  BY DEF ReadCache
<1>2. ASSUME unprocessed[id] # None, unprocessed[id].attempts = 0, isEmptied
      PROVE  Unanswered(id) \/ ReadToCome(id)
  BY <1>2 DEF WatchInv, NewRowsWatched
<1>3. CASE Commit
  <2>1. batch.at = "decrypting" /\ batch' = [batch EXCEPT !.at = "committed"] /\ unprocessed' = Stored
        /\ UNCHANGED <<flags, reading, pipe>>
    BY <1>3 DEF Commit
  <2>2. batch'.at = "committed" /\ BatchIds' = BatchIds
    BY <2>1 DEF KeptInv, HandsTyped, BatchIds
  <2>3. CASE id \in {x.id : x \in Plain \cup Failed}
    <3>1. id \in BatchIds
      BY <2>3 DEF KeptInv, BatchParts, BatchIds, Taken
    <3> QED
      BY <2>2, <3>1 DEF Unanswered
  <2>4. CASE id \notin {x.id : x \in Plain \cup Failed}
    <3>1. unprocessed'[id] = unprocessed[id]
      BY <2>1, <2>4 DEF Stored, Plain, Failed
    <3>2. ReadToCome(id)
      BY <1>2, <2>1, <3>1 DEF Unanswered, flags
    <3>3. Tasks' = Tasks
      BY <2>1 DEF Tasks
    <3> QED
      BY <1>1, <2>1, <3>2, <3>3 DEF ReadToCome, flags
  <2> QED
    BY <2>3, <2>4
<1>4. CASE Acknowledge
  <2>1. /\ retryTimer' = (retryTimer \/ (batch.plain = <<>> /\ isEmptied))
        /\ UNCHANGED <<unprocessed, phase, isEmptied, reading>>
    BY <1>4 DEF Acknowledge, disk
  <2>2. CASE Unanswered(id)
    <3>1. PICK new \in Seq(Task) : GoOn(new)
      BY <1>4, AcknowledgedGoOn
    <3>2. ToSet(pipe'.decrypted) = ToSet(pipe.decrypted) \cup ToSet(new)
      BY <3>1, PipeShape, HoldsBoth DEF GoOn, KeptInv
    <3>3. CASE batch.plain = <<>>
      BY <2>1, <3>3 DEF ReadToCome
    <3>4. CASE batch.plain # <<>>
      <4>1. PICK t \in ToSet(new) : t.task = "handle" /\ t.last
        BY <3>1, <3>4 DEF GoOn
      <4> QED
        BY <3>2, <4>1 DEF ReadToCome
    <3> QED
      BY <3>3, <3>4
  <2>3. CASE ReadToCome(id)
    <3>1. StaysToCome
      BY <1>4, BatchStays
    <3> QED
      BY <1>1, <2>1, <2>3, <3>1 DEF StaysToCome, LastToCome, ReadToCome
  <2> QED
    BY <1>2, <2>1, <2>2, <2>3
<1>5. CASE ReadIds
  <2>1. CASE stopping
    <3>1. phase' # "ready"
      BY <1>5, <2>1 DEF ReadIds, flags, WatchInv, EmptyAnnounced
    <3> QED
      BY <3>1 DEF ReadToCome
  <2>2. CASE ~stopping
    <3>1. reading' = {i \in Ids : unprocessed'[i] # None}
      BY <1>5, <2>2 DEF ReadIds
    <3>2. reading' # None
      BY <3>1, EnvelopeAssumption DEF EnvelopeAssumption
    <3> QED
      BY <3>1, <3>2 DEF ReadToCome
  <2> QED
    BY <2>1, <2>2
<1>6. CASE FetchRows
  <2>1. /\ UNCHANGED <<flags, batch>> /\ reading # None
        /\ unprocessed' = [i \in Ids |-> IF i \in {j \in reading : unprocessed[j] # None}
                                         THEN [unprocessed[i] EXCEPT !.attempts = @ + 1] ELSE unprocessed[i]]
    BY <1>6 DEF FetchRows
  <2>2. unprocessed[id] \in ARow \cup {None}
    BY DEF KeptInv, HandsTyped
  <2>3. ~(id \in reading /\ unprocessed[id] # None)
    <3> SUFFICES ASSUME id \in reading, unprocessed[id] # None PROVE FALSE
      OBVIOUS
    <3>1. unprocessed'[id] = [unprocessed[id] EXCEPT !.attempts = @ + 1]
      BY <2>1
    <3>2. unprocessed'[id].attempts = unprocessed[id].attempts + 1 /\ unprocessed[id].attempts \in Nat
      BY <2>2, <3>1 DEF ARow
    <3> QED
      BY <3>2
  <2>4. unprocessed'[id] = unprocessed[id] /\ unprocessed[id] # None
    BY <2>1, <2>3
  <2>5. id \notin reading
    BY <2>3, <2>4
  <2>6. StaysToCome
    BY <1>6, BatchStays
  <2>7. Unanswered(id) \/ ReadToCome(id)
    BY <1>2, <2>1, <2>4 DEF flags
  <2> QED
    BY <1>1, <2>1, <2>5, <2>6, <2>7 DEF StaysToCome, LastToCome, ReadToCome, Unanswered, BatchIds, flags
<1>7. CASE HandleDecrypted
  <2>1. /\ UNCHANGED <<unprocessed, phase, isEmptied, reading, batch>>
        /\ retryTimer' = (retryTimer \/ (Head(pipe.decrypted).last /\ isEmptied))
    BY <1>7 DEF HandleDecrypted, disk
  <2>2. Unanswered(id) \/ ReadToCome(id)
    BY <1>2, <2>1
  <2>3. /\ LastToCome => LastToCome' \/ Head(pipe.decrypted).last
        /\ ReadCache \in Tasks => ReadCache \in Tasks'
    BY <1>7, TakenStays
  <2> QED
    BY <1>1, <2>1, <2>2, <2>3 DEF LastToCome, ReadToCome, Unanswered, BatchIds
<1>8. CASE EmitEmpty
  <2>1. retryTimer'
    BY <1>8 DEF EmitEmpty
  <2> QED
    BY <2>1 DEF ReadToCome
<1> QED
  BY <1>3, <1>4, <1>5, <1>6, <1>7, <1>8

\* A row that neither a task nor a batch holds is going to be read again, as
\* RowIsWatched states it: the retry timer of MessageReceiver, or what will set it.
THEOREM RowsAreWatched == Spec => []RowIsWatched
<1>1. Init => WatchInv
  <2>1. Init => NewRowsWatched
    BY DEF Init, ProcessInit, NewRowsWatched
  <2> QED
    BY <2>1 DEF Init, ProcessInit, WatchInv, EmptyAnnounced
<1>2. KeptInv /\ WatchInv /\ [Next]_vars => WatchInv'
  <2> SUFFICES ASSUME KeptInv, WatchInv, [Next]_vars PROVE WatchInv'
    OBVIOUS
  <2>1. CASE Restart
    BY <2>1 DEF Restart, WatchInv, EmptyAnnounced, NewRowsWatched
  <2>2. CASE EmitEmpty
    <3>1. NewRowsWatched'
      BY <2>2, RowStepsWatched
    <3>2. UNCHANGED <<phase, stopping, emptySent>> /\ isEmptied' = TRUE
      BY <2>2 DEF EmitEmpty, server
    <3> QED
      BY <3>1, <3>2 DEF WatchInv, EmptyAnnounced
  <2>3. CASE \/ ServerEmpty \/ RetryTimerFires \/ AppReady \/ Online
             \/ (\E before \in pipe.emptying : WaitForBatcher(before)) \/ \E m \in Messages : Deliver(m)
    <3>1. StaysToCome /\ (RetryTimerFires => ReadCache \in Tasks') /\ (ServerEmpty => Announced')
      BY <2>3, EnqueuedStays
    <3>2. EmptyAnnounced'
      <4>1. CASE ServerEmpty
        BY <3>1, <4>1 DEF ServerEmpty, flags, StaysToCome, WatchInv, EmptyAnnounced
      <4>2. CASE AppReady \/ Online
        BY <3>1, <4>2 DEF AppReady, Online, Reset, server, StaysToCome, WatchInv, EmptyAnnounced
      <4>3. CASE \/ RetryTimerFires \/ (\E before \in pipe.emptying : WaitForBatcher(before))
                 \/ \E m \in Messages : Deliver(m)
        <5>1. UNCHANGED <<phase, stopping, isEmptied, emptySent>>
          BY <4>3 DEF RetryTimerFires, WaitForBatcher, Deliver, server, flags
        <5> QED
          BY <3>1, <5>1 DEF StaysToCome, WatchInv, EmptyAnnounced
      <4> QED
        BY <2>3, <4>1, <4>2, <4>3
    <3>3. NewRowsWatched'
      <4>1. CASE AppReady \/ Online
        BY <4>1 DEF AppReady, Online, Reset, NewRowsWatched
      <4>2. CASE \/ ServerEmpty \/ (\E before \in pipe.emptying : WaitForBatcher(before))
                 \/ \E m \in Messages : Deliver(m)
        <5>1. UNCHANGED <<unprocessed, phase, isEmptied, reading, retryTimer, batch>>
          BY <4>2 DEF ServerEmpty, WaitForBatcher, Deliver, disk, flags
        <5>2. RowsStay
          BY <5>1 DEF RowsStay
        <5> QED
          BY <3>1, <5>2, RowsStayWatched DEF StaysToCome, WatchInv
      <4>3. CASE RetryTimerFires
        <5>1. RowsStay
          BY <3>1, <4>3 DEF RetryTimerFires, disk, RowsStay
        <5> QED
          BY <3>1, <5>1, RowsStayWatched DEF StaysToCome, WatchInv
      <4> QED
        BY <2>3, <4>1, <4>2, <4>3
    <3> QED
      BY <3>2, <3>3 DEF WatchInv
  <2>4. CASE \/ HandOver \/ StartBatch \/ Decrypt \/ BatchFails \/ AppHandles
             \/ (\E id \in errors : ErrorHandled(id)) \/ RemoveBatch \/ StopProcessing \/ UNCHANGED vars
    <3>1. StaysToCome
      <4>1. CASE HandOver
        BY <4>1, HandOverStays
      <4>2. CASE StartBatch \/ Decrypt
        BY <4>2, BatchStays
      <4>3. CASE AppHandles
        BY <4>3, TakenStays
      <4>4. CASE \/ BatchFails \/ (\E id \in errors : ErrorHandled(id)) \/ RemoveBatch
                 \/ StopProcessing \/ UNCHANGED vars
        <5>1. pipe' = pipe
          BY <4>4 DEF BatchFails, ErrorHandled, RemoveBatch, StopProcessing, vars
        <5> QED
          BY <5>1, StaysIsToCome DEF Stays, Tasks
      <4> QED
        BY <2>4, <4>1, <4>2, <4>3, <4>4
    <3>2. /\ UNCHANGED <<isEmptied, retryTimer, reading, emptySent>>
          /\ UNCHANGED <<phase, stopping>> \/ (phase = "ready" /\ phase' = "stopped" /\ stopping')
          /\ \A id \in Ids : unprocessed'[id] = unprocessed[id] \/ unprocessed'[id] = None
          /\ batch.at = "committed" => batch' = batch
      <4>1. CASE HandOver \/ AppHandles \/ (\E id \in errors : ErrorHandled(id)) \/ StopProcessing \/ UNCHANGED vars
        BY <4>1 DEF HandOver, AppHandles, ErrorHandled, StopProcessing, vars, server, disk, flags
      <4>2. CASE StartBatch \/ BatchFails
        <5>1. UNCHANGED <<isEmptied, retryTimer, reading, emptySent, phase, stopping, unprocessed>>
          BY <4>2 DEF StartBatch, BatchFails, server, disk, flags
        <5>2. batch.at # "committed"
          <6>1. batch = NoBatch \/ batch.at = "decrypting"
            BY <4>2 DEF StartBatch, BatchFails
          <6> QED
            BY <6>1 DEF NoBatch
        <5> QED
          BY <5>1, <5>2
      <4>3. CASE RemoveBatch
        BY <4>3 DEF RemoveBatch, server, flags
      <4>4. CASE Decrypt
        <5>1. pipe.encrypted \in Seq(Task) /\ pipe.encrypted # <<>> /\ Head(pipe.encrypted).task = "decrypt"
          BY <4>4, PipeShape DEF KeptInv, Decrypt, Turn
        <5>2. Head(pipe.encrypted).item \in Due
          <6>1. Decryptions(pipe.encrypted) = Decryptions(Tail(pipe.encrypted)) \cup {Head(pipe.encrypted).item}
            BY <5>1, TailTasks
          <6> QED
            BY <6>1 DEF Due
        <5>3. batch.at # "committed"
          BY <5>2 DEF KeptInv, BatchParts
        <5> QED
          BY <4>4, <5>3 DEF Decrypt, server, disk, flags
      <4> QED
        BY <2>4, <4>1, <4>2, <4>3, <4>4
    <3>3. RowsStay
      BY <3>2 DEF RowsStay
    <3>4. EmptyAnnounced'
      BY <3>1, <3>2 DEF StaysToCome, WatchInv, EmptyAnnounced
    <3> QED
      BY <3>1, <3>3, <3>4, RowsStayWatched DEF StaysToCome, WatchInv
  <2>5. CASE Commit \/ Acknowledge \/ ReadIds \/ FetchRows \/ HandleDecrypted
    <3>1. Announced => Announced'
      <4>1. CASE Commit
        <5>1. pipe' = pipe
          BY <4>1 DEF Commit
        <5> QED
          BY <5>1 DEF Announced, Tasks
      <4>2. CASE Acknowledge \/ FetchRows
        BY <4>2, BatchStays DEF StaysToCome
      <4>3. CASE ReadIds \/ HandleDecrypted
        BY <4>3, TakenStays
      <4> QED
        BY <2>5, <4>1, <4>2, <4>3
    <3>2. UNCHANGED <<phase, stopping, isEmptied, emptySent>>
      BY <2>5 DEF Commit, Acknowledge, ReadIds, FetchRows, HandleDecrypted, flags, server
    <3>3. NewRowsWatched'
      BY <2>5, RowStepsWatched
    <3> QED
      BY <3>1, <3>2, <3>3 DEF WatchInv, EmptyAnnounced
  <2> QED
    BY <2>1, <2>2, <2>3, <2>4, <2>5 DEF Next, ServerStep, ReadStep, BatchStep, AppStep, OtherStep
<1>3. KeptInv /\ WatchInv => RowIsWatched
  <2> SUFFICES ASSUME KeptInv, WatchInv, NEW id \in Ids, unprocessed[id] # None,
                      unprocessed[id].attempts = 0 \/ ~isEmptied
               PROVE  InHand(id) \/ ReadToCome(id) \/ EmptyToCome
    BY DEF RowIsWatched
  <2>1. CASE ~isEmptied
    BY <2>1 DEF WatchInv, EmptyAnnounced, EmptyToCome, Announced, Lasts
  <2>2. CASE isEmptied /\ unprocessed[id].attempts = 0
    <3>1. Unanswered(id) => InBatcher(id)
      BY DEF Unanswered, BatchIds, InBatcher
    <3> QED
      BY <2>2, <3>1 DEF WatchInv, NewRowsWatched, InHand
  <2> QED
    BY <2>1, <2>2
<1> QED
  BY <1>1, <1>2, <1>3, KeptInvariant, PTL DEF Spec
=============================================================================
