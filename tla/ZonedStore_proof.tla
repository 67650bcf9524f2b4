-------------------------- MODULE ZonedStore_proof --------------------------
(***************************************************************************)
(* Proofs about ZonedStore, for any keys, failures and restarts: the       *)
(* mutual exclusion of the zones and type correctness for any calls, what  *)
(* becomes of the data for the calls of SendersAndBatches.                 *)
(***************************************************************************)
EXTENDS ZonedStore, TLAPS

-----------------------------------------------------------------------------
(* What entering and leaving a zone keeps: about the actions of ZoneLock   *)
(* alone.                                                                  *)

Waiting == {blocked[n] : n \in DOMAIN blocked}

\* No call is in a zone, and no call waits, at the start.
LEMMA ZoneInitial ==
  ASSUME ZoneInit
  PROVE  ZoneTypeOK /\ ZoneExclusion /\ inside = {} /\ Waiting = {}
BY DEF ZoneInit, ZoneTypeOK, ZoneExclusion, Waiting

\* Entering a zone keeps the zones apart, if the call is not there yet.
LEMMA EnterKeeps ==
  ASSUME ZoneTypeOK, ZoneExclusion,
         NEW c \in Calls, c \notin inside, c \notin Waiting,
         Enter(c)
  PROVE  /\ ZoneTypeOK' /\ ZoneExclusion'
         /\ inside' \subseteq inside \cup {c}
         /\ Waiting' \subseteq Waiting \cup {c}
<1> USE ZoneAssumption DEF ZoneTypeOK
<1>1. CASE zone \in {NoZone, ZoneOf[c]}
  <2>1. zone' = ZoneOf[c] /\ inside' = inside \cup {c} /\ blocked' = blocked
    BY <1>1 DEF Enter
  <2>2. ZoneTypeOK'
    BY <2>1
  <2>3. ZoneExclusion'
    BY <1>1, <2>1 DEF ZoneExclusion, Waiting
  <2> QED
    BY <2>1, <2>2, <2>3 DEF Waiting
<1>2. CASE zone \notin {NoZone, ZoneOf[c]}
  <2>1. blocked' = Append(blocked, c) /\ zone' = zone /\ inside' = inside
    BY <1>2 DEF Enter
  <2>2. ZoneTypeOK'
    BY <2>1
  <2>3. /\ DOMAIN blocked = 1..Len(blocked)
        /\ DOMAIN blocked' = 1..(Len(blocked) + 1)
        /\ \A n \in 1..Len(blocked) : blocked'[n] = blocked[n]
        /\ blocked'[Len(blocked) + 1] = c
    BY <2>1
  <2>4. Waiting' = Waiting \cup {c}
    BY <2>3 DEF Waiting
  <2>5. ZoneOf[Head(blocked')] # zone'
    <3>1. CASE blocked = <<>>
      BY <1>2, <2>1, <3>1
    <3>2. CASE blocked # <<>>
      BY <2>1, <3>2 DEF ZoneExclusion
    <3> QED
      BY <3>1, <3>2
  <2>6. \A m, n \in DOMAIN blocked' : blocked'[m] = blocked'[n] => m = n
    BY <2>3 DEF ZoneExclusion, Waiting
  <2>7. \A n \in DOMAIN blocked' : blocked'[n] \notin inside'
    BY <2>1, <2>3 DEF ZoneExclusion
  <2>8. /\ zone' = NoZone <=> inside' = {}
        /\ \A d \in inside' : ZoneOf[d] = zone'
        /\ zone' # NoZone
    BY <1>2, <2>1 DEF ZoneExclusion
  <2> QED
    BY <2>1, <2>2, <2>4, <2>5, <2>6, <2>7, <2>8 DEF ZoneExclusion
<1> QED
  BY <1>1, <1>2

\* Leaving a zone keeps the zones apart: the zone changes hands only when its
\* last call leaves, and then to calls of one zone.
LEMMA LeaveKeeps ==
  ASSUME ZoneTypeOK, ZoneExclusion,
         NEW c,
         Leave(c)
  PROVE  /\ ZoneTypeOK' /\ ZoneExclusion'
         /\ inside' \subseteq inside \cup Waiting
         /\ Waiting' \subseteq Waiting
<1> USE ZoneAssumption DEF ZoneTypeOK
<1>1. CASE inside # {c} \/ blocked = <<>>
  <2>1. /\ zone' = IF inside = {c} THEN NoZone ELSE zone
        /\ inside' = inside \ {c}
        /\ blocked' = blocked
    BY <1>1 DEF Leave
  <2>2. ZoneTypeOK'
    BY <2>1
  <2>3. ZoneExclusion'
    BY <1>1, <2>1 DEF ZoneExclusion
  <2> QED
    BY <2>1, <2>2, <2>3 DEF Waiting
<1>2. CASE ~(inside # {c} \/ blocked = <<>>)
  <2>1. PICK n \in 1..Len(blocked) :
          /\ zone' = ZoneOf[Head(blocked)]
          /\ Wakes(n)
          /\ inside' = {blocked[i] : i \in 1..n}
          /\ blocked' = SubSeq(blocked, n + 1, Len(blocked))
    BY <1>2 DEF Leave
  <2>2. /\ DOMAIN blocked = 1..Len(blocked)
        /\ Head(blocked) = blocked[1]
        /\ \A i \in 1..Len(blocked) : blocked[i] \in Calls
    BY <1>2
  <2>3. /\ blocked' \in Seq(Calls)
        /\ DOMAIN blocked' = 1..(Len(blocked) - n)
        /\ \A i \in 1..(Len(blocked) - n) : blocked'[i] = blocked[n + i]
    BY <2>1
  <2>4. ZoneTypeOK'
    BY <2>1, <2>2, <2>3
  <2>5. Waiting' \subseteq Waiting /\ inside' \subseteq Waiting
    BY <2>1, <2>2, <2>3 DEF Waiting
  <2>6. zone' # NoZone /\ inside' # {}
    BY <2>1, <2>2
  <2>7. \A d \in inside' : ZoneOf[d] = zone'
    BY <2>1, <2>2 DEF Wakes
  <2>8. ASSUME blocked' # <<>> PROVE ZoneOf[Head(blocked')] # zone'
    <3>1. n < Len(blocked)
      BY <2>1, <2>3, <2>8
    <3>2. Head(blocked') = blocked[n + 1]
      BY <2>3, <2>8, <3>1
    <3> QED
      BY <2>1, <2>2, <3>1, <3>2 DEF Wakes
  <2> DEFINE l == Len(blocked)
             bn == blocked'
  <2>9. /\ l \in Nat /\ n \in 1..l
        /\ \A i, j \in 1..l : blocked[i] = blocked[j] => i = j
        /\ DOMAIN bn = 1..(l - n)
        /\ \A i \in 1..(l - n) : bn[i] = blocked[n + i]
        /\ inside' = {blocked[i] : i \in 1..n}
    BY <2>1, <2>2, <2>3 DEF ZoneExclusion
  <2> HIDE DEF l, bn
  <2>10. \A i \in 1..(l - n) : n + i \in 1..l /\ n + i \notin 1..n
    BY <2>9
  <2>11. \A i, j \in DOMAIN bn : bn[i] = bn[j] => i = j
    <3> SUFFICES ASSUME NEW i \in 1..(l - n), NEW j \in 1..(l - n),
                        blocked[n + i] = blocked[n + j]
                 PROVE  i = j
      BY <2>9
    <3>1. n + i = n + j
      BY <2>9, <2>10
    <3> QED
      BY <2>9, <3>1
  <2>12. \A i \in DOMAIN bn : bn[i] \notin inside'
    <3>1. ASSUME NEW i \in 1..(l - n), NEW j \in 1..n
          PROVE  blocked[n + i] # blocked[j]
      <4>1. n + i \in 1..l /\ j \in 1..l /\ n + i # j
        BY <2>9, <2>10
      <4> QED
        BY <2>9, <4>1
    <3>2. ASSUME NEW i \in 1..(l - n) PROVE bn[i] \notin inside'
      <4>1. \A j \in 1..n : bn[i] # blocked[j]
        BY <2>9, <3>1
      <4> QED
        BY <2>9, <4>1, Zenon
    <3> QED
      BY <2>9, <3>2
  <2> QED
    BY <2>4, <2>5, <2>6, <2>7, <2>8, <2>11, <2>12 DEF ZoneExclusion, bn
<1> QED
  BY <1>1, <1>2

-----------------------------------------------------------------------------
(* The mutual exclusion of the zones, and type correctness.                *)

\* A call that has not been made is not in a zone and does not wait for one:
\* this is why entering never puts a call in twice.
IdleOutside ==
  \A c \in Calls : phase[c] = "idle" => c \notin inside /\ c \notin Waiting

ExclusionInv ==
  /\ ZoneTypeOK
  /\ ZoneExclusion
  /\ phase \in [Calls -> Phases]
  /\ IdleOutside

\* A step that leaves the zone alone and takes no call back to "idle".
LEMMA ZoneUntouched ==
  ASSUME ExclusionInv,
         UNCHANGED zoneVars,
         phase' \in [Calls -> Phases],
         \A c \in Calls : phase'[c] = "idle" => phase[c] = "idle"
  PROVE  ExclusionInv'
BY DEF ExclusionInv, zoneVars, ZoneTypeOK, ZoneExclusion, IdleOutside, Waiting

\* A step by which one call leaves.
LEMMA ZoneLeft ==
  ASSUME ExclusionInv,
         NEW c, Leave(c),
         phase' \in [Calls -> Phases],
         \A d \in Calls : phase'[d] = "idle" => phase[d] = "idle"
  PROVE  ExclusionInv'
<1>1. /\ ZoneTypeOK' /\ ZoneExclusion'
      /\ inside' \subseteq inside \cup Waiting
      /\ Waiting' \subseteq Waiting
  BY LeaveKeeps DEF ExclusionInv
<1> QED
  BY <1>1 DEF ExclusionInv, IdleOutside

\* What To does to the phases.
LEMMA PhaseMoves ==
  ASSUME phase \in [Calls -> Phases],
         NEW c, NEW p \in Phases \ {"idle"},
         To(c, p)
  PROVE  /\ phase' \in [Calls -> Phases]
         /\ \A d \in Calls : phase'[d] = "idle" => phase[d] = "idle"
BY DEF To

LEMMA ExclusionInitially == Init => ExclusionInv
BY ZoneInitial DEF Init, ExclusionInv, IdleOutside, Phases

LEMMA ExclusionStep == ExclusionInv /\ [Next]_vars => ExclusionInv'
<1> SUFFICES ASSUME ExclusionInv, [Next]_vars
             PROVE  ExclusionInv'
  OBVIOUS
<1>p. phase \in [Calls -> Phases]
  BY DEF ExclusionInv
<1>q. {"body", "queued", "using", "saving", "removing", "committing",
       "resolved", "rejected", "lost"} = Phases \ {"idle"}
  BY DEF Phases
<1>1. ASSUME NEW c \in Calls, Call(c) PROVE ExclusionInv'
  <2>1. phase[c] = "idle" /\ Enter(c) /\ phase' = [phase EXCEPT ![c] = "body"]
    BY <1>1 DEF Call, To
  <2>2. c \notin inside /\ c \notin Waiting
    BY <2>1 DEF ExclusionInv, IdleOutside
  <2>3. /\ ZoneTypeOK' /\ ZoneExclusion'
        /\ inside' \subseteq inside \cup {c}
        /\ Waiting' \subseteq Waiting \cup {c}
    BY <2>1, <2>2, EnterKeeps DEF ExclusionInv
  <2>4. phase' \in [Calls -> Phases] /\ phase'[c] # "idle"
    BY <1>p, <1>q, <2>1 DEF Phases
  <2>5. IdleOutside'
    BY <1>p, <2>1, <2>3, <2>4 DEF ExclusionInv, IdleOutside
  <2> QED
    BY <2>3, <2>4, <2>5 DEF ExclusionInv
<1>2. ASSUME NEW c \in Calls, Queue(c) PROVE ExclusionInv'
  BY <1>2, <1>p, <1>q, PhaseMoves, ZoneUntouched DEF Queue
<1>3. ASSUME NEW c \in Calls, Archive(c) PROVE ExclusionInv'
  <2>1. UNCHANGED zoneVars /\ (To(c, "body") \/ To(c, "queued"))
    BY <1>3 DEF Archive, Done
  <2> QED
    BY <2>1, <1>p, <1>q, PhaseMoves, ZoneUntouched
<1>4. ASSUME NEW c \in Calls, Start(c) PROVE ExclusionInv'
  BY <1>4, <1>p, <1>q, PhaseMoves, ZoneUntouched DEF Start
<1>5. ASSUME NEW c \in Calls, Store(c) PROVE ExclusionInv'
  <2>1. UNCHANGED zoneVars /\ (To(c, "saving") \/ To(c, "body"))
    BY <1>5 DEF Store, Save, Done
  <2> QED
    BY <2>1, <1>p, <1>q, PhaseMoves, ZoneUntouched
<1>6. ASSUME NEW c \in Calls, CipherFails(c) PROVE ExclusionInv'
  <2>1. \/ UNCHANGED zoneVars /\ To(c, "body")
        \/ Leave(c) /\ To(c, "rejected")
    BY <1>6 DEF CipherFails, Done, Reject
  <2> QED
    BY <2>1, <1>p, <1>q, PhaseMoves, ZoneUntouched, ZoneLeft
<1>7. ASSUME NEW c \in Calls, Add(c) PROVE ExclusionInv'
  <2>1. UNCHANGED zoneVars /\ (To(c, "saving") \/ To(c, "body"))
    BY <1>7 DEF Add, Save, Done
  <2> QED
    BY <2>1, <1>p, <1>q, PhaseMoves, ZoneUntouched
<1>8. ASSUME NEW c \in Calls, Remove(c) \/ Purge(c) PROVE ExclusionInv'
  <2>1. UNCHANGED zoneVars /\ To(c, "removing")
    BY <1>8 DEF Remove, Purge
  <2> QED
    BY <2>1, <1>p, <1>q, PhaseMoves, ZoneUntouched
<1>9. ASSUME NEW c \in Calls, BodyThrows(c) PROVE ExclusionInv'
  <2>1. Leave(c) /\ To(c, "rejected")
    BY <1>9 DEF BodyThrows, Reject
  <2> QED
    BY <2>1, <1>p, <1>q, PhaseMoves, ZoneLeft
<1>10. ASSUME NEW c \in Calls, Commit(c) PROVE ExclusionInv'
  BY <1>10, <1>p, <1>q, PhaseMoves, ZoneUntouched DEF Commit
<1>11. ASSUME NEW c \in Calls, End(c) PROVE ExclusionInv'
  BY <1>11, <1>p, <1>q, PhaseMoves, ZoneLeft DEF End
<1>12. ASSUME DbExecute \/ DbFails PROVE ExclusionInv'
  <2>1. UNCHANGED zoneVars /\ phase' = phase
    BY <1>12 DEF DbExecute, DbFails
  <2> QED
    BY <2>1, <1>p, ZoneUntouched
<1>13. ASSUME Answer PROVE ExclusionInv'
  <2> DEFINE c == Head(answers).call
  <2>1. Saved(c) \/ Removed(c) \/ Committed(c)
    BY <1>13 DEF Answer
  <2>2. \/ UNCHANGED zoneVars /\ (To(c, "body") \/ To(c, "rejected"))
        \/ Leave(c) /\ (To(c, "rejected") \/ To(c, "resolved"))
    <3>1. CASE Saved(c)
      BY <3>1 DEF Saved, Done, Reject
    <3>2. CASE Removed(c)
      BY <3>2 DEF Removed, Done, Reject
    <3>3. CASE Committed(c)
      BY <3>3 DEF Committed
    <3> QED
      BY <2>1, <3>1, <3>2, <3>3
  <2> HIDE DEF c
  <2> QED
    BY <2>2, <1>p, <1>q, PhaseMoves, ZoneUntouched, ZoneLeft
<1>14. ASSUME Restart PROVE ExclusionInv'
  <2>1. /\ zone' = NoZone /\ inside' = {} /\ blocked' = <<>>
        /\ phase' \in [Calls -> Phases]
    BY <1>14, <1>p DEF Restart, Phases
  <2> QED
    BY <2>1 DEF ExclusionInv, ZoneTypeOK, ZoneExclusion, IdleOutside, Waiting
<1>15. ASSUME UNCHANGED vars PROVE ExclusionInv'
  <2>1. UNCHANGED zoneVars /\ phase' = phase
    BY <1>15 DEF vars
  <2> QED
    BY <2>1, <1>p, ZoneUntouched
<1> QED
  BY <1>1, <1>2, <1>3, <1>4, <1>5, <1>6, <1>7, <1>8, <1>9, <1>10, <1>11,
     <1>12, <1>13, <1>14, <1>15 DEF Next

\* Only one session transaction runs at a time: the calls between withZone's
\* #enterZone and #leaveZone are of one zone, the current one, and a call that
\* waits does so because another zone's calls are inside, whatever fails and
\* however often the application is restarted.
THEOREM TransactionsExclude == Spec => []ZoneExclusion
<1>1. ExclusionInv => ZoneExclusion
  BY DEF ExclusionInv
<1> QED
  BY <1>1, ExclusionInitially, ExclusionStep, PTL DEF Spec

(***************************************************************************)
(* The inductive invariant.                                                *)
(***************************************************************************)
\* A call that is at a piece of work has one.
WorkLeft ==
  \A c \in Calls :
    phase[c] \in {"queued", "using", "saving", "removing"} => HasWork(c)

\* The session job of a call runs; the call is in the queue of its key, and
\* the job that runs is at its head.
HasTurnNow(c) == phase[c] = "using" \/ (phase[c] = "saving" /\ Op(c) # "add")
TurnHeld ==
  \A c \in Calls :
    /\ phase[c] = "queued" \/ HasTurnNow(c)
         => \E i \in DOMAIN turn[Key(c)] : turn[Key(c)][i] = c
    /\ HasTurnNow(c) => Head(turn[Key(c)]) = c

TypedInv == TypeOK /\ WorkLeft /\ TurnHeld

\* The steps a call has written to a key; whether a transaction writes a key;
\* a call that runs its body.
Own(c, k) == {<<c, n>> : n \in {m \in written[c] : KeyAt(c, m) = k}}
Covers(e, k) == e.batch[k] # NoValue
Working == {"body", "queued", "using"}

\* Where a call may be: it is inside while it works, commits each store in the
\* global zone and at the end in any other, and writes its steps in order.
ShapeOf(c) ==
  /\ phase[c] \in {"queued", "using"} => Op(c) = "cipher"
  /\ phase[c] \in {"queued", "using", "saving", "committing"} => c \in inside
  /\ phase[c] # "removing"
  /\ phase[c] = "saving" => ~InZone(c)
  /\ phase[c] = "committing" => InZone(c)
  /\ \A n \in written[c] : n \in DOMAIN Work[c] /\ n <= at[c]
  /\ phase[c] \in Working \cup {"idle"} => \A n \in written[c] : n < at[c]
  /\ phase[c] = "idle" => at[c] = 1
CallShape == \A c \in Calls : ShapeOf(c)

\* The entries of the database worker's two queues.
Asked == {requests[i] : i \in DOMAIN requests}
Answered == {answers[i] : i \in DOMAIN answers}
InFlight == Asked \cup Answered

\* A call has at most one of them.
FlightLine ==
  /\ \A i, j \in DOMAIN requests : requests[i].call = requests[j].call => i = j
  /\ \A i, j \in DOMAIN answers : answers[i].call = answers[j].call => i = j
  /\ \A e \in Asked, f \in Answered : e.call # f.call

\* The call of an entry is inside and waits for it; a call that commits a
\* single store writes its key only, and every key has a step of the call.
FlightOf(e) ==
  /\ e.call \in inside
  /\ phase[e.call] \in {"saving", "committing"}
  /\ phase[e.call] = "saving" =>
       \A k \in Keys : Covers(e, k) => k = Key(e.call)
  /\ \A k \in Keys : Covers(e, k) => Own(e.call, k) # {}
FlightShape == \A e \in InFlight : FlightOf(e)

\* What is pending for a key is what its row was, with steps added of the batch
\* that is inside.
HeldBy(c, k) ==
  /\ c \in inside /\ InZone(c) /\ phase[c] \in Working
  /\ table[k] \subseteq pending[k]
  /\ pending[k] \subseteq table[k] \cup Own(c, k)
  /\ Own(c, k) # {}
  /\ cache[k] = table[k]
PendingShape ==
  \A k \in Keys : pending[k] # NoValue => \E c \in Calls : HeldBy(c, k)

\* The tables hold steps that calls have written.
TableEarned ==
  \A k \in Keys : table[k] \subseteq UNION {Own(c, k) : c \in Calls}
\* A cache differs from its table only while the answer is on its way.
CacheBehind ==
  \A k \in Keys :
    /\ cache[k] \subseteq table[k]
    /\ cache[k] # table[k] => \E e \in Answered : e.ok /\ Covers(e, k)
\* A transaction that is not executed adds steps of its call to rows that are
\* as its call has seen them.
RequestsGrow ==
  \A e \in Asked : \A k \in Keys :
    Covers(e, k) => /\ table[k] \subseteq e.batch[k]
                    /\ e.batch[k] \subseteq table[k] \cup Own(e.call, k)
                    /\ cache[k] = table[k]
\* The rows are still what an answer says was written.
AnswersTrue ==
  \A e \in Answered : \A k \in Keys :
    e.ok /\ Covers(e, k) => table[k] = e.batch[k]
\* What a running session job has read is what it would read now.
LoadedCurrent ==
  \A c \in Calls : phase[c] = "using" => loaded[c] = Visible(Key(c))

\* How much of what a call has written is in the tables, or in a batch.
NoneStored(c) == \A n \in written[c] : ~Stored(c, n)
AllStored(c) == \A n \in written[c] : Stored(c, n)
AllIn(c, b) ==
  \A n \in written[c] :
    b[KeyAt(c, n)] # NoValue /\ <<c, n>> \in b[KeyAt(c, n)]
\* A batch that runs has stored nothing and has everything pending; a call that
\* ended, or was lost, has stored all or nothing.
FateOf(c) ==
  /\ phase[c] = "idle" => written[c] = {}
  /\ phase[c] \in Working /\ c \notin inside => written[c] = {}
  /\ InZone(c) /\ phase[c] \in Working => NoneStored(c) /\ AllIn(c, pending)
  /\ ~InZone(c) /\ phase[c] = "body" => AllStored(c)
  /\ phase[c] = "resolved" => AllStored(c)
  /\ phase[c] = "rejected" => NoneStored(c)
  /\ AllStored(c) \/ NoneStored(c)
CallFate == \A c \in Calls : FateOf(c)
\* A transaction holds all its call has written, and stores all of it or
\* nothing.
FlightFate ==
  /\ \A e \in Asked : NoneStored(e.call) /\ AllIn(e.call, e.batch)
  /\ \A e \in Answered : IF e.ok THEN AllStored(e.call) ELSE NoneStored(e.call)

\* A call that takes one ratchet step, and a value that is what it read with
\* this step added.
Single(c) == Len(Work[c]) = 1 /\ Work[c][1][1] = "cipher"
Builds(c, b) == b[KeyAt(c, 1)] = loaded[c] \cup {<<c, 1>>}
\* What such a call has pending or sends is such a value.
StepsBuild ==
  /\ \A c \in Calls :
       Single(c) /\ InZone(c) /\ 1 \in written[c] /\ phase[c] \in Working
         => Builds(c, pending)
  /\ \A e \in Asked :
       Single(e.call) /\ 1 \in written[e.call] => Builds(e.call, e.batch)
\* Of two such calls whose steps are stored one has read the other's.
ChainBuilt ==
  \A c, d \in Calls :
    c # d /\ Single(c) /\ Single(d) /\ KeyAt(c, 1) = KeyAt(d, 1)
      /\ 1 \in written[c] /\ 1 \in written[d] /\ Stored(c, 1) /\ Stored(d, 1)
      => <<c, 1>> \in loaded[d] \/ <<d, 1>> \in loaded[c]

(***************************************************************************)
(* The values a call handles are values, and a call that uses a session    *)
(* has its turn on the session queue.                                      *)
(***************************************************************************)
ControlInv ==
  /\ phase \in [Calls -> Phases]
  /\ at \in [Calls -> Nat \ {0}]
  /\ \A c \in Calls : at[c] <= Len(Work[c]) + 1
  /\ turn \in [Keys -> Seq(Calls)]
  /\ WorkLeft
  /\ TurnHeld

DataTyped ==
  /\ loaded \in [Calls -> Values]
  /\ pending \in Batch
  /\ cache \in [Keys -> Values] /\ table \in [Keys -> Values]
  /\ requests \in Seq(Request) /\ answers \in Seq(Response)
  /\ written \in [Calls -> SUBSET Nat]
  /\ dbFailures \in Nat /\ crashes \in Nat

\* The type invariant, split into control and data.
LEMMA TypedParts ==
  ASSUME ZoneTypeOK
  PROVE  TypedInv <=> ControlInv /\ DataTyped
BY DEF TypedInv, TypeOK, ControlInv, DataTyped

\* A piece of work that is left has an operation, a key and a step.
LEMMA WorkTyped ==
  ASSUME NEW c \in Calls, at[c] \in Nat \ {0}, HasWork(c)
  PROVE  /\ at[c] \in DOMAIN Work[c]
         /\ Op(c) \in Operations /\ Key(c) \in Keys
         /\ Step(c) \in Steps
         /\ Len(Work[c]) \in Nat
<1>1. Work[c] \in Seq(Operations \X Keys)
  BY StoreAssumption
<1>2. Len(Work[c]) \in Nat /\ DOMAIN Work[c] = 1..Len(Work[c])
  BY <1>1
<1>3. at[c] \in DOMAIN Work[c]
  BY <1>2 DEF HasWork
<1>4. Work[c][at[c]] \in Operations \X Keys
  BY <1>1, <1>3
<1>5. Step(c) \in {<<c, n>> : n \in DOMAIN Work[c]}
  BY <1>3 DEF Step
<1> QED
  BY <1>2, <1>3, <1>4, <1>5 DEF Op, Key, Steps

\* The work of a call is a sequence.
LEMMA LenWork ==
  ASSUME NEW c \in Calls
  PROVE  Len(Work[c]) \in Nat /\ DOMAIN Work[c] = 1..Len(Work[c])
BY StoreAssumption

\* The indices of a queue whose head is taken.
LEMMA TailShifts ==
  ASSUME NEW S, NEW q \in Seq(S), q # <<>>
  PROVE  /\ Tail(q) \in Seq(S)
         /\ Len(Tail(q)) = Len(q) - 1
         /\ Head(q) = q[1]
         /\ 1 \in DOMAIN q
         /\ \A i \in DOMAIN Tail(q) : i + 1 \in DOMAIN q /\ Tail(q)[i] = q[i + 1]
         /\ \A i \in DOMAIN q : i # 1 => i - 1 \in DOMAIN Tail(q)
                                         /\ Tail(q)[i - 1] = q[i]
<1>1. Len(q) \in Nat \ {0}
  OBVIOUS
<1> QED
  BY <1>1

\* The indices of a queue that is joined.
LEMMA AppendKeeps ==
  ASSUME NEW S, NEW q \in Seq(S), NEW e \in S
  PROVE  /\ Append(q, e) \in Seq(S)
         /\ Len(q) + 1 \in DOMAIN Append(q, e)
         /\ Append(q, e)[Len(q) + 1] = e
         /\ \A i \in DOMAIN q : i \in DOMAIN Append(q, e)
                                /\ Append(q, e)[i] = q[i]
         /\ \A i \in DOMAIN Append(q, e) :
              i \in DOMAIN q \/ (i = Len(q) + 1 /\ i \notin DOMAIN q)
         /\ q # <<>> => Head(Append(q, e)) = Head(q)
OBVIOUS

\* A step that moves one call and leaves the queues alone.
LEMMA ControlMoves ==
  ASSUME ControlInv,
         NEW c \in Calls, NEW p \in Phases,
         To(c, p), UNCHANGED <<at, turn>>,
         p \in {"queued", "using", "saving", "removing"} => HasWork(c),
         \/ p \notin {"queued", "using", "saving"}
         \/ p = "saving" /\ Op(c) = "add"
         \/ HasTurnNow(c) /\ (p = "saving")
         \/ phase[c] = "queued" /\ HasTurn(c) /\ p = "using"
  PROVE  ControlInv'
<1>1. /\ phase' = [phase EXCEPT ![c] = p] /\ at' = at /\ turn' = turn
      /\ phase' \in [Calls -> Phases] /\ phase'[c] = p
      /\ \A d \in Calls : d # c => phase'[d] = phase[d]
  BY DEF To, ControlInv
<1>2. \A d \in Calls : Key(d)' = Key(d) /\ Op(d)' = Op(d)
                        /\ HasWork(d)' = HasWork(d)
  BY <1>1 DEF Key, Op, HasWork
<1>3. WorkLeft'
  <2>1. SUFFICES ASSUME NEW d \in Calls,
                        phase'[d] \in {"queued", "using", "saving", "removing"}
                 PROVE  HasWork(d)
    BY <1>1, <1>2 DEF WorkLeft
  <2> QED
    BY <1>1, <2>1 DEF ControlInv, WorkLeft
<1>4. TurnHeld'
  <2>1. SUFFICES ASSUME NEW d \in Calls
                 PROVE  /\ (phase'[d] = "queued" \/ phase'[d] = "using"
                               \/ (phase'[d] = "saving" /\ Op(d) # "add"))
                             => \E i \in DOMAIN turn[Key(d)] : turn[Key(d)][i] = d
                        /\ (phase'[d] = "using"
                               \/ (phase'[d] = "saving" /\ Op(d) # "add"))
                             => Head(turn[Key(d)]) = d
    BY <1>1, <1>2 DEF TurnHeld, HasTurnNow
  <2>2. CASE d # c
    BY <1>1, <2>2 DEF ControlInv, TurnHeld, HasTurnNow
  <2>3. CASE d = c
    BY <1>1, <2>3 DEF ControlInv, TurnHeld, HasTurnNow, HasTurn
  <2> QED
    BY <2>2, <2>3
<1> QED
  BY <1>1, <1>3, <1>4 DEF ControlInv

\* A call joins a session queue.
LEMMA ControlQueues ==
  ASSUME ControlInv,
         NEW c \in Calls,
         phase[c] = "body", HasWork(c),
         To(c, "queued"), UNCHANGED at,
         turn' = [turn EXCEPT ![Key(c)] = Append(@, c)]
  PROVE  ControlInv'
<1>1. /\ at' = at
      /\ phase' \in [Calls -> Phases] /\ phase'[c] = "queued"
      /\ \A d \in Calls : d # c => phase'[d] = phase[d]
  BY DEF To, ControlInv, Phases
<1>2. \A d \in Calls : Key(d)' = Key(d) /\ Op(d)' = Op(d)
                        /\ HasWork(d)' = HasWork(d)
  BY <1>1 DEF Key, Op, HasWork
<1> DEFINE k == Key(c)
<1>3. k \in Keys
  BY WorkTyped DEF ControlInv
<1>4. turn[k] \in Seq(Calls)
  BY <1>3 DEF ControlInv
<1>5. /\ turn' \in [Keys -> Seq(Calls)]
      /\ turn'[k] = Append(turn[k], c)
      /\ \A j \in Keys : j # k => turn'[j] = turn[j]
  BY <1>3, <1>4, AppendKeeps DEF ControlInv
<1>6. WorkLeft'
  <2>1. SUFFICES ASSUME NEW d \in Calls,
                        phase'[d] \in {"queued", "using", "saving", "removing"}
                 PROVE  HasWork(d)
    BY <1>1, <1>2 DEF WorkLeft
  <2> QED
    BY <1>1, <2>1 DEF ControlInv, WorkLeft
<1>7. TurnHeld'
  <2>1. SUFFICES ASSUME NEW d \in Calls
                 PROVE  /\ (phase'[d] = "queued" \/ phase'[d] = "using"
                               \/ (phase'[d] = "saving" /\ Op(d) # "add"))
                             => \E i \in DOMAIN turn'[Key(d)] : turn'[Key(d)][i] = d
                        /\ (phase'[d] = "using"
                               \/ (phase'[d] = "saving" /\ Op(d) # "add"))
                             => Head(turn'[Key(d)]) = d
    BY <1>1, <1>2 DEF TurnHeld, HasTurnNow
  <2>2. CASE d = c
    BY <1>1, <1>4, <1>5, <2>2, AppendKeeps
  <2>3. CASE d # c
    <3>1. phase'[d] = phase[d]
      BY <1>1, <2>3
    <3>2. phase[d] \in {"queued", "using", "saving"} => Key(d) \in Keys
      BY WorkTyped DEF ControlInv, WorkLeft
    <3>3. CASE Key(d) # k
      BY <1>5, <3>1, <3>2, <3>3 DEF ControlInv, TurnHeld, HasTurnNow
    <3>4. CASE Key(d) = k
      <4>1. (phase[d] = "queued" \/ HasTurnNow(d))
              => \E i \in DOMAIN turn[k] : turn[k][i] = d
        BY <3>4 DEF ControlInv, TurnHeld
      <4>2. HasTurnNow(d) => Head(turn[k]) = d
        BY <3>4 DEF ControlInv, TurnHeld
      <4>3. \A i \in DOMAIN turn[k] : i \in DOMAIN turn'[k] /\ turn'[k][i] = turn[k][i]
        BY <1>4, <1>5, AppendKeeps
      <4>4. (\E i \in DOMAIN turn[k] : TRUE) => Head(turn'[k]) = Head(turn[k])
        BY <1>4, <1>5, AppendKeeps
      <4> HIDE DEF k
      <4> QED
        BY <3>1, <3>4, <4>1, <4>2, <4>3, <4>4 DEF HasTurnNow
    <3> QED
      BY <3>3, <3>4
  <2> QED
    BY <2>2, <2>3
<1> QED
  BY <1>1, <1>5, <1>6, <1>7 DEF ControlInv

\* The session job of a call ends.
LEMMA ControlReleases ==
  ASSUME ControlInv,
         NEW c \in Calls, NEW p \in {"body", "rejected"},
         HasTurnNow(c),
         To(c, p),
         \/ UNCHANGED at
         \/ at' = [at EXCEPT ![c] = @ + 1],
         Release(Key(c))
  PROVE  ControlInv'
<1>1. /\ phase' \in [Calls -> Phases] /\ phase'[c] = p
      /\ \A d \in Calls : d # c => phase'[d] = phase[d] /\ at'[d] = at[d]
  BY DEF To, ControlInv, Phases
<1>2. HasWork(c)
  BY DEF ControlInv, WorkLeft, HasTurnNow
<1> DEFINE k == Key(c)
<1>3. k \in Keys /\ Len(Work[c]) \in Nat
  BY <1>2, WorkTyped DEF ControlInv
<1>4. /\ at' \in [Calls -> Nat \ {0}]
      /\ \A d \in Calls : at'[d] <= Len(Work[d]) + 1
  <2>1. CASE UNCHANGED at
    BY <2>1 DEF ControlInv
  <2>2. CASE at' = [at EXCEPT ![c] = @ + 1]
    <3>1. at[c] \in Nat \ {0} /\ at[c] <= Len(Work[c])
      BY <1>2 DEF ControlInv, HasWork
    <3>2. at' \in [Calls -> Nat \ {0}] /\ at'[c] = at[c] + 1
      BY <2>2, <3>1 DEF ControlInv
    <3>3. at'[c] <= Len(Work[c]) + 1
      BY <1>3, <3>1, <3>2
    <3> QED
      BY <1>1, <3>2, <3>3 DEF ControlInv
  <2> QED
    BY <2>1, <2>2
<1>5. \A d \in Calls : d # c => /\ Key(d)' = Key(d) /\ Op(d)' = Op(d)
                                /\ HasWork(d)' = HasWork(d)
  BY <1>1 DEF Key, Op, HasWork
<1>6. /\ turn[k] \in Seq(Calls) /\ turn[k] # <<>> /\ Head(turn[k]) = c
  BY <1>3 DEF ControlInv, TurnHeld
<1>7. /\ turn' \in [Keys -> Seq(Calls)]
      /\ turn'[k] = Tail(turn[k])
      /\ \A j \in Keys : j # k => turn'[j] = turn[j]
  BY <1>3, <1>6, TailShifts DEF ControlInv, Release
<1>8. WorkLeft'
  <2>1. SUFFICES ASSUME NEW d \in Calls,
                        phase'[d] \in {"queued", "using", "saving", "removing"}
                 PROVE  HasWork(d)'
    BY DEF WorkLeft
  <2> QED
    BY <1>1, <1>5, <2>1 DEF ControlInv, WorkLeft
<1>9. TurnHeld'
  <2>1. SUFFICES ASSUME NEW d \in Calls, d # c
                 PROVE  /\ (phase[d] = "queued" \/ HasTurnNow(d))
                             => \E i \in DOMAIN turn'[Key(d)] : turn'[Key(d)][i] = d
                        /\ HasTurnNow(d) => Head(turn'[Key(d)]) = d
    BY <1>1, <1>5 DEF TurnHeld, HasTurnNow
  <2>2. phase[d] \in {"queued", "using", "saving"} => Key(d) \in Keys
    BY WorkTyped DEF ControlInv, WorkLeft
  <2>3. /\ (phase[d] = "queued" \/ HasTurnNow(d))
             => \E i \in DOMAIN turn[Key(d)] : turn[Key(d)][i] = d
        /\ HasTurnNow(d) => Head(turn[Key(d)]) = d
    BY DEF ControlInv, TurnHeld
  <2>4. CASE Key(d) # k
    BY <1>7, <2>2, <2>3, <2>4 DEF HasTurnNow
  <2>5. CASE Key(d) = k
    <3>1. ~HasTurnNow(d)
      BY <1>6, <2>1, <2>3, <2>5
    <3>2. ASSUME NEW i \in DOMAIN turn[k], turn[k][i] = d
          PROVE  \E m \in DOMAIN turn'[k] : turn'[k][m] = d
      <4>1. i # 1
        BY <1>6, <2>1, <3>2
      <4>2. i - 1 \in DOMAIN Tail(turn[k]) /\ Tail(turn[k])[i - 1] = turn[k][i]
        BY <1>6, <4>1, TailShifts
      <4> QED
        BY <1>7, <3>2, <4>2
    <3> QED
      BY <2>3, <2>5, <3>1, <3>2
  <2> QED
    BY <2>4, <2>5
<1> QED
  BY <1>1, <1>4, <1>7, <1>8, <1>9 DEF ControlInv

\* A call finishes a piece of work, or leaves, without a session job.
LEMMA ControlGoesOn ==
  ASSUME ControlInv,
         NEW c \in Calls, NEW p \in {"body", "rejected", "resolved"},
         To(c, p),
         \/ UNCHANGED at
         \/ at' = [at EXCEPT ![c] = @ + 1] /\ HasWork(c),
         UNCHANGED turn
  PROVE  ControlInv'
<1>1. /\ phase' \in [Calls -> Phases] /\ phase'[c] = p
      /\ \A d \in Calls : d # c => phase'[d] = phase[d] /\ at'[d] = at[d]
  BY DEF To, ControlInv, Phases
<1>2. /\ at' \in [Calls -> Nat \ {0}]
      /\ \A d \in Calls : at'[d] <= Len(Work[d]) + 1
  <2>1. CASE UNCHANGED at
    BY <2>1 DEF ControlInv
  <2>2. CASE at' = [at EXCEPT ![c] = @ + 1] /\ HasWork(c)
    <3>1. at[c] \in Nat \ {0} /\ at[c] <= Len(Work[c]) /\ Len(Work[c]) \in Nat
      BY <2>2, LenWork DEF ControlInv, HasWork
    <3>2. at' \in [Calls -> Nat \ {0}] /\ at'[c] = at[c] + 1
      BY <2>2, <3>1 DEF ControlInv
    <3>3. at'[c] <= Len(Work[c]) + 1
      BY <3>1, <3>2
    <3> QED
      BY <1>1, <3>2, <3>3 DEF ControlInv
  <2> QED
    BY <2>1, <2>2
<1>3. \A d \in Calls : d # c => /\ Key(d)' = Key(d) /\ Op(d)' = Op(d)
                                /\ HasWork(d)' = HasWork(d)
  BY <1>1 DEF Key, Op, HasWork
<1>4. WorkLeft'
  <2>1. SUFFICES ASSUME NEW d \in Calls,
                        phase'[d] \in {"queued", "using", "saving", "removing"}
                 PROVE  HasWork(d)'
    BY DEF WorkLeft
  <2> QED
    BY <1>1, <1>3, <2>1 DEF ControlInv, WorkLeft
<1>5. TurnHeld'
  BY <1>1, <1>3 DEF ControlInv, TurnHeld, HasTurnNow
<1> QED
  BY <1>1, <1>2, <1>4, <1>5 DEF ControlInv

\* The batches the actions name are batches.
LEMMA BatchesTyped ==
  /\ NoBatch \in Batch
  /\ \A k \in Keys, v \in Values : Only(k, v) \in Batch
BY DEF NoBatch, Batch, Only

\* Applying a batch keeps values values.
LEMMA ApplyTyped ==
  ASSUME NEW f \in [Keys -> Values], NEW b \in Batch
  PROVE  Apply(f, b) \in [Keys -> Values]
BY DEF Apply, Batch

\* A request that is sent is a request.
LEMMA AskTyped ==
  ASSUME requests \in Seq(Request), NEW c \in Calls, NEW b \in Batch, Ask(c, b)
  PROVE  requests' \in Seq(Request)
<1>1. [call |-> c, batch |-> b] \in Request
  BY DEF Request
<1> QED
  BY <1>1 DEF Ask

\* The heads of the database worker's queues.
LEMMA HeadsTyped ==
  ASSUME DataTyped
  PROVE  /\ answers # <<>> =>
              /\ Head(answers) \in Response
              /\ Head(answers).call \in Calls
              /\ Head(answers).batch \in Batch
              /\ Head(answers).ok \in BOOLEAN
              /\ Tail(answers) \in Seq(Response)
         /\ requests # <<>> =>
              /\ Head(requests) \in Request
              /\ Head(requests).call \in Calls
              /\ Head(requests).batch \in Batch
              /\ Tail(requests) \in Seq(Request)
<1>1. answers # <<>> => Head(answers) \in Response
                        /\ Tail(answers) \in Seq(Response)
  BY DEF DataTyped
<1>2. requests # <<>> => Head(requests) \in Request
                        /\ Tail(requests) \in Seq(Request)
  BY DEF DataTyped
<1> QED
  BY <1>1, <1>2 DEF Request, Response

\* A reply turns a request into a response.
LEMMA ReplyTyped ==
  ASSUME DataTyped, requests # <<>>, NEW ok \in BOOLEAN, Reply(ok)
  PROVE  /\ requests' \in Seq(Request) /\ answers' \in Seq(Response)
         /\ Head(requests).call \in Calls /\ Head(requests).batch \in Batch
<1>1. /\ Head(requests).call \in Calls /\ Head(requests).batch \in Batch
      /\ Tail(requests) \in Seq(Request)
  BY HeadsTyped
<1>2. [call |-> Head(requests).call, batch |-> Head(requests).batch,
       ok |-> ok] \in Response
  BY <1>1 DEF Response
<1> QED
  BY <1>1, <1>2 DEF Reply, DataTyped

\* No call has been made.
LEMMA ControlInitially == Init => ControlInv
<1> SUFFICES ASSUME Init PROVE ControlInv
  OBVIOUS
<1>1. \A c \in Calls : Len(Work[c]) \in Nat
  BY LenWork
<1> QED
  BY <1>1 DEF Init, ControlInv, WorkLeft, TurnHeld, HasTurnNow, Phases

\* Every step keeps the control part: one case for each action.
LEMMA ControlStep ==
  ASSUME ControlInv, DataTyped, [Next]_vars PROVE ControlInv'
<1>p. /\ "body" \in Phases /\ "queued" \in Phases /\ "using" \in Phases
      /\ "saving" \in Phases /\ "removing" \in Phases
      /\ "committing" \in Phases /\ "resolved" \in Phases
      /\ "rejected" \in Phases
  BY DEF Phases
<1>1. ASSUME NEW c \in Calls, Call(c) PROVE ControlInv'
  BY <1>1, <1>p, ControlMoves DEF Call
<1>2. ASSUME NEW c \in Calls, Queue(c) PROVE ControlInv'
  BY <1>2, ControlQueues DEF Queue, Ready
<1>3. ASSUME NEW c \in Calls, Archive(c) PROVE ControlInv'
  <2>1. CASE Visible(Key(c)) = {}
    <3>1. To(c, "body") /\ at' = [at EXCEPT ![c] = @ + 1] /\ HasWork(c)
            /\ UNCHANGED turn
      BY <1>3, <2>1 DEF Archive, Done, Ready
    <3> QED
      BY <3>1, ControlGoesOn
  <2>2. CASE Visible(Key(c)) # {}
    <3>1. /\ phase[c] = "body" /\ HasWork(c) /\ To(c, "queued")
          /\ UNCHANGED at
          /\ turn' = [turn EXCEPT ![Key(c)] = Append(@, c)]
      BY <1>3, <2>2 DEF Archive, Ready
    <3> QED
      BY <3>1, ControlQueues
  <2> QED
    BY <2>1, <2>2
<1>4. ASSUME NEW c \in Calls, Start(c) PROVE ControlInv'
  <2>1. /\ phase[c] = "queued" /\ HasTurn(c) /\ To(c, "using")
        /\ UNCHANGED <<at, turn>>
    BY <1>4 DEF Start
  <2>2. HasWork(c)
    BY <2>1 DEF ControlInv, WorkLeft
  <2> QED
    BY <1>p, <2>1, <2>2, ControlMoves
<1>5. ASSUME NEW c \in Calls, Store(c) PROVE ControlInv'
  <2>1. phase[c] = "using" /\ HasTurnNow(c) /\ HasWork(c)
    BY <1>5 DEF Store, HasTurnNow, ControlInv, WorkLeft
  <2>2. CASE ZoneOf[c] = Global
    <3>1. To(c, "saving") /\ UNCHANGED <<at, turn>>
      BY <1>5, <2>2 DEF Store, Save
    <3> QED
      BY <1>p, <2>1, <3>1, ControlMoves
  <2>3. CASE ZoneOf[c] # Global
    <3>1. To(c, "body") /\ at' = [at EXCEPT ![c] = @ + 1] /\ Release(Key(c))
      BY <1>5, <2>3 DEF Store, Save, Done
    <3> QED
      BY <2>1, <3>1, ControlReleases
  <2> QED
    BY <2>2, <2>3
<1>6. ASSUME NEW c \in Calls, CipherFails(c) PROVE ControlInv'
  <2>1. HasTurnNow(c) /\ Release(Key(c))
    BY <1>6 DEF CipherFails, HasTurnNow
  <2>2. \/ To(c, "body") /\ at' = [at EXCEPT ![c] = @ + 1]
        \/ To(c, "rejected") /\ UNCHANGED at
    BY <1>6 DEF CipherFails, Done, Reject
  <2> QED
    BY <2>1, <2>2, ControlReleases
<1>7. ASSUME NEW c \in Calls, Add(c) PROVE ControlInv'
  <2>1. HasWork(c) /\ Op(c) = "add" /\ UNCHANGED turn
    BY <1>7 DEF Add, Ready
  <2>2. \/ To(c, "saving") /\ UNCHANGED at
        \/ To(c, "body") /\ at' = [at EXCEPT ![c] = @ + 1]
    BY <1>7 DEF Add, Save, Done
  <2>3. CASE To(c, "saving") /\ UNCHANGED at
    BY <1>p, <2>1, <2>3, ControlMoves
  <2>4. CASE To(c, "body") /\ at' = [at EXCEPT ![c] = @ + 1]
    BY <2>1, <2>4, ControlGoesOn
  <2> QED
    BY <2>2, <2>3, <2>4
<1>8. ASSUME NEW c \in Calls, Remove(c) \/ Purge(c) PROVE ControlInv'
  <2>1. HasWork(c) /\ To(c, "removing") /\ UNCHANGED <<at, turn>>
    BY <1>8 DEF Remove, Purge, Ready
  <2> QED
    BY <1>p, <2>1, ControlMoves
<1>9. ASSUME NEW c \in Calls, BodyThrows(c) PROVE ControlInv'
  <2>1. To(c, "rejected") /\ UNCHANGED <<at, turn>>
    BY <1>9 DEF BodyThrows, Reject
  <2> QED
    BY <2>1, ControlGoesOn
<1>10. ASSUME NEW c \in Calls, Commit(c) PROVE ControlInv'
  BY <1>10, <1>p, ControlMoves DEF Commit
<1>11. ASSUME NEW c \in Calls, End(c) PROVE ControlInv'
  BY <1>11, ControlGoesOn DEF End
<1>12. ASSUME UNCHANGED <<phase, at, turn>> PROVE ControlInv'
  BY <1>12 DEF ControlInv, WorkLeft, TurnHeld, HasTurnNow, HasWork, Op, Key
<1>13. ASSUME NEW c \in Calls, Saved(c) PROVE ControlInv'
  <2> DEFINE ok == Head(answers).ok \/ Key(c) \in SenderKeys
  <2>1. /\ phase[c] = "saving" /\ HasWork(c)
        /\ IF Op(c) = "add" THEN UNCHANGED turn ELSE Release(Key(c))
        /\ IF ok THEN Done(c) ELSE Reject(c)
    BY <1>13 DEF Saved, ControlInv, WorkLeft
  <2> HIDE DEF ok
  <2>2. \/ To(c, "body") /\ at' = [at EXCEPT ![c] = @ + 1]
        \/ To(c, "rejected") /\ UNCHANGED at
    BY <2>1 DEF Done, Reject
  <2>3. CASE Op(c) = "add"
    <3>1. UNCHANGED turn
      BY <2>1, <2>3
    <3> QED
      BY <2>1, <2>2, <3>1, ControlGoesOn
  <2>4. CASE Op(c) # "add"
    <3>1. Release(Key(c)) /\ HasTurnNow(c)
      BY <2>1, <2>4 DEF HasTurnNow
    <3> QED
      BY <2>2, <3>1, ControlReleases
  <2> QED
    BY <2>3, <2>4
<1>14. ASSUME NEW c \in Calls, Removed(c) PROVE ControlInv'
  <2>1. /\ HasWork(c) /\ UNCHANGED turn
        /\ \/ To(c, "body") /\ at' = [at EXCEPT ![c] = @ + 1]
           \/ To(c, "rejected") /\ UNCHANGED at
    BY <1>14 DEF Removed, ControlInv, WorkLeft, Done, Reject
  <2> QED
    BY <2>1, ControlGoesOn
<1>15. ASSUME NEW c \in Calls, Committed(c) PROVE ControlInv'
  <2>1. UNCHANGED <<at, turn>> /\ (To(c, "resolved") \/ To(c, "rejected"))
    BY <1>15 DEF Committed
  <2> QED
    BY <2>1, ControlGoesOn
<1>16. ASSUME Restart PROVE ControlInv'
  <2>1. /\ phase' \in [Calls -> Phases]
        /\ \A c \in Calls :
             phase'[c] \in {"idle", "resolved", "rejected", "lost"}
        /\ turn' = [k \in Keys |-> <<>>] /\ at' = at
    BY <1>16 DEF Restart, ControlInv, Phases
  <2>2. turn' \in [Keys -> Seq(Calls)]
    BY <2>1
  <2>3. WorkLeft' /\ TurnHeld'
    BY <2>1 DEF WorkLeft, TurnHeld, HasTurnNow
  <2> QED
    BY <2>1, <2>2, <2>3 DEF ControlInv
<1>17. ASSUME Answer PROVE ControlInv'
  <2>1. Head(answers).call \in Calls
    BY <1>17, HeadsTyped DEF Answer
  <2>2. \/ Saved(Head(answers).call) \/ Removed(Head(answers).call)
        \/ Committed(Head(answers).call)
    BY <1>17 DEF Answer
  <2> QED
    BY <2>1, <2>2, <1>13, <1>14, <1>15
<1>18. ASSUME DbExecute \/ DbFails \/ UNCHANGED vars PROVE ControlInv'
  <2>1. UNCHANGED <<phase, at, turn>>
    BY <1>18 DEF DbExecute, DbFails, vars
  <2> QED
    BY <1>12, <2>1
<1> QED
  BY <1>1, <1>2, <1>3, <1>4, <1>5, <1>6, <1>7, <1>8, <1>9, <1>10, <1>11,
     <1>16, <1>17, <1>18 DEF Next

\* Nothing is stored.
LEMMA DataInitially == Init => DataTyped
<1>1. {} \in Values
  BY DEF Values
<1> QED
  BY <1>1, BatchesTyped, StoreAssumption DEF Init, DataTyped

\* The data of one step: each variable is left alone or changes in one of a
\* few ways.
LEMMA DataStep ==
  ASSUME ControlInv, DataTyped, [Next]_vars PROVE DataTyped'
<1>0. /\ loaded \in [Calls -> Values]
      /\ pending \in Batch
      /\ cache \in [Keys -> Values] /\ table \in [Keys -> Values]
      /\ requests \in Seq(Request) /\ answers \in Seq(Response)
      /\ written \in [Calls -> SUBSET Nat]
      /\ dbFailures \in Nat /\ crashes \in Nat
  BY DEF DataTyped
<1>v. \A k \in Keys : Visible(k) \in Values
  BY <1>0 DEF Visible, Batch
<1>e. {} \in Values
  BY DEF Values
<1>1. ASSUME NEW c \in Calls, Call(c) \/ Queue(c) \/ End(c) PROVE DataTyped'
  <2>1. UNCHANGED <<loaded, memory, database, written, bounds>>
    BY <1>1 DEF Call, Queue, End
  <2> QED
    BY <1>0, <2>1 DEF DataTyped, memory, database, bounds
<1>2. ASSUME NEW c \in Calls, Archive(c) PROVE DataTyped'
  <2>1. UNCHANGED <<memory, database, written, bounds>>
    BY <1>2 DEF Archive
  <2>2. Key(c) \in Keys
    BY <1>2, WorkTyped DEF Archive, Ready, ControlInv
  <2>3. \/ UNCHANGED loaded
        \/ loaded' = [loaded EXCEPT ![c] = Visible(Key(c))]
    BY <1>2 DEF Archive
  <2>4. loaded' \in [Calls -> Values]
    BY <1>0, <1>v, <2>2, <2>3
  <2> QED
    BY <1>0, <2>1, <2>4 DEF DataTyped, memory, database, bounds
<1>3. ASSUME NEW c \in Calls, Start(c) PROVE DataTyped'
  <2>1. UNCHANGED <<pending, database, written, bounds>>
    BY <1>3 DEF Start
  <2>2. Key(c) \in Keys /\ Step(c) \in Steps
    BY <1>3, WorkTyped DEF Start, ControlInv, WorkLeft
  <2>3. \/ UNCHANGED loaded
        \/ loaded' = [loaded EXCEPT ![c] = Visible(Key(c))]
    BY <1>3 DEF Start
  <2>4. loaded' \in [Calls -> Values]
    BY <1>0, <1>v, <2>2, <2>3
  <2>5. \/ UNCHANGED cache
        \/ cache' = [cache EXCEPT ![Key(c)] = @ \cup {Step(c)}]
    BY <1>3 DEF Start
  <2>6. cache[Key(c)] \cup {Step(c)} \in Values
    BY <1>0, <2>2 DEF Values
  <2>7. cache' \in [Keys -> Values]
    BY <1>0, <2>5, <2>6
  <2> QED
    BY <1>0, <2>1, <2>4, <2>7 DEF DataTyped, database, bounds
<1>4. ASSUME NEW c \in Calls, NEW v \in Values, Save(c, v), HasWork(c),
             UNCHANGED <<loaded, cache, table, answers, bounds>>
      PROVE  DataTyped'
  <2>1. Key(c) \in Keys /\ at[c] \in Nat
    BY <1>4, WorkTyped DEF ControlInv
  <2>2. [pending EXCEPT ![Key(c)] = v] \in Batch
    BY <1>0, <2>1 DEF Batch
  <2>3. written' \in [Calls -> SUBSET Nat]
    BY <1>0, <1>4, <2>1 DEF Save
  <2>4. pending' \in Batch
    BY <1>4, <2>2, BatchesTyped DEF Save
  <2>5. UNCHANGED requests \/ Ask(c, [pending EXCEPT ![Key(c)] = v])
    BY <1>4 DEF Save
  <2>6. requests' \in Seq(Request)
    BY <1>0, <2>2, <2>5, AskTyped
  <2> QED
    BY <1>0, <1>4, <2>3, <2>4, <2>6 DEF DataTyped, bounds
<1>5. ASSUME NEW c \in Calls, Store(c) PROVE DataTyped'
  <2>1. HasWork(c) /\ Step(c) \in Steps
    BY <1>5, WorkTyped DEF Store, ControlInv, WorkLeft
  <2>2. loaded[c] \cup {Step(c)} \in Values
    BY <1>0, <2>1 DEF Values
  <2> QED
    BY <1>4, <1>5, <2>1, <2>2 DEF Store
<1>6. ASSUME NEW c \in Calls, Add(c) PROVE DataTyped'
  <2>1. HasWork(c) /\ Step(c) \in Steps
    BY <1>6, WorkTyped DEF Add, Ready, ControlInv
  <2>2. {Step(c)} \in Values
    BY <2>1 DEF Values
  <2> QED
    BY <1>4, <1>6, <2>1, <2>2 DEF Add
<1>7. ASSUME NEW c \in Calls, CipherFails(c) \/ BodyThrows(c)
      PROVE  DataTyped'
  <2>1. UNCHANGED <<loaded, cache, database, written, bounds>>
          /\ (UNCHANGED pending \/ pending' = NoBatch)
    BY <1>7 DEF CipherFails, BodyThrows, Reject
  <2> QED
    BY <1>0, <2>1, BatchesTyped DEF DataTyped, database, bounds
<1>8. ASSUME NEW c \in Calls, Remove(c) \/ Purge(c) PROVE DataTyped'
  <2>1. Key(c) \in Keys
    BY <1>8, WorkTyped DEF Remove, Purge, Ready, ControlInv
  <2>2. Ask(c, Only(Key(c), {}))
          /\ UNCHANGED <<loaded, table, answers, written, bounds>>
    BY <1>8 DEF Remove, Purge, memory
  <2>3. requests' \in Seq(Request)
    BY <1>0, <1>e, <2>1, <2>2, AskTyped, BatchesTyped
  <2>4. UNCHANGED cache \/ cache' = [cache EXCEPT ![Key(c)] = {}]
    BY <1>8 DEF Remove, Purge, memory
  <2>5. UNCHANGED pending \/ pending' = [pending EXCEPT ![Key(c)] = NoValue]
    BY <1>8 DEF Remove, Purge, memory
  <2>6. cache' \in [Keys -> Values] /\ pending' \in Batch
    BY <1>0, <1>e, <2>1, <2>4, <2>5 DEF Batch
  <2> QED
    BY <1>0, <2>2, <2>3, <2>6 DEF DataTyped, bounds
<1>9. ASSUME NEW c \in Calls, Commit(c) PROVE DataTyped'
  <2>1. /\ pending' = NoBatch /\ Ask(c, pending)
        /\ UNCHANGED <<loaded, cache, table, answers, written, bounds>>
    BY <1>9 DEF Commit
  <2>2. requests' \in Seq(Request)
    BY <1>0, <2>1, AskTyped
  <2> QED
    BY <1>0, <2>1, <2>2, BatchesTyped DEF DataTyped, bounds
<1>10. ASSUME DbExecute \/ DbFails PROVE DataTyped'
  <2>1. requests # <<>> /\ (Reply(TRUE) \/ Reply(FALSE))
          /\ UNCHANGED <<loaded, memory, written, crashes>>
    BY <1>10 DEF DbExecute, DbFails, bounds
  <2>2. requests' \in Seq(Request) /\ answers' \in Seq(Response)
          /\ Head(requests).batch \in Batch
    BY <1>0, <2>1, ReplyTyped
  <2>3. dbFailures' \in Nat
    <3>1. dbFailures' = dbFailures \/ dbFailures' = dbFailures + 1
      BY <1>10 DEF DbExecute, DbFails, bounds
    <3> QED
      BY <1>0, <3>1
  <2>4. UNCHANGED table \/ table' = Apply(table, Head(requests).batch)
    BY <1>10 DEF DbExecute, DbFails
  <2>5. table' \in [Keys -> Values]
    BY <1>0, <2>2, <2>4, ApplyTyped, ZenonT(30)
  <2> QED
    BY <1>0, <2>1, <2>2, <2>3, <2>5 DEF DataTyped, memory
<1>11. ASSUME Answer PROVE DataTyped'
  <2> DEFINE c == Head(answers).call
  <2>1. c \in Calls /\ Head(answers).batch \in Batch
          /\ answers' \in Seq(Response)
    BY <1>0, <1>11, HeadsTyped DEF Answer
  <2>2. UNCHANGED <<loaded, table, requests, written, bounds>>
    BY <1>11 DEF Answer
  <2>3. Saved(c) \/ Removed(c) \/ Committed(c)
    BY <1>11 DEF Answer
  <2>4. (Removed(c) /\ HasWork(c) /\ Key(c) \in Keys)
          \/ Saved(c) \/ Committed(c)
    BY <2>1, <2>3, WorkTyped DEF ControlInv, WorkLeft, Removed
  <2>5. UNCHANGED cache \/ cache' = Apply(cache, Head(answers).batch)
    <3>1. CASE Saved(c)
      BY <3>1 DEF Saved, Cached
    <3>2. CASE Removed(c)
      BY <3>2 DEF Removed, Cached
    <3>3. CASE Committed(c)
      BY <3>3 DEF Committed, Cached
    <3> QED
      BY <2>3, <3>1, <3>2, <3>3
  <2>6. \/ UNCHANGED pending \/ pending' = NoBatch
        \/ Key(c) \in Keys /\ pending' = [pending EXCEPT ![Key(c)] = NoValue]
    <3>1. CASE Saved(c)
      BY <3>1 DEF Saved, Reject
    <3>2. CASE Removed(c) /\ HasWork(c) /\ Key(c) \in Keys
      BY <3>2 DEF Removed, Reject
    <3>3. CASE Committed(c)
      BY <3>3 DEF Committed
    <3> QED
      BY <2>4, <3>1, <3>2, <3>3
  <2>7. cache' \in [Keys -> Values]
    BY <1>0, <2>1, <2>5, ApplyTyped
  <2>8. pending' \in Batch
    BY <1>0, <2>6, BatchesTyped DEF Batch
  <2> QED
    BY <1>0, <2>1, <2>2, <2>7, <2>8 DEF DataTyped, bounds
<1>12. ASSUME Restart PROVE DataTyped'
  BY <1>0, <1>12, BatchesTyped DEF Restart, DataTyped
<1>13. ASSUME UNCHANGED vars PROVE DataTyped'
  BY <1>0, <1>13 DEF vars, memory, database, bounds, DataTyped
<1> QED
  BY <1>1, <1>2, <1>3, <1>5, <1>6, <1>7, <1>8, <1>9, <1>10, <1>11, <1>12,
     <1>13 DEF Next

\* Whatever the calls do, fail at or are interrupted by, the caches, the
\* tables and what is under way hold values of the steps the calls may take,
\* and a call is never past the end of its work.
THEOREM TypeCorrect == Spec => []TypeOK
<1>1. Init => ExclusionInv /\ ControlInv /\ DataTyped
  BY ExclusionInitially, ControlInitially, DataInitially
<1>2. ExclusionInv /\ ControlInv /\ DataTyped /\ [Next]_vars
        => (ExclusionInv /\ ControlInv /\ DataTyped)'
  BY ExclusionStep, ControlStep, DataStep
<1>3. ExclusionInv /\ ControlInv /\ DataTyped => TypeOK
  BY TypedParts DEF ExclusionInv, TypedInv
<1> QED
  BY <1>1, <1>2, <1>3, PTL DEF Spec

\* The part of it about values, and the part every step needs.
ValueInv ==
  /\ PendingShape /\ TableEarned /\ CacheBehind /\ RequestsGrow
  /\ AnswersTrue /\ LoadedCurrent
StoreInv ==
  /\ ExclusionInv /\ ControlInv /\ DataTyped
  /\ CallShape /\ FlightLine /\ FlightShape /\ ValueInv

\* A piece of work of such a call.
LEMMA WorkIs ==
  ASSUME SendersAndBatches, NEW c \in Calls, at[c] \in Nat \ {0}, HasWork(c)
  PROVE  /\ at[c] \in DOMAIN Work[c] /\ at[c] \in Nat
         /\ Key(c) = KeyAt(c, at[c]) /\ Key(c) \in Keys
         /\ \/ Op(c) = "cipher" /\ Key(c) \in Ratchets
            \/ Op(c) = "add" /\ Key(c) \in Unprocessed
BY WorkTyped DEF SendersAndBatches, Key, KeyAt, Op

\* The entries under way have a call and a batch.
LEMMA EntriesTyped ==
  ASSUME DataTyped
  PROVE  /\ Asked \subseteq Request /\ Answered \subseteq Response
         /\ \A e \in InFlight : e.call \in Calls /\ e.batch \in Batch
<1>1. Asked \subseteq Request
  BY DEF DataTyped, Asked
<1>2. Answered \subseteq Response
  BY DEF DataTyped, Answered
<1> QED
  BY <1>1, <1>2 DEF InFlight, Request, Response

\* A batch that is inside is there alone.
LEMMA BatchAlone ==
  ASSUME SendersAndBatches, ExclusionInv,
         NEW c \in inside, InZone(c)
  PROVE  inside = {c}
BY DEF SendersAndBatches, ExclusionInv, ZoneTypeOK, ZoneExclusion, InZone

\* Nothing is pending while a transaction is under way.
LEMMA NothingPending ==
  ASSUME SendersAndBatches, StoreInv, NEW e \in InFlight
  PROVE  pending = NoBatch
<1>1. e.call \in inside /\ phase[e.call] \in {"saving", "committing"}
  BY DEF StoreInv, FlightShape, FlightOf
<1>2. ASSUME NEW k \in Keys, pending[k] # NoValue PROVE FALSE
  <2>1. PICK c \in Calls : HeldBy(c, k)
    BY <1>2 DEF StoreInv, ValueInv, PendingShape
  <2>2. c = e.call
    BY <1>1, <2>1, BatchAlone DEF HeldBy, StoreInv
  <2> QED
    BY <1>1, <2>1, <2>2 DEF HeldBy, Working
<1> QED
  BY <1>2 DEF StoreInv, DataTyped, Batch, NoBatch

\* The entry that covers a key is of a call in the global zone that saves just
\* this, or of the one batch there is.
LEMMA CoverIs ==
  ASSUME SendersAndBatches, StoreInv,
         NEW e \in InFlight, NEW k \in Keys, Covers(e, k)
  PROVE  /\ e.call \in Calls /\ e.call \in inside
         /\ \/ InZone(e.call) /\ inside = {e.call}
            \/ /\ ~InZone(e.call)
               /\ phase[e.call] = "saving"
               /\ HasWork(e.call)
               /\ k = Key(e.call)
               /\ \/ Op(e.call) = "cipher" /\ k \in Ratchets
                       /\ Head(turn[k]) = e.call
                  \/ Op(e.call) = "add" /\ k \in Unprocessed
<1>1. /\ e.call \in inside
      /\ phase[e.call] \in {"saving", "committing"}
      /\ phase[e.call] = "saving" => k = Key(e.call)
  BY DEF StoreInv, FlightShape, FlightOf
<1>2. e.call \in Calls
  BY EntriesTyped DEF StoreInv
<1>3. CASE phase[e.call] = "saving"
  <2>1. ~InZone(e.call)
    BY <1>2, <1>3 DEF StoreInv, CallShape, ShapeOf
  <2>2. HasWork(e.call)
    BY <1>2, <1>3 DEF StoreInv, ControlInv, WorkLeft
  <2>3. \/ Op(e.call) = "cipher" /\ k \in Ratchets
        \/ Op(e.call) = "add" /\ k \in Unprocessed
    BY <1>1, <1>2, <1>3, <2>2, WorkIs DEF StoreInv, ControlInv
  <2>4. Op(e.call) = "cipher" => Head(turn[k]) = e.call
    BY <1>1, <1>2, <1>3 DEF StoreInv, ControlInv, TurnHeld, HasTurnNow
  <2> QED
    BY <1>1, <1>2, <1>3, <2>1, <2>2, <2>3, <2>4
<1>4. CASE phase[e.call] = "committing"
  <2>1. InZone(e.call)
    BY <1>2, <1>4 DEF StoreInv, CallShape, ShapeOf
  <2>2. inside = {e.call}
    BY <1>1, <2>1, BatchAlone DEF StoreInv
  <2> QED
    BY <1>1, <1>2, <2>1, <2>2
<1> QED
  BY <1>1, <1>3, <1>4

\* Two transactions under way do not write the same row.
LEMMA OneCovers ==
  ASSUME SendersAndBatches, StoreInv,
         NEW e \in InFlight, NEW f \in InFlight, NEW k \in Keys,
         Covers(e, k), Covers(f, k)
  PROVE  e.call = f.call
<1>1. /\ e.call \in Calls /\ e.call \in inside
      /\ \/ InZone(e.call) /\ inside = {e.call}
         \/ /\ ~InZone(e.call)
            /\ phase[e.call] = "saving"
            /\ HasWork(e.call)
            /\ k = Key(e.call)
            /\ \/ Op(e.call) = "cipher" /\ k \in Ratchets
                    /\ Head(turn[k]) = e.call
               \/ Op(e.call) = "add" /\ k \in Unprocessed
  BY CoverIs
<1>2. /\ f.call \in Calls /\ f.call \in inside
      /\ \/ InZone(f.call) /\ inside = {f.call}
         \/ /\ ~InZone(f.call)
            /\ phase[f.call] = "saving"
            /\ HasWork(f.call)
            /\ k = Key(f.call)
            /\ \/ Op(f.call) = "cipher" /\ k \in Ratchets
                    /\ Head(turn[k]) = f.call
               \/ Op(f.call) = "add" /\ k \in Unprocessed
  BY CoverIs
<1>3. Unprocessed \cap Ratchets = {}
  BY DEF SendersAndBatches
<1>4. CASE InZone(e.call) \/ InZone(f.call)
  BY <1>1, <1>2, <1>4
<1>5. CASE ~InZone(e.call) /\ ~InZone(f.call) /\ k \in Ratchets
  BY <1>1, <1>2, <1>3, <1>5
<1>6. CASE ~InZone(e.call) /\ ~InZone(f.call) /\ k \in Unprocessed
  <2>1. /\ at[e.call] \in DOMAIN Work[e.call] /\ KeyAt(e.call, at[e.call]) = k
        /\ at[f.call] \in DOMAIN Work[f.call] /\ KeyAt(f.call, at[f.call]) = k
    BY <1>1, <1>2, <1>6, WorkIs DEF StoreInv, ControlInv
  <2> QED
    BY <1>1, <1>2, <1>6, <2>1 DEF SendersAndBatches
<1> QED
  BY <1>1, <1>2, <1>4, <1>5, <1>6

\* The caches of a key are current unless an answer is on its way.
LEMMA UncoveredCurrent ==
  ASSUME StoreInv, NEW k \in Keys, \A e \in InFlight : ~Covers(e, k)
  PROVE  /\ cache[k] = table[k]
         /\ table[k] \subseteq Visible(k)
<1>1. cache[k] = table[k]
  BY DEF StoreInv, ValueInv, CacheBehind, InFlight
<1>2. pending[k] # NoValue => table[k] \subseteq pending[k]
  BY DEF StoreInv, ValueInv, PendingShape, HeldBy
<1> QED
  BY <1>1, <1>2 DEF Visible

\* Whoever has the turn on a session queue finds nothing of it under way.
LEMMA TurnUncovered ==
  ASSUME SendersAndBatches, StoreInv,
         NEW c \in Calls, phase[c] \in {"queued", "using"}, HasTurn(c)
  PROVE  /\ HasWork(c) /\ Key(c) \in Ratchets /\ c \in inside
         /\ \A e \in InFlight : ~Covers(e, Key(c))
<1>1. HasWork(c) /\ c \in inside /\ Op(c) = "cipher"
  BY DEF StoreInv, ControlInv, WorkLeft, CallShape, ShapeOf
<1>2. Key(c) \in Ratchets /\ Key(c) \in Keys
  BY <1>1, WorkIs DEF StoreInv, ControlInv
<1>3. ASSUME NEW e \in InFlight, Covers(e, Key(c)) PROVE FALSE
  <2>1. e.call # c
    BY DEF StoreInv, FlightShape, FlightOf
  <2>2. /\ e.call \in inside
        /\ \/ inside = {e.call}
           \/ /\ \/ Head(turn[Key(c)]) = e.call
                 \/ Key(c) \in Unprocessed
    BY <1>2, <1>3, CoverIs
  <2> QED
    BY <1>1, <1>2, <2>1, <2>2 DEF HasTurn, SendersAndBatches
<1> QED
  BY <1>1, <1>2, <1>3

\* The row of a message that was not added yet does not exist.
LEMMA AddedOnce ==
  ASSUME SendersAndBatches, StoreInv, NEW c \in Calls, Ready(c, "add")
  PROVE  /\ \A d \in Calls : Own(d, Key(c)) = {}
         /\ table[Key(c)] = {} /\ pending[Key(c)] = NoValue
         /\ \A e \in InFlight : ~Covers(e, Key(c))
<1>1. HasWork(c) /\ Op(c) = "add" /\ phase[c] = "body"
  BY DEF Ready
<1>2. /\ at[c] \in DOMAIN Work[c] /\ at[c] \in Nat /\ Key(c) = KeyAt(c, at[c])
      /\ Key(c) \in Unprocessed /\ Key(c) \in Keys
  BY <1>1, WorkIs DEF StoreInv, ControlInv
<1>3. \A d \in Calls : Own(d, Key(c)) = {}
  <2>1. SUFFICES ASSUME NEW d \in Calls, NEW n \in written[d],
                        KeyAt(d, n) = Key(c)
                 PROVE  FALSE
    BY DEF Own
  <2>2. n \in DOMAIN Work[d]
    BY <2>1 DEF StoreInv, CallShape, ShapeOf
  <2>3. d = c /\ n = at[c]
    BY <1>2, <2>1, <2>2 DEF SendersAndBatches
  <2>4. n < at[c]
    BY <1>1, <2>3 DEF StoreInv, CallShape, ShapeOf, Working
  <2> QED
    BY <1>2, <2>3, <2>4
<1>4. table[Key(c)] = {}
  BY <1>2, <1>3 DEF StoreInv, ValueInv, TableEarned
<1>5. pending[Key(c)] = NoValue
  BY <1>2, <1>3 DEF StoreInv, ValueInv, PendingShape, HeldBy
<1>6. \A e \in InFlight : ~Covers(e, Key(c))
  BY <1>2, <1>3, EntriesTyped DEF StoreInv, FlightShape, FlightOf
<1> QED
  BY <1>3, <1>4, <1>5, <1>6

\* What is saved is what was there, with the step of the call added.
LEMMA SavesGrow ==
  ASSUME SendersAndBatches, StoreInv, NEW c \in Calls, Store(c) \/ Add(c)
  PROVE  /\ c \in inside /\ HasWork(c) /\ phase[c] \in Working
         /\ at[c] \in DOMAIN Work[c] /\ at[c] \in Nat /\ at[c] \notin written[c]
         /\ Key(c) \in Keys /\ KeyAt(c, at[c]) = Key(c)
         /\ \A e \in InFlight : ~Covers(e, Key(c))
         /\ cache[Key(c)] = table[Key(c)]
         /\ table[Key(c)] \subseteq Visible(Key(c))
         /\ Visible(Key(c)) \subseteq table[Key(c)] \cup Own(c, Key(c))
         /\ Save(c, Visible(Key(c)) \cup {Step(c)})
         /\ UNCHANGED <<zoneVars, loaded, cache, table, answers, bounds>>
         /\ Op(c) = "cipher" => Visible(Key(c)) = loaded[c]
<1>1. /\ c \in inside /\ HasWork(c) /\ phase[c] \in Working
      /\ Op(c) = "cipher" => phase[c] = "using"
      /\ Op(c) # "cipher" => Ready(c, "add")
  <2>1. CASE Store(c)
    BY <2>1 DEF Store, StoreInv, ControlInv, WorkLeft, CallShape, ShapeOf,
                Working
  <2>2. CASE Add(c)
    BY <2>2 DEF Add, Ready, Working
  <2> QED
    BY <2>1, <2>2
<1>2. /\ at[c] \in DOMAIN Work[c] /\ at[c] \in Nat
      /\ Key(c) \in Keys /\ KeyAt(c, at[c]) = Key(c)
  BY <1>1, WorkIs DEF StoreInv, ControlInv
<1>3. at[c] \notin written[c]
  BY <1>1, <1>2 DEF StoreInv, CallShape, ShapeOf
<1>4. Op(c) = "cipher" => HasTurn(c)
  BY <1>1 DEF StoreInv, ControlInv, TurnHeld, HasTurnNow, HasTurn
<1>5. \A e \in InFlight : ~Covers(e, Key(c))
  BY <1>1, <1>4, TurnUncovered, AddedOnce
<1>6. cache[Key(c)] = table[Key(c)] /\ table[Key(c)] \subseteq Visible(Key(c))
  BY <1>2, <1>5, UncoveredCurrent
<1>7. Visible(Key(c)) \subseteq table[Key(c)] \cup Own(c, Key(c))
  <2>1. CASE pending[Key(c)] = NoValue
    BY <1>6, <2>1 DEF Visible
  <2>2. CASE pending[Key(c)] # NoValue
    <3>1. PICK d \in Calls : HeldBy(d, Key(c))
      BY <1>2, <2>2 DEF StoreInv, ValueInv, PendingShape
    <3>2. d = c
      BY <1>1, <3>1, BatchAlone DEF StoreInv, HeldBy
    <3> QED
      BY <2>2, <3>1, <3>2 DEF HeldBy, Visible
  <2> QED
    BY <2>1, <2>2
<1>8. CASE Store(c)
  <2>1. Op(c) = "cipher" /\ loaded[c] = Visible(Key(c))
    BY <1>8 DEF Store, StoreInv, ValueInv, LoadedCurrent, CallShape, ShapeOf
  <2>2. Save(c, loaded[c] \cup {Step(c)})
          /\ UNCHANGED <<zoneVars, loaded, cache, table, answers, bounds>>
    BY <1>8 DEF Store
  <2> QED
    BY <1>1, <1>2, <1>3, <1>5, <1>6, <1>7, <2>1, <2>2
<1>9. CASE Add(c)
  <2>1. Ready(c, "add") /\ Op(c) # "cipher"
    BY <1>9 DEF Add, Ready
  <2>2. Visible(Key(c)) = {}
    BY <1>6, <2>1, AddedOnce DEF Visible
  <2>3. Save(c, {Step(c)})
          /\ UNCHANGED <<zoneVars, loaded, cache, table, answers, bounds>>
    BY <1>9 DEF Add
  <2>4. Visible(Key(c)) \cup {Step(c)} = {Step(c)}
    BY <2>2
  <2> QED
    BY <1>1, <1>2, <1>3, <1>5, <1>6, <1>7, <2>1, <2>3, <2>4
<1> QED
  BY <1>8, <1>9

\* The calls that are inside stay there until they leave.
LEMMA OthersStay ==
  ASSUME NEW c, Leave(c) \/ Enter(c) \/ UNCHANGED zoneVars,
         NEW d \in inside, d # c
  PROVE  d \in inside'
BY DEF Leave, Enter, zoneVars

\* The calls of the application do these things only.
LEMMA NoArchives ==
  ASSUME SendersAndBatches, StoreInv, NEW c \in Calls
  PROVE  /\ ~Archive(c) /\ ~Remove(c) /\ ~Purge(c) /\ ~Removed(c)
<1>1. \A op \in {"archive", "remove", "purge"} : ~Ready(c, op)
  BY WorkIs DEF StoreInv, ControlInv, Ready
<1>2. phase[c] # "removing"
  BY DEF StoreInv, CallShape, ShapeOf
<1> QED
  BY <1>1, <1>2 DEF Archive, Remove, Purge, Removed

\* What a call does by itself, or does with the answer it gets.
Settles(c) ==
  /\ Answer /\ c = Head(answers).call
  /\ Saved(c) \/ Committed(c)
Acts(c) ==
  \/ Call(c) \/ Queue(c) \/ Start(c) \/ Store(c) \/ CipherFails(c) \/ Add(c)
  \/ BodyThrows(c) \/ Commit(c) \/ End(c) \/ Settles(c)

\* A step is one of a call, of the database worker, or a restart.
LEMMA StepKinds ==
  ASSUME SendersAndBatches, StoreInv, [Next]_vars
  PROVE  \/ \E c \in Calls : Acts(c)
         \/ DbExecute \/ DbFails \/ Restart \/ UNCHANGED vars
<1>1. CASE Answer
  <2>1. Head(answers).call \in Calls
    BY <1>1, HeadsTyped DEF Answer, StoreInv
  <2>2. Settles(Head(answers).call)
    BY <1>1, <2>1, NoArchives DEF Answer, Settles
  <2> QED
    BY <2>1, <2>2 DEF Acts
<1>2. CASE ~Answer
  BY <1>2, NoArchives DEF Next, Acts
<1> QED
  BY <1>1, <1>2

\* Such a step touches nothing of the other calls.
Untouched(d) ==
  /\ phase'[d] = phase[d] /\ at'[d] = at[d] /\ written'[d] = written[d]
  /\ loaded'[d] = loaded[d]
  /\ d \in inside => d \in inside'
\* See Untouched.
LEMMA OthersUntouched ==
  ASSUME StoreInv, NEW c \in Calls, Acts(c),
         NEW d \in Calls, d # c
  PROVE  Untouched(d)
<1>0. /\ phase \in [Calls -> Phases] /\ at \in [Calls -> Nat \ {0}]
      /\ written \in [Calls -> SUBSET Nat]
      /\ loaded \in [Calls -> Values]
  BY DEF StoreInv, ControlInv, DataTyped
<1>1. \A p : To(c, p) => phase'[d] = phase[d]
  BY <1>0 DEF To
<1>2. (UNCHANGED at \/ at' = [at EXCEPT ![c] = @ + 1]) => at'[d] = at[d]
  BY <1>0
<1>3. \A v : Save(c, v) => /\ phase'[d] = phase[d] /\ at'[d] = at[d]
                           /\ written'[d] = written[d]
  BY <1>0, <1>1, <1>2 DEF Save, Done
<1>4. CASE Call(c)
  BY <1>4, <1>1, OthersStay DEF Call, Untouched
<1>5. CASE Queue(c)
  BY <1>5, <1>1, OthersStay DEF Queue, Untouched
<1>6. CASE Start(c)
  <2>1. loaded'[d] = loaded[d]
    BY <1>0, <1>6 DEF Start
  <2> QED
    BY <1>6, <1>1, <2>1, OthersStay DEF Start, Untouched
<1>7. CASE Store(c)
  BY <1>7, <1>3, OthersStay DEF Store, Untouched
<1>8. CASE CipherFails(c)
  BY <1>8, <1>1, <1>2, OthersStay DEF CipherFails, Done, Reject, Untouched
<1>9. CASE Add(c)
  BY <1>9, <1>3, OthersStay DEF Add, Untouched
<1>10. CASE BodyThrows(c)
  BY <1>10, <1>1, OthersStay DEF BodyThrows, Reject, Untouched
<1>11. CASE Commit(c) \/ End(c)
  BY <1>11, <1>1, OthersStay DEF Commit, End, Untouched
<1>12. CASE Settles(c)
  <2>1. UNCHANGED <<loaded, written>>
    BY <1>12 DEF Settles, Answer
  <2>2. CASE Saved(c)
    BY <2>1, <2>2, <1>1, <1>2, OthersStay DEF Saved, Done, Reject, Untouched
  <2>3. CASE Committed(c)
    BY <2>1, <2>3, <1>1, OthersStay DEF Committed, Untouched
  <2> QED
    BY <1>12, <2>2, <2>3 DEF Settles
<1> QED
  BY <1>4, <1>5, <1>6, <1>7, <1>8, <1>9, <1>10, <1>11, <1>12 DEF Acts

\* Inside the global zone nothing is pending.
LEMMA GlobalPending ==
  ASSUME SendersAndBatches, StoreInv, NEW c \in inside, ~InZone(c)
  PROVE  pending = NoBatch
<1>1. ASSUME NEW k \in Keys, pending[k] # NoValue PROVE FALSE
  <2>1. PICK d \in Calls : HeldBy(d, k)
    BY <1>1 DEF StoreInv, ValueInv, PendingShape
  <2> QED
    BY <2>1, BatchAlone DEF HeldBy, StoreInv
<1> QED
  BY <1>1 DEF StoreInv, DataTyped, Batch, NoBatch

\* What is pending is what the call that commits it wrote.
LEMMA CommitsOwn ==
  ASSUME SendersAndBatches, StoreInv, NEW c \in Calls, Commit(c)
  PROVE  /\ InZone(c) /\ c \in inside /\ phase[c] = "body"
         /\ \A k \in Keys : pending[k] # NoValue => HeldBy(c, k)
<1>1. inside = {c} /\ pending # NoBatch /\ phase[c] = "body"
  BY DEF Commit, BodyEnded
<1>2. \A k \in Keys : pending[k] # NoValue => HeldBy(c, k)
  BY <1>1 DEF StoreInv, ValueInv, PendingShape, HeldBy
<1>3. \E k \in Keys : pending[k] # NoValue
  BY <1>1 DEF StoreInv, DataTyped, Batch, NoBatch
<1> QED
  BY <1>1, <1>2, <1>3 DEF HeldBy

\* Every step keeps CallShape.
LEMMA ShapeStep ==
  ASSUME SendersAndBatches, StoreInv, [Next]_vars PROVE CallShape'
<1>0. /\ phase \in [Calls -> Phases] /\ at \in [Calls -> Nat \ {0}]
      /\ written \in [Calls -> SUBSET Nat]
  BY DEF StoreInv, ControlInv, DataTyped
<1>1. ASSUME NEW c \in Calls, Acts(c) PROVE CallShape'
  <2>1. ASSUME NEW d \in Calls, d # c PROVE ShapeOf(d)'
    <3>1. Untouched(d)
      BY <1>1, <2>1, OthersUntouched
    <3>2. Op(d)' = Op(d)
      BY <3>1 DEF Untouched, Op
    <3> QED
      BY <3>1, <3>2 DEF StoreInv, CallShape, ShapeOf, Untouched, InZone
  <2>g. SUFFICES ShapeOf(c)'
    BY <2>1 DEF CallShape
  <2>2. ShapeOf(c)
    BY DEF StoreInv, CallShape
  <2>s. \A p : To(c, p) => phase'[c] = p
    BY <1>0 DEF To
  <2>3. CASE Call(c)
    <3>1. phase'[c] = "body" /\ at' = at /\ written' = written
            /\ phase[c] = "idle"
      BY <2>3, <2>s DEF Call
    <3> QED
      BY <2>2, <3>1 DEF ShapeOf, Working, InZone
  <2>4. CASE Queue(c)
    <3>1. /\ phase'[c] = "queued" /\ at' = at /\ written' = written
          /\ phase[c] = "body" /\ c \in inside /\ inside' = inside
          /\ Op(c)' = "cipher"
      BY <2>4, <2>s DEF Queue, Ready, zoneVars, Op
    <3> QED
      BY <2>2, <3>1 DEF ShapeOf, Working, InZone
  <2>5. CASE Start(c)
    <3>1. /\ phase'[c] = "using" /\ at' = at /\ written' = written
          /\ phase[c] = "queued" /\ inside' = inside
          /\ Op(c)' = Op(c)
      BY <2>5, <2>s DEF Start, zoneVars, Op
    <3> QED
      BY <2>2, <3>1 DEF ShapeOf, Working, InZone
  <2>6. CASE Store(c) \/ Add(c)
    <3>1. /\ c \in inside /\ at[c] \in DOMAIN Work[c] /\ at[c] \in Nat
          /\ phase[c] \in Working
          /\ Save(c, Visible(Key(c)) \cup {Step(c)}) /\ UNCHANGED zoneVars
      BY <2>6, SavesGrow
    <3>2. written'[c] = written[c] \cup {at[c]} /\ inside' = inside
      BY <1>0, <3>1 DEF Save, zoneVars
    <3>3. \A n \in written[c] : n \in DOMAIN Work[c] /\ n < at[c] /\ n \in Nat
      BY <1>0, <2>2, <3>1 DEF ShapeOf
    <3>4. CASE ~InZone(c)
      <4>1. phase'[c] = "saving" /\ at' = at
        BY <2>s, <3>1, <3>4 DEF Save, InZone
      <4> QED
        BY <3>1, <3>2, <3>3, <3>4, <4>1 DEF ShapeOf, Working, InZone
    <3>5. CASE InZone(c)
      <4>1. phase'[c] = "body" /\ at'[c] = at[c] + 1
        BY <1>0, <2>s, <3>1, <3>5 DEF Save, Done, InZone
      <4> QED
        BY <3>1, <3>2, <3>3, <3>5, <4>1 DEF ShapeOf, Working, InZone
    <3> QED
      BY <3>4, <3>5
  <2>7. CASE CipherFails(c)
    <3>1. phase[c] = "using" /\ written' = written
      BY <2>7 DEF CipherFails
    <3>2. \/ phase'[c] = "body" /\ at'[c] = at[c] + 1
          \/ phase'[c] = "rejected" /\ at' = at
      BY <1>0, <2>7, <2>s DEF CipherFails, Done, Reject
    <3>3. \A n \in written[c] : n \in DOMAIN Work[c] /\ n < at[c] /\ n \in Nat
      BY <1>0, <2>2, <3>1 DEF ShapeOf, Working, InZone
    <3> QED
      BY <1>0, <3>1, <3>2, <3>3 DEF ShapeOf, Working, InZone
  <2>8. CASE BodyThrows(c)
    <3>1. phase'[c] = "rejected" /\ at' = at /\ written' = written
      BY <2>8, <2>s DEF BodyThrows, Reject
    <3> QED
      BY <2>2, <3>1 DEF ShapeOf, Working, InZone
  <2>9. CASE Commit(c)
    <3>1. /\ phase'[c] = "committing" /\ at' = at /\ written' = written
          /\ inside' = inside
      BY <2>9, <2>s DEF Commit, zoneVars
    <3> QED
      BY <2>2, <2>9, <3>1, CommitsOwn DEF ShapeOf, Working, InZone
  <2>10. CASE End(c)
    <3>1. phase'[c] = "resolved" /\ at' = at /\ written' = written
      BY <2>10, <2>s DEF End
    <3> QED
      BY <2>2, <3>1 DEF ShapeOf, Working, InZone
  <2>11. CASE Settles(c)
    <3>1. written' = written
      BY <2>11 DEF Settles, Answer
    <3>2. \/ phase'[c] = "body" /\ at'[c] = at[c] + 1
          \/ phase'[c] \in {"rejected", "resolved"} /\ at' = at
      <4>1. CASE Saved(c)
        BY <1>0, <4>1, <2>s DEF Saved, Done, Reject
      <4>2. CASE Committed(c)
        BY <1>0, <4>2, <2>s DEF Committed
      <4> QED
        BY <2>11, <4>1, <4>2 DEF Settles
    <3>3. \A n \in written[c] : n \in DOMAIN Work[c] /\ n <= at[c] /\ n \in Nat
      BY <1>0, <2>2 DEF ShapeOf
    <3> QED
      BY <1>0, <3>1, <3>2, <3>3 DEF ShapeOf, Working, InZone
  <2> QED
    BY <1>1, <2>3, <2>4, <2>5, <2>6, <2>7, <2>8, <2>9, <2>10, <2>11
    DEF Acts
<1>2. ASSUME DbExecute \/ DbFails \/ UNCHANGED vars PROVE CallShape'
  <2>1. UNCHANGED <<phase, at, written, inside>>
    BY <1>2 DEF DbExecute, DbFails, vars, zoneVars
  <2> QED
    BY <2>1 DEF StoreInv, CallShape, ShapeOf, Op, InZone
<1>3. ASSUME Restart PROVE CallShape'
  <2>1. UNCHANGED <<at, written>>
          /\ \A c \in Calls : IF phase[c] \in {"idle", "resolved", "rejected"}
                              THEN phase'[c] = phase[c] ELSE phase'[c] = "lost"
    BY <1>3 DEF Restart
  <2> QED
    BY <2>1 DEF StoreInv, CallShape, ShapeOf, Working
<1> QED
  BY <1>1, <1>2, <1>3, StepKinds

(***************************************************************************)
(* How the database worker's queues change, as sets.                       *)
(***************************************************************************)
LEMMA AskAdds ==
  ASSUME DataTyped, FlightLine, NEW c \in Calls, NEW b \in Batch,
         Ask(c, b), UNCHANGED answers,
         \A e \in InFlight : e.call # c
  PROVE  /\ Asked' = Asked \cup {[call |-> c, batch |-> b]}
         /\ Answered' = Answered
         /\ FlightLine'
<1> DEFINE r == [call |-> c, batch |-> b]
<1>1. requests \in Seq(Request) /\ r \in Request
  BY DEF DataTyped, Request
<1>2. requests' = Append(requests, r) /\ answers' = answers
  BY DEF Ask
<1>3. r.call = c
  OBVIOUS
<1> HIDE DEF r
<1>4. /\ Len(requests) + 1 \in DOMAIN requests'
      /\ requests'[Len(requests) + 1] = r
      /\ \A i \in DOMAIN requests : i \in DOMAIN requests'
                                    /\ requests'[i] = requests[i]
      /\ \A i \in DOMAIN requests' :
           i \in DOMAIN requests \/ (i = Len(requests) + 1 /\ i \notin DOMAIN requests)
  BY <1>1, <1>2, AppendKeeps
<1>5. Asked' = Asked \cup {r}
  BY <1>4 DEF Asked
<1>6. Answered' = Answered
  BY <1>2 DEF Answered
<1>7. \A i \in DOMAIN requests : requests[i].call # c
  BY DEF InFlight, Asked
<1>8. \A i, j \in DOMAIN requests' : requests'[i].call = requests'[j].call => i = j
  BY <1>3, <1>4, <1>7 DEF FlightLine
<1>9. \A e \in Asked', f \in Answered' : e.call # f.call
  BY <1>3, <1>5, <1>6 DEF FlightLine, InFlight
<1> QED
  BY <1>2, <1>5, <1>6, <1>8, <1>9 DEF FlightLine, r

\* The database worker moves the head of the requests to the answers.
LEMMA ReplyMoves ==
  ASSUME DataTyped, FlightLine, requests # <<>>, NEW ok \in BOOLEAN, Reply(ok)
  PROVE  LET h == Head(requests)
         IN /\ h \in Asked /\ h.call \in Calls /\ h.batch \in Batch
            /\ Asked' = {e \in Asked : e.call # h.call}
            /\ Answered' = Answered \cup
                 {[call |-> h.call, batch |-> h.batch, ok |-> ok]}
            /\ FlightLine'
<1> DEFINE h == Head(requests)
           a == [call |-> h.call, batch |-> h.batch, ok |-> ok]
<1>1. /\ requests \in Seq(Request) /\ answers \in Seq(Response)
      /\ h.call \in Calls /\ h.batch \in Batch
  BY HeadsTyped DEF DataTyped
<1>2. a \in Response
  BY <1>1 DEF Response
<1>3. requests' = Tail(requests) /\ answers' = Append(answers, a)
  BY DEF Reply
<1>4. /\ h = requests[1] /\ 1 \in DOMAIN requests
      /\ \A i \in DOMAIN Tail(requests) :
           i + 1 \in DOMAIN requests /\ Tail(requests)[i] = requests[i + 1]
      /\ \A i \in DOMAIN requests : i # 1 =>
           i - 1 \in DOMAIN Tail(requests) /\ Tail(requests)[i - 1] = requests[i]
  BY <1>1, TailShifts
<1>5. /\ Len(answers) + 1 \in DOMAIN answers'
      /\ answers'[Len(answers) + 1] = a
      /\ \A i \in DOMAIN answers : i \in DOMAIN answers' /\ answers'[i] = answers[i]
      /\ \A i \in DOMAIN answers' :
           i \in DOMAIN answers \/ (i = Len(answers) + 1 /\ i \notin DOMAIN answers)
  BY <1>1, <1>2, <1>3, AppendKeeps
<1>6. a.call = h.call
  OBVIOUS
<1>n. \A i \in DOMAIN Tail(requests) : i \in Nat \ {0}
  BY <1>1
<1>m. DOMAIN requests \subseteq Nat
  BY <1>1
<1> HIDE DEF h, a
<1>7. h \in Asked
  BY <1>4 DEF Asked
<1>8. Asked' = {e \in Asked : e.call # h.call}
  <2>1. ASSUME NEW i \in DOMAIN requests'
        PROVE  requests'[i] \in Asked /\ requests'[i].call # h.call
    <3>1. i + 1 \in DOMAIN requests /\ requests'[i] = requests[i + 1] /\ i + 1 # 1
      BY <1>3, <1>4, <1>n, <2>1
    <3>2. requests[i + 1].call = requests[1].call => i + 1 = 1
      BY <1>4, <3>1 DEF FlightLine
    <3> QED
      BY <1>4, <3>1, <3>2 DEF Asked
  <2>2. ASSUME NEW i \in DOMAIN requests, requests[i].call # h.call
        PROVE  requests[i] \in Asked'
    BY <1>3, <1>4, <2>2 DEF Asked
  <2> QED
    BY <2>1, <2>2 DEF Asked
<1>9. Answered' = Answered \cup {a}
  BY <1>5 DEF Answered
<1>10. \A i, j \in DOMAIN requests' : requests'[i].call = requests'[j].call => i = j
  <2>1. SUFFICES ASSUME NEW i \in DOMAIN requests', NEW j \in DOMAIN requests',
                        requests'[i].call = requests'[j].call
                 PROVE  i = j
    OBVIOUS
  <2>2. i + 1 = j + 1
    BY <1>3, <1>4, <2>1 DEF FlightLine
  <2> QED
    BY <1>3, <1>n, <2>2
<1>11. \A i \in DOMAIN answers : answers[i].call # h.call
  BY <1>7 DEF FlightLine, Answered
<1>12. \A i, j \in DOMAIN answers' : answers'[i].call = answers'[j].call => i = j
  BY <1>5, <1>6, <1>11 DEF FlightLine
<1>13. \A e \in Asked', f \in Answered' : e.call # f.call
  BY <1>6, <1>8, <1>9 DEF FlightLine
<1> QED
  BY <1>1, <1>7, <1>8, <1>9, <1>10, <1>12, <1>13 DEF FlightLine, h, a

\* An answer that is delivered leaves the queue.
LEMMA AnswerTakes ==
  ASSUME DataTyped, FlightLine, answers # <<>>, answers' = Tail(answers),
         UNCHANGED requests
  PROVE  LET h == Head(answers)
         IN /\ h \in Answered /\ h.call \in Calls /\ h.batch \in Batch
            /\ h.ok \in BOOLEAN
            /\ Answered' = {e \in Answered : e.call # h.call}
            /\ Asked' = Asked
            /\ FlightLine'
<1> DEFINE h == Head(answers)
<1>1. /\ answers \in Seq(Response)
      /\ h.call \in Calls /\ h.batch \in Batch /\ h.ok \in BOOLEAN
  BY HeadsTyped DEF DataTyped
<1>4. /\ h = answers[1] /\ 1 \in DOMAIN answers
      /\ \A i \in DOMAIN Tail(answers) :
           i + 1 \in DOMAIN answers /\ Tail(answers)[i] = answers[i + 1]
      /\ \A i \in DOMAIN answers : i # 1 =>
           i - 1 \in DOMAIN Tail(answers) /\ Tail(answers)[i - 1] = answers[i]
  BY <1>1, TailShifts
<1>n. \A i \in DOMAIN Tail(answers) : i \in Nat \ {0}
  BY <1>1
<1> HIDE DEF h
<1>7. h \in Answered
  BY <1>4 DEF Answered
<1>8. Answered' = {e \in Answered : e.call # h.call}
  <2>1. ASSUME NEW i \in DOMAIN answers'
        PROVE  answers'[i] \in Answered /\ answers'[i].call # h.call
    <3>1. i + 1 \in DOMAIN answers /\ answers'[i] = answers[i + 1] /\ i + 1 # 1
      BY <1>4, <1>n, <2>1
    <3>2. answers[i + 1].call = answers[1].call => i + 1 = 1
      BY <1>4, <3>1 DEF FlightLine
    <3> QED
      BY <1>4, <3>1, <3>2 DEF Answered
  <2>2. ASSUME NEW i \in DOMAIN answers, answers[i].call # h.call
        PROVE  answers[i] \in Answered'
    BY <1>4, <2>2 DEF Answered
  <2> QED
    BY <2>1, <2>2 DEF Answered
<1>9. Asked' = Asked
  BY DEF Asked
<1>10. \A i, j \in DOMAIN answers' : answers'[i].call = answers'[j].call => i = j
  <2>1. SUFFICES ASSUME NEW i \in DOMAIN answers', NEW j \in DOMAIN answers',
                        answers'[i].call = answers'[j].call
                 PROVE  i = j
    OBVIOUS
  <2>2. i + 1 = j + 1
    BY <1>4, <2>1 DEF FlightLine
  <2> QED
    BY <1>n, <2>2
<1>13. \A e \in Asked', f \in Answered' : e.call # f.call
  BY <1>8, <1>9 DEF FlightLine
<1> QED
  BY <1>1, <1>7, <1>8, <1>9, <1>10, <1>13 DEF FlightLine, h

\* A call that works has nothing under way.
LEMMA NotInFlight ==
  ASSUME StoreInv, NEW c, phase[c] \notin {"saving", "committing"}
  PROVE  \A e \in InFlight : e.call # c
BY DEF StoreInv, FlightShape, FlightOf

\* The sets follow the queues.
LEMMA FlightsUnchanged ==
  ASSUME UNCHANGED <<requests, answers>>
  PROVE  /\ Asked' = Asked /\ Answered' = Answered /\ InFlight' = InFlight
         /\ FlightLine => FlightLine'
<1>1. Asked' = Asked /\ Answered' = Answered
  BY DEF Asked, Answered
<1> QED
  BY <1>1 DEF InFlight, FlightLine

\* What an acting call does to the queues: nothing, a request of its own, or
\* it takes its own answer.
LEMMA FlightMoves ==
  ASSUME SendersAndBatches, StoreInv, NEW c \in Calls, Acts(c)
  PROVE  /\ FlightLine'
         /\ \/ /\ ~Settles(c)
               /\ UNCHANGED <<requests, answers>>
               /\ Asked' = Asked /\ Answered' = Answered
               /\ \A e \in InFlight : e.call # c
               /\ ~Commit(c) /\ ~((Store(c) \/ Add(c)) /\ ~InZone(c))
            \/ /\ (Store(c) \/ Add(c)) /\ ~InZone(c) /\ ~Settles(c)
               /\ Answered' = Answered
               /\ Asked' = Asked \cup
                    {[call |-> c,
                      batch |-> Only(Key(c), Visible(Key(c)) \cup {Step(c)})]}
               /\ \A e \in InFlight : e.call # c
            \/ /\ Commit(c) /\ ~Settles(c)
               /\ Answered' = Answered
               /\ Asked' = Asked \cup {[call |-> c, batch |-> pending]}
               /\ \A e \in InFlight : e.call # c
            \/ /\ Settles(c)
               /\ Head(answers) \in Answered /\ Head(answers).call = c
               /\ Head(answers).batch \in Batch /\ Head(answers).ok \in BOOLEAN
               /\ Asked' = Asked
               /\ Answered' = {e \in Answered : e.call # c}
               /\ \A e \in InFlight' : e.call # c
<1>0. DataTyped /\ FlightLine
  BY DEF StoreInv
<1>1. CASE Settles(c)
  <2>1. answers # <<>> /\ answers' = Tail(answers) /\ UNCHANGED requests
          /\ c = Head(answers).call
    BY <1>1 DEF Settles, Answer
  <2>2. /\ Head(answers) \in Answered
        /\ Head(answers).batch \in Batch /\ Head(answers).ok \in BOOLEAN
        /\ Answered' = {e \in Answered : e.call # c}
        /\ Asked' = Asked
        /\ FlightLine'
    BY <1>0, <2>1, AnswerTakes
  <2>3. \A e \in InFlight' : e.call # c
    BY <1>0, <2>1, <2>2 DEF InFlight, FlightLine
  <2> QED
    BY <1>1, <2>1, <2>2, <2>3
<1>2. ASSUME ~Settles(c) PROVE phase[c] \notin {"saving", "committing"}
  BY <1>2 DEF Acts, Call, Queue, Ready, Start, Store, CipherFails, Add,
              BodyThrows, BodyEnded, Commit, End
<1>3. CASE Commit(c) /\ ~Settles(c)
  <2>1. Ask(c, pending) /\ UNCHANGED answers /\ pending \in Batch
    BY <1>0, <1>3 DEF Commit, DataTyped
  <2>2. \A e \in InFlight : e.call # c
    BY <1>2, <1>3, NotInFlight
  <2> QED
    BY <1>0, <1>3, <2>1, <2>2, AskAdds
<1>4. CASE (Store(c) \/ Add(c)) /\ ~InZone(c) /\ ~Settles(c)
  <2>1. /\ Save(c, Visible(Key(c)) \cup {Step(c)}) /\ UNCHANGED answers
        /\ c \in inside /\ Key(c) \in Keys /\ HasWork(c)
    BY <1>4, SavesGrow
  <2>2. pending = NoBatch
    BY <1>4, <2>1, GlobalPending
  <2> DEFINE b == Only(Key(c), Visible(Key(c)) \cup {Step(c)})
  <2>3. Ask(c, b)
    BY <1>4, <2>1, <2>2 DEF Save, InZone, Only
  <2>4. Visible(Key(c)) \in Values /\ Step(c) \in Steps
    BY <1>0, <2>1, WorkTyped DEF StoreInv, ControlInv, DataTyped, Visible, Batch
  <2>5. Visible(Key(c)) \cup {Step(c)} \in Values
    BY <2>4 DEF Values
  <2>6. b \in Batch
    BY <2>1, <2>5, BatchesTyped
  <2>7. \A e \in InFlight : e.call # c
    BY <1>2, <1>4, NotInFlight
  <2> HIDE DEF b
  <2>8. /\ FlightLine' /\ Answered' = Answered
        /\ Asked' = Asked \cup {[call |-> c, batch |-> b]}
    BY <1>0, <2>1, <2>3, <2>6, <2>7, AskAdds
  <2> QED
    BY <1>4, <2>7, <2>8 DEF b
<1>5. CASE ~Settles(c) /\ ~Commit(c) /\ ~((Store(c) \/ Add(c)) /\ ~InZone(c))
  <2>1. UNCHANGED <<requests, answers>>
    <3>1. CASE Store(c) \/ Add(c)
      <4>1. Save(c, Visible(Key(c)) \cup {Step(c)}) /\ UNCHANGED answers
        BY <3>1, SavesGrow
      <4> QED
        BY <1>5, <3>1, <4>1 DEF Save, InZone
    <3>2. CASE ~(Store(c) \/ Add(c))
      BY <1>5, <3>2 DEF Acts, Call, Queue, Start, CipherFails, BodyThrows, End,
                        database
    <3> QED
      BY <3>1, <3>2
  <2>2. \A e \in InFlight : e.call # c
    BY <1>2, <1>5, NotInFlight
  <2> QED
    BY <1>0, <1>5, <2>1, <2>2, FlightsUnchanged
<1> QED
  BY <1>1, <1>3, <1>4, <1>5

\* The steps a call has written only grow.
LEMMA OwnMoves ==
  ASSUME SendersAndBatches, StoreInv, NEW c \in Calls, Acts(c)
  PROVE  /\ \A d \in Calls, k \in Keys : Own(d, k) \subseteq Own(d, k)'
         /\ \A d \in Calls, k \in Keys : d # c => Own(d, k)' = Own(d, k)
         /\ Store(c) \/ Add(c) =>
              /\ written'[c] = written[c] \cup {at[c]}
              /\ \A k \in Keys : k = Key(c) => Step(c) \in Own(c, k)'
         /\ ~(Store(c) \/ Add(c)) => written' = written
<1>1. \A d \in Calls, k \in Keys : d # c => Own(d, k)' = Own(d, k)
  BY OthersUntouched DEF Untouched, Own
<1>2. CASE Store(c) \/ Add(c)
  <2>1. Save(c, Visible(Key(c)) \cup {Step(c)}) /\ KeyAt(c, at[c]) = Key(c)
    BY <1>2, SavesGrow
  <2>2. written'[c] = written[c] \cup {at[c]}
    BY <2>1 DEF Save, StoreInv, DataTyped
  <2>3. \A k \in Keys : Own(c, k) \subseteq Own(c, k)'
    BY <2>2 DEF Own
  <2>4. \A k \in Keys : k = Key(c) => Step(c) \in Own(c, k)'
    BY <2>1, <2>2 DEF Own, Step
  <2> QED
    BY <1>1, <1>2, <2>2, <2>3, <2>4
<1>3. CASE ~(Store(c) \/ Add(c))
  <2>1. written' = written
    BY <1>3 DEF Acts, Call, Queue, Start, CipherFails, BodyThrows, Commit, End,
                Settles, Answer
  <2> QED
    BY <1>1, <1>3, <2>1 DEF Own
<1> QED
  BY <1>2, <1>3

\* The memory and the tables, likewise.
LEMMA MemoryMoves ==
  ASSUME SendersAndBatches, StoreInv, NEW c \in Calls, Acts(c)
  PROVE  /\ table' = table
         /\ \/ pending' = pending
            \/ pending' = NoBatch /\ c \in inside
            \/ /\ (Store(c) \/ Add(c)) /\ InZone(c) /\ c \in inside
               /\ Key(c) \in Keys
               /\ pending' = [pending EXCEPT ![Key(c)] =
                                Visible(Key(c)) \cup {Step(c)}]
               /\ phase'[c] = "body"
         /\ \/ UNCHANGED cache
            \/ /\ Settles(c) /\ Head(answers).ok
               /\ cache' = Apply(cache, Head(answers).batch)
<1>1. CASE Store(c) \/ Add(c)
  <2>1. /\ Save(c, Visible(Key(c)) \cup {Step(c)})
        /\ UNCHANGED <<cache, table>>
        /\ c \in inside /\ Key(c) \in Keys
    BY <1>1, SavesGrow
  <2>2. CASE InZone(c)
    BY <1>1, <2>1, <2>2 DEF Save, InZone, Done, To, StoreInv, ControlInv
  <2>3. CASE ~InZone(c)
    BY <1>1, <2>1, <2>3 DEF Save, InZone
  <2> QED
    BY <2>1, <2>2, <2>3
<1>2. CASE Start(c)
  <2>1. Op(c) = "cipher"
    BY <1>2 DEF Start, StoreInv, CallShape, ShapeOf
  <2> QED
    BY <1>2, <2>1 DEF Start, database
<1>3. CASE CipherFails(c) \/ BodyThrows(c)
  <2>1. c \in inside
    BY <1>3 DEF CipherFails, BodyThrows, BodyEnded, StoreInv, CallShape, ShapeOf
  <2> QED
    BY <1>3, <2>1 DEF CipherFails, BodyThrows, Reject, database
<1>4. CASE Commit(c)
  BY <1>4 DEF Commit, BodyEnded
<1>5. CASE Call(c) \/ Queue(c) \/ End(c)
  BY <1>5 DEF Call, Queue, End, memory, database
<1>6. CASE Settles(c)
  <2>1. Head(answers) \in InFlight /\ Head(answers).call = c
    BY <1>6, FlightMoves DEF InFlight
  <2>2. c \in inside
    BY <2>1 DEF StoreInv, FlightShape, FlightOf
  <2>3. table' = table
    BY <1>6 DEF Settles, Answer
  <2>4. Cached(Head(answers)) /\ (pending' = pending \/ pending' = NoBatch)
    BY <1>6 DEF Settles, Saved, Committed, Reject
  <2> QED
    BY <1>6, <2>2, <2>3, <2>4 DEF Cached
<1> QED
  BY <1>1, <1>2, <1>3, <1>4, <1>5, <1>6 DEF Acts

\* A reply: who asked, and what becomes of the queues.
LEMMA DbMoves ==
  ASSUME SendersAndBatches, StoreInv, DbExecute \/ DbFails
  PROVE  LET h == Head(requests)
         IN /\ h \in Asked /\ h.call \in Calls /\ h.batch \in Batch
            /\ Asked' = {e \in Asked : e.call # h.call}
            /\ Answered' = Answered \cup
                 {[call |-> h.call, batch |-> h.batch,
                   ok |-> IF DbExecute THEN TRUE ELSE FALSE]}
            /\ FlightLine'
            /\ UNCHANGED <<zoneVars, phase, at, loaded, turn, pending, cache,
                           written>>
            /\ \A d \in Calls, k \in Keys : Own(d, k)' = Own(d, k)
            /\ IF DbExecute THEN table' = Apply(table, h.batch)
                            ELSE table' = table
<1> DEFINE h == Head(requests)
<1>1. UNCHANGED <<zoneVars, phase, at, loaded, turn, pending, cache, written>>
  BY DEF DbExecute, DbFails, memory
<1>2. \A d \in Calls, k \in Keys : Own(d, k)' = Own(d, k)
  BY <1>1 DEF Own
<1>3. requests # <<>> /\ DataTyped /\ FlightLine
  BY DEF DbExecute, DbFails, StoreInv
<1>4. CASE DbExecute
  <2>1. Reply(TRUE) /\ table' = Apply(table, h.batch)
    BY <1>4 DEF DbExecute
  <2> QED
    BY <1>1, <1>2, <1>3, <1>4, <2>1, ReplyMoves
<1>5. CASE ~DbExecute
  <2>1. Reply(FALSE) /\ table' = table
    BY <1>5 DEF DbFails
  <2> QED
    BY <1>1, <1>2, <1>3, <1>5, <2>1, ReplyMoves
<1> QED
  BY <1>4, <1>5

\* An entry stays as it is while its call is not touched.
LEMMA FlightOfKept ==
  ASSUME NEW e, FlightOf(e), Untouched(e.call),
         \A k \in Keys : Own(e.call, k)' = Own(e.call, k)
  PROVE  FlightOf(e)'
<1>1. Key(e.call)' = Key(e.call)
  BY DEF Untouched, Key
<1> QED
  BY <1>1 DEF FlightOf, Untouched, Covers

\* Every step keeps FlightLine and FlightShape.
LEMMA FlightStep ==
  ASSUME SendersAndBatches, StoreInv, [Next]_vars
  PROVE  FlightLine' /\ FlightShape'
<1>0. \A e \in InFlight : FlightOf(e) /\ e.call \in Calls
  BY EntriesTyped DEF StoreInv, FlightShape
<1>1. ASSUME NEW c \in Calls, Acts(c) PROVE FlightLine' /\ FlightShape'
  <2>1. FlightLine'
    BY <1>1, FlightMoves
  <2>2. ASSUME NEW e \in InFlight, e.call # c PROVE FlightOf(e)'
    <3>1. Untouched(e.call) /\ \A k \in Keys : Own(e.call, k)' = Own(e.call, k)
      BY <1>0, <1>1, <2>2, OthersUntouched, OwnMoves
    <3> QED
      BY <1>0, <3>1, FlightOfKept
  <2>3. CASE (Store(c) \/ Add(c)) /\ ~InZone(c) /\ ~Settles(c)
    <3>0. PICK r : r = [call |-> c,
                        batch |-> Only(Key(c), Visible(Key(c)) \cup {Step(c)})]
      OBVIOUS
    <3>1. InFlight' = InFlight \cup {r} /\ \A e \in InFlight : e.call # c
      BY <1>1, <2>3, <3>0, FlightMoves DEF InFlight, Commit, Store, Add, Ready,
         BodyEnded
    <3>2. /\ c \in inside /\ Save(c, Visible(Key(c)) \cup {Step(c)})
          /\ UNCHANGED zoneVars /\ Key(c) \in Keys
      BY <2>3, SavesGrow
    <3>3. phase'[c] = "saving" /\ at' = at /\ inside' = inside
      BY <2>3, <3>2 DEF Save, To, InZone, zoneVars, StoreInv, ControlInv
    <3>4. Key(c)' = Key(c)
      BY <3>3 DEF Key
    <3>5. \A k \in Keys : k = Key(c) => Own(c, k)' # {}
      BY <1>1, <2>3, OwnMoves
    <3>6. r.call = c /\ \A k \in Keys : Covers(r, k) => k = Key(c)
      BY <3>0, <3>2 DEF Covers, Only, NoBatch
    <3>7. FlightOf(r)'
      BY <3>2, <3>3, <3>4, <3>5, <3>6 DEF FlightOf, Covers
    <3> QED
      BY <2>1, <2>2, <3>1, <3>7 DEF FlightShape
  <2>4. CASE Commit(c)
    <3>0. PICK r : r = [call |-> c, batch |-> pending]
      OBVIOUS
    <3>1. /\ c \in inside /\ \A k \in Keys : pending[k] # NoValue => HeldBy(c, k)
          /\ phase'[c] = "committing" /\ inside' = inside
      BY <2>4, CommitsOwn DEF Commit, To, zoneVars, StoreInv, ControlInv
    <3>2. InFlight' = InFlight \cup {r} /\ \A e \in InFlight : e.call # c
      BY <1>1, <2>4, <3>0, <3>1, FlightMoves DEF InFlight, Commit, Store, Add,
         Ready, BodyEnded, Settles, Saved, Committed
    <3>3. r.call = c /\ \A k \in Keys : Covers(r, k) => Own(c, k) # {}
      BY <3>0, <3>1 DEF Covers, HeldBy
    <3>4. \A k \in Keys : Own(c, k) \subseteq Own(c, k)'
      BY <1>1, OwnMoves
    <3>5. FlightOf(r)'
      BY <3>1, <3>3, <3>4 DEF FlightOf, Covers
    <3> QED
      BY <2>1, <2>2, <3>2, <3>5 DEF FlightShape
  <2>5. CASE Settles(c)
    <3>1. InFlight' \subseteq InFlight /\ \A e \in InFlight' : e.call # c
      <4>1. ~Commit(c) /\ ~Store(c) /\ ~Add(c)
        BY <2>5 DEF Settles, Saved, Committed, Commit, Store, Add, Ready,
                    BodyEnded
      <4> QED
        BY <1>1, <2>5, <4>1, FlightMoves DEF InFlight
    <3> QED
      BY <2>1, <2>2, <3>1 DEF FlightShape
  <2>6. CASE ~Commit(c) /\ ~Settles(c) /\ ~((Store(c) \/ Add(c)) /\ ~InZone(c))
    <3>1. InFlight' = InFlight /\ \A e \in InFlight : e.call # c
      BY <1>1, <2>6, FlightMoves DEF InFlight
    <3> QED
      BY <2>1, <2>2, <3>1 DEF FlightShape
  <2> QED
    BY <2>3, <2>4, <2>5, <2>6
<1>2. ASSUME DbExecute \/ DbFails PROVE FlightLine' /\ FlightShape'
  <2>0. PICK h : h = Head(requests)
    OBVIOUS
  <2>a. PICK a : a = [call |-> h.call, batch |-> h.batch,
                      ok |-> IF DbExecute THEN TRUE ELSE FALSE]
    OBVIOUS
  <2>1. /\ h \in InFlight /\ InFlight' \subseteq InFlight \cup {a}
        /\ FlightLine'
        /\ UNCHANGED <<zoneVars, phase, at, loaded, written>>
        /\ \A d \in Calls, k \in Keys : Own(d, k)' = Own(d, k)
    BY <1>2, <2>0, <2>a, DbMoves DEF InFlight
  <2>2. \A d : Untouched(d)
    BY <2>1 DEF Untouched, zoneVars
  <2>3. \A e \in InFlight : FlightOf(e)'
    BY <1>0, <2>1, <2>2, FlightOfKept
  <2>4. a.call = h.call /\ a.batch = h.batch
    BY <2>a
  <2>5. FlightOf(h)'
    BY <2>1, <2>3
  <2>6. FlightOf(a)'
    BY <2>4, <2>5 DEF FlightOf, Covers
  <2> QED
    BY <2>1, <2>3, <2>6 DEF FlightShape
<1>3. ASSUME Restart PROVE FlightLine' /\ FlightShape'
  <2>1. Asked' = {} /\ Answered' = {} /\ requests' = <<>> /\ answers' = <<>>
    BY <1>3 DEF Restart, Asked, Answered
  <2> QED
    BY <2>1 DEF FlightLine, FlightShape, InFlight
<1>4. ASSUME UNCHANGED vars PROVE FlightLine' /\ FlightShape'
  <2>1. UNCHANGED <<requests, answers, phase, at, loaded, written, zoneVars>>
    BY <1>4 DEF vars, database
  <2>2. InFlight' = InFlight /\ FlightLine'
    BY <2>1, FlightsUnchanged DEF StoreInv
  <2>3. \A d : Untouched(d)
    BY <2>1 DEF Untouched, zoneVars
  <2>4. \A d, k : Own(d, k)' = Own(d, k)
    BY <2>1 DEF Own
  <2> QED
    BY <1>0, <2>2, <2>3, <2>4, FlightOfKept DEF FlightShape
<1> QED
  BY <1>1, <1>2, <1>3, <1>4, StepKinds

\* Whether a key is covered does not change while an entry is there; applying
\* a batch changes the keys it covers.
LEMMA Applied ==
  ASSUME NEW f, NEW e, NEW k \in Keys
  PROVE  Apply(f, e.batch)[k] = IF Covers(e, k) THEN e.batch[k] ELSE f[k]
BY DEF Apply, Covers

\* Every step keeps PendingShape.
LEMMA PendingStep ==
  ASSUME SendersAndBatches, StoreInv, [Next]_vars PROVE PendingShape'
<1>1. ASSUME NEW c \in Calls, Acts(c) PROVE PendingShape'
  <2>1. SUFFICES ASSUME NEW k \in Keys, pending'[k] # NoValue
                 PROVE  \E d \in Calls : HeldBy(d, k)'
    BY DEF PendingShape
  <2>2. /\ table' = table
        /\ \A d \in Calls : Own(d, k) \subseteq Own(d, k)'
    BY <1>1, MemoryMoves, OwnMoves
  <2>3. ASSUME pending'[k] = pending[k], UNCHANGED cache,
               NEW d \in Calls, HeldBy(d, k),
               d \in inside', phase'[d] \in Working
        PROVE  HeldBy(d, k)'
    BY <2>2, <2>3 DEF HeldBy, InZone
  <2>4. ASSUME NEW d \in Calls, HeldBy(d, k)
        PROVE  inside = {d} /\ InFlight = {}
    <3>1. inside = {d}
      BY <2>4, BatchAlone DEF HeldBy, StoreInv
    <3>2. \A e \in InFlight : FALSE
      <4>1. ASSUME NEW e \in InFlight PROVE e.call \in inside
                /\ phase[e.call] \in {"saving", "committing"}
        BY DEF StoreInv, FlightShape, FlightOf
      <4> QED
        BY <2>4, <3>1, <4>1 DEF HeldBy, Working
    <3> QED
      BY <3>1, <3>2
  <2>n. ~(pending' = NoBatch)
    BY <2>1 DEF NoBatch
  <2>5. CASE pending' = pending
    <3>1. PICK d \in Calls : HeldBy(d, k)
      BY <2>1, <2>5 DEF StoreInv, ValueInv, PendingShape
    <3>2. inside = {d} /\ InFlight = {}
      BY <2>4, <3>1
    <3>3. ~Settles(c)
      BY <1>1, <3>2, FlightMoves DEF InFlight
    <3>4. UNCHANGED cache
      BY <1>1, <3>3, MemoryMoves
    <3>5. CASE c # d
      BY <1>1, <2>3, <2>5, <3>1, <3>4, <3>5, OthersUntouched DEF HeldBy, Untouched
    <3>6. CASE c = d
      <4>1. phase[c] \in Working /\ InZone(c) /\ inside = {c}
              /\ pending # NoBatch
        BY <2>1, <2>5, <3>1, <3>2, <3>6 DEF HeldBy, NoBatch
      <4>2. ~Call(c) /\ ~End(c) /\ ~BodyThrows(c) /\ ~Commit(c)
        BY <2>1, <2>5, <2>n, <4>1 DEF Working, Call, End, BodyThrows, Commit, Reject
      <4>p. \A p : To(c, p) => phase'[c] = p
        BY DEF To, StoreInv, ControlInv
      <4>3. CASE Queue(c) \/ Start(c)
        <5>1. phase'[c] \in Working /\ inside' = inside
          BY <4>3, <4>p DEF Queue, Start, zoneVars, Working
        <5> QED
          BY <2>3, <2>5, <3>1, <3>4, <3>6, <4>1, <5>1
      <4>4. CASE CipherFails(c)
        <5>1. phase'[c] = "body" /\ inside' = inside
          BY <4>4, <4>p, <4>1 DEF CipherFails, Done, zoneVars, InZone
        <5> QED
          BY <2>3, <2>5, <3>1, <3>4, <3>6, <4>1, <5>1 DEF Working
      <4>5. CASE Store(c) \/ Add(c)
        <5>1. Save(c, Visible(Key(c)) \cup {Step(c)}) /\ UNCHANGED zoneVars
          BY <4>5, SavesGrow
        <5>2. phase'[c] = "body" /\ inside' = inside
          BY <4>1, <4>p, <5>1 DEF Save, Done, zoneVars, InZone
        <5> QED
          BY <2>3, <2>5, <3>1, <3>4, <3>6, <4>1, <5>2 DEF Working
      <4> QED
        BY <1>1, <3>3, <4>2, <4>3, <4>4, <4>5 DEF Acts
    <3> QED
      BY <3>5, <3>6
  <2>6. CASE /\ (Store(c) \/ Add(c)) /\ InZone(c) /\ c \in inside
             /\ Key(c) \in Keys
             /\ pending' = [pending EXCEPT ![Key(c)] =
                              Visible(Key(c)) \cup {Step(c)}]
             /\ phase'[c] = "body"
    <3>1. /\ cache[Key(c)] = table[Key(c)]
          /\ table[Key(c)] \subseteq Visible(Key(c))
          /\ Visible(Key(c)) \subseteq table[Key(c)] \cup Own(c, Key(c))
          /\ UNCHANGED <<zoneVars, cache>>
          /\ phase[c] \in Working
      BY <2>6, SavesGrow
    <3>2. c \in inside' /\ phase'[c] \in Working
      BY <2>6, <3>1 DEF zoneVars, Working
    <3>3. CASE k = Key(c)
      <4>1. pending'[k] = Visible(k) \cup {Step(c)}
        BY <2>6, <3>3 DEF StoreInv, DataTyped, Batch
      <4>2. Step(c) \in Own(c, k)'
        BY <1>1, <2>6, <3>3, OwnMoves
      <4>3. /\ table'[k] \subseteq pending'[k] /\ cache'[k] = table'[k]
            /\ pending'[k] \subseteq table'[k] \cup Own(c, k)'
        BY <2>2, <3>1, <3>3, <4>1, <4>2
      <4> QED
        BY <2>6, <3>2, <4>2, <4>3 DEF HeldBy, InZone
    <3>4. CASE k # Key(c)
      <4>1. pending'[k] = pending[k]
        BY <2>6, <3>4
      <4>2. PICK d \in Calls : HeldBy(d, k)
        BY <2>1, <4>1 DEF StoreInv, ValueInv, PendingShape
      <4>3. d = c
        BY <2>4, <2>6, <4>2
      <4> QED
        BY <2>3, <3>1, <3>2, <4>1, <4>2, <4>3
    <3> QED
      BY <3>3, <3>4
  <2> QED
    BY <1>1, <2>n, <2>5, <2>6, MemoryMoves
<1>2. ASSUME DbExecute \/ DbFails PROVE PendingShape'
  <2>1. Head(requests) \in InFlight /\ pending' = pending
    BY <1>2, DbMoves DEF InFlight
  <2>2. pending' = NoBatch
    BY <2>1, NothingPending
  <2> QED
    BY <2>2 DEF PendingShape, NoBatch
<1>3. ASSUME Restart PROVE PendingShape'
  BY <1>3 DEF Restart, PendingShape, NoBatch
<1>4. ASSUME UNCHANGED vars PROVE PendingShape'
  <2>1. UNCHANGED <<pending, cache, table, phase, written, inside>>
    BY <1>4 DEF vars, memory, database, zoneVars
  <2> QED
    BY <2>1 DEF StoreInv, ValueInv, PendingShape, HeldBy, InZone, Own
<1> QED
  BY <1>1, <1>2, <1>3, <1>4, StepKinds

\* Every step keeps TableEarned, and no row loses a step.
LEMMA TableStep ==
  ASSUME SendersAndBatches, StoreInv, [Next]_vars
  PROVE  /\ TableEarned'
         /\ \A k \in Keys : table[k] \subseteq table'[k]
<1>0. TableEarned
  BY DEF StoreInv, ValueInv
<1>1. ASSUME NEW c \in Calls, Acts(c)
      PROVE  TableEarned' /\ table' = table
  <2>1. table' = table /\ \A d \in Calls, k \in Keys : Own(d, k) \subseteq Own(d, k)'
    BY <1>1, MemoryMoves, OwnMoves
  <2> QED
    BY <1>0, <2>1 DEF TableEarned
<1>2. ASSUME DbExecute \/ DbFails
      PROVE  /\ TableEarned'
             /\ \A k \in Keys : table[k] \subseteq table'[k]
  <2>0. PICK h : h = Head(requests)
    OBVIOUS
  <2>1. /\ h \in Asked /\ h.call \in Calls
        /\ \A d \in Calls, k \in Keys : Own(d, k)' = Own(d, k)
        /\ table' = Apply(table, h.batch) \/ table' = table
    BY <1>2, <2>0, DbMoves
  <2>2. ASSUME NEW k \in Keys
        PROVE  /\ table[k] \subseteq table'[k]
               /\ table'[k] \subseteq table[k] \cup Own(h.call, k)
    <3>1. CASE table' = table
      BY <3>1
    <3>2. CASE table' = Apply(table, h.batch)
      <4>1. table'[k] = IF Covers(h, k) THEN h.batch[k] ELSE table[k]
        BY <3>2, Applied
      <4>2. Covers(h, k) => /\ table[k] \subseteq h.batch[k]
                            /\ h.batch[k] \subseteq table[k] \cup Own(h.call, k)
        BY <2>1 DEF StoreInv, ValueInv, RequestsGrow
      <4> QED
        BY <4>1, <4>2
    <3> QED
      BY <2>1, <3>1, <3>2
  <2> QED
    BY <1>0, <2>1, <2>2 DEF TableEarned
<1>3. ASSUME Restart \/ UNCHANGED vars
      PROVE  TableEarned' /\ table' = table
  <2>1. UNCHANGED <<table, written>>
    BY <1>3 DEF Restart, vars, database
  <2> QED
    BY <1>0, <2>1 DEF TableEarned, Own
<1> QED
  BY <1>1, <1>2, <1>3, StepKinds

\* Every step keeps CacheBehind.
LEMMA CacheStep ==
  ASSUME SendersAndBatches, StoreInv, [Next]_vars PROVE CacheBehind'
<1>0. CacheBehind
  BY DEF StoreInv, ValueInv
<1>1. ASSUME NEW c \in Calls, Acts(c) PROVE CacheBehind'
  <2>1. table' = table
    BY <1>1, MemoryMoves
  <2>2. CASE ~Settles(c)
    <3>1. UNCHANGED cache /\ Answered' = Answered
      BY <1>1, <2>2, MemoryMoves, FlightMoves
    <3> QED
      BY <1>0, <2>1, <3>1 DEF CacheBehind
  <2>3. CASE Settles(c)
    <3>0. PICK a : a = Head(answers)
      OBVIOUS
    <3>1. /\ a \in Answered /\ a.call = c /\ a.ok \in BOOLEAN
          /\ Answered' = {e \in Answered : e.call # c}
      BY <1>1, <2>3, <3>0, FlightMoves
    <3>2. cache' = cache \/ (a.ok /\ cache' = Apply(cache, a.batch))
      BY <1>1, <3>0, MemoryMoves
    <3>3. cache' = IF a.ok THEN Apply(cache, a.batch) ELSE cache
      BY <2>3, <3>0 DEF Settles, Saved, Committed, Cached
    <3>u. \A e \in Answered : e.call = c => e = a
      BY <3>1 DEF StoreInv, FlightLine, Answered
    <3>4. SUFFICES ASSUME NEW k \in Keys
                   PROVE  /\ cache'[k] \subseteq table[k]
                          /\ cache'[k] # table[k] =>
                               \E e \in Answered' : e.ok /\ Covers(e, k)
      BY <2>1 DEF CacheBehind, Covers
    <3>5. CASE a.ok /\ Covers(a, k)
      <4>1. cache'[k] = a.batch[k]
        BY <3>3, <3>5, Applied
      <4>2. table[k] = a.batch[k]
        BY <3>1, <3>5 DEF StoreInv, ValueInv, AnswersTrue
      <4> QED
        BY <4>1, <4>2
    <3>6. CASE ~(a.ok /\ Covers(a, k))
      <4>1. cache'[k] = cache[k]
        BY <3>3, <3>6, Applied
      <4>2. ASSUME NEW e \in Answered, e.ok, Covers(e, k) PROVE e \in Answered'
        BY <3>1, <3>6, <3>u, <4>2
      <4> QED
        BY <1>0, <4>1, <4>2 DEF CacheBehind
    <3> QED
      BY <3>5, <3>6
  <2> QED
    BY <2>2, <2>3
<1>2. ASSUME DbExecute \/ DbFails PROVE CacheBehind'
  <2>0. PICK h : h = Head(requests)
    OBVIOUS
  <2>a. PICK a : a = [call |-> h.call, batch |-> h.batch,
                      ok |-> IF DbExecute THEN TRUE ELSE FALSE]
    OBVIOUS
  <2>1. /\ h \in Asked /\ Answered' = Answered \cup {a} /\ cache' = cache
        /\ IF DbExecute THEN table' = Apply(table, h.batch) ELSE table' = table
    BY <1>2, <2>0, <2>a, DbMoves
  <2>2. /\ a.batch = h.batch /\ (DbExecute => a.ok)
        /\ \A k \in Keys : Covers(a, k) <=> Covers(h, k)
    BY <2>a DEF Covers
  <2>3. \A k \in Keys : table[k] \subseteq table'[k]
    BY TableStep
  <2>4. ASSUME NEW k \in Keys
        PROVE  /\ cache'[k] \subseteq table'[k]
               /\ cache'[k] # table'[k] => \E e \in Answered' : e.ok /\ Covers(e, k)
    <3>1. cache'[k] \subseteq table'[k]
      BY <1>0, <2>1, <2>3 DEF CacheBehind
    <3>2. CASE DbExecute /\ Covers(h, k)
      BY <2>1, <2>2, <3>1, <3>2
    <3>3. CASE ~(DbExecute /\ Covers(h, k))
      <4>1. table'[k] = table[k]
        BY <2>1, <3>3, Applied
      <4> QED
        BY <1>0, <2>1, <3>1, <4>1 DEF CacheBehind
    <3> QED
      BY <3>2, <3>3
  <2> QED
    BY <2>4 DEF CacheBehind, Covers
<1>3. ASSUME Restart PROVE CacheBehind'
  BY <1>3 DEF Restart, CacheBehind
<1>4. ASSUME UNCHANGED vars PROVE CacheBehind'
  <2>1. UNCHANGED <<cache, table, answers, requests>>
    BY <1>4 DEF vars, memory, database
  <2> QED
    BY <1>0, <2>1, FlightsUnchanged DEF CacheBehind
<1> QED
  BY <1>1, <1>2, <1>3, <1>4, StepKinds

\* Every step keeps RequestsGrow.
LEMMA RequestStep ==
  ASSUME SendersAndBatches, StoreInv, [Next]_vars PROVE RequestsGrow'
<1>0. RequestsGrow /\ FlightLine
  BY DEF StoreInv, ValueInv
<1>t. \A e \in InFlight : e.call \in Calls
  BY EntriesTyped DEF StoreInv
<1>1. ASSUME NEW c \in Calls, Acts(c) PROVE RequestsGrow'
  <2>1. table' = table /\ \A d \in Calls, k \in Keys : Own(d, k) \subseteq Own(d, k)'
    BY <1>1, MemoryMoves, OwnMoves
  <2>2. ASSUME NEW e \in Asked, NEW k \in Keys, Covers(e, k), UNCHANGED cache
        PROVE  /\ table'[k] \subseteq e.batch[k]
               /\ e.batch[k] \subseteq table'[k] \cup Own(e.call, k)'
               /\ cache'[k] = table'[k]
    BY <1>0, <1>t, <2>1, <2>2 DEF RequestsGrow, InFlight
  <2>3. CASE Settles(c)
    <3>0. PICK a : a = Head(answers)
      OBVIOUS
    <3>1. a \in Answered /\ Asked' = Asked
      BY <1>1, <2>3, <3>0, FlightMoves
    <3>2. cache' = cache \/ cache' = Apply(cache, a.batch)
      BY <1>1, <3>0, MemoryMoves
    <3>3. ASSUME NEW e \in Asked, NEW k \in Keys, Covers(e, k)
          PROVE  cache'[k] = cache[k]
      <4>1. ~Covers(a, k)
        BY <1>0, <3>1, <3>3, OneCovers DEF InFlight, FlightLine
      <4> QED
        BY <3>2, <4>1, Applied
    <3>4. ASSUME NEW e \in Asked, NEW k \in Keys, Covers(e, k)
          PROVE  /\ table'[k] \subseteq e.batch[k]
                 /\ e.batch[k] \subseteq table'[k] \cup Own(e.call, k)'
                 /\ cache'[k] = table'[k]
      BY <1>0, <1>t, <2>1, <3>3, <3>4 DEF RequestsGrow, InFlight
    <3> QED
      BY <3>1, <3>4 DEF RequestsGrow, Covers
  <2>4. CASE ~Settles(c)
    <3>1. UNCHANGED cache
      BY <1>1, <2>4, MemoryMoves
    <3>2. CASE Asked' = Asked
      BY <2>2, <3>1, <3>2 DEF RequestsGrow, Covers
    <3>3. CASE (Store(c) \/ Add(c)) /\ ~InZone(c)
               /\ Asked' = Asked \cup
                    {[call |-> c,
                      batch |-> Only(Key(c), Visible(Key(c)) \cup {Step(c)})]}
      <4>0. PICK r : r = [call |-> c,
                          batch |-> Only(Key(c), Visible(Key(c)) \cup {Step(c)})]
        OBVIOUS
      <4>1. Asked' = Asked \cup {r} /\ r.call = c
        BY <3>3, <4>0
      <4>2. /\ Key(c) \in Keys /\ cache[Key(c)] = table[Key(c)]
            /\ table[Key(c)] \subseteq Visible(Key(c))
            /\ Visible(Key(c)) \subseteq table[Key(c)] \cup Own(c, Key(c))
        BY <3>3, SavesGrow
      <4>3. ASSUME NEW k \in Keys, Covers(r, k)
            PROVE  k = Key(c) /\ r.batch[k] = Visible(k) \cup {Step(c)}
        BY <4>0, <4>2, <4>3 DEF Covers, Only, NoBatch
      <4>4. \A k \in Keys : k = Key(c) => Step(c) \in Own(c, k)'
        BY <1>1, <3>3, OwnMoves
      <4>5. ASSUME NEW k \in Keys, Covers(r, k)
            PROVE  /\ table'[k] \subseteq r.batch[k]
                   /\ r.batch[k] \subseteq table'[k] \cup Own(r.call, k)'
                   /\ cache'[k] = table'[k]
        <5>1. k = Key(c) /\ r.batch[k] = Visible(k) \cup {Step(c)}
          BY <4>3, <4>5
        <5>2. /\ Step(c) \in Own(c, k)' /\ Own(c, k) \subseteq Own(c, k)'
              /\ table[k] \subseteq Visible(k)
              /\ Visible(k) \subseteq table[k] \cup Own(c, k)
              /\ cache[k] = table[k]
          BY <2>1, <4>2, <4>4, <5>1
        <5> QED
          BY <2>1, <3>1, <4>1, <5>1, <5>2
      <4> QED
        BY <2>2, <3>1, <4>1, <4>5 DEF RequestsGrow, Covers
    <3>4. CASE Commit(c) /\ Asked' = Asked \cup {[call |-> c, batch |-> pending]}
      <4>0. PICK r : r = [call |-> c, batch |-> pending]
        OBVIOUS
      <4>1. Asked' = Asked \cup {r} /\ r.call = c
        BY <3>4, <4>0
      <4>5. ASSUME NEW k \in Keys, Covers(r, k)
            PROVE  /\ table'[k] \subseteq r.batch[k]
                   /\ r.batch[k] \subseteq table'[k] \cup Own(r.call, k)'
                   /\ cache'[k] = table'[k]
        <5>1. HeldBy(c, k)
          BY <3>4, <4>0, <4>5, CommitsOwn DEF Covers
        <5> QED
          BY <2>1, <3>1, <4>0, <4>1, <5>1 DEF HeldBy
      <4> QED
        BY <2>2, <3>1, <4>1, <4>5 DEF RequestsGrow, Covers
    <3> QED
      BY <1>1, <2>4, <3>2, <3>3, <3>4, FlightMoves
  <2> QED
    BY <2>3, <2>4
<1>2. ASSUME DbExecute \/ DbFails PROVE RequestsGrow'
  <2>0. PICK h : h = Head(requests)
    OBVIOUS
  <2>1. /\ h \in Asked /\ Asked' = {e \in Asked : e.call # h.call}
        /\ UNCHANGED cache
        /\ \A d \in Calls, k \in Keys : Own(d, k)' = Own(d, k)
        /\ table' = Apply(table, h.batch) \/ table' = table
    BY <1>2, <2>0, DbMoves
  <2>2. ASSUME NEW e \in Asked', NEW k \in Keys, Covers(e, k)
        PROVE  table'[k] = table[k]
    <3>1. ~Covers(h, k)
      BY <2>1, <2>2, OneCovers DEF InFlight
    <3> QED
      BY <2>1, <3>1, Applied
  <2> QED
    BY <1>0, <1>t, <2>1, <2>2 DEF RequestsGrow, Covers, InFlight
<1>3. ASSUME Restart PROVE RequestsGrow'
  <2>1. Asked' = {}
    BY <1>3 DEF Restart, Asked
  <2> QED
    BY <2>1 DEF RequestsGrow
<1>4. ASSUME UNCHANGED vars PROVE RequestsGrow'
  <2>1. UNCHANGED <<cache, table, answers, requests, written>>
    BY <1>4 DEF vars, memory, database
  <2> QED
    BY <1>0, <2>1, FlightsUnchanged DEF RequestsGrow, Own, Covers
<1> QED
  BY <1>1, <1>2, <1>3, <1>4, StepKinds

\* Every step keeps AnswersTrue.
LEMMA AnswerStep ==
  ASSUME SendersAndBatches, StoreInv, [Next]_vars PROVE AnswersTrue'
<1>0. AnswersTrue /\ FlightLine
  BY DEF StoreInv, ValueInv
<1>1. ASSUME NEW c \in Calls, Acts(c) PROVE AnswersTrue'
  <2>1. table' = table /\ Answered' \subseteq Answered
    BY <1>1, MemoryMoves, FlightMoves
  <2> QED
    BY <1>0, <2>1 DEF AnswersTrue, Covers
<1>2. ASSUME DbExecute \/ DbFails PROVE AnswersTrue'
  <2>0. PICK h : h = Head(requests)
    OBVIOUS
  <2>a. PICK a : a = [call |-> h.call, batch |-> h.batch,
                      ok |-> IF DbExecute THEN TRUE ELSE FALSE]
    OBVIOUS
  <2>1. /\ h \in Asked /\ Answered' = Answered \cup {a}
        /\ IF DbExecute THEN table' = Apply(table, h.batch) ELSE table' = table
    BY <1>2, <2>0, <2>a, DbMoves
  <2>2. /\ a.batch = h.batch /\ (a.ok => DbExecute)
        /\ \A k \in Keys : Covers(a, k) <=> Covers(h, k)
    BY <2>a DEF Covers
  <2>3. ASSUME NEW e \in Answered, NEW k \in Keys, Covers(e, k)
        PROVE  table'[k] = table[k]
    <3>1. ~Covers(h, k)
      BY <1>0, <2>1, <2>3, OneCovers DEF InFlight, FlightLine
    <3> QED
      BY <2>1, <3>1, Applied
  <2>4. ASSUME NEW k \in Keys, a.ok, Covers(a, k) PROVE table'[k] = a.batch[k]
    <3>1. table' = Apply(table, h.batch) /\ Covers(h, k)
      BY <2>1, <2>2, <2>4
    <3>2. table'[k] = h.batch[k]
      BY <3>1, Applied
    <3> QED
      BY <2>2, <3>2
  <2> QED
    BY <1>0, <2>1, <2>3, <2>4 DEF AnswersTrue, Covers
<1>3. ASSUME Restart PROVE AnswersTrue'
  <2>1. Answered' = {}
    BY <1>3 DEF Restart, Answered
  <2> QED
    BY <2>1 DEF AnswersTrue
<1>4. ASSUME UNCHANGED vars PROVE AnswersTrue'
  <2>1. UNCHANGED <<table, answers, requests>>
    BY <1>4 DEF vars, database
  <2> QED
    BY <1>0, <2>1, FlightsUnchanged DEF AnswersTrue, Covers
<1> QED
  BY <1>1, <1>2, <1>3, <1>4, StepKinds

\* Every step keeps LoadedCurrent: a running session job is undisturbed.
LEMMA LoadedStep ==
  ASSUME SendersAndBatches, StoreInv, [Next]_vars PROVE LoadedCurrent'
<1>0. LoadedCurrent
  BY DEF StoreInv, ValueInv
<1>1. ASSUME NEW c \in Calls, Acts(c), NEW d \in Calls, phase'[d] = "using"
      PROVE  loaded'[d] = Visible(Key(d))'
  <2>1. CASE d # c
    <3>1. Untouched(d) /\ phase[d] = "using"
      BY <1>1, <2>1, OthersUntouched DEF Untouched
    <3>2. Key(d)' = Key(d)
      BY <3>1 DEF Key, Untouched
    <3>3. HasTurn(d)
      BY <3>1 DEF StoreInv, ControlInv, TurnHeld, HasTurnNow, HasTurn
    <3>4. /\ HasWork(d) /\ d \in inside
          /\ \A e \in InFlight : ~Covers(e, Key(d))
      BY <3>1, <3>3, TurnUncovered
    <3>5. Key(d) \in Keys
      BY <3>4, WorkIs DEF StoreInv, ControlInv
    <3>6. cache'[Key(d)] = cache[Key(d)]
      <4>1. CASE Settles(c)
        <5>0. PICK a : a = Head(answers)
          OBVIOUS
        <5>1. a \in InFlight
          BY <1>1, <4>1, <5>0, FlightMoves DEF InFlight
        <5>2. cache' = cache \/ cache' = Apply(cache, a.batch)
          BY <1>1, <5>0, MemoryMoves
        <5> QED
          BY <3>4, <3>5, <5>1, <5>2, Applied
      <4>2. CASE ~Settles(c)
        BY <1>1, <4>2, MemoryMoves
      <4> QED
        BY <4>1, <4>2
    <3>7. pending' = pending
      <4>1. CASE InZone(d)
        <5>1. c \notin inside
          BY <2>1, <3>4, <4>1, BatchAlone DEF StoreInv
        <5> QED
          BY <1>1, <5>1, MemoryMoves
      <4>2. CASE ~InZone(d)
        <5>1. pending = NoBatch
          BY <3>4, <4>2, GlobalPending
        <5>2. InZone(c) => c \notin inside
          BY <2>1, <3>4, BatchAlone DEF StoreInv
        <5> QED
          BY <1>1, <5>1, <5>2, MemoryMoves
      <4> QED
        BY <4>1, <4>2
    <3>8. Visible(Key(d))' = Visible(Key(d))
      BY <3>2, <3>6, <3>7 DEF Visible
    <3> QED
      BY <1>0, <3>1, <3>8 DEF LoadedCurrent, Untouched
  <2>2. CASE d = c
    <3>p. \A p : To(c, p) => phase'[c] = p
      BY DEF To, StoreInv, ControlInv
    <3>1. Start(c)
      <4>1. ~(Store(c) \/ Add(c))
        <5>1. \A v : Save(c, v) => phase'[c] \in {"saving", "body"}
          BY <3>p DEF Save, Done
        <5> QED
          BY <1>1, <2>2, <5>1 DEF Store, Add
      <4>2. ~Settles(c)
        BY <1>1, <2>2, <3>p DEF Settles, Saved, Committed, Done, Reject
      <4> QED
        BY <1>1, <2>2, <3>p, <4>1, <4>2 DEF Acts, Call, Queue, CipherFails, Done,
           Reject, BodyThrows, Commit, End
    <3>2. Op(c) = "cipher"
      BY <3>1 DEF Start, StoreInv, CallShape, ShapeOf
    <3>3. /\ loaded'[c] = Visible(Key(c)) /\ at' = at
          /\ pending' = pending /\ cache' = cache
      BY <3>1, <3>2 DEF Start, StoreInv, DataTyped
    <3>4. Visible(Key(c))' = Visible(Key(c))
      BY <3>3 DEF Visible, Key
    <3> QED
      BY <2>2, <3>3, <3>4
  <2> QED
    BY <2>1, <2>2
<1>2. ASSUME DbExecute \/ DbFails \/ UNCHANGED vars PROVE LoadedCurrent'
  <2>1. UNCHANGED <<phase, at, loaded, pending, cache>>
    BY <1>2 DEF DbExecute, DbFails, vars, memory
  <2> QED
    BY <1>0, <2>1 DEF LoadedCurrent, Visible, Key
<1>3. ASSUME Restart PROVE LoadedCurrent'
  BY <1>3 DEF Restart, LoadedCurrent
<1> QED
  BY <1>1, <1>2, <1>3, StepKinds DEF LoadedCurrent

\* The keys a call has written are keys.
LEMMA WrittenKeys ==
  ASSUME SendersAndBatches, StoreInv, NEW c \in Calls, NEW n \in written[c]
  PROVE  /\ n \in DOMAIN Work[c] /\ n \in Nat /\ KeyAt(c, n) \in Keys
         /\ Stored(c, n) <=> <<c, n>> \in table[KeyAt(c, n)]
<1>1. n \in DOMAIN Work[c] /\ n \in Nat
  BY DEF StoreInv, CallShape, ShapeOf, DataTyped
<1>2. Work[c][n] \in Operations \X Keys
  BY <1>1, StoreAssumption
<1> QED
  BY <1>1, <1>2 DEF KeyAt, Stored

\* A call of the global zone has written nothing before it is through.
LEMMA GlobalFresh ==
  ASSUME SendersAndBatches, StoreInv, NEW c \in Calls,
         phase[c] \in Working, HasWork(c), ~InZone(c) \/ Single(c)
  PROVE  /\ written[c] = {} /\ at[c] = 1
         /\ ~InZone(c) => Key(c) \notin SenderKeys
<1>1. Len(Work[c]) = 1
  BY DEF SendersAndBatches, Single
<1>2. at[c] \in Nat \ {0} /\ written[c] \subseteq Nat /\ DOMAIN Work[c] = 1..1
  BY <1>1, LenWork DEF StoreInv, ControlInv, DataTyped
<1>3. at[c] = 1
  BY <1>1, <1>2 DEF HasWork
<1>4. ASSUME NEW n \in written[c] PROVE FALSE
  <2>1. n \in 1..1 /\ n < 1
    BY <1>2, <1>3 DEF StoreInv, CallShape, ShapeOf
  <2> QED
    BY <2>1
<1> QED
  BY <1>3, <1>4 DEF SendersAndBatches, Key, KeyAt

\* The step that is saved is in no table.
LEMMA NewStep ==
  ASSUME SendersAndBatches, StoreInv, NEW c \in Calls, Store(c) \/ Add(c)
  PROVE  /\ ~Stored(c, at[c])
         /\ Visible(Key(c)) \cup {Step(c)} # NoValue
<1>1. /\ at[c] \notin written[c] /\ Key(c) \in Keys /\ KeyAt(c, at[c]) = Key(c)
      /\ HasWork(c)
  BY SavesGrow
<1>2. <<c, at[c]>> \notin table[Key(c)]
  <2>1. SUFFICES ASSUME <<c, at[c]>> \in table[Key(c)] PROVE FALSE
    OBVIOUS
  <2>2. PICK d \in Calls : <<c, at[c]>> \in Own(d, Key(c))
    BY <1>1, <2>1 DEF StoreInv, ValueInv, TableEarned
  <2> QED
    BY <1>1, <2>2 DEF Own
<1>3. Visible(Key(c)) \in Values /\ Step(c) \in Steps
  BY <1>1, WorkTyped DEF StoreInv, ControlInv, DataTyped, Visible, Batch
<1>4. Visible(Key(c)) \cup {Step(c)} \in Values
  BY <1>3 DEF Values
<1> QED
  BY <1>1, <1>2, <1>4, StoreAssumption DEF Stored, KeyAt

\* What is stored of a call stays while neither its steps nor the tables
\* change.
LEMMA FateKept ==
  ASSUME NEW d, UNCHANGED table, written'[d] = written[d]
  PROVE  /\ AllStored(d)' <=> AllStored(d)
         /\ NoneStored(d)' <=> NoneStored(d)
         /\ \A b : AllIn(d, b)' <=> AllIn(d, b)
BY DEF AllStored, NoneStored, AllIn, Stored

\* A transaction that is executed stores what its call wrote, and nothing of
\* another call.
LEMMA ExecutedFate ==
  ASSUME SendersAndBatches, StoreInv, FlightFate, DbExecute,
         NEW h, h = Head(requests)
  PROVE  /\ AllStored(h.call)'
         /\ \A d \in Calls \ {h.call} : \A n \in written[d] :
              Stored(d, n)' <=> Stored(d, n)
         /\ \A d \in Calls \ {h.call} :
              /\ AllStored(d)' <=> AllStored(d)
              /\ NoneStored(d)' <=> NoneStored(d)
<1>1. /\ h \in Asked /\ h.call \in Calls
      /\ table' = Apply(table, h.batch) /\ UNCHANGED written
  BY DbMoves
<1>2. ASSUME NEW n \in written[h.call] PROVE Stored(h.call, n)'
  <2>1. KeyAt(h.call, n) \in Keys
    BY <1>1, <1>2, WrittenKeys
  <2>2. /\ Covers(h, KeyAt(h.call, n))
        /\ <<h.call, n>> \in h.batch[KeyAt(h.call, n)]
    BY <1>1, <1>2 DEF FlightFate, AllIn, Covers
  <2>3. table'[KeyAt(h.call, n)] = h.batch[KeyAt(h.call, n)]
    BY <1>1, <2>1, <2>2, Applied
  <2> QED
    BY <2>2, <2>3 DEF Stored, KeyAt
<1>3. ASSUME NEW d \in Calls \ {h.call}, NEW n \in written[d]
      PROVE  Stored(d, n)' <=> Stored(d, n)
  <2>1. KeyAt(d, n) \in Keys
    BY <1>3, WrittenKeys
  <2>2. table'[KeyAt(d, n)] = IF Covers(h, KeyAt(d, n)) THEN h.batch[KeyAt(d, n)]
                              ELSE table[KeyAt(d, n)]
    BY <1>1, <2>1, Applied
  <2>3. Covers(h, KeyAt(d, n)) =>
          /\ table[KeyAt(d, n)] \subseteq h.batch[KeyAt(d, n)]
          /\ h.batch[KeyAt(d, n)] \subseteq
               table[KeyAt(d, n)] \cup Own(h.call, KeyAt(d, n))
    BY <1>1, <2>1 DEF StoreInv, ValueInv, RequestsGrow
  <2>4. <<d, n>> \notin Own(h.call, KeyAt(d, n))
    BY <1>3 DEF Own
  <2>5. <<d, n>> \in table'[KeyAt(d, n)] <=> <<d, n>> \in table[KeyAt(d, n)]
    BY <2>2, <2>3, <2>4
  <2> QED
    BY <2>5 DEF Stored, KeyAt
<1>4. AllStored(h.call)'
  BY <1>1, <1>2 DEF AllStored
<1>5. ASSUME NEW d \in Calls \ {h.call}
      PROVE  /\ AllStored(d)' <=> AllStored(d)
             /\ NoneStored(d)' <=> NoneStored(d)
  BY <1>1, <1>3 DEF AllStored, NoneStored
<1> QED
  BY <1>3, <1>4, <1>5

\* What a step of c leaves of another call.
LEMMA OtherFate ==
  ASSUME SendersAndBatches, StoreInv, CallFate,
         NEW c \in Calls, Acts(c), NEW d \in Calls, d # c
  PROVE  /\ FateOf(d)'
         /\ d \in inside /\ InZone(d) => pending' = pending
<1>1. Untouched(d) /\ table' = table
  BY OthersUntouched, MemoryMoves
<1>2. /\ AllStored(d)' <=> AllStored(d)
      /\ NoneStored(d)' <=> NoneStored(d)
      /\ \A b : AllIn(d, b)' <=> AllIn(d, b)
  BY <1>1, FateKept DEF Untouched
<1>3. d \in inside /\ InZone(d) => pending' = pending
  <2>1. d \in inside /\ InZone(d) => c \notin inside
    BY BatchAlone DEF StoreInv
  <2> QED
    BY <2>1, MemoryMoves
<1>4. FateOf(d)
  BY DEF CallFate
<1>5. phase[d] \in Working /\ d \notin inside => written[d] = {}
  BY <1>4 DEF FateOf
<1>6. ASSUME InZone(d), phase[d] \in Working PROVE AllIn(d, pending)'
  <2>1. AllIn(d, pending)
    BY <1>4, <1>6 DEF FateOf
  <2>2. CASE d \in inside
    <3>1. pending' = pending
      BY <1>3, <1>6, <2>2
    <3> QED
      BY <1>1, <2>1, <3>1 DEF AllIn, Untouched
  <2>3. CASE d \notin inside
    BY <1>1, <1>5, <1>6, <2>3 DEF AllIn, Untouched
  <2> QED
    BY <2>2, <2>3
<1>7. FateOf(d)'
  BY <1>1, <1>2, <1>4, <1>6 DEF FateOf, Untouched, InZone
<1> QED
  BY <1>3, <1>7

\* Every step keeps CallFate.
LEMMA CallFateStep ==
  ASSUME SendersAndBatches, StoreInv, CallFate, FlightFate, [Next]_vars
  PROVE  CallFate'
<1>1. ASSUME NEW c \in Calls, Acts(c) PROVE CallFate'
  <2>g. SUFFICES FateOf(c)'
    BY <1>1, OtherFate DEF CallFate
  <2>f. FateOf(c)
    BY DEF CallFate
  <2>t. table' = table
    BY <1>1, MemoryMoves
  <2>w. UNCHANGED written =>
          /\ AllStored(c)' <=> AllStored(c)
          /\ NoneStored(c)' <=> NoneStored(c)
          /\ \A b : AllIn(c, b)' <=> AllIn(c, b)
    BY <2>t, FateKept
  <2>p. \A p : To(c, p) => phase'[c] = p
    BY DEF To, StoreInv, ControlInv
  <2>2. CASE Call(c)
    <3>1. written[c] = {} /\ written' = written
      BY <2>2, <2>f DEF Call, FateOf
    <3>2. phase'[c] = "body"
      BY <2>2, <2>p DEF Call
    <3> QED
      BY <3>1, <3>2 DEF FateOf, AllStored, NoneStored, AllIn
  <2>3. CASE Queue(c) \/ Start(c)
    <3>1. /\ phase[c] \in Working /\ phase'[c] \in {"queued", "using"}
          /\ UNCHANGED <<written, pending, inside>> /\ c \in inside
      BY <2>3, <2>p DEF Queue, Ready, Start, memory, zoneVars, Working,
         StoreInv, CallShape, ShapeOf
    <3>2. AllIn(c, pending)' <=> AllIn(c, pending)
      BY <3>1 DEF AllIn
    <3> QED
      BY <2>f, <2>w, <3>1, <3>2 DEF FateOf, Working, InZone
  <2>4. CASE Store(c) \/ Add(c)
    <3>1. /\ c \in inside /\ Key(c) \in Keys /\ KeyAt(c, at[c]) = Key(c)
          /\ phase[c] \in Working /\ HasWork(c)
          /\ Save(c, Visible(Key(c)) \cup {Step(c)})
          /\ UNCHANGED zoneVars
      BY <2>4, SavesGrow
    <3>2. written'[c] = written[c] \cup {at[c]}
      BY <1>1, <2>4, OwnMoves
    <3>3. ~Stored(c, at[c]) /\ Visible(Key(c)) \cup {Step(c)} # NoValue
      BY <2>4, NewStep
    <3>4. NoneStored(c)
      <4>1. CASE InZone(c)
        BY <2>f, <3>1, <4>1 DEF FateOf
      <4>2. CASE ~InZone(c)
        BY <3>1, <4>2, GlobalFresh DEF NoneStored
      <4> QED
        BY <4>1, <4>2
    <3>5. NoneStored(c)'
      BY <2>t, <3>2, <3>3, <3>4 DEF NoneStored, Stored
    <3>6. CASE InZone(c)
      <4>1. phase'[c] = "body" /\ inside' = inside
              /\ pending' = [pending EXCEPT ![Key(c)] =
                               Visible(Key(c)) \cup {Step(c)}]
        BY <2>p, <3>1, <3>6 DEF Save, Done, InZone, zoneVars
      <4>2. AllIn(c, pending)
        BY <2>f, <3>1, <3>6 DEF FateOf
      <4>3. ASSUME NEW n \in written'[c]
            PROVE  /\ pending'[KeyAt(c, n)] # NoValue
                   /\ <<c, n>> \in pending'[KeyAt(c, n)]
        <5>1. CASE KeyAt(c, n) = Key(c)
          <6>1. pending'[Key(c)] = Visible(Key(c)) \cup {Step(c)}
            BY <3>1, <4>1 DEF StoreInv, DataTyped, Batch
          <6>2. <<c, n>> \in Visible(Key(c)) \cup {Step(c)}
            BY <3>2, <4>2, <4>3, <5>1 DEF AllIn, Visible, Step
          <6> QED
            BY <3>3, <5>1, <6>1, <6>2
        <5>2. CASE KeyAt(c, n) # Key(c)
          <6>1. n \in written[c]
            BY <3>1, <3>2, <5>2
          <6>2. KeyAt(c, n) \in Keys
            BY <6>1, WrittenKeys
          <6>3. pending'[KeyAt(c, n)] = pending[KeyAt(c, n)]
            BY <4>1, <5>2, <6>2 DEF StoreInv, DataTyped, Batch
          <6> QED
            BY <4>2, <6>1, <6>3 DEF AllIn
        <5> QED
          BY <5>1, <5>2
      <4>4. AllIn(c, pending)'
        BY <4>3 DEF AllIn
      <4> QED
        BY <3>1, <3>5, <3>6, <4>1, <4>4 DEF FateOf, Working, InZone
    <3>7. CASE ~InZone(c)
      <4>1. phase'[c] = "saving"
        BY <2>p, <3>1, <3>7 DEF Save, InZone
      <4> QED
        BY <3>5, <4>1 DEF FateOf, Working
    <3> QED
      BY <3>6, <3>7
  <2>5. CASE CipherFails(c)
    <3>1. /\ phase[c] = "using" /\ c \in inside /\ HasWork(c)
          /\ Op(c) = "cipher" /\ UNCHANGED written
      BY <2>5 DEF CipherFails, StoreInv, CallShape, ShapeOf, ControlInv, WorkLeft
    <3>2. CASE InZone(c)
      <4>1. phase'[c] = "body" /\ UNCHANGED <<pending, inside>>
        BY <2>5, <2>p, <3>2 DEF CipherFails, Done, zoneVars, InZone
      <4>2. AllIn(c, pending)' <=> AllIn(c, pending)
        BY <3>1, <4>1 DEF AllIn
      <4> QED
        BY <2>f, <2>w, <3>1, <3>2, <4>1, <4>2 DEF FateOf, Working, InZone
    <3>3. CASE ~InZone(c)
      <4>1. phase'[c] = "rejected"
        BY <2>5, <2>p, <3>1, <3>3 DEF CipherFails, Reject, InZone
      <4>2. written[c] = {}
        BY <3>1, <3>3, GlobalFresh DEF Working
      <4> QED
        BY <3>1, <4>1, <4>2 DEF FateOf, NoneStored, Working
    <3> QED
      BY <3>2, <3>3
  <2>6. CASE BodyThrows(c)
    <3>1. InZone(c) /\ phase[c] = "body" /\ phase'[c] = "rejected"
            /\ UNCHANGED written
      BY <2>6, <2>p DEF BodyThrows, BodyEnded, Reject, SendersAndBatches
    <3> QED
      BY <2>f, <2>w, <3>1 DEF FateOf, Working
  <2>7. CASE Commit(c)
    <3>1. phase'[c] = "committing" /\ UNCHANGED written
      BY <2>7, <2>p DEF Commit
    <3> QED
      BY <2>f, <2>w, <3>1 DEF FateOf, Working
  <2>8. CASE End(c)
    <3>1. /\ phase'[c] = "resolved" /\ UNCHANGED written
          /\ phase[c] = "body" /\ c \in inside
          /\ inside # {c} \/ pending = NoBatch
      BY <2>8, <2>p DEF End, BodyEnded
    <3>2. AllStored(c)
      <4>1. CASE InZone(c)
        <5>1. pending = NoBatch
          BY <3>1, <4>1, BatchAlone DEF StoreInv
        <5>2. AllIn(c, pending)
          BY <2>f, <3>1, <4>1 DEF FateOf, Working
        <5>3. \A n \in written[c] : NoBatch[KeyAt(c, n)] = NoValue
          BY WrittenKeys DEF NoBatch
        <5> QED
          BY <5>1, <5>2, <5>3 DEF AllStored, AllIn
      <4>2. CASE ~InZone(c)
        BY <2>f, <3>1, <4>2 DEF FateOf
      <4> QED
        BY <4>1, <4>2
    <3> QED
      BY <2>w, <3>1, <3>2 DEF FateOf, Working
  <2>9. CASE Settles(c)
    <3>0. PICK a : a = Head(answers)
      OBVIOUS
    <3>1. /\ a \in Answered /\ a.call = c /\ a.ok \in BOOLEAN
          /\ UNCHANGED written
      BY <1>1, <2>9, <3>0, FlightMoves DEF Settles, Answer
    <3>2. IF a.ok THEN AllStored(c) ELSE NoneStored(c)
      BY <3>1 DEF FlightFate
    <3>3. c \in inside
      BY <3>1 DEF StoreInv, FlightShape, FlightOf, InFlight
    <3>4. CASE Saved(c)
      <4>1. ~InZone(c) /\ HasWork(c) /\ phase[c] = "saving"
        BY <3>4 DEF Saved, StoreInv, CallShape, ShapeOf, ControlInv, WorkLeft
      <4>2. Key(c) \notin SenderKeys
        <5>1. Len(Work[c]) = 1 /\ at[c] \in Nat \ {0}
          BY <4>1 DEF SendersAndBatches, StoreInv, ControlInv
        <5>2. at[c] = 1
          BY <4>1, <5>1 DEF HasWork
        <5> QED
          BY <4>1, <5>2 DEF SendersAndBatches, Key, KeyAt
      <4>3. \/ a.ok /\ phase'[c] = "body" /\ inside' = inside
            \/ ~a.ok /\ phase'[c] = "rejected"
        BY <2>p, <3>0, <3>4, <4>2 DEF Saved, Done, Reject, zoneVars
      <4> QED
        BY <2>w, <3>1, <3>2, <3>3, <4>1, <4>3 DEF FateOf, Working, InZone
    <3>5. CASE Committed(c)
      <4>1. \/ a.ok /\ phase'[c] = "resolved"
            \/ ~a.ok /\ phase'[c] = "rejected"
        BY <2>p, <3>0, <3>5 DEF Committed
      <4> QED
        BY <2>w, <3>1, <3>2, <4>1 DEF FateOf, Working
    <3> QED
      BY <2>9, <3>4, <3>5 DEF Settles
  <2> QED
    BY <1>1, <2>2, <2>3, <2>4, <2>5, <2>6, <2>7, <2>8, <2>9 DEF Acts
<1>2. ASSUME DbExecute \/ DbFails PROVE CallFate'
  <2>0. PICK h : h = Head(requests)
    OBVIOUS
  <2>1. /\ h \in Asked /\ h.call \in Calls
        /\ UNCHANGED <<zoneVars, phase, pending, written>>
        /\ ~DbExecute => table' = table
    BY <1>2, <2>0, DbMoves
  <2>2. SUFFICES ASSUME NEW d \in Calls PROVE FateOf(d)'
    BY DEF CallFate
  <2>f. FateOf(d)
    BY DEF CallFate
  <2>s. /\ phase'[d] = phase[d] /\ written' = written /\ inside' = inside
        /\ AllIn(d, pending)' <=> AllIn(d, pending)
    BY <2>1 DEF AllIn, zoneVars
  <2>4. CASE DbExecute /\ d = h.call
    <3>1. AllStored(d)'
      BY <2>0, <2>4, ExecutedFate
    <3>2. phase[d] \in {"saving", "committing"}
      BY <2>1, <2>4 DEF StoreInv, FlightShape, FlightOf, InFlight
    <3> QED
      BY <2>s, <3>1, <3>2 DEF FateOf, Working
  <2>5. CASE ~(DbExecute /\ d = h.call)
    <3>1. /\ AllStored(d)' <=> AllStored(d)
          /\ NoneStored(d)' <=> NoneStored(d)
      <4>1. CASE DbExecute
        BY <2>0, <2>5, <4>1, ExecutedFate
      <4>2. CASE ~DbExecute
        BY <2>1, <4>2, FateKept
      <4> QED
        BY <4>1, <4>2
    <3> QED
      BY <2>f, <2>s, <3>1 DEF FateOf, InZone
  <2> QED
    BY <2>4, <2>5
<1>3. ASSUME Restart PROVE CallFate'
  <2>1. SUFFICES ASSUME NEW d \in Calls PROVE FateOf(d)'
    BY DEF CallFate
  <2>2. /\ table' = table /\ written' = written
        /\ \/ phase[d] \in {"idle", "resolved", "rejected"}
                /\ phase'[d] = phase[d]
           \/ phase'[d] = "lost"
    BY <1>3 DEF Restart
  <2>3. /\ AllStored(d)' <=> AllStored(d)
        /\ NoneStored(d)' <=> NoneStored(d)
    BY <2>2, FateKept
  <2>f. FateOf(d)
    BY DEF CallFate
  <2> QED
    BY <2>2, <2>3, <2>f DEF FateOf, Working
<1>4. ASSUME UNCHANGED vars PROVE CallFate'
  <2>1. UNCHANGED <<table, written, pending, phase, inside>>
    BY <1>4 DEF vars, memory, database, zoneVars
  <2> QED
    BY <2>1 DEF CallFate, FateOf, AllStored, NoneStored, AllIn, Stored, InZone
<1> QED
  BY <1>1, <1>2, <1>3, <1>4, StepKinds

\* The entries of the other calls keep their fate while c acts.
LEMMA OtherFlights ==
  ASSUME SendersAndBatches, StoreInv, FlightFate,
         NEW c \in Calls, Acts(c), NEW e \in InFlight, e.call # c
  PROVE  /\ AllStored(e.call)' <=> AllStored(e.call)
         /\ NoneStored(e.call)' <=> NoneStored(e.call)
         /\ \A b : AllIn(e.call, b)' <=> AllIn(e.call, b)
<1>1. e.call \in Calls
  BY EntriesTyped DEF StoreInv
<1>2. Untouched(e.call) /\ table' = table
  BY <1>1, OthersUntouched, MemoryMoves
<1> QED
  BY <1>2, FateKept DEF Untouched

\* Every step keeps FlightFate.
LEMMA FlightFateStep ==
  ASSUME SendersAndBatches, StoreInv, CallFate, FlightFate, [Next]_vars
  PROVE  FlightFate'
<1>0. \A e \in InFlight : e.call \in Calls
  BY EntriesTyped DEF StoreInv
<1>1. ASSUME NEW c \in Calls, Acts(c) PROVE FlightFate'
  <2>1. ASSUME NEW e \in InFlight, e.call # c
        PROVE  /\ AllStored(e.call)' <=> AllStored(e.call)
               /\ NoneStored(e.call)' <=> NoneStored(e.call)
               /\ \A b : AllIn(e.call, b)' <=> AllIn(e.call, b)
    BY <1>1, <2>1, OtherFlights
  <2>2. ASSUME NEW e \in Asked, e.call # c
        PROVE  NoneStored(e.call)' /\ AllIn(e.call, e.batch)'
    <3>1. NoneStored(e.call)' /\ NoneStored(e.call) /\ AllIn(e.call, e.batch)
      BY <2>1, <2>2 DEF FlightFate, InFlight
    <3>2. AllIn(e.call, e.batch)'
      <4>1. e.call \in Calls
        BY <1>0 DEF InFlight
      <4>2. Untouched(e.call)
        BY <1>1, <2>2, <4>1, OthersUntouched
      <4> QED
        BY <3>1, <4>2 DEF AllIn, Untouched
    <3> QED
      BY <3>1, <3>2
  <2>3. ASSUME NEW e \in Answered, e.call # c
        PROVE  IF e.ok THEN AllStored(e.call)' ELSE NoneStored(e.call)'
    BY <2>1, <2>3 DEF FlightFate, InFlight
  <2>4. CASE /\ Asked' \subseteq Asked /\ Answered' \subseteq Answered
             /\ \A e \in InFlight' : e.call # c
    <3>1. /\ \A e \in Asked' : NoneStored(e.call)' /\ AllIn(e.call, e.batch)'
          /\ \A e \in Answered' : IF e.ok THEN AllStored(e.call)'
                                          ELSE NoneStored(e.call)'
      BY <2>2, <2>3, <2>4 DEF InFlight
    <3> QED
      BY <3>1 DEF FlightFate, AllIn, NoneStored, AllStored, Stored
  <2>5. ASSUME Answered' = Answered, \A e \in InFlight : e.call # c,
               NEW b, NoneStored(c)', AllIn(c, b)',
               Asked' = Asked \cup {[call |-> c, batch |-> b]}
        PROVE  FlightFate'
    <3>0. PICK r : r = [call |-> c, batch |-> b]
      OBVIOUS
    <3>1. r.call = c /\ r.batch = b /\ Asked' = Asked \cup {r}
      BY <2>5, <3>0
    <3>2. NoneStored(r.call)' /\ AllIn(r.call, r.batch)'
      BY <2>5, <3>1 DEF NoneStored, AllIn, Stored
    <3>3. /\ \A e \in Asked' : NoneStored(e.call)' /\ AllIn(e.call, e.batch)'
          /\ \A e \in Answered' : IF e.ok THEN AllStored(e.call)'
                                          ELSE NoneStored(e.call)'
      BY <2>2, <2>3, <2>5, <3>1, <3>2 DEF InFlight
    <3> QED
      BY <3>3 DEF FlightFate, AllIn, NoneStored, AllStored, Stored
  <2>6. CASE /\ (Store(c) \/ Add(c)) /\ ~InZone(c)
             /\ Answered' = Answered
             /\ Asked' = Asked \cup
                  {[call |-> c,
                    batch |-> Only(Key(c), Visible(Key(c)) \cup {Step(c)})]}
             /\ \A e \in InFlight : e.call # c
    <3>0. PICK b : b = Only(Key(c), Visible(Key(c)) \cup {Step(c)})
      OBVIOUS
    <3>1. /\ phase[c] \in Working /\ HasWork(c) /\ Key(c) \in Keys
          /\ KeyAt(c, at[c]) = Key(c)
      BY <2>6, SavesGrow
    <3>2. written[c] = {}
      BY <2>6, <3>1, GlobalFresh
    <3>3. written'[c] = {at[c]} /\ table' = table
      BY <1>1, <2>6, <3>2, OwnMoves, MemoryMoves
    <3>4. ~Stored(c, at[c]) /\ Visible(Key(c)) \cup {Step(c)} # NoValue
      BY <2>6, NewStep
    <3>5. NoneStored(c)'
      BY <3>3, <3>4 DEF NoneStored, Stored
    <3>6. b[Key(c)] = Visible(Key(c)) \cup {Step(c)}
      BY <3>0, <3>1 DEF Only, NoBatch
    <3>7. AllIn(c, b)'
      BY <3>1, <3>3, <3>4, <3>6 DEF AllIn, Step
    <3> QED
      BY <2>5, <2>6, <3>0, <3>5, <3>7
  <2>7. CASE /\ Commit(c) /\ Answered' = Answered
             /\ Asked' = Asked \cup {[call |-> c, batch |-> pending]}
             /\ \A e \in InFlight : e.call # c
    <3>0. PICK b : b = pending
      OBVIOUS
    <3>1. NoneStored(c) /\ AllIn(c, b)
      BY <2>7, <3>0, CommitsOwn DEF CallFate, FateOf, Working
    <3>2. UNCHANGED <<written, table>>
      BY <2>7 DEF Commit
    <3>3. NoneStored(c)' /\ AllIn(c, b)'
      BY <3>1, <3>2 DEF NoneStored, AllIn, Stored
    <3> QED
      BY <2>5, <2>7, <3>0, <3>3
  <2>8. CASE Asked' = Asked /\ Answered' = Answered
             /\ \A e \in InFlight : e.call # c
    BY <2>4, <2>8 DEF InFlight
  <2> QED
    BY <1>1, <2>4, <2>6, <2>7, <2>8, FlightMoves
<1>2. ASSUME DbExecute \/ DbFails PROVE FlightFate'
  <2>0. PICK h : h = Head(requests)
    OBVIOUS
  <2>a. PICK a : a = [call |-> h.call, batch |-> h.batch,
                      ok |-> IF DbExecute THEN TRUE ELSE FALSE]
    OBVIOUS
  <2>1. /\ h \in Asked /\ h.call \in Calls
        /\ Asked' = {e \in Asked : e.call # h.call}
        /\ Answered' = Answered \cup {a}
        /\ UNCHANGED written
        /\ ~DbExecute => table' = table
    BY <1>2, <2>0, <2>a, DbMoves
  <2>2. a.call = h.call /\ (a.ok <=> DbExecute)
    BY <2>a
  <2>3. \A e \in Answered : e.call # h.call
    BY <2>1 DEF StoreInv, FlightLine
  <2>4. ASSUME NEW d \in Calls, d # h.call
        PROVE  /\ AllStored(d)' <=> AllStored(d)
               /\ NoneStored(d)' <=> NoneStored(d)
    <3>1. CASE DbExecute
      BY <2>0, <2>4, <3>1, ExecutedFate
    <3>2. CASE ~DbExecute
      BY <2>1, <3>2, FateKept
    <3> QED
      BY <3>1, <3>2
  <2>5. ASSUME NEW e \in Asked' PROVE NoneStored(e.call)' /\ AllIn(e.call, e.batch)'
    <3>1. e \in Asked /\ e.call # h.call /\ e.call \in Calls
      BY <1>0, <2>1, <2>5 DEF InFlight
    <3>2. NoneStored(e.call) /\ AllIn(e.call, e.batch)
      BY <3>1 DEF FlightFate
    <3> QED
      BY <2>1, <2>4, <3>1, <3>2 DEF AllIn
  <2>6. ASSUME NEW e \in Answered
        PROVE  IF e.ok THEN AllStored(e.call)' ELSE NoneStored(e.call)'
    <3>1. e.call # h.call /\ e.call \in Calls
      BY <1>0, <2>3, <2>6 DEF InFlight
    <3> QED
      BY <2>4, <2>6, <3>1 DEF FlightFate
  <2>7. IF a.ok THEN AllStored(h.call)' ELSE NoneStored(h.call)'
    <3>1. CASE DbExecute
      BY <2>0, <2>2, <3>1, ExecutedFate
    <3>2. CASE ~DbExecute
      <4>1. NoneStored(h.call)
        BY <2>1 DEF FlightFate
      <4>2. NoneStored(h.call)'
        BY <2>1, <3>2, <4>1 DEF NoneStored, Stored
      <4> QED
        BY <2>2, <3>2, <4>2
    <3> QED
      BY <3>1, <3>2
  <2>8. IF a.ok THEN AllStored(a.call)' ELSE NoneStored(a.call)'
    BY <2>2, <2>7 DEF AllStored, NoneStored, Stored
  <2>9. \A e \in Answered' : IF e.ok THEN AllStored(e.call)' ELSE NoneStored(e.call)'
    BY <2>1, <2>6, <2>8
  <2> QED
    BY <2>5, <2>9 DEF FlightFate, AllIn, NoneStored, AllStored, Stored
<1>3. ASSUME Restart PROVE FlightFate'
  <2>1. Asked' = {} /\ Answered' = {}
    BY <1>3 DEF Restart, Asked, Answered
  <2> QED
    BY <2>1 DEF FlightFate
<1>4. ASSUME UNCHANGED vars PROVE FlightFate'
  <2>1. UNCHANGED <<table, written, requests, answers>>
    BY <1>4 DEF vars, database
  <2> QED
    BY <2>1, FlightsUnchanged DEF FlightFate, AllStored, NoneStored, AllIn, Stored
<1> QED
  BY <1>1, <1>2, <1>3, <1>4, StepKinds

(***************************************************************************)
(* Who built on whose step.                                                *)
(***************************************************************************)
\* A call whose only step is in a table has read for the last time.
LEMMA ReadOnce ==
  ASSUME SendersAndBatches, StoreInv, NEW c \in Calls, Acts(c),
         NEW d \in Calls, Single(d), 1 \in written'[d], Stored(d, 1)'
  PROVE  1 \in written[d] /\ Stored(d, 1) /\ loaded'[d] = loaded[d]
<1>1. Stored(d, 1)
  BY MemoryMoves DEF Stored
<1>2. CASE d # c
  BY <1>1, <1>2, OthersUntouched DEF Untouched
<1>3. CASE d = c
  <2>1. CASE Store(c) \/ Add(c)
    <3>1. HasWork(c) /\ phase[c] \in Working
      BY <2>1, SavesGrow
    <3>2. at[c] = 1
      BY <1>3, <3>1, GlobalFresh
    <3> QED
      BY <1>1, <1>3, <2>1, <3>2, NewStep
  <2>2. CASE ~(Store(c) \/ Add(c))
    <3>1. 1 \in written[d]
      BY <1>3, <2>2, OwnMoves
    <3>2. ~Start(c)
      <4>1. Start(c) => HasWork(c) /\ phase[c] \in Working
        BY DEF Start, StoreInv, ControlInv, WorkLeft, Working
      <4> QED
        BY <1>3, <3>1, <4>1, GlobalFresh
    <3>3. loaded' = loaded
      BY <2>2, <3>2 DEF Acts, Call, Queue, CipherFails, BodyThrows, Commit, End,
                        Settles, Answer
    <3> QED
      BY <1>1, <3>1, <3>3
  <2> QED
    BY <2>1, <2>2
<1> QED
  BY <1>2, <1>3

\* The only step of a call is saved on top of what it read.
LEMMA SavesOnLoaded ==
  ASSUME SendersAndBatches, StoreInv, NEW c \in Calls, Store(c) \/ Add(c),
         Single(c)
  PROVE  /\ KeyAt(c, 1) = Key(c) /\ Key(c) \in Keys
         /\ Visible(Key(c)) \cup {Step(c)} = loaded[c] \cup {<<c, 1>>}
         /\ loaded' = loaded
<1>1. HasWork(c) /\ phase[c] \in Working /\ KeyAt(c, at[c]) = Key(c)
        /\ Key(c) \in Keys /\ loaded' = loaded
        /\ (Op(c) = "cipher" => Visible(Key(c)) = loaded[c])
  BY SavesGrow
<1>2. at[c] = 1
  BY <1>1, GlobalFresh
<1>3. Op(c) = "cipher"
  BY <1>2 DEF Single, Op
<1> QED
  BY <1>1, <1>2, <1>3 DEF Step

\* Every step keeps StepsBuild.
LEMMA BuildStep ==
  ASSUME SendersAndBatches, StoreInv, CallFate, StepsBuild, [Next]_vars
  PROVE  StepsBuild'
<1>1. ASSUME NEW c \in Calls, Acts(c) PROVE StepsBuild'
  <2>1. ASSUME NEW d \in Calls, Single(d), InZone(d), 1 \in written'[d],
               phase'[d] \in Working
        PROVE  Builds(d, pending)'
    <3>1. CASE d # c
      <4>1. Untouched(d) /\ 1 \in written[d] /\ phase[d] \in Working
        BY <1>1, <2>1, <3>1, OthersUntouched DEF Untouched
      <4>2. d \in inside
        BY <4>1 DEF CallFate, FateOf
      <4>3. pending' = pending
        BY <1>1, <2>1, <3>1, <4>2, OtherFate
      <4>4. Builds(d, pending)
        BY <2>1, <4>1 DEF StepsBuild
      <4> QED
        BY <4>1, <4>3, <4>4 DEF Builds, Untouched
    <3>2. CASE d = c
      <4>1. CASE Store(c) \/ Add(c)
        <5>1. /\ KeyAt(c, 1) = Key(c) /\ Key(c) \in Keys
              /\ Visible(Key(c)) \cup {Step(c)} = loaded[c] \cup {<<c, 1>>}
              /\ loaded' = loaded
          BY <2>1, <3>2, <4>1, SavesOnLoaded
        <5>2. pending' = [pending EXCEPT ![Key(c)] =
                            Visible(Key(c)) \cup {Step(c)}]
          <6>1. Save(c, Visible(Key(c)) \cup {Step(c)})
            BY <4>1, SavesGrow
          <6> QED
            BY <2>1, <3>2, <6>1 DEF Save, InZone
        <5>3. pending'[KeyAt(c, 1)] = loaded'[c] \cup {<<c, 1>>}
          BY <5>1, <5>2 DEF StoreInv, DataTyped, Batch
        <5> QED
          BY <3>2, <5>3 DEF Builds
      <4>2. CASE ~(Store(c) \/ Add(c))
        <5>1. 1 \in written[c]
          BY <1>1, <2>1, <3>2, <4>2, OwnMoves
        <5>2. ~Call(c)
          BY <5>1 DEF Call, CallFate, FateOf
        <5>3. HasWork(c) => phase[c] \notin Working
          BY <2>1, <3>2, <5>1, GlobalFresh
        <5>4. ~Queue(c) /\ ~Start(c) /\ ~CipherFails(c)
          BY <5>3 DEF Queue, Ready, Start, CipherFails, StoreInv, ControlInv,
                      WorkLeft, Working
        <5>p. \A p : To(c, p) => phase'[c] = p
          BY DEF To, StoreInv, ControlInv
        <5>5. ~BodyThrows(c) /\ ~Commit(c) /\ ~End(c)
          BY <2>1, <3>2, <5>p DEF BodyThrows, Commit, End, Reject, Working
        <5>6. ~Settles(c)
          <6>1. ~Saved(c)
            BY <2>1, <3>2 DEF Saved, StoreInv, CallShape, ShapeOf
          <6>2. ~Committed(c)
            BY <2>1, <3>2, <5>p DEF Committed, Working
          <6> QED
            BY <6>1, <6>2 DEF Settles
        <5> QED
          BY <1>1, <4>2, <5>2, <5>4, <5>5, <5>6 DEF Acts
      <4> QED
        BY <4>1, <4>2
    <3> QED
      BY <3>1, <3>2
  <2>2. ASSUME NEW e \in Asked, Single(e.call), 1 \in written'[e.call], e.call # c
        PROVE  Builds(e.call, e.batch)'
    <3>1. e.call \in Calls
      BY EntriesTyped DEF StoreInv, InFlight
    <3>2. Untouched(e.call)
      BY <1>1, <2>2, <3>1, OthersUntouched
    <3>3. Builds(e.call, e.batch)
      BY <2>2, <3>2 DEF StepsBuild, Untouched
    <3> QED
      BY <3>2, <3>3 DEF Builds, Untouched
  <2>3. ASSUME NEW e \in Asked', Single(e.call), 1 \in written'[e.call]
        PROVE  Builds(e.call, e.batch)'
    <3>1. CASE e \in Asked /\ e.call # c
      BY <2>2, <2>3, <3>1
    <3>2. CASE ~(e \in Asked /\ e.call # c)
      <4>1. CASE /\ (Store(c) \/ Add(c)) /\ e.call = c
                 /\ e.batch = Only(Key(c), Visible(Key(c)) \cup {Step(c)})
        <5>1. /\ KeyAt(c, 1) = Key(c) /\ Key(c) \in Keys
              /\ Visible(Key(c)) \cup {Step(c)} = loaded[c] \cup {<<c, 1>>}
              /\ loaded' = loaded
          BY <2>3, <4>1, SavesOnLoaded
        <5>2. e.batch[KeyAt(c, 1)] = loaded'[c] \cup {<<c, 1>>}
          BY <4>1, <5>1 DEF Only, NoBatch
        <5> QED
          BY <4>1, <5>2 DEF Builds
      <4>2. CASE Commit(c) /\ e.call = c /\ e.batch = pending
        <5>1. InZone(c) /\ phase[c] \in Working
          BY <4>2, CommitsOwn DEF Working
        <5>2. UNCHANGED <<written, loaded>>
          BY <4>2 DEF Commit
        <5>3. Builds(c, pending)
          BY <2>3, <4>2, <5>1, <5>2 DEF StepsBuild
        <5> QED
          BY <4>2, <5>2, <5>3 DEF Builds
      <4>3. \/ e \in Asked /\ e.call # c
            \/ /\ (Store(c) \/ Add(c)) /\ e.call = c
               /\ e.batch = Only(Key(c), Visible(Key(c)) \cup {Step(c)})
            \/ Commit(c) /\ e.call = c /\ e.batch = pending
        BY <1>1, <2>3, FlightMoves DEF InFlight
      <4> QED
        BY <3>2, <4>1, <4>2, <4>3
    <3> QED
      BY <3>1, <3>2
  <2>4. \A e \in Asked' : Single(e.call) /\ 1 \in written'[e.call]
                           => Builds(e.call, e.batch)'
    BY <2>3
  <2>5. \A d \in Calls : Single(d) /\ InZone(d) /\ 1 \in written'[d]
                           /\ phase'[d] \in Working => Builds(d, pending)'
    BY <2>1
  <2> QED
    BY <2>4, <2>5 DEF StepsBuild, Builds, Single, InZone
<1>2. ASSUME DbExecute \/ DbFails PROVE StepsBuild'
  <2>1. /\ Asked' \subseteq Asked
        /\ UNCHANGED <<written, loaded, pending, phase>>
    BY <1>2, DbMoves
  <2> QED
    BY <2>1 DEF StepsBuild, Builds, Single, InZone
<1>3. ASSUME Restart PROVE StepsBuild'
  <2>1. Asked' = {} /\ \A d \in Calls : phase'[d] \notin Working
    BY <1>3 DEF Restart, Asked, Working
  <2> QED
    BY <2>1 DEF StepsBuild
<1>4. ASSUME UNCHANGED vars PROVE StepsBuild'
  <2>1. UNCHANGED <<written, loaded, pending, phase, requests, answers>>
    BY <1>4 DEF vars, memory, database
  <2> QED
    BY <2>1, FlightsUnchanged DEF StepsBuild, Builds, Single, InZone
<1> QED
  BY <1>1, <1>2, <1>3, <1>4, StepKinds

\* Every step keeps ChainBuilt.
LEMMA ChainStep ==
  ASSUME SendersAndBatches, StoreInv, FlightFate, StepsBuild, ChainBuilt,
         [Next]_vars
  PROVE  ChainBuilt'
<1>1. ASSUME NEW a \in Calls, Acts(a) PROVE ChainBuilt'
  <2>1. SUFFICES ASSUME NEW c \in Calls, NEW d \in Calls,
                        c # d, Single(c), Single(d), KeyAt(c, 1) = KeyAt(d, 1),
                        1 \in written'[c], 1 \in written'[d],
                        Stored(c, 1)', Stored(d, 1)'
                 PROVE  <<c, 1>> \in loaded'[d] \/ <<d, 1>> \in loaded'[c]
    BY DEF ChainBuilt, Single, KeyAt
  <2>2. 1 \in written[c] /\ Stored(c, 1) /\ loaded'[c] = loaded[c]
    BY <1>1, <2>1, ReadOnce
  <2>3. 1 \in written[d] /\ Stored(d, 1) /\ loaded'[d] = loaded[d]
    BY <1>1, <2>1, ReadOnce
  <2> QED
    BY <2>1, <2>2, <2>3 DEF ChainBuilt
<1>2. ASSUME DbExecute PROVE ChainBuilt'
  <2>0. PICK h : h = Head(requests)
    OBVIOUS
  <2>1. /\ h \in Asked /\ h.call \in Calls /\ UNCHANGED <<written, loaded>>
        /\ table' = Apply(table, h.batch)
    BY <1>2, <2>0, DbMoves
  <2>2. ASSUME NEW c \in Calls, c # h.call, Single(c), Single(h.call),
               KeyAt(c, 1) = KeyAt(h.call, 1),
               1 \in written[c], 1 \in written[h.call], Stored(c, 1)
        PROVE  <<c, 1>> \in loaded[h.call]
    <3>1. KeyAt(c, 1) \in Keys /\ <<c, 1>> \in table[KeyAt(c, 1)]
      BY <2>2, WrittenKeys
    <3>2. Covers(h, KeyAt(c, 1))
      BY <2>1, <2>2 DEF FlightFate, AllIn, Covers
    <3>3. table[KeyAt(c, 1)] \subseteq h.batch[KeyAt(c, 1)]
      BY <2>1, <3>1, <3>2 DEF StoreInv, ValueInv, RequestsGrow
    <3>4. h.batch[KeyAt(c, 1)] = loaded[h.call] \cup {<<h.call, 1>>}
      BY <2>1, <2>2 DEF StepsBuild, Builds
    <3> QED
      BY <2>2, <3>1, <3>3, <3>4
  <2>3. ASSUME NEW c \in Calls, c # h.call, 1 \in written[c]
        PROVE  Stored(c, 1)' <=> Stored(c, 1)
    BY <1>2, <2>0, <2>3, ExecutedFate
  <2>4. SUFFICES ASSUME NEW c \in Calls, NEW d \in Calls,
                        c # d, Single(c), Single(d), KeyAt(c, 1) = KeyAt(d, 1),
                        1 \in written[c], 1 \in written[d],
                        Stored(c, 1)', Stored(d, 1)'
                 PROVE  <<c, 1>> \in loaded[d] \/ <<d, 1>> \in loaded[c]
    BY <2>1 DEF ChainBuilt, Single, KeyAt
  <2>5. CASE c = h.call
    BY <2>2, <2>3, <2>4, <2>5
  <2>6. CASE d = h.call
    BY <2>2, <2>3, <2>4, <2>6
  <2>7. CASE c # h.call /\ d # h.call
    BY <2>3, <2>4, <2>7 DEF ChainBuilt
  <2> QED
    BY <2>5, <2>6, <2>7
<1>3. ASSUME DbFails \/ Restart \/ UNCHANGED vars PROVE ChainBuilt'
  <2>1. UNCHANGED <<written, loaded, table>>
    BY <1>3 DEF DbFails, Restart, vars, database
  <2> QED
    BY <2>1 DEF ChainBuilt, Single, KeyAt, Stored
<1> QED
  BY <1>1, <1>2, <1>3, StepKinds

\* All of it.
StoredInv == StoreInv /\ CallFate /\ FlightFate /\ StepsBuild /\ ChainBuilt

\* The invariant holds at the start ...
LEMMA StoredInitially == SendersAndBatches /\ Init => StoredInv
<1> SUFFICES ASSUME SendersAndBatches, Init PROVE StoredInv
  OBVIOUS
<1>1. /\ phase = [c \in Calls |-> "idle"] /\ at = [c \in Calls |-> 1]
      /\ written = [c \in Calls |-> {}] /\ pending = NoBatch
      /\ cache = [k \in Keys |-> {}] /\ table = [k \in Keys |-> {}]
      /\ requests = <<>> /\ answers = <<>>
  BY DEF Init
<1>2. Asked = {} /\ Answered = {} /\ InFlight = {}
  BY <1>1 DEF Asked, Answered, InFlight
<1>3. ExclusionInv /\ ControlInv /\ DataTyped
  BY ExclusionInitially, ControlInitially, DataInitially
<1>4. CallShape
  BY <1>1 DEF CallShape, ShapeOf
<1>5. FlightLine /\ FlightShape
  BY <1>1, <1>2 DEF FlightLine, FlightShape
<1>6. PendingShape /\ TableEarned /\ CacheBehind
  BY <1>1 DEF PendingShape, TableEarned, CacheBehind, NoBatch
<1>7. RequestsGrow /\ AnswersTrue /\ LoadedCurrent
  BY <1>1, <1>2 DEF RequestsGrow, AnswersTrue, LoadedCurrent
<1>8. CallFate /\ FlightFate
  BY <1>1, <1>2 DEF CallFate, FateOf, FlightFate, AllStored, NoneStored, AllIn,
                    Working
<1>9. StepsBuild /\ ChainBuilt
  BY <1>1, <1>2 DEF StepsBuild, ChainBuilt
<1> QED
  BY <1>3, <1>4, <1>5, <1>6, <1>7, <1>8, <1>9 DEF StoredInv, StoreInv, ValueInv

\* ... and every step keeps it.
LEMMA StoredStep ==
  SendersAndBatches /\ StoredInv /\ [Next]_vars => StoredInv'
<1> SUFFICES ASSUME SendersAndBatches, StoredInv, [Next]_vars PROVE StoredInv'
  OBVIOUS
<1>0. StoreInv /\ CallFate /\ FlightFate /\ StepsBuild /\ ChainBuilt
  BY DEF StoredInv
<1>1. ExclusionInv' /\ ControlInv' /\ DataTyped'
  BY <1>0, ExclusionStep, ControlStep, DataStep DEF StoreInv
<1>2. CallShape' /\ FlightLine' /\ FlightShape'
  BY <1>0, ShapeStep, FlightStep
<1>3. PendingShape' /\ TableEarned' /\ CacheBehind'
  BY <1>0, PendingStep, TableStep, CacheStep
<1>4. RequestsGrow' /\ AnswersTrue' /\ LoadedCurrent'
  BY <1>0, RequestStep, AnswerStep, LoadedStep
<1>5. CallFate' /\ FlightFate' /\ StepsBuild' /\ ChainBuilt'
  BY <1>0, CallFateStep, FlightFateStep, BuildStep, ChainStep
<1> QED
  BY <1>1, <1>2, <1>3, <1>4, <1>5 DEF StoredInv, StoreInv, ValueInv

\* The invariant of the calls SendersAndBatches describes: it needs all its
\* parts at once.
THEOREM StoredInvariant == ASSUME SendersAndBatches PROVE Spec => []StoredInv
<1>1. Init => StoredInv
  BY StoredInitially
<1>2. StoredInv /\ [Next]_vars => StoredInv'
  BY StoredStep
<1> QED
  BY <1>1, <1>2, PTL DEF Spec

\* Among the calls of SendersAndBatches no ratchet step is undone, whichever
\* zones its readers and writers are in and whatever fails: each row that is
\* written contains what it replaces.
THEOREM NoStepIsUndone == ASSUME SendersAndBatches PROVE Spec => NoLostUpdate
<1>1. StoredInv /\ [Next]_vars => [\A k \in Keys : table[k] \subseteq table'[k]]_vars
  BY TableStep DEF StoredInv
<1> QED
  BY <1>1, StoredInvariant, PTL DEF Spec, NoLostUpdate

\* #commitZoneChanges applies a batch to the caches after it was written: with
\* sends and batches alone (SendersAndBatches) they never show a step that a
\* crash would undo.  With an archive they do, until its store is written:
\* #_archiveSession changes the cached record first.
THEOREM CachesFollowTables ==
  ASSUME SendersAndBatches PROVE Spec => []CacheIsCommitted
<1>1. StoredInv => CacheIsCommitted
  BY DEF StoredInv, StoreInv, ValueInv, CacheBehind, CacheIsCommitted, Keys
<1> QED
  BY <1>1, StoredInvariant, PTL

\* With sends and batches alone (SendersAndBatches) the caches are what the
\* tables hold when no transaction is under way, also after commits that
\* failed and bodies that threw.  A purge may leave them apart for good: it
\* empties the cache before a commit under way fills it, and the table after.
THEOREM IdleCachesMatch ==
  ASSUME SendersAndBatches PROVE Spec => []CacheMatchesTable
<1>1. StoredInv => CacheMatchesTable
  <2>1. answers = <<>> => Answered = {}
    BY DEF Answered
  <2> QED
    BY <2>1 DEF StoredInv, StoreInv, ValueInv, CacheBehind, CacheMatchesTable,
                Keys
<1> QED
  BY <1>1, StoredInvariant, PTL

\* withZone commits or reverts: of a call of SendersAndBatches that has ended
\* well everything is in the tables, of one that has rejected nothing.
THEOREM TransactionsAreAtomic ==
  ASSUME SendersAndBatches PROVE Spec => []AllOrNothing
<1>1. StoredInv => AllOrNothing
  BY DEF StoredInv, CallFate, FateOf, AllStored, NoneStored, AllOrNothing
<1> QED
  BY <1>1, StoredInvariant, PTL

\* At every moment, so also when the process dies, the ratchet steps of a
\* batch and the messages it decrypted are all in the tables or none is, if
\* the other calls are sends and batches too (SendersAndBatches).
THEOREM StepsKeptWithMessage ==
  ASSUME SendersAndBatches PROVE Spec => []StepsWithMessage
<1>1. StoredInv => StepsWithMessage
  BY DEF StoredInv, CallFate, FateOf, AllStored, NoneStored, StepsWithMessage
<1> QED
  BY <1>1, StoredInvariant, PTL

\* Of two senders that succeeded with one session, one saw the other's step:
\* no message key is used twice, with sends and batches alone.
THEOREM RatchetsAdvance ==
  ASSUME SendersAndBatches PROVE Spec => []StateUsedOnce
<1>1. StoredInv => StateUsedOnce
  <2> SUFFICES ASSUME StoredInv,
                      NEW c \in Calls, NEW d \in Calls, c # d,
                      phase[c] = "resolved", phase[d] = "resolved",
                      Work[c] = Work[d], Len(Work[c]) = 1,
                      Work[c][1][1] = "cipher",
                      1 \in written[c], 1 \in written[d]
               PROVE  <<c, 1>> \in loaded[d] \/ <<d, 1>> \in loaded[c]
    BY DEF StateUsedOnce
  <2>1. Stored(c, 1) /\ Stored(d, 1)
    BY DEF StoredInv, CallFate, FateOf, AllStored
  <2>2. Single(c) /\ Single(d) /\ KeyAt(c, 1) = KeyAt(d, 1)
    BY DEF Single, KeyAt
  <2> QED
    BY <2>1, <2>2 DEF StoredInv, ChainBuilt
<1> QED
  BY <1>1, StoredInvariant, PTL
=============================================================================
