--------------------------- MODULE JobQueue_proof ---------------------------
(***************************************************************************)
(* Theorems about JobQueue, for every set of jobs and every bound.         *)
(***************************************************************************)
EXTENDS JobQueue, FiniteSetTheorems, FunctionTheorems, SequenceTheorems, TLAPS

(***************************************************************************)
(* Lemmas about the operators the actions are built from.                  *)
(***************************************************************************)
LEMMA AttemptBounds == 0 \in 0..MaxAttempts /\ 1 \in 0..MaxAttempts
BY BoundAssumption

LEMMA RequestType ==
  ASSUME TypeOK, NEW j \in Jobs, NEW k \in {"insert", "resolve", "reject"}
  PROVE  Append(writes, Request(k, j)) \in Seq(Write)
<1>1. Request(k, j) \in Write
  BY DEF Request, Write
<1> QED
  BY <1>1, AppendProperties DEF TypeOK, TypeTable

\* What a write request becomes once executed.
LEMMA AnswerType ==
  ASSUME NEW w \in Write, NEW o \in BOOLEAN
  PROVE  [op |-> w.op, job |-> w.job, ok |-> o] \in Answer
BY DEF Write, Answer

\* The rows, read in the order of their timestamps, are a sequence of rows.
LEMMA RowsAreJobs ==
  ASSUME TypeOK, NEW s \in RowsByTimestamp
  PROVE  /\ s \in Seq(Jobs)
         /\ \A i \in 1..Len(s) : s[i] \in db
<1>1. IsFiniteSet(db)
  BY QueueAssumption, FS_Subset DEF TypeOK, TypeTable
<1>2. Cardinality(db) \in Nat
  BY <1>1, FS_CardinalityType
<1>3. s \in [1..Cardinality(db) -> db]
  BY DEF RowsByTimestamp
<1>4. s \in Seq(db)
  BY <1>2, <1>3
<1>5. s \in Seq(Jobs)
  BY <1>4, SeqMonotonic DEF TypeOK, TypeTable
<1> QED
  BY <1>4, <1>5, ElementOfSeq

LEMMA SettledType ==
  ASSUME TypeOK, NEW j \in Jobs, NEW o \in {"resolved", "rejected"}
  PROVE  Settled(j, o) \in [Jobs -> {"none", "pending", "resolved", "rejected"}]
BY DEF Settled, TypeOK, TypeCaller

\* EnqueueHead moves the head of the stream on, or to the deletes.
LEMMA EnqueueHeadType ==
  ASSUME TypeOK, stream # <<>>, EnqueueHead
  PROVE  /\ stream' \in Seq(Jobs)
         /\ queue' \in [Queues -> Seq(Jobs)]
         /\ writes' \in Seq(Write)
         /\ finished' \in SUBSET Jobs
<1> DEFINE j == Head(stream)
<1>1. j \in Jobs /\ Tail(stream) \in Seq(Jobs)
  BY HeadTailProperties DEF TypeOK, TypeSource
<1>2. QueueOf[j] \in Queues
  BY <1>1, QueueAssumption
<1>3. Append(writes, Request("reject", j)) \in Seq(Write)
  BY <1>1, RequestType
<1>4. CASE j \in Corrupt
  BY <1>1, <1>3, <1>4
  DEF EnqueueHead, TypeOK, TypeTable, TypeMemory, TypeGhosts
<1>5. CASE j \notin Corrupt
  <2>1. Append(queue[QueueOf[j]], j) \in Seq(Jobs)
    BY <1>1, <1>2, AppendProperties DEF TypeOK, TypeMemory
  <2> QED
    BY <1>1, <1>2, <1>5, <2>1
    DEF EnqueueHead, TypeOK, TypeTable, TypeMemory, TypeGhosts
<1> QED
  BY <1>4, <1>5

LEMMA EndType ==
  ASSUME TypeOK, NEW j \in Jobs, EndResolved(j) \/ EndRejected(j)
  PROVE  /\ writes' \in Seq(Write)
         /\ completion' \in [Jobs -> {"none", "pending", "resolved", "rejected"}]
         /\ finished' \in SUBSET Jobs
<1>1. /\ Append(writes, Request("resolve", j)) \in Seq(Write)
      /\ Append(writes, Request("reject", j)) \in Seq(Write)
  BY RequestType
<1>2. Settled(j, "rejected")
        \in [Jobs -> {"none", "pending", "resolved", "rejected"}]
  BY SettledType
<1> QED
  BY <1>1, <1>2
  DEF EndResolved, EndRejected, TypeOK, TypeTable, TypeCaller, TypeGhosts

LEMMA StoreInsertType ==
  ASSUME TypeOK, NEW j \in Jobs, NEW p \in BOOLEAN, StoreInsert(j, p)
  PROVE  /\ writes' \in Seq(Write)
         /\ waiting' \in Seq(Jobs)
         /\ add' \in [Jobs -> AddStates]
<1>1. Append(writes, Request("insert", j)) \in Seq(Write)
  BY RequestType
<1>2. Append(waiting, j) \in Seq(Jobs)
  BY AppendProperties DEF TypeOK, TypeSource
<1>3. add' \in [Jobs -> AddStates]
  BY DEF StoreInsert, TypeOK, TypeCaller, AddStates
<1> QED
  BY <1>1, <1>2, <1>3 DEF StoreInsert, TypeOK, TypeTable, TypeSource

(***************************************************************************)
(* Type correctness: one lemma per kind of action.                         *)
(***************************************************************************)
LEMMA AddTypes ==
  ASSUME TypeOK, NEW j \in Jobs, Add(j)
  PROVE  TypeOK'
<1>1. Cardinality({k \in Jobs : Created(k)}) + 1 \in Nat
  BY QueueAssumption, FS_Subset, FS_CardinalityType
<1>2. stamp' \in [Jobs -> Nat]
  BY <1>1 DEF Add, TypeOK, TypeTable
<1>3. completion' \in [Jobs -> {"none", "pending", "resolved", "rejected"}]
  BY DEF Add, TypeOK, TypeCaller
<1>4. /\ writes' \in Seq(Write)
      /\ waiting' \in Seq(Jobs)
      /\ add' \in [Jobs -> AddStates]
  <2>1. CASE j \in Custom
    <3>1. Append(writes, Request("insert", j)) \in Seq(Write)
      BY RequestType
    <3> QED
      BY <2>1, <3>1
      DEF Add, TypeOK, TypeTable, TypeSource, TypeCaller, AddStates
  <2>2. CASE j \notin Custom
    BY <2>2, StoreInsertType DEF Add
  <2> QED
    BY <2>1, <2>2
<1>5. UNCHANGED <<db, acks, fetch, stream, consumer, memory, control, ghosts>>
  BY DEF Add
<1> QED
  BY <1>2, <1>3, <1>4, <1>5
  DEF memory, control, ghosts, TypeOK, TypeTable, TypeCaller, TypeSource,
      TypeMemory, TypeControl, TypeGhosts

LEMMA AfterFetchTypes ==
  ASSUME TypeOK, AfterFetch
  PROVE  TypeOK'
<1> DEFINE j == Head(waiting)
<1>1. j \in Jobs /\ waiting' \in Seq(Jobs)
  BY HeadTailProperties DEF AfterFetch, TypeOK, TypeSource
<1>2. Append(writes, Request("insert", j)) \in Seq(Write)
  BY <1>1, RequestType
<1>3. writes' \in Seq(Write)
  BY <1>2 DEF AfterFetch, TypeOK, TypeTable
<1>4. stream' \in Seq(Jobs)
  <2>1. Append(stream, j) \in Seq(Jobs)
    BY <1>1, AppendProperties DEF TypeOK, TypeSource
  <2> QED
    BY <2>1 DEF AfterFetch, TypeOK, TypeSource
<1>5. add' \in [Jobs -> AddStates]
  BY <1>1 DEF AfterFetch, TypeOK, TypeCaller, AddStates
<1>6. UNCHANGED <<db, stamp, acks, completion, fetch, consumer, memory,
                  control, ghosts>>
  BY DEF AfterFetch
<1> QED
  BY <1>1, <1>3, <1>4, <1>5, <1>6
  DEF memory, control, ghosts, TypeOK, TypeTable, TypeCaller, TypeSource,
      TypeMemory, TypeControl, TypeGhosts

LEMMA DatabaseTypes ==
  ASSUME TypeOK, DbWrite \/ DbWriteFails
  PROVE  TypeOK'
<1> DEFINE w == Head(writes)
<1>1. w \in Write /\ writes' \in Seq(Write)
  BY HeadTailProperties DEF DbWrite, DbWriteFails, TypeOK, TypeTable
<1>2. db' \in SUBSET Jobs
  BY <1>1 DEF DbWrite, DbWriteFails, TypeOK, TypeTable, Write
<1>3. acks' \in Seq(Answer)
  <2>1. \A o \in BOOLEAN :
          Append(acks, [op |-> w.op, job |-> w.job, ok |-> o]) \in Seq(Answer)
    BY <1>1, AnswerType, AppendProperties DEF TypeOK, TypeTable
  <2> QED
    BY <2>1 DEF DbWrite, DbWriteFails
<1>4. UNCHANGED <<stamp, caller, source, memory, control, finished, putBack,
                  pauses, crashes>>
  BY DEF DbWrite, DbWriteFails, ghosts
<1>5. dbFailures' \in Nat
  BY DEF DbWrite, DbWriteFails, ghosts, TypeOK, TypeGhosts
<1> QED
  BY <1>1, <1>2, <1>3, <1>4, <1>5
  DEF caller, source, memory, control, TypeOK, TypeTable, TypeCaller,
      TypeSource, TypeMemory, TypeControl, TypeGhosts

LEMMA AnswerTypes ==
  ASSUME TypeOK, InsertAnswered \/ DeleteAnswered
  PROVE  TypeOK'
<1> DEFINE x == Head(acks)
<1>1. x.job \in Jobs /\ acks' \in Seq(Answer)
  <2>1. x \in Answer /\ Tail(acks) \in Seq(Answer)
    BY HeadTailProperties DEF InsertAnswered, DeleteAnswered, TypeOK, TypeTable
  <2> QED
    BY <2>1 DEF InsertAnswered, DeleteAnswered, Answer
<1>2. CASE InsertAnswered
  <2>1. /\ writes' \in Seq(Write)
        /\ waiting' \in Seq(Jobs)
        /\ add' \in [Jobs -> AddStates]
    BY <1>1, <1>2, StoreInsertType
    DEF InsertAnswered, TypeOK, TypeTable, TypeCaller, TypeSource, AddStates
  <2>3. stream' \in Seq(Jobs)
    <3>1. Append(stream, x.job) \in Seq(Jobs)
      BY <1>1, AppendProperties DEF TypeOK, TypeSource
    <3> QED
      BY <1>2, <3>1 DEF InsertAnswered, TypeOK, TypeSource
  <2>2. UNCHANGED <<db, stamp, completion, fetch, consumer, memory, control,
                    ghosts>>
    BY <1>2 DEF InsertAnswered
  <2> QED
    BY <1>1, <2>1, <2>2, <2>3
    DEF memory, control, ghosts, TypeOK, TypeTable, TypeCaller, TypeSource,
        TypeMemory, TypeControl, TypeGhosts
<1>3. CASE DeleteAnswered
  <2>1. completion' \in [Jobs -> {"none", "pending", "resolved", "rejected"}]
    BY <1>1, <1>3, SettledType DEF DeleteAnswered, TypeOK, TypeCaller
  <2>2. UNCHANGED <<db, stamp, writes, add, source, memory, control, ghosts>>
    BY <1>3 DEF DeleteAnswered
  <2> QED
    BY <1>1, <2>1, <2>2
    DEF source, memory, control, ghosts, TypeOK, TypeTable, TypeCaller,
        TypeSource, TypeMemory, TypeControl, TypeGhosts
<1> QED
  BY <1>2, <1>3

LEMMA FetchTypes ==
  ASSUME TypeOK, StreamJobs \/ DbFetch \/ DbFetchFails \/ FetchAnswered
  PROVE  TypeOK'
<1>1. stream' \in Seq(Jobs)
  BY RowsAreJobs
  DEF StreamJobs, DbFetch, DbFetchFails, FetchAnswered, TypeOK, TypeSource
<1>2. fetch' \in {"asked", "read", "done", "failed"}
  BY DEF StreamJobs, DbFetch, DbFetchFails, FetchAnswered
<1>3. UNCHANGED <<table, caller, waiting, consumer, memory, control, finished,
                  putBack, pauses, crashes>>
  BY DEF StreamJobs, DbFetch, DbFetchFails, FetchAnswered, ghosts
<1>4. dbFailures' \in Nat
  BY DEF StreamJobs, DbFetch, DbFetchFails, FetchAnswered, ghosts, TypeOK,
         TypeGhosts
<1> QED
  BY <1>1, <1>2, <1>3, <1>4
  DEF table, caller, memory, control, TypeOK, TypeTable, TypeCaller,
      TypeSource, TypeMemory, TypeControl, TypeGhosts

LEMMA ConsumeTypes ==
  ASSUME TypeOK, ConsumeOne \/ ConsumeHeld
  PROVE  TypeOK'
<1>1. /\ stream' \in Seq(Jobs)
      /\ queue' \in [Queues -> Seq(Jobs)]
      /\ writes' \in Seq(Write)
      /\ finished' \in SUBSET Jobs
  BY EnqueueHeadType
  DEF ConsumeOne, ConsumeHeld, TypeOK, TypeTable, TypeSource, TypeMemory,
      TypeGhosts
<1>2. consumer' \in {"reading", "holding", "stopped"}
  BY DEF ConsumeOne, ConsumeHeld, TypeOK, TypeSource
<1>3. UNCHANGED <<db, stamp, acks, caller, fetch, waiting, running, attempt,
                  parked, control, putBack, pauses, crashes, dbFailures>>
  BY DEF ConsumeOne, ConsumeHeld
<1> QED
  BY <1>1, <1>2, <1>3
  DEF caller, control, TypeOK, TypeTable, TypeCaller, TypeSource, TypeMemory,
      TypeControl, TypeGhosts

LEMMA StartTypes ==
  ASSUME TypeOK, NEW q \in Queues, Start(q)
  PROVE  TypeOK'
<1> DEFINE j == Head(queue[q])
<1>1. j \in Jobs /\ Tail(queue[q]) \in Seq(Jobs)
  <2>1. queue[q] \in Seq(Jobs) /\ queue[q] # <<>>
    BY DEF Start, TypeOK, TypeMemory
  <2> QED
    BY <2>1, HeadTailProperties
<1>2. /\ writes' \in Seq(Write)
      /\ completion' \in [Jobs -> {"none", "pending", "resolved", "rejected"}]
      /\ finished' \in SUBSET Jobs
  BY <1>1, EndType DEF Start, TypeOK, TypeTable, TypeCaller, TypeGhosts
<1>3. /\ queue' \in [Queues -> Seq(Jobs)]
      /\ running' \in [Queues -> Jobs \cup {NoJob}]
      /\ attempt' \in [Queues -> 0..MaxAttempts]
  <2>1. queue' \in [Queues -> Seq(Jobs)]
    BY <1>1 DEF Start, TypeOK, TypeMemory
  <2>2. running' \in [Queues -> Jobs \cup {NoJob}]
    BY <1>1 DEF Start, TypeOK, TypeMemory
  <2>3. attempt' \in [Queues -> 0..MaxAttempts]
    BY AttemptBounds DEF Start, TypeOK, TypeMemory
  <2> QED
    BY <2>1, <2>2, <2>3
<1>4. waitIdle' \in SUBSET Queues
  BY DEF Start, IdleIf, TypeOK, TypeControl
<1>5. UNCHANGED <<db, stamp, acks, add, source, parked, paused, shuttingDown,
                  putBack, pauses, crashes, dbFailures>>
  BY DEF Start
<1> QED
  BY <1>2, <1>3, <1>4, <1>5
  DEF source, TypeOK, TypeTable, TypeCaller, TypeSource, TypeMemory,
      TypeControl, TypeGhosts

LEMMA RunTypes ==
  ASSUME TypeOK, NEW q \in Queues,
         RunSucceeds(q) \/ RunNeedsRetry(q) \/ RunFails(q)
  PROVE  TypeOK'
<1>1. running[q] \in Jobs
  BY DEF RunSucceeds, RunNeedsRetry, RunFails, TypeOK, TypeMemory
<1>2. /\ writes' \in Seq(Write)
      /\ completion' \in [Jobs -> {"none", "pending", "resolved", "rejected"}]
      /\ finished' \in SUBSET Jobs
  BY <1>1, EndType, SettledType
  DEF RunSucceeds, RunNeedsRetry, RunFails, TypeOK, TypeTable, TypeGhosts
<1>3. parked' \in [Queues -> Seq(Jobs)] /\ putBack' \in SUBSET Jobs
  <2>1. Append(parked[q], running[q]) \in Seq(Jobs)
    BY <1>1, AppendProperties DEF TypeOK, TypeMemory
  <2>2. parked' \in [Queues -> Seq(Jobs)]
    BY <2>1 DEF RunSucceeds, RunNeedsRetry, KeepForRetry, RunFails, TypeOK,
                TypeMemory
  <2>3. putBack' \in SUBSET Jobs
    BY <1>1 DEF RunSucceeds, RunNeedsRetry, KeepForRetry, RunFails, TypeOK,
                TypeGhosts
  <2> QED
    BY <2>2, <2>3
<1>4. /\ running' \in [Queues -> Jobs \cup {NoJob}]
      /\ attempt' \in [Queues -> 0..MaxAttempts]
      /\ waitIdle' \in SUBSET Queues
  <2>1. Release(q)
    BY DEF RunSucceeds, RunNeedsRetry, RunFails
  <2>2. running' \in [Queues -> Jobs \cup {NoJob}]
    BY <2>1 DEF Release, TypeOK, TypeMemory
  <2>3. attempt' \in [Queues -> 0..MaxAttempts]
    BY <2>1, AttemptBounds DEF Release, TypeOK, TypeMemory
  <2>4. waitIdle' \in SUBSET Queues
    BY <2>1 DEF Release, IdleIf, TypeOK, TypeControl
  <2> QED
    BY <2>2, <2>3, <2>4
<1>5. UNCHANGED <<db, stamp, acks, add, source, queue, paused, shuttingDown,
                  pauses, crashes, dbFailures>>
  BY DEF RunSucceeds, RunNeedsRetry, RunFails
<1> QED
  BY <1>2, <1>3, <1>4, <1>5
  DEF source, TypeOK, TypeTable, TypeCaller, TypeSource, TypeMemory,
      TypeControl, TypeGhosts

LEMMA RetryTypes ==
  ASSUME TypeOK, NEW q \in Queues, RunRetries(q) \/ RetryParked(q)
  PROVE  TypeOK'
<1>1. queue' \in [Queues -> Seq(Jobs)] /\ parked' \in [Queues -> Seq(Jobs)]
  <2>1. queue[q] \o parked[q] \in Seq(Jobs) /\ <<>> \in Seq(Jobs)
    BY ConcatProperties DEF TypeOK, TypeMemory
  <2> QED
    BY <2>1 DEF RunRetries, RetryParked, memory, TypeOK, TypeMemory
<1>2. attempt' \in [Queues -> 0..MaxAttempts]
  <2>1. CASE RunRetries(q)
    <3>1. attempt[q] \in 0..MaxAttempts /\ attempt[q] < MaxAttempts
      BY <2>1 DEF RunRetries, AttemptsLeft, TypeOK, TypeMemory
    <3>2. attempt[q] + 1 \in 0..MaxAttempts
      BY <3>1, BoundAssumption
    <3> QED
      BY <2>1, <3>2 DEF RunRetries, TypeOK, TypeMemory
  <2>2. CASE RetryParked(q)
    BY <2>2 DEF RetryParked, TypeOK, TypeMemory
  <2> QED
    BY <2>1, <2>2
<1>3. UNCHANGED <<table, caller, source, running, control, ghosts>>
  BY DEF RunRetries, RetryParked
<1> QED
  BY <1>1, <1>2, <1>3
  DEF table, caller, source, control, ghosts, TypeOK, TypeTable, TypeCaller,
      TypeSource, TypeMemory, TypeControl, TypeGhosts

LEMMA ControlTypes ==
  ASSUME TypeOK, Pause \/ Resume \/ Shutdown
  PROVE  TypeOK'
<1>1. /\ paused' \in BOOLEAN /\ shuttingDown' \in BOOLEAN
      /\ waitIdle' \in SUBSET Queues
      /\ pauses' \in Nat
  <2>1. CASE Pause
    BY <2>1 DEF Pause, TypeOK, TypeControl, TypeGhosts
  <2>2. CASE Resume
    BY <2>2 DEF Resume, ghosts, TypeOK, TypeControl, TypeGhosts
  <2>3. CASE Shutdown
    BY <2>3 DEF Shutdown, ghosts, TypeOK, TypeControl, TypeGhosts
  <2> QED
    BY <2>1, <2>2, <2>3
<1>2. UNCHANGED <<table, caller, source, memory, finished, putBack, crashes,
                  dbFailures>>
  BY DEF Pause, Resume, Shutdown, ghosts
<1> QED
  BY <1>1, <1>2
  DEF table, caller, source, memory, TypeOK, TypeTable, TypeCaller,
      TypeSource, TypeMemory, TypeControl, TypeGhosts

LEMMA InitTypes ==
  ASSUME Init
  PROVE  TypeOK
<1>1. TypeTable
  BY DEF Init, TypeTable
<1>2. TypeCaller /\ TypeSource
  BY DEF Init, TypeCaller, TypeSource, AddStates
<1>3. TypeMemory
  BY AttemptBounds DEF Init, TypeMemory
<1>4. TypeControl /\ TypeGhosts
  BY DEF Init, TypeControl, TypeGhosts
<1> QED
  BY <1>1, <1>2, <1>3, <1>4 DEF TypeOK

LEMMA RestartTypes ==
  ASSUME TypeOK, Restart
  PROVE  TypeOK'
<1>1. TypeTable'
  BY DEF Restart, TypeOK, TypeTable
<1>2. TypeCaller' /\ TypeSource'
  BY DEF Restart, TypeOK, TypeCaller, TypeSource, AddStates
<1>3. TypeMemory'
  BY AttemptBounds DEF Restart, TypeMemory
<1>4. TypeControl'
  BY DEF Restart, TypeControl
<1>5. TypeGhosts'
  BY DEF Restart, TypeOK, TypeGhosts
<1> QED
  BY <1>1, <1>2, <1>3, <1>4, <1>5 DEF TypeOK

\* The type invariant holds in every reachable state.
THEOREM TypeCorrect == Spec => []TypeOK
<1>1. Init => TypeOK
  BY InitTypes
<1>2. TypeOK /\ [Next]_vars => TypeOK'
  <2> SUFFICES ASSUME TypeOK, [Next]_vars
               PROVE  TypeOK'
    OBVIOUS
  <2>1. CASE UNCHANGED vars
    BY <2>1
    DEF vars, table, caller, source, memory, control, ghosts, TypeOK,
        TypeTable, TypeCaller, TypeSource, TypeMemory, TypeControl, TypeGhosts
  <2> QED
    BY <2>1, AddTypes, AfterFetchTypes, DatabaseTypes, AnswerTypes,
       FetchTypes, ConsumeTypes, StartTypes, RunTypes, RetryTypes, ControlTypes,
       RestartTypes
    DEF Next
<1> QED
  BY <1>1, <1>2, PTL DEF Spec

(***************************************************************************)
(* Lemmas about the elements of a sequence.                                *)
(***************************************************************************)
LEMMA RangeAppend ==
  ASSUME NEW S, NEW s \in Seq(S), NEW e \in S
  PROVE  Range(Append(s, e)) = Range(s) \cup {e}
<1>1. /\ Append(s, e) \in Seq(S)
      /\ Len(Append(s, e)) = Len(s) + 1
      /\ \A i \in 1..Len(s) : Append(s, e)[i] = s[i]
      /\ Append(s, e)[Len(s) + 1] = e
  BY AppendProperties
<1>2. DOMAIN Append(s, e) = 1..(Len(s) + 1) /\ DOMAIN s = 1..Len(s)
  BY <1>1, LenProperties
<1>3. Len(s) \in Nat
  BY LenProperties
<1> QED
  BY <1>1, <1>2, <1>3 DEF Range

LEMMA RangeTail ==
  ASSUME NEW S, NEW s \in Seq(S), s # <<>>
  PROVE  Head(s) \in Range(s) /\ Range(Tail(s)) \subseteq Range(s)
<1>1. /\ Tail(s) \in Seq(S)
      /\ Len(Tail(s)) = Len(s) - 1
      /\ \A i \in 1..Len(Tail(s)) : Tail(s)[i] = s[i + 1]
  BY HeadTailProperties
<1>2. Len(s) \in Nat \ {0}
  BY EmptySeq
<1>3. DOMAIN Tail(s) = 1..(Len(s) - 1) /\ DOMAIN s = 1..Len(s)
  BY <1>1, LenProperties
<1>4. Head(s) = s[1]
  OBVIOUS
<1> QED
  BY <1>1, <1>2, <1>3, <1>4 DEF Range

LEMMA RangeConcat ==
  ASSUME NEW S, NEW s \in Seq(S), NEW t \in Seq(S)
  PROVE  Range(s \o t) \subseteq Range(s) \cup Range(t)
<1>1. /\ s \o t \in Seq(S)
      /\ Len(s \o t) = Len(s) + Len(t)
      /\ \A i \in 1..(Len(s) + Len(t)) :
           (s \o t)[i] = IF i <= Len(s) THEN s[i] ELSE t[i - Len(s)]
  BY ConcatProperties
<1>2. Len(s) \in Nat /\ Len(t) \in Nat
  BY LenProperties
<1>3. /\ DOMAIN (s \o t) = 1..(Len(s) + Len(t))
      /\ DOMAIN s = 1..Len(s) /\ DOMAIN t = 1..Len(t)
  BY <1>1, LenProperties
<1>4. \A i \in 1..(Len(s) + Len(t)) :
        (s \o t)[i] \in Range(s) \cup Range(t)
  <2> TAKE i \in 1..(Len(s) + Len(t))
  <2>1. CASE i <= Len(s)
    BY <1>1, <1>2, <1>3, <2>1 DEF Range
  <2>2. CASE ~(i <= Len(s))
    <3>1. i - Len(s) \in 1..Len(t)
      BY <1>2, <2>2
    <3> QED
      BY <1>1, <1>3, <2>2, <3>1 DEF Range
  <2> QED
    BY <2>1, <2>2
<1> QED
  BY <1>3, <1>4 DEF Range

LEMMA RangeEmpty == Range(<<>>) = {}
BY DEF Range

LEMMA AtMostOneAppend ==
  ASSUME NEW S, NEW T, NEW s \in Seq(S), NEW e \in S,
         AtMostOne(s, T), e \notin T \/ Range(s) \cap T = {}
  PROVE  AtMostOne(Append(s, e), T)
<1> DEFINE a == Append(s, e)
<1>1. /\ a \in Seq(S)
      /\ Len(a) = Len(s) + 1
      /\ \A i \in 1..Len(s) : a[i] = s[i]
      /\ a[Len(s) + 1] = e
  BY AppendProperties
<1>2. DOMAIN a = 1..(Len(s) + 1) /\ DOMAIN s = 1..Len(s) /\ Len(s) \in Nat
  BY <1>1, LenProperties
<1> SUFFICES ASSUME NEW m \in 1..(Len(s) + 1), NEW n \in 1..(Len(s) + 1),
                    a[m] \in T, a[n] \in T
             PROVE  m = n
  BY <1>2 DEF AtMostOne
<1>3. CASE m \in 1..Len(s) /\ n \in 1..Len(s)
  BY <1>1, <1>2, <1>3 DEF AtMostOne
<1>4. CASE m = Len(s) + 1 /\ n \in 1..Len(s)
  BY <1>1, <1>2, <1>4 DEF Range
<1>5. CASE n = Len(s) + 1 /\ m \in 1..Len(s)
  BY <1>1, <1>2, <1>5 DEF Range
<1> QED
  BY <1>2, <1>3, <1>4, <1>5

LEMMA AtMostOneTail ==
  ASSUME NEW S, NEW T, NEW s \in Seq(S), s # <<>>, AtMostOne(s, T)
  PROVE  /\ AtMostOne(Tail(s), T)
         /\ Head(s) \in T => Range(Tail(s)) \cap T = {}
<1>1. /\ Tail(s) \in Seq(S)
      /\ Len(Tail(s)) = Len(s) - 1
      /\ \A i \in 1..Len(Tail(s)) : Tail(s)[i] = s[i + 1]
  BY HeadTailProperties
<1>2. Len(s) \in Nat \ {0}
  BY EmptySeq
<1>3. DOMAIN Tail(s) = 1..(Len(s) - 1) /\ DOMAIN s = 1..Len(s)
  BY <1>1, LenProperties
<1>4. Head(s) = s[1]
  OBVIOUS
<1>5. \A i \in 1..(Len(s) - 1) : Tail(s)[i] = s[i + 1] /\ i + 1 \in DOMAIN s
  BY <1>1, <1>2, <1>3
<1>6. AtMostOne(Tail(s), T)
  <2> SUFFICES ASSUME NEW m \in 1..(Len(s) - 1), NEW n \in 1..(Len(s) - 1),
                      Tail(s)[m] \in T, Tail(s)[n] \in T
               PROVE  m = n
    BY <1>3 DEF AtMostOne
  <2>1. m + 1 = n + 1
    BY <1>5 DEF AtMostOne
  <2> QED
    BY <2>1, <1>2
<1>7. Head(s) \in T => Range(Tail(s)) \cap T = {}
  <2> SUFFICES ASSUME Head(s) \in T, NEW i \in 1..(Len(s) - 1), Tail(s)[i] \in T
               PROVE  FALSE
    BY <1>3 DEF Range
  <2>1. 1 = i + 1
    BY <1>2, <1>3, <1>4, <1>5 DEF AtMostOne
  <2> QED
    BY <2>1
<1> QED
  BY <1>6, <1>7

LEMMA AtMostOneEmpty == \A T : AtMostOne(<<>>, T)
BY DEF AtMostOne

(***************************************************************************)
(* What a step does to Kept: only an executed insert keeps a new job, and  *)
(* no step forgets one.                                                    *)
(***************************************************************************)
LEMMA FinishedGrows ==
  ASSUME TypeOK, StoreInv, [Next]_vars
  PROVE  /\ finished \subseteq finished'
         /\ \A j \in finished' : Kept(j)
<1> USE DEF ghosts
<1>0. \A j \in finished : Kept(j)
  BY DEF Kept
<1>1. ASSUME stream # <<>>, EnqueueHead
      PROVE  /\ finished \subseteq finished'
             /\ \A j \in finished' : Kept(j)
  <2>1. Kept(Head(stream))
    BY <1>1, RangeTail DEF StoreInv, Held, TypeOK, TypeSource
  <2> QED
    BY <1>0, <1>1, <2>1 DEF EnqueueHead
<1>2. ASSUME NEW j, Kept(j), EndResolved(j) \/ EndRejected(j)
      PROVE  /\ finished \subseteq finished'
             /\ \A k \in finished' : Kept(k)
  BY <1>0, <1>2 DEF EndResolved, EndRejected
<1>3. ASSUME NEW q \in Queues, Start(q)
      PROVE  /\ finished \subseteq finished'
             /\ \A j \in finished' : Kept(j)
  <2>1. queue[q] \in Seq(Jobs) /\ queue[q] # <<>>
    BY <1>3 DEF Start, TypeOK, TypeMemory
  <2>2. Kept(Head(queue[q]))
    BY <2>1, RangeTail DEF StoreInv, Held
  <2> QED
    BY <1>0, <1>2, <1>3, <2>2 DEF Start
<1>4. ASSUME NEW q \in Queues,
             RunSucceeds(q) \/ RunNeedsRetry(q) \/ RunFails(q)
      PROVE  /\ finished \subseteq finished'
             /\ \A j \in finished' : Kept(j)
  <2>1. Kept(running[q])
    BY <1>4 DEF RunSucceeds, RunNeedsRetry, RunFails, StoreInv, Held
  <2> QED
    BY <1>0, <1>2, <1>4, <2>1 DEF RunSucceeds, RunNeedsRetry, RunFails
<1>5. CASE ConsumeOne \/ ConsumeHeld
  BY <1>0, <1>1, <1>5 DEF ConsumeOne, ConsumeHeld
<1>6. CASE \/ \E j \in Jobs : Add(j)
           \/ AfterFetch \/ DbWrite \/ DbWriteFails
           \/ InsertAnswered \/ DeleteAnswered
  BY <1>0, <1>6
  DEF Add, AfterFetch, DbWrite, DbWriteFails, InsertAnswered, DeleteAnswered
<1>7. CASE \/ StreamJobs \/ DbFetch \/ DbFetchFails \/ FetchAnswered
           \/ Pause \/ Resume \/ Shutdown \/ Restart
           \/ \E q \in Queues : RunRetries(q) \/ RetryParked(q)
           \/ UNCHANGED vars
  BY <1>0, <1>7
  DEF StreamJobs, DbFetch, DbFetchFails, FetchAnswered, Pause, Resume,
      Shutdown, Restart, RunRetries, RetryParked, vars
<1> QED
  BY <1>3, <1>4, <1>5, <1>6, <1>7 DEF Next

LEMMA RowsStay ==
  ASSUME [Next]_vars, ~DbWrite
  PROVE  db' = db
BY DEF Next, table, vars, Add, AfterFetch, DbWriteFails, InsertAnswered,
       DeleteAnswered, StreamJobs, DbFetch, DbFetchFails, FetchAnswered,
       ConsumeOne, ConsumeHeld, Start, RunSucceeds, RunNeedsRetry, RunFails,
       RunRetries, RetryParked, Pause, Resume, Shutdown, Restart

LEMMA KeptSame ==
  ASSUME TypeOK, StoreInv, [Next]_vars, ~DbWrite
  PROVE  \A j \in Jobs : Kept(j)' <=> Kept(j)
BY FinishedGrows, RowsStay DEF Kept

LEMMA KeptByWrite ==
  ASSUME TypeOK, StoreInv, DbWrite
  PROVE  \A j \in Jobs :
           /\ Kept(j) => Kept(j)'
           /\ Kept(j)' => Kept(j) \/ Head(writes) = Request("insert", j)
<1> DEFINE w == Head(writes)
<1>1. w \in Write /\ w \in Range(writes)
  BY HeadTailProperties, RangeTail DEF DbWrite, TypeOK, TypeTable
<1>2. finished' = finished
  BY DEF DbWrite, ghosts
<1>3. CASE w.op = "insert"
  <2>1. w = Request("insert", w.job)
    BY <1>1, <1>3 DEF Write, Request
  <2> QED
    BY <1>2, <1>3, <2>1 DEF DbWrite, Kept
<1>4. CASE w.op # "insert"
  <2>1. w.job \in finished
    BY <1>1, <1>4 DEF StoreInv, DeletesFinished
  <2> QED
    BY <1>2, <1>4, <2>1 DEF DbWrite, Kept
<1> QED
  BY <1>3, <1>4

LEMMA KeptGrows ==
  ASSUME TypeOK, StoreInv, [Next]_vars
  PROVE  \A j \in Jobs : Kept(j) => Kept(j)'
BY KeptSame, KeptByWrite

(***************************************************************************)
(* Held is inductive.                                                      *)
(***************************************************************************)
LEMMA HeldType ==
  ASSUME TypeOK
  PROVE  /\ Range(stream) \subseteq Jobs
         /\ \A q \in Queues : /\ running[q] # NoJob => running[q] \in Jobs
                              /\ Range(queue[q]) \subseteq Jobs
                              /\ Range(parked[q]) \subseteq Jobs
BY RangeOfSeq DEF TypeOK, TypeSource, TypeMemory

\* It is enough that a step brings in only jobs that were kept before it, or
\* are kept after it.
LEMMA HeldStep ==
  ASSUME TypeOK, TypeOK', StoreInv, [Next]_vars,
         \A j \in Range(stream') : Kept(j) \/ Kept(j)',
         \A q \in Queues :
           /\ running'[q] # NoJob => Kept(running'[q])
           /\ \A j \in Range(queue'[q]) : Kept(j)
           /\ \A j \in Range(parked'[q]) : Kept(j)
  PROVE  Held'
<1>1. \A j : Kept(j) => j \in Jobs
  BY DEF Kept, TypeOK, TypeTable, TypeGhosts
<1> QED
  BY <1>1, KeptGrows DEF Held

\* Steps that leave the in-memory queues alone.
LEMMA HeldStream ==
  ASSUME TypeOK, TypeOK', StoreInv, [Next]_vars, UNCHANGED memory,
         \A j \in Range(stream') : Kept(j) \/ Kept(j)'
  PROVE  Held'
BY HeldStep DEF memory, StoreInv, Held

LEMMA HeldEnqueue ==
  ASSUME TypeOK, TypeOK', StoreInv, [Next]_vars, stream # <<>>, EnqueueHead,
         UNCHANGED <<running, attempt, parked>>
  PROVE  Held'
<1> DEFINE j == Head(stream)
<1>1. j \in Jobs /\ Kept(j) /\ Range(stream') \subseteq Range(stream)
  BY RangeTail, HeadTailProperties
  DEF EnqueueHead, StoreInv, Held, TypeOK, TypeSource
<1>2. ASSUME NEW q \in Queues
      PROVE  \A k \in Range(queue'[q]) : Kept(k)
  <2>1. Range(Append(queue[q], j)) = Range(queue[q]) \cup {j}
    BY <1>1, RangeAppend DEF TypeOK, TypeMemory
  <2>2. queue'[q] \in {queue[q], Append(queue[q], j)}
    BY DEF EnqueueHead, TypeOK, TypeMemory
  <2> QED
    BY <1>1, <2>1, <2>2 DEF StoreInv, Held
<1> QED
  BY <1>1, <1>2, HeldStep DEF StoreInv, Held

LEMMA HeldInductive ==
  ASSUME TypeOK, TypeOK', StoreInv, [Next]_vars
  PROVE  Held'
<1>1. CASE \/ \E j \in Jobs : Add(j)
           \/ DbWrite \/ DbWriteFails \/ DeleteAnswered
           \/ StreamJobs \/ DbFetchFails \/ FetchAnswered
           \/ Pause \/ Resume \/ Shutdown \/ UNCHANGED vars
  <2>1. stream' = stream /\ UNCHANGED memory
    BY <1>1
    DEF Add, DbWrite, DbWriteFails, DeleteAnswered, StreamJobs, DbFetchFails,
        FetchAnswered, Pause, Resume, Shutdown, vars, source
  <2> QED
    BY <2>1, HeldStream DEF StoreInv, Held
<1>2. CASE AfterFetch
  <2>1. Head(waiting) \in Jobs /\ add[Head(waiting)] = "waiting"
    BY <1>2, HeadTailProperties, RangeTail
    DEF AfterFetch, TypeOK, TypeSource, StoreInv, Awaited
  <2>2. Range(Append(stream, Head(waiting))) = Range(stream) \cup {Head(waiting)}
    BY <2>1, RangeAppend DEF TypeOK, TypeSource
  <2>3. Head(waiting) \in Custom => Kept(Head(waiting))
    BY <2>1 DEF StoreInv, Told
  <2>4. UNCHANGED memory
    BY <1>2 DEF AfterFetch
  <2> QED
    BY <1>2, <2>2, <2>3, <2>4, HeldStream DEF AfterFetch, StoreInv, Held
<1>3. CASE InsertAnswered
  <2> DEFINE x == Head(acks)
  <2>1. x \in Answer /\ x \in Range(acks)
    BY <1>3, HeadTailProperties, RangeTail DEF InsertAnswered, TypeOK, TypeTable
  <2>2. x.job \in Jobs /\ x.op = "insert"
    BY <1>3, <2>1 DEF InsertAnswered, Answer
  <2>3. x.ok => Kept(x.job)
    BY <2>1, <2>2 DEF StoreInv, Told
  <2>4. Range(Append(stream, x.job)) = Range(stream) \cup {x.job}
    BY <2>2, RangeAppend DEF TypeOK, TypeSource
  <2>5. \/ stream' = stream
        \/ x.ok /\ stream' = Append(stream, x.job)
    BY <1>3 DEF InsertAnswered
  <2>6. UNCHANGED memory
    BY <1>3 DEF InsertAnswered
  <2> QED
    BY <2>3, <2>4, <2>5, <2>6, HeldStream DEF StoreInv, Held
<1>4. CASE DbFetch
  <2>1. \A j \in Range(stream') : Kept(j)
    BY <1>4, RowsAreJobs DEF DbFetch, Range, Kept
  <2> QED
    BY <1>4, <2>1, HeldStream DEF DbFetch
<1>5. CASE ConsumeOne
  BY <1>5, HeldEnqueue, HeldStream DEF ConsumeOne, StoreInv, Held, memory
<1>6. CASE ConsumeHeld
  BY <1>6, HeldEnqueue DEF ConsumeHeld
<1>7. ASSUME NEW q \in Queues, Start(q)
      PROVE  Held'
  <2>1. queue[q] \in Seq(Jobs) /\ queue[q] # <<>>
    BY <1>7 DEF Start, TypeOK, TypeMemory
  <2>2. Head(queue[q]) \in Range(queue[q])
        /\ Range(Tail(queue[q])) \subseteq Range(queue[q])
    BY <2>1, RangeTail
  <2>3. ASSUME NEW p \in Queues
        PROVE  /\ running'[p] # NoJob => Kept(running'[p])
               /\ \A j \in Range(queue'[p]) : Kept(j)
               /\ \A j \in Range(parked'[p]) : Kept(j)
    BY <1>7, <2>2, <2>3 DEF Start, StoreInv, Held, TypeOK, TypeMemory
  <2>4. stream' = stream
    BY <1>7 DEF Start, source
  <2> QED
    BY <2>3, <2>4, HeldStep DEF StoreInv, Held
<1>8. ASSUME NEW q \in Queues,
             RunSucceeds(q) \/ RunNeedsRetry(q) \/ RunFails(q)
      PROVE  Held'
  <2>1. running[q] \in Jobs /\ Kept(running[q])
    BY <1>8 DEF RunSucceeds, RunNeedsRetry, RunFails, StoreInv, Held, TypeOK,
                TypeMemory
  <2>2. Range(Append(parked[q], running[q])) = Range(parked[q]) \cup {running[q]}
    BY <2>1, RangeAppend DEF TypeOK, TypeMemory
  <2>3. \A p \in Queues : \A j \in Range(parked'[p]) : Kept(j)
    <3>1. \/ parked' = parked
          \/ parked' = [parked EXCEPT ![q] = Append(parked[q], running[q])]
      BY <1>8 DEF RunSucceeds, RunNeedsRetry, RunFails, KeepForRetry
    <3>2. parked \in [Queues -> Seq(Jobs)]
      BY DEF TypeOK, TypeMemory
    <3>3. \A p \in Queues : \A j \in Range(parked[p]) : Kept(j)
      BY DEF StoreInv, Held
    <3> QED
      BY <2>1, <2>2, <3>1, <3>2, <3>3
  <2>4. \A p \in Queues : running'[p] # NoJob => Kept(running'[p])
    BY <1>8
    DEF RunSucceeds, RunNeedsRetry, RunFails, Release, StoreInv, Held, TypeOK,
        TypeMemory
  <2>5. queue' = queue /\ stream' = stream
    BY <1>8 DEF RunSucceeds, RunNeedsRetry, RunFails, source
  <2> QED
    BY <2>3, <2>4, <2>5, HeldStep DEF StoreInv, Held
<1>9. ASSUME NEW q \in Queues, RunRetries(q) \/ RetryParked(q)
      PROVE  Held'
  <2>1. Range(queue[q] \o parked[q]) \subseteq Range(queue[q]) \cup Range(parked[q])
    BY RangeConcat DEF TypeOK, TypeMemory
  <2>2. \A p \in Queues : /\ \A j \in Range(queue'[p]) : Kept(j)
                          /\ \A j \in Range(parked'[p]) : Kept(j)
    BY <1>9, <2>1, RangeEmpty
    DEF RunRetries, RetryParked, StoreInv, Held, TypeOK, TypeMemory
  <2>3. stream' = stream /\ running' = running
    BY <1>9 DEF RunRetries, RetryParked, source
  <2> QED
    BY <2>2, <2>3, HeldStep DEF StoreInv, Held
<1>10. CASE Restart
  <2>1. Range(stream') = {}
    BY <1>10, RangeEmpty DEF Restart
  <2>2. \A q \in Queues : /\ running'[q] = NoJob
                          /\ Range(queue'[q]) = {}
                          /\ Range(parked'[q]) = {}
    BY <1>10, RangeEmpty DEF Restart
  <2> QED
    BY <2>1, <2>2, HeldStep
<1> QED
  BY <1>1, <1>2, <1>3, <1>4, <1>5, <1>6, <1>7, <1>8, <1>9, <1>10 DEF Next

(***************************************************************************)
(* Told is inductive.                                                      *)
(***************************************************************************)
LEMMA ToldInductive ==
  ASSUME TypeOK, TypeOK', StoreInv, [Next]_vars
  PROVE  Told'
<1>1. \A x \in Range(acks') : x.op = "insert" /\ x.ok => Kept(x.job)'
  <2>1. Range(acks) \subseteq Answer
    BY RangeOfSeq DEF TypeOK, TypeTable
  <2>2. \A x \in Range(acks) : x.op = "insert" /\ x.ok => Kept(x.job)'
    BY <2>1, KeptGrows DEF StoreInv, Told, Answer
  <2>3. CASE DbWrite \/ DbWriteFails
    <3> DEFINE w == Head(writes)
               Ans(o) == [op |-> w.op, job |-> w.job, ok |-> o]
    <3>1. w \in Write
      BY <2>3, HeadTailProperties DEF DbWrite, DbWriteFails, TypeOK, TypeTable
    <3>2. \A o \in BOOLEAN : Range(Append(acks, Ans(o))) = Range(acks) \cup {Ans(o)}
      BY <3>1, AnswerType, RangeAppend DEF TypeOK, TypeTable
    <3>3. \/ acks' = Append(acks, Ans(FALSE))
          \/ acks' = Append(acks, Ans(TRUE)) /\ DbWrite
      BY <2>3 DEF DbWrite, DbWriteFails
    <3>4. \A j : DbWrite /\ w.op = "insert" /\ j = w.job => Kept(j)'
      BY DEF DbWrite, Kept
    <3>5. ASSUME NEW x \in Range(acks'), x.op = "insert", x.ok
          PROVE  Kept(x.job)'
      <4>1. CASE x \in Range(acks)
        BY <2>2, <3>5, <4>1
      <4>2. CASE x \notin Range(acks)
        <5>1. /\ Range(Append(acks, Ans(TRUE))) = Range(acks) \cup {Ans(TRUE)}
              /\ Range(Append(acks, Ans(FALSE))) = Range(acks) \cup {Ans(FALSE)}
          BY <3>2
        <5>2. x # Ans(FALSE)
          BY <3>5
        <5>3. acks' # Append(acks, Ans(FALSE))
          <6> HIDE DEF Ans
          <6> QED
            BY <3>5, <4>2, <5>1, <5>2
        <5>4. DbWrite /\ acks' = Append(acks, Ans(TRUE))
          BY <3>3, <5>3
        <5>5. x = Ans(TRUE)
          <6> HIDE DEF Ans
          <6> QED
            BY <3>5, <4>2, <5>1, <5>4
        <5>6. w.op = "insert" /\ x.job = w.job
          BY <3>5, <5>5
        <5> QED
          BY <3>4, <5>4, <5>6
      <4> QED
        BY <4>1, <4>2
    <3> QED
      BY <3>5
  <2>4. CASE InsertAnswered \/ DeleteAnswered \/ Restart
    <3>1. Range(acks') \subseteq Range(acks)
      BY <2>4, RangeTail, RangeEmpty
      DEF InsertAnswered, DeleteAnswered, Restart, TypeOK, TypeTable
    <3> QED
      BY <2>2, <3>1
  <2>5. CASE ~(DbWrite \/ DbWriteFails \/ InsertAnswered \/ DeleteAnswered
               \/ Restart)
    <3>1. acks' = acks
      BY <2>5
      DEF Next, vars, table, Add, AfterFetch, StreamJobs, DbFetch, DbFetchFails,
          FetchAnswered, ConsumeOne, ConsumeHeld, Start, RunSucceeds,
          RunNeedsRetry, RunFails, RunRetries, RetryParked, Pause, Resume,
          Shutdown
    <3> QED
      BY <2>2, <3>1
  <2> QED
    BY <2>3, <2>4, <2>5
<1>2. ASSUME NEW j \in Jobs,
             add'[j] = "added" \/ (add'[j] = "waiting" /\ j \in Custom)
      PROVE  Kept(j)'
  <2>1. SUFFICES Kept(j)
    BY KeptGrows
  <2>2. CASE add'[j] = add[j]
    BY <1>2, <2>2 DEF StoreInv, Told
  <2>3. CASE add'[j] # add[j] /\ \E k \in Jobs : Add(k)
    <3>1. PICK k \in Jobs : Add(k)
      BY <2>3
    <3>2. k = j /\ add[j] = "none"
      BY <2>3, <3>1 DEF Add, StoreInsert, TypeOK, TypeCaller
    <3>3. add'[j] \in {"custom", "inserting_unstreamed"}
          \/ (add'[j] = "waiting" /\ j \notin Custom)
      BY <3>1, <3>2 DEF Add, StoreInsert, TypeOK, TypeCaller
    <3> QED
      BY <1>2, <3>3
  <2>4. CASE add'[j] # add[j] /\ AfterFetch
    <3>1. j = Head(waiting) /\ add[j] = "waiting"
      BY <2>4, HeadTailProperties, RangeTail
      DEF AfterFetch, TypeOK, TypeCaller, TypeSource, StoreInv, Awaited
    <3>2. j \in Custom
      BY <1>2, <2>4, <3>1 DEF AfterFetch, TypeOK, TypeCaller
    <3> QED
      BY <3>1, <3>2 DEF StoreInv, Told
  <2>5. CASE add'[j] # add[j] /\ InsertAnswered
    <3>1. Head(acks) \in Range(acks)
      BY <2>5, RangeTail DEF InsertAnswered, TypeOK, TypeTable
    <3>2. j = Head(acks).job
      BY <2>5 DEF InsertAnswered, StoreInsert, TypeOK, TypeCaller
    <3>3. Head(acks).op = "insert"
      BY <2>5 DEF InsertAnswered
    <3>4. Head(acks).ok
      BY <1>2, <2>5, <3>2 DEF InsertAnswered, TypeOK, TypeCaller
    <3> QED
      BY <3>1, <3>2, <3>3, <3>4 DEF StoreInv, Told
  <2>6. CASE add'[j] # add[j] /\ Restart
    BY <1>2, <2>6 DEF Restart
  <2>7. CASE ~(AfterFetch \/ InsertAnswered \/ Restart \/ \E k \in Jobs : Add(k))
    <3>1. add' = add
      BY <2>7
      DEF Next, vars, caller, DbWrite, DbWriteFails, DeleteAnswered, StreamJobs,
          DbFetch, DbFetchFails, FetchAnswered, ConsumeOne, ConsumeHeld, Start,
          RunSucceeds, RunNeedsRetry, RunFails, RunRetries, RetryParked, Pause,
          Resume, Shutdown
    <3> QED
      BY <2>2, <3>1
  <2> QED
    BY <2>2, <2>3, <2>4, <2>5, <2>6, <2>7
<1> QED
  BY <1>1, <1>2 DEF Told

(***************************************************************************)
(* The calls of add(): how a step changes add, writes, waiting and acks.   *)
(***************************************************************************)
LEMMA WritesStep ==
  ASSUME TypeOK, StoreInv, [Next]_vars
  PROVE  \/ writes' \in {writes, <<>>}
         \/ (DbWrite \/ DbWriteFails) /\ writes' = Tail(writes)
         \/ \E j \in Jobs :
              /\ writes' = Append(writes, Request("insert", j))
              /\ add[j] = "none" \/ (add[j] = "waiting" /\ j \notin Custom)
              /\ AwaitsInsert(j)'
              /\ acks' = acks
         \/ \E j \in finished' : \E k \in {"resolve", "reject"} :
              writes' = Append(writes, Request(k, j))
<1> USE DEF table
<1>1. CASE \E j \in Jobs : Add(j)
  BY <1>1 DEF Add, StoreInsert, AwaitsInsert, TypeOK, TypeCaller
<1>2. CASE AfterFetch
  <2>1. Head(waiting) \in Jobs /\ add[Head(waiting)] = "waiting"
    BY <1>2, HeadTailProperties, RangeTail
    DEF AfterFetch, TypeOK, TypeSource, StoreInv, Awaited
  <2> QED
    BY <1>2, <2>1 DEF AfterFetch, AwaitsInsert, TypeOK, TypeCaller
<1>3. CASE DbWrite \/ DbWriteFails
  BY <1>3 DEF DbWrite, DbWriteFails
<1>4. CASE InsertAnswered
  BY <1>4 DEF InsertAnswered, StoreInsert
<1>5. ASSUME EnqueueHead
      PROVE  \/ writes' = writes
             \/ \E j \in finished' : \E k \in {"resolve", "reject"} :
                  writes' = Append(writes, Request(k, j))
  BY <1>5 DEF EnqueueHead
<1>6. CASE ConsumeOne \/ ConsumeHeld
  BY <1>5, <1>6 DEF ConsumeOne, ConsumeHeld
<1>7. ASSUME NEW q \in Queues,
             Start(q) \/ RunSucceeds(q) \/ RunNeedsRetry(q) \/ RunFails(q)
      PROVE  \/ writes' = writes
             \/ \E j \in finished' : \E k \in {"resolve", "reject"} :
                  writes' = Append(writes, Request(k, j))
  BY <1>7
  DEF Start, RunSucceeds, RunNeedsRetry, RunFails, EndResolved, EndRejected
<1>8. CASE \/ DeleteAnswered \/ StreamJobs \/ DbFetch \/ DbFetchFails
           \/ FetchAnswered \/ Pause \/ Resume \/ Shutdown \/ Restart
           \/ \E q \in Queues : RunRetries(q) \/ RetryParked(q)
           \/ UNCHANGED vars
  BY <1>8
  DEF DeleteAnswered, StreamJobs, DbFetch, DbFetchFails, FetchAnswered, Pause,
      Resume, Shutdown, Restart, RunRetries, RetryParked, vars
<1> QED
  BY <1>1, <1>2, <1>3, <1>4, <1>6, <1>7, <1>8 DEF Next

LEMMA DeletesInductive ==
  ASSUME TypeOK, TypeOK', StoreInv, [Next]_vars
  PROVE  DeletesFinished'
<1>1. finished \subseteq finished'
  BY FinishedGrows
<1>2. Range(writes') \subseteq Range(writes) => DeletesFinished'
  BY <1>1 DEF StoreInv, DeletesFinished
<1>3. CASE writes' \in {writes, <<>>}
  BY <1>2, <1>3, RangeEmpty
<1>4. CASE (DbWrite \/ DbWriteFails) /\ writes' = Tail(writes)
  <2>1. writes # <<>>
    BY <1>4 DEF DbWrite, DbWriteFails
  <2> QED
    BY <1>2, <1>4, <2>1, RangeTail DEF TypeOK, TypeTable
<1>5. ASSUME NEW j \in Jobs, NEW k \in {"insert", "resolve", "reject"},
             writes' = Append(writes, Request(k, j)),
             k = "insert" \/ j \in finished'
      PROVE  DeletesFinished'
  <2>1. Request(k, j) \in Write
    BY DEF Request, Write
  <2>2. Range(writes') = Range(writes) \cup {Request(k, j)}
    BY <1>5, <2>1, RangeAppend DEF TypeOK, TypeTable
  <2> QED
    BY <1>1, <1>5, <2>2 DEF StoreInv, DeletesFinished, Request
<1>6. finished' \subseteq Jobs
  BY DEF TypeOK, TypeGhosts
<1> QED
  BY <1>3, <1>4, <1>5, <1>6, WritesStep

\* The calls of add() that neither start, nor proceed, nor are answered keep
\* their state.
LEMMA AddStep ==
  ASSUME TypeOK, StoreInv, [Next]_vars, NEW j \in Jobs, add'[j] # add[j]
  PROVE  \/ /\ add[j] = "none"
            /\ \/ add'[j] = "custom" /\ j \in Custom
               \/ add'[j] \in {"waiting", "inserting_unstreamed"} /\ j \notin Custom
         \/ /\ AfterFetch
            /\ j = Head(waiting) /\ add[j] = "waiting"
            /\ add'[j] \in {"added", "inserting"}
         \/ /\ InsertAnswered
            /\ Head(acks) \in Range(acks) \cap AnswersOf(j)
            /\ \/ add'[j] \in {"added", "failed"}
               \/ add'[j] = "waiting" /\ j \in Custom
         \/ Restart /\ add'[j] = "lost"
<1>1. CASE \E k \in Jobs : Add(k)
  BY <1>1 DEF Add, StoreInsert, TypeOK, TypeCaller
<1>2. CASE AfterFetch
  <2>1. j = Head(waiting) /\ add'[j] \in {"added", "inserting"}
    BY <1>2 DEF AfterFetch, TypeOK, TypeCaller
  <2>2. add[j] = "waiting"
    BY <1>2, <2>1, RangeTail
    DEF AfterFetch, TypeOK, TypeSource, StoreInv, Awaited
  <2> QED
    BY <1>2, <2>1, <2>2
<1>3. CASE InsertAnswered
  <2>1. Head(acks) \in Answer /\ Head(acks) \in Range(acks)
    BY <1>3, HeadTailProperties, RangeTail DEF InsertAnswered, TypeOK, TypeTable
  <2>2. j = Head(acks).job /\ Head(acks).op = "insert"
    BY <1>3 DEF InsertAnswered, StoreInsert, TypeOK, TypeCaller
  <2>3. \/ add'[j] \in {"added", "failed"}
        \/ add'[j] = "waiting" /\ add[j] = "custom"
    BY <1>3, <2>2 DEF InsertAnswered, StoreInsert, TypeOK, TypeCaller
  <2>4. add[j] = "custom" => j \in Custom
    BY DEF StoreInv, Awaited
  <2> QED
    BY <1>3, <2>1, <2>2, <2>3, <2>4 DEF AnswersOf
<1>4. CASE Restart
  BY <1>4 DEF Restart
<1>5. CASE ~(AfterFetch \/ InsertAnswered \/ Restart \/ \E k \in Jobs : Add(k))
  BY <1>5
  DEF Next, vars, caller, DbWrite, DbWriteFails, DeleteAnswered, StreamJobs,
      DbFetch, DbFetchFails, FetchAnswered, ConsumeOne, ConsumeHeld, Start,
      RunSucceeds, RunNeedsRetry, RunFails, RunRetries, RetryParked, Pause,
      Resume, Shutdown
<1> QED
  BY <1>1, <1>2, <1>3, <1>4, <1>5

\* Answers are added by the database and taken by the code that awaits them.
LEMMA AcksStep ==
  ASSUME TypeOK, [Next]_vars
  PROVE  \/ acks' = acks
         \/ Restart /\ acks' = <<>>
         \/ /\ DbWrite \/ DbWriteFails
            /\ \E o \in BOOLEAN :
                 acks' = Append(acks, [op |-> Head(writes).op,
                                       job |-> Head(writes).job, ok |-> o])
         \/ /\ InsertAnswered \/ DeleteAnswered
            /\ acks # <<>> /\ acks' = Tail(acks)
<1>1. CASE DbWrite \/ DbWriteFails
  BY <1>1 DEF DbWrite, DbWriteFails
<1>2. CASE InsertAnswered \/ DeleteAnswered
  BY <1>2 DEF InsertAnswered, DeleteAnswered
<1>3. CASE Restart
  BY <1>3 DEF Restart
<1>4. CASE ~(DbWrite \/ DbWriteFails \/ InsertAnswered \/ DeleteAnswered
             \/ Restart)
  BY <1>4
  DEF Next, vars, table, Add, AfterFetch, StreamJobs, DbFetch, DbFetchFails,
      FetchAnswered, ConsumeOne, ConsumeHeld, Start, RunSucceeds,
      RunNeedsRetry, RunFails, RunRetries, RetryParked, Pause, Resume, Shutdown
<1> QED
  BY <1>1, <1>2, <1>3, <1>4

LEMMA WaitingStep ==
  ASSUME TypeOK, StoreInv, [Next]_vars
  PROVE  \/ waiting' \in {waiting, <<>>}
         \/ AfterFetch /\ waiting # <<>> /\ waiting' = Tail(waiting)
         \/ \E j \in Jobs : /\ waiting' = Append(waiting, j)
                            /\ add[j] # "waiting" /\ add'[j] = "waiting"
<1>1. CASE \E j \in Jobs : Add(j)
  BY <1>1 DEF Add, StoreInsert, TypeOK, TypeCaller
<1>2. CASE AfterFetch
  BY <1>2 DEF AfterFetch
<1>3. CASE InsertAnswered
  <2>0. Head(acks) \in Answer
    BY <1>3, HeadTailProperties DEF InsertAnswered, TypeOK, TypeTable
  <2>1. Head(acks).job \in Jobs
    BY <2>0 DEF Answer
  <2>2. \/ waiting' = waiting
        \/ /\ waiting' = Append(waiting, Head(acks).job)
           /\ add' = [add EXCEPT ![Head(acks).job] = "waiting"]
           /\ add[Head(acks).job] = "custom"
    BY <1>3 DEF InsertAnswered, StoreInsert
  <2> QED
    BY <2>1, <2>2 DEF TypeOK, TypeCaller
<1>4. CASE ~(AfterFetch \/ InsertAnswered \/ \E j \in Jobs : Add(j))
  BY <1>4
  DEF Next, vars, source, DbWrite, DbWriteFails, DeleteAnswered, StreamJobs,
      DbFetch, DbFetchFails, FetchAnswered, ConsumeOne, ConsumeHeld, Start,
      RunSucceeds, RunNeedsRetry, RunFails, RunRetries, RetryParked, Pause,
      Resume, Shutdown, Restart
<1> QED
  BY <1>1, <1>2, <1>3, <1>4

\* The answer to a write is the answer to an insert only if the write was one.
LEMMA AnswerOfWrite ==
  ASSUME NEW w \in Write, NEW o \in BOOLEAN, NEW j \in Jobs
  PROVE  /\ [op |-> w.op, job |-> w.job, ok |-> o] \in Answer
         /\ [op |-> w.op, job |-> w.job, ok |-> o] \in AnswersOf(j)
              => w \in InsertsOf(j)
BY DEF Write, Answer, AnswersOf, InsertsOf

LEMMA InsertsOfRequest ==
  ASSUME NEW j \in Jobs, NEW k \in {"insert", "resolve", "reject"}
  PROVE  /\ Request(k, j) \in Write
         /\ \A i \in Jobs : Request(k, j) \in InsertsOf(i) <=> k = "insert" /\ i = j
BY DEF Request, Write, InsertsOf

(***************************************************************************)
(* Once is inductive.                                                      *)
(***************************************************************************)
LEMMA OnceInductive ==
  ASSUME TypeOK, TypeOK', StoreInv, [Next]_vars
  PROVE  Once'
<1> SUFFICES ASSUME NEW j \in Jobs
             PROVE  /\ AtMostOne(writes', InsertsOf(j))
                    /\ AtMostOne(acks', AnswersOf(j))
                    /\ AtMostOne(waiting', {j})
  BY DEF Once, InsertsOf, AnswersOf
<1>0. /\ AtMostOne(writes, InsertsOf(j))
      /\ AtMostOne(acks, AnswersOf(j))
      /\ AtMostOne(waiting, {j})
  BY DEF StoreInv, Once
<1>1. AtMostOne(writes', InsertsOf(j))
  <2>1. CASE writes' \in {writes, <<>>}
    BY <1>0, <2>1, AtMostOneEmpty
  <2>2. CASE (DbWrite \/ DbWriteFails) /\ writes' = Tail(writes)
    <3>1. writes # <<>>
      BY <2>2 DEF DbWrite, DbWriteFails
    <3> QED
      BY <1>0, <2>2, <3>1, AtMostOneTail DEF TypeOK, TypeTable
  <2>3. ASSUME NEW i \in Jobs, NEW k \in {"insert", "resolve", "reject"},
               writes' = Append(writes, Request(k, i)),
               k = "insert" => add[i] \in {"none", "waiting"}
        PROVE  AtMostOne(writes', InsertsOf(j))
    <3>1. Request(k, i) \in InsertsOf(j) => Range(writes) \cap InsertsOf(j) = {}
      BY <2>3, InsertsOfRequest DEF StoreInv, Awaited, AwaitsInsert
    <3> QED
      BY <1>0, <2>3, <3>1, InsertsOfRequest, AtMostOneAppend
      DEF TypeOK, TypeTable
  <2>4. finished' \subseteq Jobs
    BY DEF TypeOK, TypeGhosts
  <2> QED
    BY <2>1, <2>2, <2>3, <2>4, WritesStep
<1>2. AtMostOne(acks', AnswersOf(j))
  <2>1. CASE DbWrite \/ DbWriteFails
    <3> DEFINE w == Head(writes)
    <3>1. w \in Write /\ w \in Range(writes)
      BY <2>1, HeadTailProperties, RangeTail
      DEF DbWrite, DbWriteFails, TypeOK, TypeTable
    <3>2. w \in InsertsOf(j) => Range(acks) \cap AnswersOf(j) = {}
      BY <3>1 DEF StoreInv, Awaited
    <3>3. PICK o \in BOOLEAN :
            acks' = Append(acks, [op |-> w.op, job |-> w.job, ok |-> o])
      BY <2>1 DEF DbWrite, DbWriteFails
    <3> QED
      BY <1>0, <3>1, <3>2, <3>3, AnswerOfWrite, AtMostOneAppend
      DEF TypeOK, TypeTable
  <2>2. CASE acks # <<>> /\ acks' = Tail(acks)
    BY <1>0, <2>2, AtMostOneTail DEF TypeOK, TypeTable
  <2>3. CASE acks' \in {acks, <<>>}
    BY <1>0, <2>3, AtMostOneEmpty
  <2> QED
    BY <2>1, <2>2, <2>3, AcksStep
<1>3. AtMostOne(waiting', {j})
  <2>1. ASSUME NEW i \in Jobs, waiting' = Append(waiting, i), add[i] # "waiting"
        PROVE  AtMostOne(waiting', {j})
    <3>1. i \notin Range(waiting)
      BY <2>1 DEF StoreInv, Awaited
    <3> QED
      BY <1>0, <2>1, <3>1, AtMostOneAppend DEF TypeOK, TypeSource
  <2>2. CASE waiting # <<>> /\ waiting' = Tail(waiting)
    BY <1>0, <2>2, AtMostOneTail DEF TypeOK, TypeSource
  <2>3. CASE waiting' \in {waiting, <<>>}
    BY <1>0, <2>3, AtMostOneEmpty
  <2> QED
    BY <2>1, <2>2, <2>3, WaitingStep
<1> QED
  BY <1>1, <1>2, <1>3

(***************************************************************************)
(* Awaited is inductive.                                                   *)
(***************************************************************************)
\* Away from the database worker, an insert still in writes was there before
\* the step, or is the one the step requests.
LEMMA AwaitedInserts ==
  ASSUME TypeOK, TypeOK', StoreInv, [Next]_vars, NEW j \in Jobs,
         Range(writes') \cap InsertsOf(j) # {}
  PROVE  /\ AwaitsInsert(j)'
         /\ ~Kept(j)'
         /\ Range(acks') \cap AnswersOf(j) = {}
<1>1. ASSUME Range(writes) \cap InsertsOf(j) # {}, ~(DbWrite \/ DbWriteFails),
             writes' # <<>>
      PROVE  /\ AwaitsInsert(j)'
             /\ ~Kept(j)'
             /\ Range(acks') \cap AnswersOf(j) = {}
  <2>1. AwaitsInsert(j) /\ ~Kept(j) /\ Range(acks) \cap AnswersOf(j) = {}
    BY <1>1 DEF StoreInv, Awaited
  <2>2. ~Restart
    BY <1>1 DEF Restart
  <2>3. add'[j] = add[j]
    BY <2>1, <2>2, AddStep DEF AwaitsInsert
  <2>4. Range(acks') \subseteq Range(acks)
    BY <1>1, AcksStep, RangeTail, RangeEmpty DEF TypeOK, TypeTable
  <2> QED
    BY <1>1, <2>1, <2>3, <2>4, KeptSame DEF AwaitsInsert
<1>2. CASE writes' = writes
  <2>1. ~(DbWrite \/ DbWriteFails)
    <3>1. ASSUME DbWrite \/ DbWriteFails
          PROVE  FALSE
      <4>1. writes \in Seq(Write) /\ writes # <<>> /\ writes' = Tail(writes)
        BY <3>1 DEF DbWrite, DbWriteFails, TypeOK, TypeTable
      <4>2. Len(writes') = Len(writes) - 1 /\ Len(writes) \in Nat
        BY <4>1, HeadTailProperties, LenProperties
      <4> QED
        BY <1>2, <4>2
    <3> QED
      BY <3>1
  <2>2. writes' # <<>>
    BY RangeEmpty
  <2> QED
    BY <1>1, <1>2, <2>1, <2>2
<1>3. CASE writes' = <<>>
  BY <1>3, RangeEmpty
<1>4. CASE (DbWrite \/ DbWriteFails) /\ writes' = Tail(writes)
  <2> DEFINE w == Head(writes)
  <2>1. writes # <<>>
    BY <1>4 DEF DbWrite, DbWriteFails
  <2>2. /\ w \in Write
        /\ Range(Tail(writes)) \subseteq Range(writes)
        /\ w \in InsertsOf(j) => Range(Tail(writes)) \cap InsertsOf(j) = {}
    BY <2>1, HeadTailProperties, RangeTail, AtMostOneTail
    DEF TypeOK, TypeTable, StoreInv, Once
  <2>3. w \notin InsertsOf(j)
    BY <1>4, <2>2
  <2>4. AwaitsInsert(j) /\ ~Kept(j) /\ Range(acks) \cap AnswersOf(j) = {}
    BY <1>4, <2>2 DEF StoreInv, Awaited
  <2>5. add' = add
    BY <1>4 DEF DbWrite, DbWriteFails, caller
  <2>6. ~Kept(j)'
    <3>1. w # Request("insert", j)
      BY <2>3, InsertsOfRequest
    <3> QED
      BY <2>4, <3>1, KeptByWrite, KeptSame
  <2>7. Range(acks') \cap AnswersOf(j) = {}
    <3>1. PICK o \in BOOLEAN :
            acks' = Append(acks, [op |-> w.op, job |-> w.job, ok |-> o])
      BY <1>4 DEF DbWrite, DbWriteFails
    <3>2. Range(acks') = Range(acks) \cup {[op |-> w.op, job |-> w.job, ok |-> o]}
      BY <2>2, <3>1, AnswerOfWrite, RangeAppend DEF TypeOK, TypeTable
    <3> QED
      BY <2>2, <2>3, <2>4, <3>2, AnswerOfWrite
  <2> QED
    BY <2>4, <2>5, <2>6, <2>7 DEF AwaitsInsert
<1>5. ASSUME NEW i \in Jobs, NEW k \in {"insert", "resolve", "reject"},
             writes' = Append(writes, Request(k, i)),
             k = "insert" => /\ add[i] = "none"
                                \/ (add[i] = "waiting" /\ i \notin Custom)
                             /\ AwaitsInsert(i)'
                             /\ acks' = acks
      PROVE  /\ AwaitsInsert(j)'
             /\ ~Kept(j)'
             /\ Range(acks') \cap AnswersOf(j) = {}
  <2>1. Range(writes') = Range(writes) \cup {Request(k, i)} /\ writes' # <<>>
    BY <1>5, InsertsOfRequest, RangeAppend, AppendProperties
    DEF TypeOK, TypeTable
  <2>2. ~(DbWrite \/ DbWriteFails)
    <3>1. ASSUME DbWrite \/ DbWriteFails
          PROVE  FALSE
      <4>1. writes \in Seq(Write) /\ writes # <<>> /\ writes' = Tail(writes)
        BY <3>1 DEF DbWrite, DbWriteFails, TypeOK, TypeTable
      <4>2. Len(writes') = Len(writes) - 1 /\ Len(writes) \in Nat
        BY <4>1, HeadTailProperties, LenProperties
      <4>3. Len(writes') = Len(writes) + 1
        BY <1>5, InsertsOfRequest, AppendProperties DEF TypeOK, TypeTable
      <4> QED
        BY <4>2, <4>3
    <3> QED
      BY <3>1
  <2>3. CASE k = "insert" /\ i = j
    <3>1. ~Kept(j)
      BY <1>5, <2>3 DEF StoreInv, Awaited
    <3>2. Range(acks) \cap AnswersOf(j) = {}
      BY <1>5, <2>3 DEF StoreInv, Awaited, AwaitsInsert
    <3> QED
      BY <1>5, <2>2, <2>3, <3>1, <3>2, KeptSame
  <2>4. CASE ~(k = "insert" /\ i = j)
    <3>1. Request(k, i) \notin InsertsOf(j)
      BY <2>4, InsertsOfRequest
    <3> QED
      BY <1>1, <2>1, <2>2, <3>1
  <2> QED
    BY <2>3, <2>4
<1>6. finished' \subseteq Jobs
  BY DEF TypeOK, TypeGhosts
<1> QED
  BY <1>2, <1>3, <1>4, <1>5, <1>6, WritesStep

LEMMA AwaitedAnswers ==
  ASSUME TypeOK, TypeOK', StoreInv, [Next]_vars, NEW j \in Jobs,
         Range(acks') \cap AnswersOf(j) # {}
  PROVE  AwaitsInsert(j)'
<1>0. Range(acks) \cap AnswersOf(j) # {} => AwaitsInsert(j)
  BY DEF StoreInv, Awaited
<1>1. CASE DbWrite \/ DbWriteFails
  <2> DEFINE w == Head(writes)
  <2>1. w \in Write /\ w \in Range(writes)
    BY <1>1, HeadTailProperties, RangeTail
    DEF DbWrite, DbWriteFails, TypeOK, TypeTable
  <2>2. PICK o \in BOOLEAN :
          acks' = Append(acks, [op |-> w.op, job |-> w.job, ok |-> o])
    BY <1>1 DEF DbWrite, DbWriteFails
  <2>3. Range(acks') = Range(acks) \cup {[op |-> w.op, job |-> w.job, ok |-> o]}
    BY <2>1, <2>2, AnswerOfWrite, RangeAppend DEF TypeOK, TypeTable
  <2>4. w \in InsertsOf(j) => AwaitsInsert(j)
    BY <2>1 DEF StoreInv, Awaited
  <2>5. AwaitsInsert(j)
    BY <1>0, <2>1, <2>3, <2>4, AnswerOfWrite
  <2>6. add' = add
    BY <1>1 DEF DbWrite, DbWriteFails, caller
  <2> QED
    BY <2>5, <2>6 DEF AwaitsInsert
<1>2. CASE acks # <<>> /\ acks' = Tail(acks) /\ (InsertAnswered \/ DeleteAnswered)
  <2>1. /\ Range(acks') \subseteq Range(acks)
        /\ Head(acks) \notin AnswersOf(j)
    BY <1>2, RangeTail, AtMostOneTail DEF TypeOK, TypeTable, StoreInv, Once
  <2>2. AwaitsInsert(j)
    BY <1>0, <2>1
  <2>3. ~Restart
    BY <1>2, RangeEmpty DEF Restart
  <2>4. add'[j] = add[j]
    BY <2>1, <2>2, <2>3, AddStep DEF AwaitsInsert
  <2> QED
    BY <2>2, <2>4 DEF AwaitsInsert
<1>3. CASE acks' = <<>>
  BY <1>3, RangeEmpty
<1>4. CASE acks' = acks
  <2>1. AwaitsInsert(j)
    BY <1>0, <1>4
  <2>2. ~InsertAnswered
    <3>1. ASSUME InsertAnswered
          PROVE  FALSE
      <4>1. acks \in Seq(Answer) /\ acks # <<>> /\ acks' = Tail(acks)
        BY <3>1 DEF InsertAnswered, TypeOK, TypeTable
      <4>2. Len(acks') = Len(acks) - 1 /\ Len(acks) \in Nat
        BY <4>1, HeadTailProperties, LenProperties
      <4> QED
        BY <1>4, <4>2
    <3> QED
      BY <3>1
  <2>3. ~Restart
    BY RangeEmpty DEF Restart
  <2>4. add'[j] = add[j]
    BY <2>1, <2>2, <2>3, AddStep DEF AwaitsInsert
  <2> QED
    BY <2>1, <2>4 DEF AwaitsInsert
<1> QED
  BY <1>1, <1>2, <1>3, <1>4, AcksStep

LEMMA AwaitedWaiting ==
  ASSUME TypeOK, TypeOK', StoreInv, [Next]_vars, NEW j \in Range(waiting')
  PROVE  j \in Jobs /\ add'[j] = "waiting"
<1>0. j \in Jobs
  BY RangeOfSeq DEF TypeOK, TypeSource
<1>1. ASSUME j \in Range(waiting), waiting' # <<>>,
             ~(AfterFetch /\ j = Head(waiting))
      PROVE  add'[j] = "waiting"
  <2>1. add[j] = "waiting"
    BY <1>0, <1>1 DEF StoreInv, Awaited
  <2>2. ~Restart
    BY <1>1 DEF Restart
  <2>3. Range(acks) \cap AnswersOf(j) = {}
    BY <1>0, <2>1 DEF StoreInv, Awaited, AwaitsInsert
  <2> QED
    BY <1>0, <1>1, <2>1, <2>2, <2>3, AddStep
<1>2. waiting' # <<>>
  BY RangeEmpty
<1>3. CASE AfterFetch
  <2>1. waiting \in Seq(Jobs) /\ waiting # <<>> /\ waiting' = Tail(waiting)
    BY <1>3 DEF AfterFetch, TypeOK, TypeSource
  <2>2. Range(Tail(waiting)) \subseteq Range(waiting)
    BY <2>1, RangeTail
  <2>3. AtMostOne(waiting, {j})
    BY <1>0 DEF StoreInv, Once
  <2>4. Head(waiting) \in {j} => Range(Tail(waiting)) \cap {j} = {}
    BY <2>1, <2>3, AtMostOneTail
  <2>5. j \in Range(waiting) /\ j # Head(waiting)
    BY <2>1, <2>2, <2>4
  <2> QED
    BY <1>0, <1>1, <1>2, <2>5
<1>4. CASE ~AfterFetch /\ waiting' = waiting
  BY <1>0, <1>1, <1>2, <1>4
<1>5. ASSUME NEW i \in Jobs, ~AfterFetch, waiting' = Append(waiting, i),
             add'[i] = "waiting"
      PROVE  add'[j] = "waiting"
  <2>1. Range(waiting') = Range(waiting) \cup {i}
    BY <1>5, RangeAppend DEF TypeOK, TypeSource
  <2> QED
    BY <1>1, <1>2, <1>5, <2>1
<1> QED
  BY <1>0, <1>2, <1>3, <1>4, <1>5, WaitingStep

LEMMA AwaitedFresh ==
  ASSUME TypeOK, TypeOK', StoreInv, [Next]_vars, NEW j \in Jobs
  PROVE  /\ add'[j] = "custom" => j \in Custom
         /\ add'[j] = "none" \/ (add'[j] = "waiting" /\ j \notin Custom)
              => ~Kept(j)'
<1>0. /\ add[j] = "custom" => j \in Custom
      /\ add[j] = "none" \/ (add[j] = "waiting" /\ j \notin Custom) => ~Kept(j)
  BY DEF StoreInv, Awaited
<1>1. add'[j] = "custom" => j \in Custom
  BY <1>0, AddStep
<1>2. ASSUME add'[j] = "none" \/ (add'[j] = "waiting" /\ j \notin Custom)
      PROVE  ~Kept(j)'
  <2>1. add[j] = "none" \/ (add[j] = "waiting" /\ j \notin Custom)
    BY <1>2, AddStep
  <2>2. ~Kept(j)
    BY <1>0, <2>1
  <2>3. CASE DbWrite
    <3>1. Head(writes) \in Range(writes)
      BY <2>3, RangeTail DEF DbWrite, TypeOK, TypeTable
    <3>2. Head(writes) \notin InsertsOf(j)
      BY <2>1, <3>1 DEF StoreInv, Awaited, AwaitsInsert
    <3>3. Head(writes) # Request("insert", j)
      BY <3>2, InsertsOfRequest
    <3> QED
      BY <2>2, <2>3, <3>3, KeptByWrite
  <2>4. CASE ~DbWrite
    BY <2>2, <2>4, KeptSame
  <2> QED
    BY <2>3, <2>4
<1> QED
  BY <1>1, <1>2

LEMMA AwaitedInductive ==
  ASSUME TypeOK, TypeOK', StoreInv, [Next]_vars
  PROVE  Awaited'
BY AwaitedInserts, AwaitedAnswers, AwaitedWaiting, AwaitedFresh
DEF Awaited, InsertsOf, AnswersOf

(***************************************************************************)
(* The theorems.                                                           *)
(***************************************************************************)

\* The inductive invariant holds in every reachable state.
THEOREM StoreInvariant == Spec => []StoreInv
<1>1. Init => StoreInv
  BY RangeEmpty, AtMostOneEmpty
  DEF Init, StoreInv, Held, Told, DeletesFinished, Once, Awaited, Kept,
      AwaitsInsert
<1>2. TypeOK /\ TypeOK' /\ StoreInv /\ [Next]_vars => StoreInv'
  BY HeldInductive, ToldInductive, DeletesInductive, OnceInductive,
     AwaitedInductive
  DEF StoreInv
<1> QED
  BY <1>1, <1>2, TypeCorrect, PTL DEF Spec

\* A job whose add() resolved keeps its row until it comes to an outcome,
\* whatever crashes, shutdowns and failing writes happen.
THEOREM JobsAreNotLost == Spec => []NoLostJob
<1>1. StoreInv => NoLostJob
  BY DEF StoreInv, Told, Kept, NoLostJob
<1> QED
  BY <1>1, StoreInvariant, PTL

(***************************************************************************)
(* JobQueue implements DurableJobs.                                        *)
(***************************************************************************)
Accepted == {j \in Jobs : add[j] = "added"}

\* A step brings at most one job to its outcome, and does nothing else then
\* that DurableJobs can see.
LEMMA OutcomeStep ==
  ASSUME [Next]_vars
  PROVE  \/ finished' = finished
         \/ \E j : finished' = finished \cup {j} /\ db' = db /\ add' = add
<1> USE DEF ghosts
<1>1. ASSUME NEW j, EndResolved(j) \/ EndRejected(j)
      PROVE  finished' \in {finished, finished \cup {j}}
  BY <1>1 DEF EndResolved, EndRejected
<1>2. ASSUME NEW q \in Queues,
             Start(q) \/ RunSucceeds(q) \/ RunNeedsRetry(q) \/ RunFails(q)
      PROVE  /\ \/ finished' = finished
                \/ \E j : finished' = finished \cup {j}
             /\ db' = db /\ add' = add
  BY <1>1, <1>2 DEF Start, RunSucceeds, RunNeedsRetry, RunFails
<1>3. CASE ConsumeOne \/ ConsumeHeld
  BY <1>3 DEF ConsumeOne, ConsumeHeld, EnqueueHead, caller
<1>4. CASE \/ \E j \in Jobs : Add(j)
           \/ AfterFetch \/ DbWrite \/ DbWriteFails
           \/ InsertAnswered \/ DeleteAnswered
  BY <1>4
  DEF Add, AfterFetch, DbWrite, DbWriteFails, InsertAnswered, DeleteAnswered
<1>5. CASE \/ StreamJobs \/ DbFetch \/ DbFetchFails \/ FetchAnswered
           \/ Pause \/ Resume \/ Shutdown \/ Restart
           \/ \E q \in Queues : RunRetries(q) \/ RetryParked(q)
           \/ UNCHANGED vars
  BY <1>5
  DEF StreamJobs, DbFetch, DbFetchFails, FetchAnswered, Pause, Resume,
      Shutdown, Restart, RunRetries, RetryParked, vars
<1> QED
  BY <1>2, <1>3, <1>4, <1>5 DEF Next

\* A step tells at most one caller that its job is stored, and the job is.
LEMMA AcceptStep ==
  ASSUME TypeOK, TypeOK', StoreInv, [Next]_vars
  PROVE  \/ Accepted' = Accepted
         \/ \E j \in Jobs : /\ Kept(j) /\ Accepted' = Accepted \cup {j}
                            /\ db' = db /\ finished' = finished
<1>1. ASSUME NEW j \in Jobs, add[j] = "added"
      PROVE  add'[j] = "added"
  <2>1. CASE Restart
    BY <1>1, <2>1 DEF Restart
  <2>2. CASE ~Restart
    BY <1>1, <2>2, AddStep DEF StoreInv, Awaited, AwaitsInsert
  <2> QED
    BY <2>1, <2>2
<1>2. CASE AfterFetch
  <2> DEFINE h == Head(waiting)
  <2>1. h \in Jobs /\ h \in Range(waiting)
    BY <1>2, HeadTailProperties, RangeTail DEF AfterFetch, TypeOK, TypeSource
  <2>2. add[h] = "waiting"
    BY <2>1 DEF StoreInv, Awaited
  <2>3. db' = db /\ finished' = finished
    BY <1>2 DEF AfterFetch, ghosts
  <2>4. CASE h \in Custom
    <3>1. Kept(h)
      BY <2>1, <2>2, <2>4 DEF StoreInv, Told
    <3>2. add' = [add EXCEPT ![h] = "added"]
      BY <1>2, <2>4 DEF AfterFetch
    <3>3. Accepted' = Accepted \cup {h}
      BY <2>1, <3>2 DEF Accepted, TypeOK, TypeCaller
    <3> QED
      BY <2>1, <2>3, <3>1, <3>3
  <2>5. CASE h \notin Custom
    <3>1. add' = [add EXCEPT ![h] = "inserting"]
      BY <1>2, <2>5 DEF AfterFetch
    <3>2. Accepted' = Accepted
      BY <2>1, <2>2, <3>1 DEF Accepted, TypeOK, TypeCaller
    <3> QED
      BY <3>2
  <2> QED
    BY <2>4, <2>5
<1>3. CASE InsertAnswered
  <2> DEFINE h == Head(acks)
  <2>1. h \in Answer /\ h \in Range(acks) /\ h.op = "insert"
    BY <1>3, HeadTailProperties, RangeTail DEF InsertAnswered, TypeOK, TypeTable
  <2>2. h.job \in Jobs
    BY <2>1 DEF Answer
  <2>3. db' = db /\ finished' = finished
    BY <1>3 DEF InsertAnswered, ghosts
  <2>4. \A i \in Jobs : i # h.job => add'[i] = add[i]
    BY <1>3, <2>2 DEF InsertAnswered, StoreInsert, TypeOK, TypeCaller
  <2>5. CASE add'[h.job] # "added"
    BY <1>1, <2>2, <2>4, <2>5 DEF Accepted
  <2>6. CASE add'[h.job] = "added"
    <3>1. add[h.job] # "added"
      <4>1. h \in AnswersOf(h.job)
        BY <2>1 DEF AnswersOf
      <4>2. Range(acks) \cap AnswersOf(h.job) # {}
        BY <2>1, <4>1
      <4> QED
        BY <2>2, <4>2 DEF StoreInv, Awaited, AwaitsInsert
    <3>2. h.ok
      BY <1>3, <2>2, <2>6 DEF InsertAnswered, TypeOK, TypeCaller
    <3>3. Kept(h.job)
      BY <2>1, <3>2 DEF StoreInv, Told
    <3>4. Accepted' = Accepted \cup {h.job}
      BY <1>1, <2>2, <2>4, <2>6 DEF Accepted
    <3> QED
      BY <2>2, <2>3, <3>3, <3>4
  <2> QED
    BY <2>5, <2>6
<1>4. CASE ~AfterFetch /\ ~InsertAnswered
  BY <1>1, <1>4, AddStep DEF Accepted
<1> QED
  BY <1>2, <1>3, <1>4

\* Every step of the queue is a step of DurableJobs or a stutter.
LEMMA DurableStep ==
  ASSUME TypeOK, TypeOK', StoreInv, [Next]_vars
  PROVE  \/ db' = db /\ Accepted' = Accepted /\ finished' = finished
         \/ \E j \in Jobs :
              \/ /\ ~Kept(j) /\ db' = db \cup {j}
                 /\ Accepted' = Accepted /\ finished' = finished
              \/ /\ Kept(j) /\ Accepted' = Accepted \cup {j}
                 /\ db' = db /\ finished' = finished
              \/ /\ j \in db /\ finished' = finished \cup {j}
                 /\ db' = db /\ Accepted' = Accepted
              \/ /\ j \in finished /\ db' = db \ {j}
                 /\ Accepted' = Accepted /\ finished' = finished
<1>1. CASE DbWrite
  <2> DEFINE w == Head(writes)
  <2>1. w \in Write /\ w \in Range(writes)
    BY <1>1, HeadTailProperties, RangeTail DEF DbWrite, TypeOK, TypeTable
  <2>2. w.job \in Jobs
    BY <2>1 DEF Write
  <2>3. Accepted' = Accepted /\ finished' = finished
    BY <1>1 DEF DbWrite, Accepted, caller, ghosts
  <2>4. CASE w.op = "insert"
    <3>1. Range(writes) \cap InsertsOf(w.job) # {}
      BY <2>1, <2>4 DEF InsertsOf
    <3>2. ~Kept(w.job)
      BY <2>2, <3>1 DEF StoreInv, Awaited
    <3> QED
      BY <1>1, <2>2, <2>3, <2>4, <3>2 DEF DbWrite
  <2>5. CASE w.op # "insert"
    <3>1. w.job \in finished
      BY <2>1, <2>5 DEF StoreInv, DeletesFinished
    <3> QED
      BY <1>1, <2>2, <2>3, <2>5, <3>1 DEF DbWrite
  <2> QED
    BY <2>4, <2>5
<1>2. CASE ~DbWrite
  <2>1. db' = db
    BY <1>2, RowsStay
  <2>2. CASE finished' = finished
    BY <2>1, <2>2, AcceptStep
  <2>3. ASSUME NEW j, finished' = finished \cup {j}, add' = add
        PROVE  \/ finished' = finished
               \/ /\ j \in Jobs /\ j \in db /\ finished' = finished \cup {j}
                  /\ Accepted' = Accepted
    <3>1. j \in Jobs
      BY <2>3 DEF TypeOK, TypeGhosts
    <3>2. Kept(j)
      BY <2>3, FinishedGrows
    <3> QED
      BY <2>3, <3>1, <3>2 DEF Kept, Accepted
  <2> QED
    BY <2>1, <2>2, <2>3, OutcomeStep
<1> QED
  BY <1>1, <1>2

\* The queue implements DurableJobs: whatever crashes, shutdowns and failing
\* writes happen, a row is written once, callers are told only of stored jobs,
\* and rows leave only after an outcome.
THEOREM QueueIsDurable == Spec => ImplementsDurableJobs
<1>1. Init => Durable!Init
  BY DEF Init, Durable!Init
<1>2. TypeOK /\ TypeOK' /\ StoreInv /\ [Next]_vars => [Durable!Next]_(Durable!vars)
  BY DurableStep
  DEF Accepted, Kept, Durable!Next, Durable!vars, Durable!Persist,
      Durable!Accept, Durable!Finish, Durable!Remove
<1> QED
  BY <1>1, <1>2, TypeCorrect, StoreInvariant, PTL
  DEF Spec, ImplementsDurableJobs, Durable!Spec

(***************************************************************************)
(* The completion promises.                                                *)
(***************************************************************************)
\* What has been deleted, and answered, had its outcome and is not there any
\* more; and a promise is settled only for a job that has been stored.
Deleted == \A x \in Range(acks) : x.op # "insert" => x.job \in finished /\ (x.ok => x.job \notin db)
SettledKept == \A j \in Jobs : completion[j] \in {"resolved", "rejected"} => Kept(j)
SettledInv == SettledAfterDelete /\ Deleted /\ SettledKept

LEMMA DeletedInductive ==
  ASSUME TypeOK, TypeOK', StoreInv, Deleted, [Next]_vars
  PROVE  Deleted'
<1>1. finished \subseteq finished'
  BY FinishedGrows
<1>2. CASE acks' = acks /\ db' = db
  BY <1>1, <1>2 DEF Deleted
<1>3. CASE DbWrite \/ DbWriteFails
  <2> DEFINE w == Head(writes)
  <2>1. w \in Write /\ w \in Range(writes)
    BY <1>3, HeadTailProperties, RangeTail DEF DbWrite, DbWriteFails, TypeOK, TypeTable
  <2>2. PICK ok \in BOOLEAN :
          /\ acks' = Append(acks, [op |-> w.op, job |-> w.job, ok |-> ok])
          /\ db' = IF ~ok THEN db ELSE IF w.op = "insert" THEN db \cup {w.job} ELSE db \ {w.job}
    BY <1>3 DEF DbWrite, DbWriteFails
  <2>3. Range(acks') = Range(acks) \cup {[op |-> w.op, job |-> w.job, ok |-> ok]}
    <3>1. [op |-> w.op, job |-> w.job, ok |-> ok] \in Answer
      BY <2>1 DEF Write, Answer
    <3> QED
      BY <2>2, <3>1, RangeAppend DEF TypeOK, TypeTable
  <2>4. w.op # "insert" => w.job \in finished
    BY <2>1 DEF StoreInv, DeletesFinished
  <2>5. w.op = "insert" => w.job \notin finished
    <3>1. w.op = "insert" => w.job \in Jobs /\ Range(writes) \cap InsertsOf(w.job) # {}
      BY <2>1 DEF Write, InsertsOf
    <3> QED
      BY <3>1 DEF StoreInv, Awaited, Kept
  <2> QED
    BY <1>1, <2>2, <2>3, <2>4, <2>5 DEF Deleted
<1>4. CASE InsertAnswered \/ DeleteAnswered
  <2>1. Range(acks') \subseteq Range(acks) /\ db' = db
    BY <1>4, RangeTail DEF InsertAnswered, DeleteAnswered, TypeOK, TypeTable
  <2> QED
    BY <1>1, <2>1 DEF Deleted
<1>5. CASE Restart
  BY <1>5, RangeEmpty DEF Restart, Deleted
<1>6. CASE ~(DbWrite \/ DbWriteFails \/ InsertAnswered \/ DeleteAnswered \/ Restart)
  BY <1>2, <1>6
  DEF Next, table, vars, Add, AfterFetch, StreamJobs, DbFetch, DbFetchFails,
      FetchAnswered, ConsumeOne, ConsumeHeld, Start, RunSucceeds,
      RunNeedsRetry, RunFails, RunRetries, RetryParked, Pause, Resume, Shutdown
<1> QED
  BY <1>3, <1>4, <1>5, <1>6

\* Only a new process forgets which jobs were put back.
LEMMA PutBackGrows ==
  ASSUME [Next]_vars, ~Restart
  PROVE  putBack \subseteq putBack'
BY DEF Next, vars, ghosts, Add, AfterFetch, DbWrite, DbWriteFails, InsertAnswered, DeleteAnswered,
       StreamJobs, DbFetch, DbFetchFails, FetchAnswered, ConsumeOne, ConsumeHeld, Start,
       RunSucceeds, RunNeedsRetry, KeepForRetry, RunFails, RunRetries, RetryParked, Pause, Resume,
       Shutdown

\* What a step does to the promise of a job.
CompletionGoesOn(j) ==
  \/ completion'[j] \in {completion[j], "none", "pending"}
  \/ /\ Kept(j)
     /\ completion'[j] = "resolved" => j \in putBack' \/ j \notin db
     /\ completion'[j] = "rejected" => shuttingDown \/ j \notin db

LEMMA SettledOnly ==
  ASSUME TypeOK, NEW j \in Jobs, NEW outcome, completion' = Settled(j, outcome), Kept(j),
         outcome = "resolved" => j \in putBack' \/ j \notin db,
         outcome = "rejected" => shuttingDown \/ j \notin db
  PROVE  \A k \in Jobs : CompletionGoesOn(k)
BY DEF Settled, CompletionGoesOn, TypeOK, TypeCaller

LEMMA CompletionStep ==
  ASSUME TypeOK, StoreInv, Deleted, [Next]_vars
  PROVE  \A j \in Jobs : CompletionGoesOn(j)
<1>1. CASE completion' = completion
  BY <1>1 DEF CompletionGoesOn
<1>2. ASSUME NEW j \in Jobs, Add(j) PROVE \A k \in Jobs : CompletionGoesOn(k)
  BY <1>2 DEF Add, CompletionGoesOn, TypeOK, TypeCaller
<1>3. CASE DeleteAnswered
  <2> DEFINE answer == Head(acks)
  <2>1. answer \in Answer /\ answer \in Range(acks) /\ answer.op # "insert"
    BY <1>3, HeadTailProperties, RangeTail DEF DeleteAnswered, TypeOK, TypeTable
  <2>2. CASE ~answer.ok
    BY <1>1, <1>3, <2>2 DEF DeleteAnswered
  <2>3. CASE answer.ok
    <3>1. answer.job \in Jobs /\ Kept(answer.job) /\ answer.job \notin db
      BY <2>1, <2>3 DEF Deleted, Answer, Kept
    <3>2. completion' = Settled(answer.job, IF answer.op = "resolve" THEN "resolved" ELSE "rejected")
      BY <1>3, <2>3 DEF DeleteAnswered
    <3> QED
      BY <3>1, <3>2, SettledOnly
  <2> QED
    BY <2>2, <2>3
<1>4. ASSUME NEW j \in Jobs, Kept(j), EndResolved(j) \/ EndRejected(j)
      PROVE  \A k \in Jobs : CompletionGoesOn(k)
  BY <1>1, <1>4, SettledOnly DEF EndResolved, EndRejected
<1>5. ASSUME NEW q \in Queues, Start(q) PROVE \A k \in Jobs : CompletionGoesOn(k)
  <2>1. queue[q] \in Seq(Jobs) /\ queue[q] # <<>>
    BY <1>5 DEF Start, TypeOK, TypeMemory
  <2>2. Head(queue[q]) \in Jobs /\ Kept(Head(queue[q]))
    BY <2>1, RangeTail, HeadTailProperties DEF StoreInv, Held
  <2> QED
    BY <1>1, <1>4, <1>5, <2>2 DEF Start
<1>6. ASSUME NEW q \in Queues, RunSucceeds(q) \/ RunNeedsRetry(q) \/ RunFails(q)
      PROVE  \A k \in Jobs : CompletionGoesOn(k)
  <2>1. running[q] \in Jobs /\ Kept(running[q])
    BY <1>6 DEF RunSucceeds, RunNeedsRetry, RunFails, StoreInv, Held, TypeOK, TypeMemory
  <2>2. CASE EndResolved(running[q]) \/ EndRejected(running[q])
    BY <1>4, <2>1, <2>2
  <2>3. CASE KeepForRetry(q) /\ completion' = Settled(running[q], "resolved")
    <3>1. PICK j \in Jobs : j = running[q]
      BY <2>1
    <3>2. Kept(j) /\ j \in putBack' /\ completion' = Settled(j, "resolved")
      BY <2>1, <2>3, <3>1 DEF KeepForRetry
    <3> QED
      BY <3>2, SettledOnly
  <2> QED
    BY <1>6, <2>2, <2>3 DEF RunSucceeds, RunNeedsRetry, RunFails
<1>7. CASE Restart
  BY <1>7 DEF Restart, CompletionGoesOn
<1>8. CASE \/ AfterFetch \/ DbWrite \/ DbWriteFails \/ InsertAnswered \/ StreamJobs \/ DbFetch
           \/ DbFetchFails \/ FetchAnswered \/ ConsumeOne \/ ConsumeHeld \/ Pause \/ Resume \/ Shutdown
           \/ \E q \in Queues : RunRetries(q) \/ RetryParked(q)
           \/ UNCHANGED vars
  BY <1>1, <1>8
  DEF AfterFetch, DbWrite, DbWriteFails, InsertAnswered, StreamJobs, DbFetch,
      DbFetchFails, FetchAnswered, ConsumeOne, ConsumeHeld, Pause, Resume,
      Shutdown, RunRetries, RetryParked, caller, vars
<1> QED
  BY <1>2, <1>3, <1>5, <1>6, <1>7, <1>8 DEF Next

\* shutdown() is not taken back but by the end of the process.
LEMMA ShutdownStays ==
  ASSUME [Next]_vars, shuttingDown
  PROVE  shuttingDown' \/ (Restart /\ completion' = [j \in Jobs |-> "none"])
BY DEF Next, control, vars, Add, AfterFetch, DbWrite, DbWriteFails,
       InsertAnswered, DeleteAnswered, StreamJobs, DbFetch, DbFetchFails,
       FetchAnswered, ConsumeOne, ConsumeHeld, Start, RunSucceeds,
       RunNeedsRetry, RunFails, RunRetries, RetryParked, Pause, Resume,
       Shutdown, Restart

LEMMA SettledInductive ==
  ASSUME TypeOK, TypeOK', StoreInv, SettledInv, [Next]_vars
  PROVE  SettledInv'
<1>1. Deleted'
  BY DeletedInductive DEF SettledInv
<1>2. \A j \in Jobs : CompletionGoesOn(j)
  BY CompletionStep DEF SettledInv
<1>3. SettledKept'
  BY <1>2, KeptGrows DEF SettledInv, SettledKept, CompletionGoesOn
<1>4. ASSUME NEW j \in Jobs, j \in db', j \notin db
      PROVE  completion'[j] \notin {"resolved", "rejected"}
  <2>1. DbWrite /\ completion' = completion
    BY <1>4, RowsStay DEF DbWrite, caller
  <2>2. Head(writes) \in Range(writes) /\ Head(writes) \in Write
    BY <2>1, HeadTailProperties, RangeTail DEF DbWrite, TypeOK, TypeTable
  <2>3. Head(writes).op = "insert" /\ Head(writes).job = j
    BY <1>4, <2>1 DEF DbWrite
  <2>4. ~Kept(j)
    BY <2>2, <2>3 DEF StoreInv, Awaited, InsertsOf
  <2> QED
    BY <2>1, <2>4 DEF SettledInv, SettledKept
<1>5. SettledAfterDelete'
  <2> SUFFICES ASSUME NEW j \in Jobs, j \in db'
               PROVE  /\ completion'[j] = "resolved" => j \in putBack'
                      /\ completion'[j] = "rejected" => shuttingDown'
    BY DEF SettledAfterDelete
  <2>1. CASE j \notin db
    BY <1>4, <2>1
  <2>2. CASE j \in db
    <3>1. /\ completion'[j] = "resolved" => j \in putBack \/ j \in putBack'
          /\ completion'[j] = "rejected" => shuttingDown
      BY <1>2, <2>2 DEF SettledInv, SettledAfterDelete, CompletionGoesOn
    <3>2. CASE Restart
      BY <3>2 DEF Restart
    <3>3. CASE ~Restart
      BY <3>1, <3>3, ShutdownStays, PutBackGrows
    <3> QED
      BY <3>2, <3>3
  <2> QED
    BY <2>1, <2>2
<1> QED
  BY <1>1, <1>3, <1>5 DEF SettledInv

\* Where the deletes that are under way stand, for SettledAfterDelete and for
\* the copies of a job.
THEOREM SettledInvariant == Spec => []SettledInv
<1>1. Init => SettledInv
  BY RangeEmpty DEF Init, SettledInv, SettledAfterDelete, Deleted, SettledKept
<1>2. TypeOK /\ TypeOK' /\ StoreInv /\ SettledInv /\ [Next]_vars => SettledInv'
  BY SettledInductive
<1> QED
  BY <1>1, <1>2, TypeCorrect, StoreInvariant, PTL DEF Spec

\* A caller's completion promise settles after the row is gone, unless the job
\* is kept for a retry or was turned away by shutdown().
THEOREM SettlesAfterDelete == Spec => []SettledAfterDelete
<1>1. SettledInv => SettledAfterDelete
  BY DEF SettledInv
<1> QED
  BY <1>1, SettledInvariant, PTL

\* After shutdown() no attempt of any job starts: not of one that waits in a
\* queue, that the paused stream holds or that has an attempt behind it.
THEOREM NothingStartsInShutdown == Spec => NoStartInShutdown
<1> DEFINE Starts == shuttingDown /\ shuttingDown' => \A q \in Queues : attempt'[q] \in {0, attempt[q]}
<1>1. TypeOK /\ [Next]_vars => Starts
  <2> SUFFICES ASSUME TypeOK, [Next]_vars, shuttingDown
               PROVE  \A q \in Queues : attempt'[q] \in {0, attempt[q]}
    OBVIOUS
  <2>1. CASE attempt' = attempt
    BY <2>1
  <2>2. ASSUME NEW q \in Queues, Start(q) \/ RunRetries(q) PROVE attempt' = attempt
    BY <2>2 DEF Start, RunRetries, MayAttempt
  <2>3. ASSUME NEW q \in Queues, Release(q) PROVE \A p \in Queues : attempt'[p] \in {0, attempt[p]}
    BY <2>3 DEF Release, TypeOK, TypeMemory
  <2>4. CASE Restart
    BY <2>4 DEF Restart
  <2>5. CASE \/ \E j \in Jobs : Add(j)
             \/ AfterFetch \/ DbWrite \/ DbWriteFails \/ InsertAnswered \/ DeleteAnswered
             \/ StreamJobs \/ DbFetch \/ DbFetchFails \/ FetchAnswered \/ ConsumeOne \/ ConsumeHeld
             \/ Pause \/ Resume \/ Shutdown \/ UNCHANGED vars
             \/ \E q \in Queues : RetryParked(q)
    BY <2>1, <2>5
    DEF Add, AfterFetch, DbWrite, DbWriteFails, InsertAnswered, DeleteAnswered, StreamJobs, DbFetch,
        DbFetchFails, FetchAnswered, ConsumeOne, ConsumeHeld, Pause, Resume, Shutdown, RetryParked,
        memory, vars
  <2> QED
    BY <2>1, <2>2, <2>3, <2>4, <2>5 DEF Next, RunSucceeds, RunNeedsRetry, RunFails
<1>2. TypeOK /\ [Next]_vars => [Starts]_vars
  BY <1>1
<1> QED
  BY <1>2, TypeCorrect, PTL DEF Spec, NoStartInShutdown

(***************************************************************************)
(* What shutdown() waits for.                                              *)
(***************************************************************************)
\* Once shutdown() was called, a PQueue that runs a job has not been idle since.
DrainInv == shuttingDown => \A q \in Queues : running[q] # NoJob => q \in waitIdle

LEMMA DrainInductive ==
  ASSUME TypeOK, DrainInv, [Next]_vars
  PROVE  DrainInv'
<1>1. CASE UNCHANGED <<running, waitIdle>> /\ (shuttingDown' => shuttingDown)
  BY <1>1 DEF DrainInv
<1>2. ASSUME NEW q \in Queues, Start(q) PROVE DrainInv'
  BY <1>2 DEF Start, MayAttempt, IdleIf, DrainInv, TypeOK, TypeMemory
<1>3. ASSUME NEW q \in Queues, Release(q), shuttingDown' = shuttingDown PROVE DrainInv'
  BY <1>3 DEF Release, IdleIf, DrainInv, TypeOK, TypeMemory
<1>4. CASE Shutdown
  BY <1>4 DEF Shutdown, Busy, memory, DrainInv
<1>5. CASE Restart
  BY <1>5 DEF Restart, DrainInv
<1>6. CASE \/ \E j \in Jobs : Add(j)
           \/ AfterFetch \/ DbWrite \/ DbWriteFails \/ InsertAnswered \/ DeleteAnswered
           \/ StreamJobs \/ DbFetch \/ DbFetchFails \/ FetchAnswered \/ ConsumeOne \/ ConsumeHeld
           \/ Pause \/ Resume \/ UNCHANGED vars
           \/ \E q \in Queues : RetryParked(q) \/ RunRetries(q)
  <2>1. UNCHANGED <<running, waitIdle, shuttingDown>>
    BY <1>6
    DEF Add, AfterFetch, DbWrite, DbWriteFails, InsertAnswered, DeleteAnswered, StreamJobs, DbFetch,
        DbFetchFails, FetchAnswered, ConsumeOne, ConsumeHeld, Pause, Resume, RetryParked, RunRetries,
        memory, control, vars
  <2> QED
    BY <1>1, <2>1
<1> QED
  BY <1>2, <1>3, <1>4, <1>5, <1>6 DEF Next, RunSucceeds, RunNeedsRetry, RunFails

\* When shutdown() has resolved no run() is in progress, whatever was added,
\* retried or put back into a queue while it waited.
THEOREM ShutdownDrains == Spec => []ShutdownDrained
<1>1. Init => DrainInv
  BY DEF Init, DrainInv
<1>2. TypeOK /\ DrainInv /\ [Next]_vars => DrainInv'
  BY DrainInductive
<1>3. DrainInv => ShutdownDrained
  BY DEF DrainInv, ShutdownDrained
<1> QED
  BY <1>1, <1>2, <1>3, TypeCorrect, PTL DEF Spec

(***************************************************************************)
(* How often a sequence holds members of a set.                            *)
(***************************************************************************)
Where(s, T) == {i \in DOMAIN s : s[i] \in T}
Count(s, T) == Cardinality(Where(s, T))

LEMMA WhereFinite ==
  ASSUME NEW S, NEW s \in Seq(S), NEW T
  PROVE  /\ IsFiniteSet(Where(s, T)) /\ Where(s, T) \in SUBSET (1..Len(s)) /\ Len(s) \in Nat
         /\ Count(s, T) \in Nat
<1>1. Len(s) \in Nat /\ DOMAIN s = 1..Len(s)
  BY LenProperties
<1>2. IsFiniteSet(1..Len(s)) /\ Where(s, T) \in SUBSET (1..Len(s))
  BY <1>1, FS_Interval DEF Where
<1> QED
  BY <1>1, <1>2, FS_Subset, FS_CardinalityType DEF Count

LEMMA CountEmpty == \A T : Count(<<>>, T) = 0
<1>1. \A T : Where(<<>>, T) = {}
  BY DEF Where
<1> QED
  BY <1>1, FS_EmptySet DEF Count

LEMMA CountZero ==
  ASSUME NEW S, NEW s \in Seq(S), NEW T
  PROVE  Count(s, T) = 0 <=> Range(s) \cap T = {}
<1>1. Count(s, T) = 0 <=> Where(s, T) = {}
  BY WhereFinite, FS_EmptySet DEF Count
<1> QED
  BY <1>1 DEF Where, Range

LEMMA CountAppend ==
  ASSUME NEW S, NEW s \in Seq(S), NEW e \in S, NEW T
  PROVE  Count(Append(s, e), T) = Count(s, T) + (IF e \in T THEN 1 ELSE 0)
<1> DEFINE a == Append(s, e)
<1>1. /\ DOMAIN a = 1..(Len(s) + 1) /\ DOMAIN s = 1..Len(s) /\ Len(s) \in Nat
      /\ \A i \in 1..Len(s) : a[i] = s[i]
      /\ a[Len(s) + 1] = e
  BY AppendProperties, LenProperties
<1>2. Where(a, T) = IF e \in T THEN Where(s, T) \cup {Len(s) + 1} ELSE Where(s, T)
  <2> HIDE DEF a
  <2> QED
    BY <1>1 DEF Where
<1>3. Len(s) + 1 \notin Where(s, T)
  BY <1>1 DEF Where
<1>4. IsFiniteSet(Where(s, T)) /\ Count(s, T) \in Nat
  BY WhereFinite
<1>5. Cardinality(Where(s, T) \cup {Len(s) + 1}) = Count(s, T) + 1
  BY <1>3, <1>4, FS_AddElement DEF Count
<1> QED
  BY <1>2, <1>4, <1>5 DEF Count

\* Moved by k places, a set of positions has as many members.
LEMMA ShiftCardinality ==
  ASSUME NEW k \in Nat, NEW n \in Nat, NEW P \in SUBSET (1..n)
  PROVE  /\ IsFiniteSet({i + k : i \in P})
         /\ Cardinality({i + k : i \in P}) = Cardinality(P)
<1> DEFINE Q == {i + k : i \in P}
           f == [i \in P |-> i + k]
<1>0. IsFiniteSet(1..n)
  BY FS_Interval
<1>1. IsFiniteSet(P)
  BY <1>0, FS_Subset
<1>2. f \in Bijection(P, Q)
  <2>1. \A i \in P : i \in Nat
    OBVIOUS
  <2>2. f \in [P -> Q] /\ \A i, j \in P : f[i] = f[j] => i = j
    BY <2>1
  <2>3. \A m \in Q : \E i \in P : f[i] = m
    OBVIOUS
  <2> HIDE DEF f, Q
  <2> QED
    BY <2>2, <2>3, Fun_IsBij
<1>3. ExistsBijection(P, Q)
  <2> HIDE DEF f, Q
  <2> QED
    BY <1>2 DEF ExistsBijection
<1> HIDE DEF Q
<1>4. IsFiniteSet(Q) /\ Cardinality(P) = Cardinality(Q)
  BY <1>1, <1>3, FS_Bijection
<1> QED
  BY <1>4 DEF Q

LEMMA CountConcat ==
  ASSUME NEW S, NEW s \in Seq(S), NEW t \in Seq(S), NEW T
  PROVE  Count(s \o t, T) = Count(s, T) + Count(t, T)
<1> DEFINE c == s \o t
           shifted == {i + Len(s) : i \in Where(t, T)}
<1>1. /\ DOMAIN c = 1..(Len(s) + Len(t))
      /\ DOMAIN s = 1..Len(s) /\ DOMAIN t = 1..Len(t)
      /\ Len(s) \in Nat /\ Len(t) \in Nat
      /\ \A i \in 1..(Len(s) + Len(t)) : c[i] = IF i <= Len(s) THEN s[i] ELSE t[i - Len(s)]
  BY ConcatProperties, LenProperties
<1>2. Where(c, T) = Where(s, T) \cup shifted
  <2> HIDE DEF c
  <2>1. ASSUME NEW i \in Where(c, T) PROVE i \in Where(s, T) \cup shifted
    <3>1. CASE i <= Len(s)
      BY <1>1, <3>1 DEF Where
    <3>2. CASE ~(i <= Len(s))
      <4>1. i - Len(s) \in Where(t, T)
        BY <1>1, <3>2 DEF Where
      <4>2. i = (i - Len(s)) + Len(s)
        BY <1>1 DEF Where
      <4> QED
        BY <4>1, <4>2
    <3> QED
      BY <3>1, <3>2
  <2>2. ASSUME NEW i \in Where(s, T) PROVE i \in Where(c, T)
    BY <1>1 DEF Where
  <2>3. ASSUME NEW i \in Where(t, T) PROVE i + Len(s) \in Where(c, T)
    <3>1. i \in 1..Len(t) /\ t[i] \in T
      BY <1>1 DEF Where
    <3>2. i + Len(s) \in 1..(Len(s) + Len(t)) /\ ~(i + Len(s) <= Len(s)) /\ (i + Len(s)) - Len(s) = i
      BY <1>1, <3>1
    <3> QED
      BY <1>1, <3>1, <3>2 DEF Where
  <2> QED
    BY <2>1, <2>2, <2>3
<1>3. Where(s, T) \cap shifted = {}
  <2>1. \A i \in Where(s, T) : i \in 1..Len(s)
    BY <1>1 DEF Where
  <2>2. \A i \in Where(t, T) : i \in 1..Len(t)
    BY <1>1 DEF Where
  <2>3. \A i \in Where(s, T), k \in Where(t, T) : i # k + Len(s)
    BY <1>1, <2>1, <2>2
  <2> QED
    BY <2>3
<1>4. IsFiniteSet(shifted) /\ Cardinality(shifted) = Count(t, T)
  <2>1. Where(t, T) \in SUBSET (1..Len(t)) /\ Len(s) \in Nat /\ Len(t) \in Nat
    BY WhereFinite
  <2> QED
    BY <2>1, ShiftCardinality DEF Count
<1>5. IsFiniteSet(Where(s, T)) /\ Count(s, T) \in Nat /\ Count(t, T) \in Nat
  BY WhereFinite
<1>6. Cardinality(Where(s, T) \cap shifted) = 0
  BY <1>3, FS_EmptySet
<1>7. Cardinality(Where(s, T) \cup shifted) = Cardinality(Where(s, T)) + Cardinality(shifted) - 0
  <2> HIDE DEF shifted
  <2> QED
    BY <1>4, <1>5, <1>6, FS_Union
<1> HIDE DEF shifted, c
<1> QED
  BY <1>2, <1>4, <1>5, <1>7 DEF Count, c

LEMMA CountTail ==
  ASSUME NEW S, NEW s \in Seq(S), s # <<>>, NEW T
  PROVE  /\ Head(s) \in S /\ Tail(s) \in Seq(S)
         /\ Count(Tail(s), T) = Count(s, T) - (IF Head(s) \in T THEN 1 ELSE 0)
<1>1. Head(s) \in S /\ Tail(s) \in Seq(S) /\ <<>> \in Seq(S)
  BY HeadTailProperties
<1> DEFINE h == Append(<<>>, Head(s))
<1>3. h \in Seq(S) /\ Len(h) = 1 /\ h[1] = Head(s)
  BY <1>1, AppendProperties
<1>2. s = h \o Tail(s)
  <2> DEFINE c == h \o Tail(s)
  <2>1. /\ s \in Seq(S) /\ c \in Seq(S)
        /\ Len(s) \in Nat /\ Len(s) >= 1
        /\ Len(Tail(s)) = Len(s) - 1
        /\ \A i \in 1..(Len(s) - 1) : Tail(s)[i] = s[i + 1]
        /\ Head(s) = s[1]
    BY <1>1, <1>3, HeadTailProperties, ConcatProperties, LenProperties, EmptySeq
  <2> HIDE DEF h
  <2>2. Len(c) = Len(h) + Len(Tail(s))
    BY <1>1, <1>3, ConcatProperties
  <2>3. \A i \in 1..Len(s) : c[i] = IF i <= 1 THEN h[i] ELSE Tail(s)[i - 1]
    BY <1>1, <1>3, <2>1, <2>2, ConcatProperties
  <2> HIDE DEF c
  <2>4. \A i \in 1..Len(s) : c[i] = s[i]
    <3> TAKE i \in 1..Len(s)
    <3>1. CASE i = 1
      BY <1>3, <2>1, <2>3, <3>1
    <3>2. CASE i # 1
      <4>1. i - 1 \in 1..(Len(s) - 1) /\ (i - 1) + 1 = i /\ ~(i <= 1)
        BY <2>1, <3>2
      <4> QED
        BY <2>1, <2>3, <4>1
    <3> QED
      BY <3>1, <3>2
  <2>5. s = c
    BY <1>3, <2>1, <2>2, <2>4, SeqEqual
  <2> QED
    BY <2>5 DEF c
<1> HIDE DEF h
<1>4. Count(s, T) = Count(h, T) + Count(Tail(s), T)
  BY <1>1, <1>2, <1>3, CountConcat, ZenonT(30)
<1>5. Count(h, T) = 0 + (IF Head(s) \in T THEN 1 ELSE 0)
  <2>1. Count(<<>>, T) = 0
    BY CountEmpty
  <2>2. Count(Append(<<>>, Head(s)), T) = Count(<<>>, T) + (IF Head(s) \in T THEN 1 ELSE 0)
    BY <1>1, CountAppend
  <2> QED
    BY <2>1, <2>2 DEF h
<1>6. Count(Tail(s), T) \in Nat
  BY <1>1, WhereFinite
<1> QED
  BY <1>1, <1>4, <1>5, <1>6

(***************************************************************************)
(* Where the copies of a job are.                                          *)
(***************************************************************************)
Deletes(j) == {x \in Write \cup Answer : x.job = j /\ x.op # "insert"}
Streamed(j) == Count(stream, {j})
Queued(j) == Count(queue[QueueOf[j]], {j})
Later(j) == Count(parked[QueueOf[j]], {j})
Runs(j) == IF running[QueueOf[j]] = j THEN 1 ELSE 0
Deleting(j) == Count(writes, Deletes(j))
Answering(j) == Count(acks, Deletes(j))

\* An in-memory queue holds only its own jobs.
InTheirQueue ==
  \A q \in Queues :
    /\ running[q] # NoJob => QueueOf[running[q]] = q
    /\ \A j \in Range(queue[q]) \cup Range(parked[q]) : QueueOf[j] = q

Summed(j) ==
  /\ Copies(j) = Streamed(j) + Queued(j) + Later(j) + Runs(j) + Deleting(j) + Answering(j)
  /\ Streamed(j) \in Nat /\ Queued(j) \in Nat /\ Later(j) \in Nat
  /\ Runs(j) \in Nat /\ Deleting(j) \in Nat /\ Answering(j) \in Nat

AllSummed == \A j \in Jobs : Summed(j)

LEMMA CopiesSummed == TypeOK => AllSummed
<1> SUFFICES ASSUME TypeOK, NEW j \in Jobs PROVE Summed(j)
  BY DEF AllSummed
<1> DEFINE q == QueueOf[j]
<1>1. /\ stream \in Seq(Jobs) /\ queue[q] \in Seq(Jobs) /\ parked[q] \in Seq(Jobs)
      /\ writes \in Seq(Write) /\ acks \in Seq(Answer)
  BY QueueAssumption DEF TypeOK, TypeTable, TypeSource, TypeMemory
<1>2. \A s : Positions(s, j) = Where(s, {j})
  BY DEF Positions, Where
<1>3. DeletesOf(writes, j) = Where(writes, Deletes(j))
  <2>1. \A i \in DOMAIN writes : writes[i] \in Write
    BY <1>1, LenProperties, ElementOfSeq
  <2> QED
    BY <2>1 DEF DeletesOf, Where, Deletes
<1>4. DeletesOf(acks, j) = Where(acks, Deletes(j))
  <2>1. \A i \in DOMAIN acks : acks[i] \in Answer
    BY <1>1, LenProperties, ElementOfSeq
  <2> QED
    BY <2>1 DEF DeletesOf, Where, Deletes
<1>5. /\ Streamed(j) \in Nat /\ Queued(j) \in Nat /\ Later(j) \in Nat
      /\ Deleting(j) \in Nat /\ Answering(j) \in Nat
  BY <1>1, WhereFinite DEF Streamed, Queued, Later, Deleting, Answering
<1>6. Runs(j) \in Nat
  BY DEF Runs
<1>7. Copies(j) = Streamed(j) + Queued(j) + Later(j) + Runs(j) + Deleting(j) + Answering(j)
  BY <1>2, <1>3, <1>4 DEF Copies, Streamed, Queued, Later, Runs, Deleting, Answering, Count
<1> QED
  BY <1>5, <1>6, <1>7 DEF Summed

LEMMA CopiesSummedNext == TypeOK' => AllSummed'
BY CopiesSummed, PTL

LEMMA CopiesSum ==
  ASSUME TypeOK, TypeOK', NEW j \in Jobs
  PROVE  /\ Copies(j) = Streamed(j) + Queued(j) + Later(j) + Runs(j) + Deleting(j) + Answering(j)
         /\ Streamed(j) \in Nat /\ Queued(j) \in Nat /\ Later(j) \in Nat
         /\ Runs(j) \in Nat /\ Deleting(j) \in Nat /\ Answering(j) \in Nat
         /\ Copies(j)' = Streamed(j)' + Queued(j)' + Later(j)' + Runs(j)' + Deleting(j)' + Answering(j)'
         /\ Streamed(j)' \in Nat /\ Queued(j)' \in Nat /\ Later(j)' \in Nat
         /\ Runs(j)' \in Nat /\ Deleting(j)' \in Nat /\ Answering(j)' \in Nat
<1> QED
  BY CopiesSummed, CopiesSummedNext DEF AllSummed, Summed

\* Asking for a write: an insert is not a copy, a delete is.
LEMMA DeletingAppend ==
  ASSUME TypeOK, NEW j \in Jobs, NEW i \in Jobs, NEW k \in {"insert", "resolve", "reject"},
         writes' = Append(writes, Request(k, i))
  PROVE  Deleting(j)' = Deleting(j) + (IF i = j /\ k # "insert" THEN 1 ELSE 0)
<1>1. Request(k, i) \in Write /\ writes \in Seq(Write)
  BY DEF Request, Write, TypeOK, TypeTable
<1>2. Request(k, i) \in Deletes(j) <=> i = j /\ k # "insert"
  BY <1>1 DEF Request, Deletes
<1>3. Count(writes', Deletes(j)) = Count(writes, Deletes(j)) + (IF Request(k, i) \in Deletes(j) THEN 1 ELSE 0)
  BY <1>1, CountAppend
<1> QED
  BY <1>2, <1>3 DEF Deleting

LEMMA StreamedTail ==
  ASSUME TypeOK, NEW j \in Jobs, stream # <<>>, stream' = Tail(stream)
  PROVE  Head(stream) \in Jobs /\ Streamed(j)' = Streamed(j) - (IF Head(stream) = j THEN 1 ELSE 0)
<1>1. /\ Head(stream) \in Jobs
      /\ Count(stream', {j}) = Count(stream, {j}) - (IF Head(stream) \in {j} THEN 1 ELSE 0)
  BY CountTail DEF TypeOK, TypeSource
<1> QED
  BY <1>1 DEF Streamed

LEMMA StreamedAppend ==
  ASSUME TypeOK, NEW j \in Jobs, NEW i \in Jobs, stream' = Append(stream, i)
  PROVE  Streamed(j)' = Streamed(j) + (IF i = j THEN 1 ELSE 0)
<1>1. Count(stream', {j}) = Count(stream, {j}) + (IF i \in {j} THEN 1 ELSE 0)
  BY CountAppend DEF TypeOK, TypeSource
<1> QED
  BY <1>1 DEF Streamed

\* The next job of the stream goes to its queue or to the deletes.
LEMMA CopiesEnqueued ==
  ASSUME TypeOK, TypeOK', NEW j \in Jobs, stream # <<>>, EnqueueHead,
         UNCHANGED <<acks, running, parked>>
  PROVE  Copies(j)' = Copies(j)
<1> DEFINE i == Head(stream)
<1>0. /\ Copies(j) = Streamed(j) + Queued(j) + Later(j) + Runs(j) + Deleting(j) + Answering(j)
      /\ Streamed(j) \in Nat /\ Queued(j) \in Nat /\ Later(j) \in Nat
      /\ Runs(j) \in Nat /\ Deleting(j) \in Nat /\ Answering(j) \in Nat
      /\ Copies(j)' = Streamed(j)' + Queued(j)' + Later(j)' + Runs(j)' + Deleting(j)' + Answering(j)'
  BY CopiesSum
<1>1. i \in Jobs /\ Streamed(j)' = Streamed(j) - (IF i = j THEN 1 ELSE 0)
  BY StreamedTail DEF EnqueueHead
<1>2. Later(j)' = Later(j) /\ Runs(j)' = Runs(j) /\ Answering(j)' = Answering(j)
  BY DEF Later, Runs, Answering
<1>3. CASE i \in Corrupt
  <2>1. Deleting(j)' = Deleting(j) + (IF i = j THEN 1 ELSE 0)
    BY <1>1, <1>3, DeletingAppend DEF EnqueueHead
  <2>2. Queued(j)' = Queued(j)
    BY <1>3 DEF EnqueueHead, Queued
  <2> QED
    BY <1>1, <1>2, <2>1, <2>2, <1>0, SMTT(30)
<1>4. CASE i \notin Corrupt
  <2>1. Deleting(j)' = Deleting(j)
    BY <1>4 DEF EnqueueHead, Deleting
  <2>2. /\ queue[QueueOf[i]] \in Seq(Jobs) /\ QueueOf[i] \in Queues
        /\ queue' = [queue EXCEPT ![QueueOf[i]] = Append(queue[QueueOf[i]], i)]
    BY <1>1, <1>4, QueueAssumption DEF EnqueueHead, TypeOK, TypeMemory
  <2>3. Queued(j)' = Queued(j) + (IF i = j THEN 1 ELSE 0)
    <3>1. Count(Append(queue[QueueOf[i]], i), {j})
            = Count(queue[QueueOf[i]], {j}) + (IF i \in {j} THEN 1 ELSE 0)
      BY <1>1, <2>2, CountAppend
    <3>2. CASE QueueOf[i] = QueueOf[j]
      <4>1. queue'[QueueOf[j]] = Append(queue[QueueOf[i]], i)
        BY <2>2, <3>2 DEF TypeOK, TypeMemory
      <4> QED
        BY <3>1, <3>2, <4>1 DEF Queued
    <3>3. CASE QueueOf[i] # QueueOf[j]
      <4>1. queue'[QueueOf[j]] = queue[QueueOf[j]] /\ i # j
        BY <2>2, <3>3, QueueAssumption DEF TypeOK, TypeMemory
      <4>2. Queued(j)' = Queued(j)
        BY <4>1 DEF Queued
      <4> QED
        BY <1>0, <4>1, <4>2
    <3> QED
      BY <3>2, <3>3
  <2> QED
    BY <1>1, <1>2, <2>1, <2>3, <1>0
<1> QED
  BY <1>3, <1>4

\* A run or a turned away job ends: its place in the queue becomes a delete,
\* a place among the parked jobs, or nothing.
LEMMA CopiesEnded ==
  ASSUME TypeOK, TypeOK', NEW j \in Jobs, NEW i \in Jobs,
         EndResolved(i) \/ EndRejected(i)
  PROVE  Deleting(j)' = Deleting(j) + (IF i = j /\ writes' # writes THEN 1 ELSE 0)
         /\ (writes' = writes => shuttingDown)
<1>0. Deleting(j) \in Nat
  BY CopiesSum
<1>1. CASE \E k \in {"resolve", "reject"} : writes' = Append(writes, Request(k, i))
  <2>1. PICK k \in {"resolve", "reject"} : writes' = Append(writes, Request(k, i))
    BY <1>1
  <2>2. Deleting(j)' = Deleting(j) + (IF i = j /\ k # "insert" THEN 1 ELSE 0)
    BY <2>1, DeletingAppend
  <2>3. Len(writes') = Len(writes) + 1 /\ Len(writes) \in Nat
    BY <2>1, AppendProperties, LenProperties, RequestType DEF TypeOK, TypeTable, Request, Write
  <2>4. writes' # writes
    BY <2>3
  <2> QED
    BY <2>2, <2>4
<1>2. CASE writes' = writes /\ shuttingDown
  BY <1>0, <1>2 DEF Deleting
<1> QED
  BY <1>1, <1>2 DEF EndResolved, EndRejected

LEMMA CopiesStarted ==
  ASSUME TypeOK, TypeOK', InTheirQueue, NEW j \in Jobs, NEW q \in Queues, Start(q)
  PROVE  \/ Copies(j)' = Copies(j)
         \/ shuttingDown /\ Copies(j)' = Copies(j) - 1
<1> DEFINE i == Head(queue[q])
<1>0. /\ Copies(j) = Streamed(j) + Queued(j) + Later(j) + Runs(j) + Deleting(j) + Answering(j)
      /\ Streamed(j) \in Nat /\ Queued(j) \in Nat /\ Later(j) \in Nat
      /\ Runs(j) \in Nat /\ Deleting(j) \in Nat /\ Answering(j) \in Nat
      /\ Copies(j)' = Streamed(j)' + Queued(j)' + Later(j)' + Runs(j)' + Deleting(j)' + Answering(j)'
  BY CopiesSum
<1>1. /\ queue[q] \in Seq(Jobs) /\ queue[q] # <<>>
      /\ queue' = [queue EXCEPT ![q] = Tail(queue[q])]
      /\ Streamed(j)' = Streamed(j) /\ Later(j)' = Later(j) /\ Answering(j)' = Answering(j)
  BY DEF Start, TypeOK, TypeMemory, Streamed, Later, Answering, source
<1>2. /\ i \in Jobs /\ QueueOf[i] = q
      /\ Count(Tail(queue[q]), {j}) = Count(queue[q], {j}) - (IF i \in {j} THEN 1 ELSE 0)
  BY <1>1, CountTail, RangeTail DEF InTheirQueue
<1>3. Queued(j)' = Queued(j) - (IF i = j THEN 1 ELSE 0)
  <2>1. CASE QueueOf[j] = q
    <3>1. queue'[q] = Tail(queue[q])
      BY <1>1 DEF TypeOK, TypeMemory
    <3> QED
      BY <1>2, <2>1, <3>1 DEF Queued
  <2>2. CASE QueueOf[j] # q
    <3>1. queue'[QueueOf[j]] = queue[QueueOf[j]] /\ i # j
      BY <1>1, <1>2, <2>2, QueueAssumption DEF TypeOK, TypeMemory
    <3>2. Queued(j)' = Queued(j)
      BY <3>1 DEF Queued
    <3> QED
      BY <1>0, <3>1, <3>2
  <2> QED
    BY <2>1, <2>2
<1>4. CASE MayAttempt
  <2>1. Deleting(j)' = Deleting(j)
    BY <1>4 DEF Start, Deleting
  <2>2. Runs(j)' = Runs(j) + (IF i = j THEN 1 ELSE 0)
    BY <1>2, <1>4, QueueAssumption, SMTT(30) DEF Start, Runs, TypeOK, TypeMemory
  <2> QED
    BY <1>0, <1>1, <1>3, <2>1, <2>2
<1>5. CASE ~MayAttempt
  <2>1. Runs(j)' = Runs(j)
    BY <1>5 DEF Start, Runs
  <2>2. /\ Deleting(j)' = Deleting(j) + (IF i = j /\ writes' # writes THEN 1 ELSE 0)
        /\ writes' = writes => shuttingDown
    BY <1>2, <1>5, CopiesEnded DEF Start
  <2> QED
    BY <1>0, <1>1, <1>3, <2>1, <2>2, SMTT(30)
<1> QED
  BY <1>4, <1>5

LEMMA CopiesReleased ==
  ASSUME TypeOK, TypeOK', InTheirQueue, NEW j \in Jobs, NEW q \in Queues,
         RunSucceeds(q) \/ RunNeedsRetry(q) \/ RunFails(q)
  PROVE  \/ Copies(j)' = Copies(j)
         \/ shuttingDown /\ Copies(j)' = Copies(j) - 1
<1> DEFINE i == running[q]
<1>0. /\ Copies(j) = Streamed(j) + Queued(j) + Later(j) + Runs(j) + Deleting(j) + Answering(j)
      /\ Streamed(j) \in Nat /\ Queued(j) \in Nat /\ Later(j) \in Nat
      /\ Runs(j) \in Nat /\ Deleting(j) \in Nat /\ Answering(j) \in Nat
      /\ Copies(j)' = Streamed(j)' + Queued(j)' + Later(j)' + Runs(j)' + Deleting(j)' + Answering(j)'
  BY CopiesSum
<1>1. /\ i \in Jobs /\ QueueOf[i] = q
      /\ running' = [running EXCEPT ![q] = NoJob]
      /\ UNCHANGED <<stream, queue, acks>>
  BY DEF RunSucceeds, RunNeedsRetry, RunFails, Release, InTheirQueue, TypeOK, TypeMemory, source
<1>2. /\ Streamed(j)' = Streamed(j) /\ Queued(j)' = Queued(j) /\ Answering(j)' = Answering(j)
  BY <1>1 DEF Streamed, Queued, Answering
<1>3. Runs(j)' = Runs(j) - (IF i = j THEN 1 ELSE 0)
  BY <1>1, QueueAssumption DEF Runs, TypeOK, TypeMemory
<1>4. CASE (EndResolved(i) \/ EndRejected(i)) /\ UNCHANGED parked
  <2>1. /\ Deleting(j)' = Deleting(j) + (IF i = j /\ writes' # writes THEN 1 ELSE 0)
        /\ writes' = writes => shuttingDown
    BY <1>1, <1>4, CopiesEnded
  <2>2. Later(j)' = Later(j)
    BY <1>4 DEF Later
  <2> QED
    BY <1>0, <1>2, <1>3, <2>1, <2>2
<1>5. CASE KeepForRetry(q) /\ UNCHANGED writes
  <2>1. Deleting(j)' = Deleting(j)
    BY <1>5 DEF Deleting
  <2>2. parked' = [parked EXCEPT ![q] = Append(parked[q], i)] /\ parked[q] \in Seq(Jobs)
    BY <1>5 DEF KeepForRetry, TypeOK, TypeMemory
  <2>3. Later(j)' = Later(j) + (IF i = j THEN 1 ELSE 0)
    <3>1. CASE QueueOf[j] = q
      <4>1. Count(Append(parked[q], i), {j}) = Count(parked[q], {j}) + (IF i \in {j} THEN 1 ELSE 0)
        BY <1>1, <2>2, CountAppend
      <4>2. parked'[q] = Append(parked[q], i)
        BY <2>2 DEF TypeOK, TypeMemory
      <4> QED
        BY <3>1, <4>1, <4>2 DEF Later
    <3>2. CASE QueueOf[j] # q
      <4>1. parked'[QueueOf[j]] = parked[QueueOf[j]] /\ i # j
        BY <1>1, <2>2, <3>2, QueueAssumption DEF TypeOK, TypeMemory
      <4>2. Later(j)' = Later(j)
        BY <4>1 DEF Later
      <4> QED
        BY <1>0, <4>1, <4>2
    <3> QED
      BY <3>1, <3>2
  <2> QED
    BY <1>0, <1>2, <1>3, <2>1, <2>3
<1> QED
  BY <1>4, <1>5 DEF RunSucceeds, RunNeedsRetry, RunFails

LEMMA CopiesRetried ==
  ASSUME TypeOK, TypeOK', NEW j \in Jobs, NEW q \in Queues, RetryParked(q)
  PROVE  Copies(j)' = Copies(j)
<1>0. /\ Copies(j) = Streamed(j) + Queued(j) + Later(j) + Runs(j) + Deleting(j) + Answering(j)
      /\ Streamed(j) \in Nat /\ Queued(j) \in Nat /\ Later(j) \in Nat
      /\ Runs(j) \in Nat /\ Deleting(j) \in Nat /\ Answering(j) \in Nat
      /\ Copies(j)' = Streamed(j)' + Queued(j)' + Later(j)' + Runs(j)' + Deleting(j)' + Answering(j)'
  BY CopiesSum
<1>1. /\ queue[q] \in Seq(Jobs) /\ parked[q] \in Seq(Jobs)
      /\ queue' = [queue EXCEPT ![q] = queue[q] \o parked[q]]
      /\ parked' = [parked EXCEPT ![q] = <<>>]
      /\ Streamed(j)' = Streamed(j) /\ Runs(j)' = Runs(j)
      /\ Deleting(j)' = Deleting(j) /\ Answering(j)' = Answering(j)
  BY DEF RetryParked, TypeOK, TypeMemory, Streamed, Runs, Deleting, Answering, source, table
<1>2. CASE QueueOf[j] = q
  <2>1. queue'[q] = queue[q] \o parked[q] /\ parked'[q] = <<>>
    BY <1>1 DEF TypeOK, TypeMemory
  <2>2. Count(queue[q] \o parked[q], {j}) = Count(queue[q], {j}) + Count(parked[q], {j})
    BY <1>1, CountConcat
  <2>3. Queued(j)' = Queued(j) + Later(j) /\ Later(j)' = 0
    BY <1>2, <2>1, <2>2, CountEmpty DEF Queued, Later
  <2> QED
    BY <1>0, <1>1, <2>3
<1>3. CASE QueueOf[j] # q
  <2>1. queue'[QueueOf[j]] = queue[QueueOf[j]] /\ parked'[QueueOf[j]] = parked[QueueOf[j]]
    BY <1>1, <1>3, QueueAssumption DEF TypeOK, TypeMemory
  <2>2. Queued(j)' = Queued(j) /\ Later(j)' = Later(j)
    BY <2>1 DEF Queued, Later
  <2> QED
    BY <1>0, <1>1, <2>2
<1> QED
  BY <1>2, <1>3

LEMMA CopiesWritten ==
  ASSUME TypeOK, TypeOK', NEW j \in Jobs, DbWrite \/ DbWriteFails
  PROVE  Copies(j)' = Copies(j)
<1> DEFINE w == Head(writes)
<1>0. /\ Copies(j) = Streamed(j) + Queued(j) + Later(j) + Runs(j) + Deleting(j) + Answering(j)
      /\ Streamed(j) \in Nat /\ Queued(j) \in Nat /\ Later(j) \in Nat
      /\ Runs(j) \in Nat /\ Deleting(j) \in Nat /\ Answering(j) \in Nat
      /\ Copies(j)' = Streamed(j)' + Queued(j)' + Later(j)' + Runs(j)' + Deleting(j)' + Answering(j)'
  BY CopiesSum
<1>1. /\ Streamed(j)' = Streamed(j) /\ Queued(j)' = Queued(j)
      /\ Later(j)' = Later(j) /\ Runs(j)' = Runs(j)
  BY DEF DbWrite, DbWriteFails, source, memory, Streamed, Queued, Later, Runs
<1>2. PICK o \in BOOLEAN : acks' = Append(acks, [op |-> w.op, job |-> w.job, ok |-> o])
  BY DEF DbWrite, DbWriteFails
<1>3. writes # <<>> /\ writes' = Tail(writes) /\ writes \in Seq(Write) /\ acks \in Seq(Answer)
  BY DEF DbWrite, DbWriteFails, TypeOK, TypeTable
<1> DEFINE x == [op |-> w.op, job |-> w.job, ok |-> o]
<1>4. w \in Write /\ Deleting(j)' = Deleting(j) - (IF w \in Deletes(j) THEN 1 ELSE 0)
  BY <1>3, CountTail DEF Deleting
<1>5. x \in Answer
  BY <1>4, AnswerType
<1>6. w \in Deletes(j) <=> x \in Deletes(j)
  BY <1>4, <1>5 DEF Deletes
<1>7. Answering(j)' = Answering(j) + (IF x \in Deletes(j) THEN 1 ELSE 0)
  <2> HIDE DEF x
  <2>1. acks' = Append(acks, x)
    BY <1>2 DEF x
  <2> QED
    BY <1>3, <1>5, <2>1, CountAppend DEF Answering
<1> HIDE DEF x, w
<1> QED
  BY <1>0, <1>1, <1>4, <1>6, <1>7

\* Taking an answer: the answer to a delete was the last copy of its job.
LEMMA AnsweringTail ==
  ASSUME TypeOK, NEW j \in Jobs, acks # <<>>, acks' = Tail(acks)
  PROVE  /\ Head(acks) \in Answer /\ Head(acks) \in Range(acks)
         /\ Answering(j)' = Answering(j)
              - (IF Head(acks).job = j /\ Head(acks).op # "insert" THEN 1 ELSE 0)
<1>1. /\ Head(acks) \in Answer
      /\ Answering(j)' = Answering(j) - (IF Head(acks) \in Deletes(j) THEN 1 ELSE 0)
  BY CountTail DEF TypeOK, TypeTable, Answering
<1>2. Head(acks) \in Range(acks)
  BY RangeTail DEF TypeOK, TypeTable
<1>3. Head(acks) \in Deletes(j) <=> Head(acks).job = j /\ Head(acks).op # "insert"
  BY <1>1 DEF Deletes
<1> QED
  BY <1>1, <1>2, <1>3

LEMMA CopiesInserted ==
  ASSUME TypeOK, TypeOK', NEW j \in Jobs, InsertAnswered
  PROVE  \/ Copies(j)' = Copies(j) /\ (add'[j] = "added" => add[j] = "added" \/ fetch = "none" \/ add[j] = "inserting_unstreamed")
         \/ Copies(j)' = Copies(j) + 1 /\ add[j] = "inserting" /\ add'[j] = "added"
<1> DEFINE i == Head(acks).job
<1>0. /\ Copies(j) = Streamed(j) + Queued(j) + Later(j) + Runs(j) + Deleting(j) + Answering(j)
      /\ Streamed(j) \in Nat /\ Queued(j) \in Nat /\ Later(j) \in Nat
      /\ Runs(j) \in Nat /\ Deleting(j) \in Nat /\ Answering(j) \in Nat
      /\ Copies(j)' = Streamed(j)' + Queued(j)' + Later(j)' + Runs(j)' + Deleting(j)' + Answering(j)'
  BY CopiesSum
<1>1. /\ Queued(j)' = Queued(j) /\ Later(j)' = Later(j) /\ Runs(j)' = Runs(j)
  BY DEF InsertAnswered, memory, Queued, Later, Runs
<1>2. acks # <<>> /\ acks' = Tail(acks) /\ Head(acks).op = "insert"
  BY DEF InsertAnswered
<1>3. Head(acks) \in Answer /\ Answering(j)' = Answering(j)
  BY <1>0, <1>2, AnsweringTail
<1>4. i \in Jobs
  BY <1>3 DEF Answer
<1>5. CASE writes' = writes /\ stream' = stream
  <2>1. Streamed(j)' = Streamed(j) /\ Deleting(j)' = Deleting(j)
    BY <1>5 DEF Streamed, Deleting
  <2>2. add'[j] = "added" => add[j] = "added" \/ fetch = "none" \/ add[j] = "inserting_unstreamed"
    <3>1. i # j => add'[j] = add[j]
      BY <1>4 DEF InsertAnswered, StoreInsert, TypeOK, TypeCaller
    <3>2. CASE ~Head(acks).ok /\ add' = [add EXCEPT ![i] = "failed"]
      BY <1>4, <3>1, <3>2 DEF TypeOK, TypeCaller
    <3>3. CASE StoreInsert(i, TRUE)
      BY <1>4, <3>1, <3>3 DEF StoreInsert, TypeOK, TypeCaller
    <3>4. CASE add[i] = "inserting" /\ stream' = Append(stream, i)
      <4>1. Len(Append(stream, i)) = Len(stream) + 1 /\ Len(stream) \in Nat
        BY <1>4, AppendProperties, LenProperties DEF TypeOK, TypeSource
      <4> QED
        BY <1>5, <3>4, <4>1
    <3>5. CASE add[i] = "inserting_unstreamed"
      BY <1>4, <3>1, <3>5
    <3> QED
      BY <3>2, <3>3, <3>4, <3>5 DEF InsertAnswered
  <2> QED
    BY <1>0, <1>1, <1>3, <2>1, <2>2
<1>6. CASE writes' = writes /\ stream' = Append(stream, i) /\ add[i] = "inserting"
           /\ add' = [add EXCEPT ![i] = "added"]
  <2>1. Deleting(j)' = Deleting(j)
    BY <1>6 DEF Deleting
  <2>2. Streamed(j)' = Streamed(j) + (IF i = j THEN 1 ELSE 0)
    BY <1>4, <1>6, StreamedAppend
  <2>3. IF i = j THEN add[j] = "inserting" /\ add'[j] = "added" ELSE add'[j] = add[j]
    BY <1>4, <1>6 DEF TypeOK, TypeCaller
  <2> QED
    BY <1>0, <1>1, <1>3, <2>1, <2>2, <2>3
<1> QED
  BY <1>5, <1>6 DEF InsertAnswered, StoreInsert

LEMMA CopiesAfterFetch ==
  ASSUME TypeOK, TypeOK', StoreInv, NEW j \in Jobs, AfterFetch
  PROVE  \/ Copies(j)' = Copies(j) /\ add'[j] \in {add[j], "inserting"}
         \/ Copies(j)' = Copies(j) + 1 /\ add[j] = "waiting" /\ j \in Custom
<1> DEFINE i == Head(waiting)
<1>0. /\ Copies(j) = Streamed(j) + Queued(j) + Later(j) + Runs(j) + Deleting(j) + Answering(j)
      /\ Streamed(j) \in Nat /\ Queued(j) \in Nat /\ Later(j) \in Nat
      /\ Runs(j) \in Nat /\ Deleting(j) \in Nat /\ Answering(j) \in Nat
      /\ Copies(j)' = Streamed(j)' + Queued(j)' + Later(j)' + Runs(j)' + Deleting(j)' + Answering(j)'
  BY CopiesSum
<1>1. /\ Queued(j)' = Queued(j) /\ Later(j)' = Later(j) /\ Runs(j)' = Runs(j)
      /\ Answering(j)' = Answering(j)
  BY DEF AfterFetch, memory, Queued, Later, Runs, Answering
<1>2. i \in Jobs /\ add[i] = "waiting"
  BY HeadTailProperties, RangeTail DEF AfterFetch, TypeOK, TypeSource, StoreInv, Awaited
<1>3. CASE i \in Custom
  <2>1. Deleting(j)' = Deleting(j) /\ stream' = Append(stream, i)
    BY <1>3 DEF AfterFetch, Deleting
  <2>2. Streamed(j)' = Streamed(j) + (IF i = j THEN 1 ELSE 0)
    BY <1>2, <2>1, StreamedAppend
  <2>3. i # j => add'[j] = add[j]
    BY <1>2, <1>3 DEF AfterFetch, TypeOK, TypeCaller
  <2>4. CASE i = j
    <3>1. Copies(j)' = Copies(j) + 1
      BY <1>0, <1>1, <2>1, <2>2, <2>4
    <3> QED
      BY <1>2, <1>3, <2>4, <3>1
  <2>5. CASE i # j
    <3>1. Copies(j)' = Copies(j)
      BY <1>0, <1>1, <2>1, <2>2, <2>5
    <3> QED
      BY <2>3, <2>5, <3>1
  <2> HIDE DEF i
  <2> QED
    BY <2>4, <2>5
<1>4. CASE i \notin Custom
  <2>1. writes' = Append(writes, Request("insert", i)) /\ Streamed(j)' = Streamed(j)
    BY <1>4 DEF AfterFetch, Streamed
  <2>2. Deleting(j)' = Deleting(j)
    <3>1. Deleting(j)' = Deleting(j) + (IF i = j /\ "insert" # "insert" THEN 1 ELSE 0)
      BY <1>2, <2>1, DeletingAppend
    <3> QED
      BY <1>0, <3>1
  <2>3. add'[j] \in {add[j], "inserting"}
    BY <1>2, <1>4 DEF AfterFetch, TypeOK, TypeCaller
  <2> QED
    BY <1>0, <1>1, <2>1, <2>2, <2>3
<1> QED
  BY <1>3, <1>4

LEMMA CopiesAdd ==
  ASSUME TypeOK, TypeOK', NEW j \in Jobs, NEW i \in Jobs, Add(i)
  PROVE  Copies(j)' = Copies(j) /\ (add'[j] = "added" => add[j] = "added")
<1>0. /\ Copies(j) = Streamed(j) + Queued(j) + Later(j) + Runs(j) + Deleting(j) + Answering(j)
      /\ Streamed(j) \in Nat /\ Queued(j) \in Nat /\ Later(j) \in Nat
      /\ Runs(j) \in Nat /\ Deleting(j) \in Nat /\ Answering(j) \in Nat
      /\ Copies(j)' = Streamed(j)' + Queued(j)' + Later(j)' + Runs(j)' + Deleting(j)' + Answering(j)'
  BY CopiesSum
<1>1. /\ Streamed(j)' = Streamed(j) /\ Queued(j)' = Queued(j) /\ Later(j)' = Later(j)
      /\ Runs(j)' = Runs(j) /\ Answering(j)' = Answering(j)
  BY DEF Add, memory, Streamed, Queued, Later, Runs, Answering
<1>2. writes' = writes \/ writes' = Append(writes, Request("insert", i))
  BY DEF Add, StoreInsert
<1>3. Deleting(j)' = Deleting(j)
  <2>1. CASE writes' = writes
    BY <2>1 DEF Deleting
  <2>2. CASE writes' = Append(writes, Request("insert", i))
    <3>1. Deleting(j)' = Deleting(j) + (IF i = j /\ "insert" # "insert" THEN 1 ELSE 0)
      BY <2>2, DeletingAppend
    <3> QED
      BY <1>0, <3>1
  <2> QED
    BY <1>2, <2>1, <2>2
<1>4. add'[j] = "added" => add[j] = "added"
  BY DEF Add, StoreInsert, TypeOK, TypeCaller
<1> QED
  BY <1>0, <1>1, <1>3, <1>4

LEMMA CopiesDeleted ==
  ASSUME TypeOK, TypeOK', Deleted, NEW j \in Jobs, DeleteAnswered
  PROVE  \/ Copies(j)' = Copies(j)
         \/ Copies(j)' = Copies(j) - 1 /\ j \in finished
<1>0. /\ Copies(j) = Streamed(j) + Queued(j) + Later(j) + Runs(j) + Deleting(j) + Answering(j)
      /\ Streamed(j) \in Nat /\ Queued(j) \in Nat /\ Later(j) \in Nat
      /\ Runs(j) \in Nat /\ Deleting(j) \in Nat /\ Answering(j) \in Nat
      /\ Copies(j)' = Streamed(j)' + Queued(j)' + Later(j)' + Runs(j)' + Deleting(j)' + Answering(j)'
  BY CopiesSum
<1>1. /\ Streamed(j)' = Streamed(j) /\ Queued(j)' = Queued(j) /\ Later(j)' = Later(j)
      /\ Runs(j)' = Runs(j) /\ Deleting(j)' = Deleting(j)
  BY DEF DeleteAnswered, source, memory, Streamed, Queued, Later, Runs, Deleting
<1>2. /\ Head(acks) \in Range(acks) /\ Head(acks).op # "insert"
      /\ Answering(j)' = Answering(j)
              - (IF Head(acks).job = j /\ Head(acks).op # "insert" THEN 1 ELSE 0)
  BY AnsweringTail DEF DeleteAnswered
<1>3. Head(acks).job = j => j \in finished
  BY <1>2 DEF Deleted
<1> QED
  BY <1>0, <1>1, <1>2, <1>3

LEMMA CopiesSame ==
  ASSUME TypeOK, TypeOK', UNCHANGED <<stream, queue, parked, running, writes, acks>>, NEW j \in Jobs
  PROVE  Copies(j)' = Copies(j)
BY DEF Copies, Positions, DeletesOf

LEMMA CopiesNone ==
  ASSUME TypeOK, stream = <<>>, writes = <<>>, acks = <<>>,
         \A q \in Queues : queue[q] = <<>> /\ parked[q] = <<>> /\ running[q] = NoJob
  PROVE  \A j \in Jobs : Copies(j) = 0
<1> SUFFICES ASSUME NEW j \in Jobs PROVE Copies(j) = 0
  OBVIOUS
<1>1. /\ Copies(j) = Streamed(j) + Queued(j) + Later(j) + Runs(j) + Deleting(j) + Answering(j)
  BY CopiesSummed DEF AllSummed, Summed
<1>2. QueueOf[j] \in Queues
  BY QueueAssumption
<1>3. Runs(j) = 0
  BY <1>2, QueueAssumption DEF Runs
<1>4. Streamed(j) = 0 /\ Queued(j) = 0 /\ Later(j) = 0 /\ Deleting(j) = 0 /\ Answering(j) = 0
  BY <1>2, CountEmpty DEF Streamed, Queued, Later, Deleting, Answering
<1> QED
  BY <1>1, <1>3, <1>4

\* Every row is read once.
LEMMA RowsOnce ==
  ASSUME TypeOK, NEW s \in RowsByTimestamp, NEW j \in Jobs
  PROVE  Count(s, {j}) = IF j \in db THEN 1 ELSE 0
<1> DEFINE n == Cardinality(db)
<1>1. IsFiniteSet(db) /\ n \in Nat /\ stamp \in [Jobs -> Nat] /\ db \subseteq Jobs
  BY QueueAssumption, FS_Subset, FS_CardinalityType DEF TypeOK, TypeTable
<1>2. s \in [1..n -> db] /\ DOMAIN s = 1..n
  BY DEF RowsByTimestamp
<1>3. \A k, m \in 1..n : s[k] = s[m] => k = m
  <2>1. \A k, m \in 1..n : k < m => stamp[s[k]] < stamp[s[m]]
    BY <1>2 DEF RowsByTimestamp
  <2> TAKE k \in 1..n, m \in 1..n
  <2> HAVE s[k] = s[m]
  <2>2. stamp[s[k]] \in Nat /\ k \in Nat /\ m \in Nat
    BY <1>1, <1>2
  <2> QED
    BY <2>1, <2>2
<1>4. s \in Injection(1..n, db)
  <2> HIDE DEF n
  <2> QED
    BY <1>2, <1>3, Fun_IsInj
<1>5. Cardinality(1..n) = n /\ IsFiniteSet(1..n)
  BY <1>1, FS_Interval
<1>6. s \in Surjection(1..n, db)
  BY <1>1, <1>4, <1>5, FS_Injection
<1>7. \A i \in db : \E k \in 1..n : s[k] = i
  <2> HIDE DEF n
  <2> QED
    BY <1>6 DEF Surjection
<1>8. CASE j \in db
  <2>1. PICK k \in 1..n : s[k] = j
    BY <1>7, <1>8
  <2>2. Where(s, {j}) = {k}
    BY <1>2, <1>3, <2>1 DEF Where
  <2> QED
    BY <1>8, <2>2, FS_Singleton DEF Count
<1>9. CASE j \notin db
  <2>1. Where(s, {j}) = {}
    BY <1>2, <1>9 DEF Where
  <2> QED
    BY <1>9, <2>1, FS_EmptySet DEF Count
<1> QED
  BY <1>8, <1>9

LEMMA CopiesFetched ==
  ASSUME TypeOK, TypeOK', NEW j \in Jobs, DbFetch, Copies(j) = 0
  PROVE  Copies(j)' = IF j \in db THEN 1 ELSE 0
<1>0. /\ Copies(j) = Streamed(j) + Queued(j) + Later(j) + Runs(j) + Deleting(j) + Answering(j)
      /\ Streamed(j) \in Nat /\ Queued(j) \in Nat /\ Later(j) \in Nat
      /\ Runs(j) \in Nat /\ Deleting(j) \in Nat /\ Answering(j) \in Nat
      /\ Copies(j)' = Streamed(j)' + Queued(j)' + Later(j)' + Runs(j)' + Deleting(j)' + Answering(j)'
      /\ Streamed(j)' \in Nat
  BY CopiesSum
<1>1. /\ Queued(j)' = Queued(j) /\ Later(j)' = Later(j) /\ Runs(j)' = Runs(j)
      /\ Deleting(j)' = Deleting(j) /\ Answering(j)' = Answering(j)
  BY DEF DbFetch, table, memory, Queued, Later, Runs, Deleting, Answering
<1>2. Streamed(j)' = IF j \in db THEN 1 ELSE 0
  <2>1. Count(stream', {j}) = IF j \in db THEN 1 ELSE 0
    BY RowsOnce DEF DbFetch
  <2> QED
    BY <2>1 DEF Streamed
<1>3. Copies(j)' = Streamed(j)'
  BY <1>0, <1>1
<1> QED
  BY <1>2, <1>3

\* What the process holds was stored.
LEMMA CopiesKept ==
  ASSUME TypeOK, StoreInv, Deleted, NEW j \in Jobs, Copies(j) # 0
  PROVE  Kept(j)
<1> DEFINE q == QueueOf[j]
<1>0. /\ Copies(j) = Streamed(j) + Queued(j) + Later(j) + Runs(j) + Deleting(j) + Answering(j)
      /\ Streamed(j) \in Nat /\ Queued(j) \in Nat /\ Later(j) \in Nat
      /\ Runs(j) \in Nat /\ Deleting(j) \in Nat /\ Answering(j) \in Nat
  BY CopiesSummed DEF AllSummed, Summed
<1>1. q \in Queues /\ j # NoJob
  BY QueueAssumption
<1>2. /\ stream \in Seq(Jobs) /\ queue[q] \in Seq(Jobs) /\ parked[q] \in Seq(Jobs)
      /\ writes \in Seq(Write) /\ acks \in Seq(Answer)
  BY <1>1 DEF TypeOK, TypeTable, TypeSource, TypeMemory
<1>3. CASE Streamed(j) # 0
  <2>1. j \in Range(stream)
    BY <1>2, <1>3, CountZero DEF Streamed
  <2> QED
    BY <2>1 DEF StoreInv, Held
<1>4. CASE Queued(j) # 0
  <2>1. j \in Range(queue[q])
    BY <1>2, <1>4, CountZero DEF Queued
  <2> QED
    BY <1>1, <2>1 DEF StoreInv, Held
<1>5. CASE Later(j) # 0
  <2>1. j \in Range(parked[q])
    BY <1>2, <1>5, CountZero DEF Later
  <2> QED
    BY <1>1, <2>1 DEF StoreInv, Held
<1>6. CASE Runs(j) # 0
  BY <1>1, <1>6 DEF Runs, StoreInv, Held
<1>7. CASE Deleting(j) # 0
  <2>1. Range(writes) \cap Deletes(j) # {}
    BY <1>2, <1>7, CountZero DEF Deleting
  <2> QED
    BY <2>1 DEF Deletes, StoreInv, DeletesFinished, Kept
<1>8. CASE Answering(j) # 0
  <2>1. Range(acks) \cap Deletes(j) # {}
    BY <1>2, <1>8, CountZero DEF Answering
  <2> QED
    BY <2>1 DEF Deletes, Deleted, Kept
<1> QED
  BY <1>0, <1>3, <1>4, <1>5, <1>6, <1>7, <1>8

LEMMA CopiesRestarted ==
  ASSUME TypeOK, TypeOK', NEW j \in Jobs, Restart
  PROVE  Copies(j)' = 0
<1>1. /\ stream' = <<>> /\ writes' = <<>> /\ acks' = <<>>
      /\ queue'[QueueOf[j]] = <<>> /\ parked'[QueueOf[j]] = <<>> /\ running'[QueueOf[j]] # j
  BY QueueAssumption DEF Restart
<1>2. Copies(j)' = Streamed(j)' + Queued(j)' + Later(j)' + Runs(j)' + Deleting(j)' + Answering(j)'
  BY CopiesSum
<1>3. /\ Streamed(j)' = 0 /\ Queued(j)' = 0 /\ Later(j)' = 0 /\ Runs(j)' = 0
      /\ Deleting(j)' = 0 /\ Answering(j)' = 0
  BY <1>1, CountEmpty DEF Streamed, Queued, Later, Runs, Deleting, Answering
<1> QED
  BY <1>2, <1>3

\* What one step does to the copies of a job.
LEMMA CopiesStep ==
  ASSUME TypeOK, TypeOK', StoreInv, Deleted, InTheirQueue, [Next]_vars, NEW j \in Jobs
  PROVE  \/ Restart /\ Copies(j)' = 0
         \/ DbFetch /\ add' = add
         \/ InsertAnswered /\ Copies(j)' = Copies(j) + 1 /\ add[j] = "inserting" /\ add'[j] = "added"
         \/ AfterFetch /\ Copies(j)' = Copies(j) + 1 /\ add[j] = "waiting" /\ j \in Custom
         \/ /\ \/ Copies(j)' = Copies(j)
               \/ Copies(j)' = Copies(j) - 1 /\ (j \in finished \/ shuttingDown)
            /\ add'[j] = "added" => add[j] = "added" \/ fetch = "none" \/ add[j] = "inserting_unstreamed"
<1>1. CASE \E i \in Jobs : Add(i)
  BY <1>1, CopiesAdd
<1>2. CASE AfterFetch
  BY <1>2, CopiesAfterFetch
<1>3. CASE DbWrite \/ DbWriteFails
  BY <1>3, CopiesWritten DEF DbWrite, DbWriteFails, caller
<1>4. CASE InsertAnswered
  BY <1>4, CopiesInserted
<1>5. CASE DeleteAnswered
  BY <1>5, CopiesDeleted DEF DeleteAnswered
<1>6. CASE DbFetch
  BY <1>6 DEF DbFetch, caller
<1>7. CASE ConsumeOne \/ ConsumeHeld
  <2>1. add' = add
    BY <1>7 DEF ConsumeOne, ConsumeHeld, caller
  <2>2. CASE stream # <<>> /\ EnqueueHead /\ UNCHANGED <<acks, running, parked>>
    BY <2>1, <2>2, CopiesEnqueued
  <2>3. CASE UNCHANGED <<stream, queue, parked, running, writes, acks>>
    BY <2>1, <2>3, CopiesSame
  <2> QED
    BY <1>7, <2>2, <2>3 DEF ConsumeOne, ConsumeHeld
<1>8. CASE \E q \in Queues : Start(q)
  <2>1. PICK q \in Queues : Start(q)
    BY <1>8
  <2> QED
    BY <2>1, CopiesStarted DEF Start
<1>9. CASE \E q \in Queues : RunSucceeds(q) \/ RunNeedsRetry(q) \/ RunFails(q)
  <2>1. PICK q \in Queues : RunSucceeds(q) \/ RunNeedsRetry(q) \/ RunFails(q)
    BY <1>9
  <2> QED
    BY <2>1, CopiesReleased DEF RunSucceeds, RunNeedsRetry, RunFails
<1>10. CASE \E q \in Queues : RetryParked(q)
  BY <1>10, CopiesRetried DEF RetryParked, caller
<1>11. CASE Restart
  BY <1>11, CopiesRestarted
<1>12. CASE \/ StreamJobs \/ DbFetchFails \/ FetchAnswered \/ Pause \/ Resume \/ Shutdown
            \/ UNCHANGED vars
            \/ \E q \in Queues : RunRetries(q)
  <2>1. UNCHANGED <<stream, queue, parked, running, writes, acks>> /\ add' = add
    BY <1>12
    DEF StreamJobs, DbFetchFails, FetchAnswered, Pause, Resume, Shutdown, RunRetries,
        vars, table, caller, source, memory
  <2> QED
    BY <2>1, CopiesSame
<1> QED
  BY <1>1, <1>2, <1>3, <1>4, <1>5, <1>6, <1>7, <1>8, <1>9, <1>10, <1>11, <1>12 DEF Next

LEMMA FetchStep ==
  ASSUME [Next]_vars
  PROVE  \/ fetch' = fetch
         \/ Restart /\ fetch' = "none"
         \/ fetch = "none" /\ fetch' = "asked" /\ StreamJobs
         \/ fetch = "asked" /\ fetch' = "read" /\ DbFetch
         \/ fetch = "asked" /\ fetch' = "failed" /\ DbFetchFails
         \/ fetch = "read" /\ fetch' = "done" /\ FetchAnswered
<1>1. CASE Restart \/ StreamJobs \/ DbFetch \/ DbFetchFails \/ FetchAnswered
  BY <1>1 DEF Restart, StreamJobs, DbFetch, DbFetchFails, FetchAnswered
<1>2. CASE ~(Restart \/ StreamJobs \/ DbFetch \/ DbFetchFails \/ FetchAnswered)
  BY <1>2
  DEF Next, vars, source, Add, AfterFetch, DbWrite, DbWriteFails, InsertAnswered,
      DeleteAnswered, ConsumeOne, ConsumeHeld, Start, RunSucceeds, RunNeedsRetry,
      RunFails, RunRetries, RetryParked, Pause, Resume, Shutdown
<1> QED
  BY <1>1, <1>2

LEMMA TheirQueueInductive ==
  ASSUME TypeOK, TypeOK', InTheirQueue, [Next]_vars
  PROVE  InTheirQueue'
<1>1. CASE UNCHANGED <<queue, parked, running>>
  BY <1>1 DEF InTheirQueue
<1>2. CASE stream # <<>> /\ EnqueueHead /\ UNCHANGED <<parked, running>>
  <2> DEFINE i == Head(stream)
  <2>1. i \in Jobs /\ QueueOf[i] \in Queues
    BY <1>2, HeadTailProperties, QueueAssumption DEF TypeOK, TypeSource
  <2>2. CASE i \in Corrupt
    BY <1>1, <1>2, <2>2 DEF EnqueueHead
  <2>3. CASE i \notin Corrupt
    <3>1. /\ queue[QueueOf[i]] \in Seq(Jobs)
          /\ queue' = [queue EXCEPT ![QueueOf[i]] = Append(queue[QueueOf[i]], i)]
      BY <1>2, <2>1, <2>3 DEF EnqueueHead, TypeOK, TypeMemory
    <3>2. Range(Append(queue[QueueOf[i]], i)) = Range(queue[QueueOf[i]]) \cup {i}
      BY <2>1, <3>1, RangeAppend
    <3> QED
      BY <1>2, <2>1, <3>1, <3>2 DEF InTheirQueue, TypeOK, TypeMemory
  <2> QED
    BY <2>2, <2>3
<1>3. ASSUME NEW q \in Queues, Start(q) PROVE InTheirQueue'
  <2>1. /\ queue[q] \in Seq(Jobs) /\ queue[q] # <<>>
        /\ queue' = [queue EXCEPT ![q] = Tail(queue[q])] /\ parked' = parked
    BY <1>3 DEF Start, TypeOK, TypeMemory
  <2>2. Head(queue[q]) \in Range(queue[q]) /\ Range(Tail(queue[q])) \subseteq Range(queue[q])
    BY <2>1, RangeTail
  <2>3. running' = running \/ running' = [running EXCEPT ![q] = Head(queue[q])]
    BY <1>3 DEF Start
  <2> QED
    BY <2>1, <2>2, <2>3 DEF InTheirQueue, TypeOK, TypeMemory
<1>4. ASSUME NEW q \in Queues, RunSucceeds(q) \/ RunNeedsRetry(q) \/ RunFails(q) PROVE InTheirQueue'
  <2>1. /\ running[q] \in Jobs /\ QueueOf[running[q]] = q /\ parked[q] \in Seq(Jobs)
        /\ running' = [running EXCEPT ![q] = NoJob] /\ queue' = queue
        /\ \/ parked' = parked
           \/ parked' = [parked EXCEPT ![q] = Append(parked[q], running[q])]
    BY <1>4
    DEF RunSucceeds, RunNeedsRetry, RunFails, Release, KeepForRetry, InTheirQueue, TypeOK, TypeMemory
  <2>2. Range(Append(parked[q], running[q])) = Range(parked[q]) \cup {running[q]}
    BY <2>1, RangeAppend
  <2> QED
    BY <2>1, <2>2 DEF InTheirQueue, TypeOK, TypeMemory
<1>5. ASSUME NEW q \in Queues, RetryParked(q) PROVE InTheirQueue'
  <2>1. /\ queue[q] \in Seq(Jobs) /\ parked[q] \in Seq(Jobs) /\ running' = running
        /\ queue' = [queue EXCEPT ![q] = queue[q] \o parked[q]]
        /\ parked' = [parked EXCEPT ![q] = <<>>]
    BY <1>5 DEF RetryParked, TypeOK, TypeMemory
  <2>2. Range(queue[q] \o parked[q]) \subseteq Range(queue[q]) \cup Range(parked[q])
    BY <2>1, RangeConcat
  <2> QED
    BY <2>1, <2>2, RangeEmpty DEF InTheirQueue, TypeOK, TypeMemory
<1>6. CASE Restart
  BY <1>6, RangeEmpty DEF Restart, InTheirQueue
<1>7. CASE ConsumeOne \/ ConsumeHeld
  BY <1>1, <1>2, <1>7 DEF ConsumeOne, ConsumeHeld
<1>8. CASE \/ \E j \in Jobs : Add(j)
           \/ AfterFetch \/ DbWrite \/ DbWriteFails \/ InsertAnswered \/ DeleteAnswered
           \/ StreamJobs \/ DbFetch \/ DbFetchFails \/ FetchAnswered
           \/ Pause \/ Resume \/ Shutdown \/ UNCHANGED vars
           \/ \E q \in Queues : RunRetries(q)
  <2>1. UNCHANGED <<queue, parked, running>>
    BY <1>8
    DEF Add, AfterFetch, DbWrite, DbWriteFails, InsertAnswered, DeleteAnswered, StreamJobs, DbFetch,
        DbFetchFails, FetchAnswered, Pause, Resume, Shutdown, RunRetries, memory, vars
  <2> QED
    BY <1>1, <2>1
<1> QED
  BY <1>3, <1>4, <1>5, <1>6, <1>7, <1>8 DEF Next

(***************************************************************************)
(* No job twice.                                                           *)
(***************************************************************************)
\* Before the rows are read the process holds nothing, ...
NothingYet == fetch \in {"none", "asked", "failed"} => \A j \in Jobs : Copies(j) = 0
\* ... an insert that awaited the fetch is pushed by add() and was not read, ...
NotRead ==
  \A j \in Jobs : add[j] = "inserting" => /\ j \notin Custom
                                         /\ fetch = "done"
                                         /\ Copies(j) = 0
\* ... so a job that is not stored by its caller is never taken up twice.
OneCopy == \A j \in Jobs \ Custom : Copies(j) <= 1
CopiesInv == InTheirQueue /\ NothingYet /\ NotRead /\ OneCopy

LEMMA CopiesInductive ==
  ASSUME TypeOK, TypeOK', StoreInv, Deleted, CopiesInv, [Next]_vars
  PROVE  CopiesInv'
<1> USE DEF CopiesInv
<1>1. InTheirQueue'
  BY TheirQueueInductive
<1>2. \A j \in Jobs : Copies(j) \in Nat /\ Copies(j)' \in Nat
  BY CopiesSum
<1>3. ASSUME NEW j \in Jobs PROVE fetch' \in {"none", "asked", "failed"} => Copies(j)' = 0
  <2> SUFFICES ASSUME fetch' \in {"none", "asked", "failed"} PROVE Copies(j)' = 0
    OBVIOUS
  <2>1. Restart \/ (fetch \in {"none", "asked", "failed"} /\ ~DbFetch)
    BY FetchStep DEF DbFetch
  <2>2. CASE Restart
    BY <2>2, CopiesRestarted
  <2> QED
    BY <1>2, <2>1, <2>2, CopiesStep DEF NothingYet, NotRead, AfterFetch
<1>4. ASSUME NEW j \in Jobs, add'[j] = "inserting"
      PROVE  j \notin Custom /\ fetch' = "done" /\ Copies(j)' = 0
  <2>1. CASE add[j] = "inserting"
    <3>1. j \notin Custom /\ fetch = "done" /\ Copies(j) = 0
      BY <2>1 DEF NotRead
    <3>2. ~Restart /\ ~DbFetch
      BY <1>4, <3>1 DEF Restart, DbFetch
    <3>3. fetch' = "done"
      BY <3>1, <3>2, FetchStep
    <3> QED
      BY <1>2, <1>4, <3>1, <3>2, <3>3, CopiesStep
  <2>2. CASE add[j] # "inserting"
    <3>1. AfterFetch /\ j = Head(waiting) /\ add[j] = "waiting"
      BY <1>4, <2>2, AddStep
    <3>2. fetch' = "done" /\ j \notin Custom
      BY <1>4, <3>1 DEF AfterFetch, TypeOK, TypeCaller
    <3>3. ~Kept(j)
      BY <3>1, <3>2 DEF StoreInv, Awaited
    <3>4. Copies(j) = 0
      BY <3>3, CopiesKept
    <3>5. Copies(j)' = Copies(j)
      BY <3>1, <3>2, CopiesAfterFetch
    <3> QED
      BY <3>2, <3>4, <3>5
  <2> QED
    BY <2>1, <2>2
<1>5. ASSUME NEW j \in Jobs \ Custom PROVE Copies(j)' <= 1
  <2>1. CASE DbFetch
    <3>1. Copies(j) = 0
      BY <2>1 DEF DbFetch, NothingYet
    <3> QED
      BY <2>1, <3>1, CopiesFetched
  <2>2. CASE ~DbFetch
    BY <1>2, <2>2, CopiesStep DEF NotRead, OneCopy
  <2> QED
    BY <2>1, <2>2
<1> QED
  BY <1>1, <1>3, <1>4, <1>5 DEF NothingYet, NotRead, OneCopy

THEOREM CopiesInvariant == Spec => []CopiesInv
<1>1. TypeOK /\ Init => CopiesInv
  <2> SUFFICES ASSUME TypeOK, Init PROVE CopiesInv
    OBVIOUS
  <2>1. InTheirQueue
    BY RangeEmpty DEF Init, InTheirQueue
  <2>2. \A j \in Jobs : Copies(j) = 0
    BY CopiesNone DEF Init
  <2> QED
    BY <2>1, <2>2 DEF Init, CopiesInv, NothingYet, NotRead, OneCopy
<1>2. TypeOK /\ TypeOK' /\ StoreInv /\ SettledInv /\ CopiesInv /\ [Next]_vars => CopiesInv'
  BY CopiesInductive DEF SettledInv
<1> QED
  BY <1>1, <1>2, TypeCorrect, StoreInvariant, SettledInvariant, PTL DEF Spec

\* A job that add() stores itself (every queue but the custom insert of the
\* conversation queue's callers) is never in the hands of the process twice.
THEOREM EveryJobTakenUpOnce ==
  ASSUME Custom = {}
  PROVE  Spec => []OneInstance
<1>1. CopiesInv => OneInstance
  BY DEF CopiesInv, OneCopy, OneInstance
<1> QED
  BY <1>1, CopiesInvariant, PTL

(***************************************************************************)
(* Once streaming, no job is only a row.                                   *)
(***************************************************************************)
\* An insert that found the queue streaming waits for the rows to be read, ...
InsertsAwaitFetch ==
  \A j \in Jobs : /\ add[j] # "inserting_unstreamed"
                  /\ add[j] \in {"custom", "waiting", "inserting"} => fetch # "none"
\* ... and until shutdown() the process keeps whatever it has not finished.
NoneLeft ==
  fetch \in {"read", "done"} /\ ~shuttingDown
    => \A j \in Jobs : add[j] = "added" /\ j \notin finished => Copies(j) >= 1
StreamedInv == InsertsAwaitFetch /\ NoneLeft

LEMMA AddOnly ==
  ASSUME [Next]_vars, add' # add
  PROVE  AfterFetch \/ InsertAnswered \/ Restart \/ \E k \in Jobs : Add(k)
BY DEF Next, vars, caller, DbWrite, DbWriteFails, DeleteAnswered, StreamJobs,
       DbFetch, DbFetchFails, FetchAnswered, ConsumeOne, ConsumeHeld, Start,
       RunSucceeds, RunNeedsRetry, RunFails, RunRetries, RetryParked, Pause,
       Resume, Shutdown

LEMMA StreamedInductive ==
  ASSUME "none" \notin AddPhases, TypeOK, TypeOK', StoreInv, NoLostJob, Deleted, CopiesInv, StreamedInv,
         [Next]_vars
  PROVE  StreamedInv'
<1> USE DEF StreamedInv
<1>1. ASSUME NEW j \in Jobs
      PROVE  /\ add'[j] # "inserting_unstreamed"
             /\ add'[j] \in {"custom", "waiting", "inserting"} => fetch' # "none"
  <2>1. CASE Restart
    BY <2>1 DEF Restart
  <2>2. CASE \E i \in Jobs : Add(i)
    BY <2>2 DEF Add, StoreInsert, InsertsAwaitFetch, TypeOK, TypeCaller
  <2>3. CASE ~Restart /\ ~\E i \in Jobs : Add(i)
    <3>1. fetch # "none" => fetch' # "none"
      BY <2>3, FetchStep
    <3>2. CASE add'[j] = add[j]
      BY <3>1, <3>2 DEF InsertsAwaitFetch
    <3>3. CASE AfterFetch
      <4>1. fetch' # "none"
        BY <3>3 DEF AfterFetch
      <4>2. add'[j] # "inserting_unstreamed"
        BY <3>3 DEF AfterFetch, InsertsAwaitFetch, TypeOK, TypeCaller
      <4> QED
        BY <4>1, <4>2
    <3>4. CASE InsertAnswered /\ add'[j] # add[j]
      <4>1. add'[j] \in {"added", "failed", "waiting"}
        BY <3>4 DEF InsertAnswered, StoreInsert, TypeOK, TypeCaller
      <4>2. add'[j] = "waiting" => fetch # "none"
        BY <3>4 DEF InsertAnswered, StoreInsert, TypeOK, TypeCaller
      <4> QED
        BY <3>1, <4>1, <4>2
    <3> QED
      BY <2>3, <3>2, <3>3, <3>4, AddOnly
  <2> QED
    BY <2>1, <2>2, <2>3
<1>2. ASSUME fetch' \in {"read", "done"}, ~shuttingDown', NEW j \in Jobs, add'[j] = "added", j \notin finished'
      PROVE  Copies(j)' >= 1
  <2>0. Copies(j) \in Nat /\ Copies(j)' \in Nat
    BY CopiesSum
  <2>1. ~Restart
    BY <1>2 DEF Restart
  <2>2. ~shuttingDown
    BY <1>2, <2>1, ShutdownStays
  <2>3. j \notin finished
    BY <1>2, FinishedGrows
  <2>4. CASE DbFetch
    <3>1. add[j] = "added" /\ Copies(j) = 0
      BY <1>2, <2>4 DEF DbFetch, caller, CopiesInv, NothingYet
    <3>2. j \in db
      BY <2>3, <3>1 DEF NoLostJob
    <3> QED
      BY <2>4, <3>1, <3>2, CopiesFetched
  <2>5. CASE ~DbFetch
    <3>1. fetch \in {"read", "done"}
      BY <1>2, <2>1, <2>5, FetchStep
    <3>2. add[j] # "inserting_unstreamed"
      BY DEF InsertsAwaitFetch
    <3>3. add[j] = "added" => Copies(j) >= 1
      BY <2>2, <2>3, <3>1 DEF NoneLeft
    <3> QED
      BY <1>2, <2>0, <2>1, <2>2, <2>3, <2>5, <3>1, <3>2, <3>3, CopiesStep DEF CopiesInv
  <2> QED
    BY <2>4, <2>5
<1> QED
  BY <1>1, <1>2 DEF InsertsAwaitFetch, NoneLeft

\* While the process streams, a job whose add() resolved is finished or on its
\* way to run, if no job is added before streamJobs() has asked for the rows.
THEOREM NoJobIsOrphaned ==
  ASSUME "none" \notin AddPhases
  PROVE  Spec => []NotOrphaned
<1>1. Init => StreamedInv
  BY DEF Init, StreamedInv, InsertsAwaitFetch, NoneLeft
<1>2. TypeOK /\ TypeOK' /\ StoreInv /\ NoLostJob /\ SettledInv /\ CopiesInv /\ StreamedInv /\ [Next]_vars
        => StreamedInv'
  BY StreamedInductive DEF SettledInv
<1>3. StreamedInv => NotOrphaned
  BY DEF StreamedInv, NoneLeft, NotOrphaned
<1> QED
  BY <1>1, <1>2, <1>3, TypeCorrect, StoreInvariant, JobsAreNotLost, SettledInvariant,
     CopiesInvariant, PTL DEF Spec

(***************************************************************************)
(* Sequences whose members are related in pairs.                           *)
(***************************************************************************)
Rising(s, R) == \A m, n \in DOMAIN s : m < n => <<s[m], s[n]>> \in R

LEMMA RisingEmpty == \A R : Rising(<<>>, R)
BY DEF Rising

LEMMA RisingAppend ==
  ASSUME NEW S, NEW s \in Seq(S), NEW e \in S, NEW R, Rising(s, R),
         \A x \in Range(s) : <<x, e>> \in R
  PROVE  Rising(Append(s, e), R)
<1> DEFINE t == Append(s, e)
<1>1. /\ DOMAIN t = 1..(Len(s) + 1) /\ DOMAIN s = 1..Len(s) /\ Len(s) \in Nat
      /\ \A i \in 1..Len(s) : t[i] = s[i]
      /\ t[Len(s) + 1] = e
  BY AppendProperties, LenProperties
<1> HIDE DEF t
<1>2. ASSUME NEW m \in DOMAIN t, NEW n \in DOMAIN t, m < n PROVE <<t[m], t[n]>> \in R
  <2>1. m \in DOMAIN s
    BY <1>1, <1>2
  <2>2. CASE n \in DOMAIN s
    BY <1>1, <1>2, <2>1, <2>2 DEF Rising
  <2>3. CASE n = Len(s) + 1
    BY <1>1, <2>1, <2>3 DEF Range
  <2> QED
    BY <1>1, <2>2, <2>3
<1> QED
  BY <1>2 DEF Rising, t

LEMMA RisingTail ==
  ASSUME NEW S, NEW s \in Seq(S), s # <<>>, NEW R, Rising(s, R)
  PROVE  /\ Rising(Tail(s), R)
         /\ \A x \in Range(Tail(s)) : <<Head(s), x>> \in R
<1>1. /\ Len(s) \in Nat /\ Len(s) >= 1 /\ DOMAIN s = 1..Len(s)
      /\ DOMAIN Tail(s) = 1..(Len(s) - 1)
      /\ \A i \in 1..(Len(s) - 1) : Tail(s)[i] = s[i + 1]
      /\ Head(s) = s[1]
  BY HeadTailProperties, LenProperties, EmptySeq
<1>2. Rising(Tail(s), R)
  BY <1>1 DEF Rising
<1>3. \A i \in 1..(Len(s) - 1) : <<s[1], s[i + 1]>> \in R
  BY <1>1 DEF Rising
<1> QED
  BY <1>1, <1>2, <1>3 DEF Range

LEMMA RisingConcat ==
  ASSUME NEW S, NEW s \in Seq(S), NEW t \in Seq(S), NEW R, Rising(s, R), Rising(t, R),
         \A x \in Range(s), y \in Range(t) : <<x, y>> \in R
  PROVE  Rising(s \o t, R)
<1> DEFINE c == s \o t
<1>1. /\ DOMAIN c = 1..(Len(s) + Len(t))
      /\ DOMAIN s = 1..Len(s) /\ DOMAIN t = 1..Len(t)
      /\ Len(s) \in Nat /\ Len(t) \in Nat
      /\ \A i \in 1..(Len(s) + Len(t)) : c[i] = IF i <= Len(s) THEN s[i] ELSE t[i - Len(s)]
  BY ConcatProperties, LenProperties
<1> HIDE DEF c
<1>2. ASSUME NEW m \in DOMAIN c, NEW n \in DOMAIN c, m < n PROVE <<c[m], c[n]>> \in R
  <2>1. CASE n <= Len(s)
    BY <1>1, <1>2, <2>1 DEF Rising
  <2>2. CASE ~(n <= Len(s)) /\ m <= Len(s)
    <3>1. n - Len(s) \in DOMAIN t /\ m \in DOMAIN s
      BY <1>1, <2>2
    <3> QED
      BY <1>1, <2>2, <3>1 DEF Range
  <2>3. CASE ~(n <= Len(s)) /\ ~(m <= Len(s))
    <3>1. n - Len(s) \in DOMAIN t /\ m - Len(s) \in DOMAIN t /\ m - Len(s) < n - Len(s)
      BY <1>1, <1>2, <2>3
    <3> QED
      BY <1>1, <2>3, <3>1 DEF Rising
  <2> QED
    BY <2>1, <2>2, <2>3
<1> QED
  BY <1>2 DEF Rising, c

\* The same sequence in another relation.
LEMMA RisingIn ==
  ASSUME NEW s, NEW R, NEW Q, Rising(s, R),
         \A x, y \in Range(s) : <<x, y>> \in R => <<x, y>> \in Q
  PROVE  Rising(s, Q)
BY DEF Rising, Range

(***************************************************************************)
(* The order of one conversation.                                          *)
(***************************************************************************)
\* A pair whose jobs were inserted alike and were never put back for a retry
\* keeps its order; calls of add() and inserts keep theirs in any case.
InOrder(p) == Alike(p[1], p[2]) /\ p[1] \notin putBack /\ p[2] \notin putBack
AddedEarlier == {p \in Jobs \X Jobs : Alike(p[1], p[2]) => stamp[p[1]] < stamp[p[2]]}
Earlier == {p \in Jobs \X Jobs : InOrder(p) => stamp[p[1]] < stamp[p[2]]}
EarlierOf(q) ==
  {p \in Jobs \X Jobs :
     QueueOf[p[1]] = q /\ QueueOf[p[2]] = q /\ InOrder(p) => stamp[p[1]] < stamp[p[2]]}
Requests == Write \cup Answer
InsertedEarlier ==
  {p \in Requests \X Requests :
     p[1].op = "insert" /\ p[2].op = "insert" /\ Alike(p[1].job, p[2].job)
       => stamp[p[1].job] < stamp[p[2].job]}

Ended(j) == add[j] \in {"added", "failed", "lost"}

\* A later job has a larger stamp than all that were created before it.
Stamped ==
  /\ \A j \in Jobs : stamp[j] = 0 <=> add[j] = "none"
  /\ \A j \in Jobs : stamp[j] <= Cardinality({k \in Jobs : Created(k)})
\* The calls of add() insert, wait for the rows and end in the order of the
\* stamps, except that a failed insert overtakes, ...
InTurn ==
  \A j, k \in Jobs :
    Alike(j, k) =>
      /\ Ended(j) /\ Kept(j) /\ add[k] \in {"custom", "waiting", "inserting"}
           => stamp[j] < stamp[k]
      /\ add[j] = "inserting" /\ add[k] = "waiting" => stamp[j] < stamp[k]
      /\ add[j] = "waiting" /\ add[k] = "custom" => stamp[j] < stamp[k]
Waits ==
  /\ Rising(waiting, AddedEarlier)
  /\ \A j \in Jobs : add[j] = "waiting" => j \in Range(waiting)
Inserts ==
  /\ Rising(acks, InsertedEarlier) /\ Rising(writes, InsertedEarlier)
  /\ \A x \in Range(acks), w \in Range(writes) : <<x, w>> \in InsertedEarlier
  /\ \A x \in Range(acks) : x.op = "insert" /\ ~x.ok => ~Kept(x.job)
  /\ \A j \in Jobs : add[j] \in {"custom", "inserting"} =>
       \E x \in Range(acks) \cup Range(writes) : x.op = "insert" /\ x.job = j
Phases ==
  \A j \in Jobs :
    /\ add[j] # "inserting_unstreamed"
    /\ add[j] \in {"custom", "waiting"} => fetch # "none" /\ (j \in Custom => fetch # "asked")
    /\ add[j] = "inserting" => fetch = "done" /\ j \notin Custom
\* ... and what is taken up keeps it.
Taken ==
  /\ \A j \in Range(stream) : Ended(j)
  /\ \A q \in Queues : /\ running[q] # NoJob => Ended(running[q])
                       /\ \A j \in Range(queue[q]) : Ended(j)
                       /\ \A j \in Range(parked[q]) : Ended(j) /\ j \in putBack
                       /\ fetch # "done" => /\ queue[q] = <<>> /\ parked[q] = <<>>
                                            /\ running[q] = NoJob
Lined ==
  /\ Rising(stream, Earlier)
  /\ \A q \in Queues :
       /\ Rising(queue[q], Earlier)
       /\ \A j \in Range(queue[q]), k \in Range(stream) : <<j, k>> \in EarlierOf(q)
       /\ running[q] # NoJob =>
            \A k \in Range(queue[q]) \cup Range(stream) : <<running[q], k>> \in EarlierOf(q)
OrderInv == Stamped /\ InTurn /\ Waits /\ Inserts /\ Phases /\ Taken /\ Lined

LEMMA SameRelations ==
  ASSUME UNCHANGED stamp
  PROVE  AddedEarlier' = AddedEarlier /\ InsertedEarlier' = InsertedEarlier
BY DEF AddedEarlier, InsertedEarlier, Alike, Requests, Write, Answer

\* Putting a job back leaves fewer pairs to keep in order.
LEMMA LooserRelations ==
  ASSUME UNCHANGED stamp, putBack \subseteq putBack'
  PROVE  /\ Earlier \subseteq Earlier'
         /\ \A q : EarlierOf(q) \subseteq EarlierOf(q)'
<1>1. \A p \in Jobs \X Jobs : InOrder(p)' => InOrder(p)
  BY DEF InOrder, Alike
<1>2. Earlier \subseteq Earlier'
  BY <1>1 DEF Earlier
<1>3. \A q : EarlierOf(q) \subseteq EarlierOf(q)'
  BY <1>1 DEF EarlierOf
<1> QED
  BY <1>2, <1>3

LEMMA RisingLooser ==
  ASSUME NEW s, NEW R, NEW Q, Rising(s, R), R \subseteq Q
  PROVE  Rising(s, Q)
BY DEF Rising

LEMMA SameLine ==
  ASSUME UNCHANGED <<stamp, stream, queue, running>>, putBack \subseteq putBack', Lined
  PROVE  Lined'
<1>1. Earlier \subseteq Earlier' /\ \A q : EarlierOf(q) \subseteq EarlierOf(q)'
  BY LooserRelations
<1>2. Rising(stream, Earlier') /\ \A q \in Queues : Rising(queue[q], Earlier')
  BY <1>1, RisingLooser DEF Lined
<1>3. \A q \in Queues :
        /\ \A j \in Range(queue[q]), k \in Range(stream) : <<j, k>> \in EarlierOf(q)'
        /\ running[q] # NoJob =>
             \A k \in Range(queue[q]) \cup Range(stream) : <<running[q], k>> \in EarlierOf(q)'
  BY <1>1 DEF Lined
<1> QED
  BY <1>2, <1>3 DEF Lined, Rising

LEMMA SameWaits ==
  ASSUME UNCHANGED <<stamp, add, waiting>>, Waits
  PROVE  Waits'
BY SameRelations DEF Waits, Rising

\* A call of add() that is past the insert stays so, ...
LEMMA EndedStays ==
  ASSUME TypeOK, StoreInv, [Next]_vars, NEW j \in Jobs, Ended(j)
  PROVE  Ended(j)'
<1>1. add'[j] # add[j] => add'[j] \in {"added", "failed", "lost"}
  <2>1. ASSUME InsertAnswered, Head(acks) \in Range(acks) \cap AnswersOf(j) PROVE FALSE
    BY <2>1 DEF StoreInv, Awaited, AwaitsInsert, Ended
  <2> QED
    BY <2>1, AddStep DEF Ended
<1> QED
  BY <1>1 DEF Ended

\* ... and no step stores its job any more.
LEMMA EndedKept ==
  ASSUME TypeOK, StoreInv, [Next]_vars, NEW j \in Jobs, Ended(j), Kept(j)'
  PROVE  Kept(j)
<1>1. CASE DbWrite
  <2>1. ASSUME Head(writes) = Request("insert", j) PROVE FALSE
    <3>1. Head(writes) \in Range(writes) /\ Head(writes) \in Write
      BY <1>1, HeadTailProperties, RangeTail DEF DbWrite, TypeOK, TypeTable
    <3>2. Head(writes) \in InsertsOf(j)
      BY <2>1, <3>1 DEF InsertsOf, Request
    <3> QED
      BY <3>1, <3>2 DEF StoreInv, Awaited, AwaitsInsert, Ended
  <2> QED
    BY <1>1, <2>1, KeptByWrite
<1>2. CASE ~DbWrite
  BY <1>2, KeptSame
<1> QED
  BY <1>1, <1>2

\* A failed insert keeps no row.
LEMMA FailedStays ==
  ASSUME TypeOK, StoreInv, Inserts, [Next]_vars, NEW x \in Range(acks), x.op = "insert", ~x.ok
  PROVE  ~Kept(x.job)'
<1>1. x \in Answer /\ x.job \in Jobs /\ x \in AnswersOf(x.job)
  <2>1. x \in Answer
    BY RangeOfSeq DEF TypeOK, TypeTable
  <2> QED
    BY <2>1 DEF Answer, AnswersOf
<1>2. ~Kept(x.job)
  BY DEF Inserts
<1>3. CASE DbWrite
  <2>1. ASSUME Head(writes) = Request("insert", x.job) PROVE FALSE
    <3>1. Head(writes) \in Range(writes) /\ Head(writes) \in Write
      BY <1>3, HeadTailProperties, RangeTail DEF DbWrite, TypeOK, TypeTable
    <3>2. Head(writes) \in InsertsOf(x.job)
      BY <2>1, <3>1 DEF InsertsOf, Request
    <3> QED
      BY <1>1, <3>1, <3>2 DEF StoreInv, Awaited
  <2> QED
    BY <1>1, <1>2, <1>3, <2>1, KeptByWrite
<1>4. CASE ~DbWrite
  BY <1>1, <1>2, <1>4, KeptSame
<1> QED
  BY <1>3, <1>4

\* The state of the calls when no call moves.
LEMMA CallsRest ==
  ASSUME TypeOK, StoreInv, Stamped, InTurn, Phases, UNCHANGED <<stamp, add>>, [Next]_vars, ~Restart
  PROVE  Stamped' /\ InTurn' /\ Phases'
<1>1. Stamped'
  BY DEF Stamped, Created
<1>2. InTurn'
  <2>1. \A j \in Jobs : Ended(j) /\ Kept(j)' => Kept(j)
    BY EndedKept
  <2> QED
    BY <2>1 DEF InTurn, Ended, Alike
<1>3. Phases'
  BY FetchStep DEF Phases
<1> QED
  BY <1>1, <1>2, <1>3

(***************************************************************************)
(* add()                                                                   *)
(***************************************************************************)
LEMMA AddKeepsOrder ==
  ASSUME "none" \notin AddPhases, Custom = {} \/ "asked" \notin AddPhases,
         TypeOK, TypeOK', StoreInv, OrderInv, [Next]_vars, NEW j \in Jobs, Add(j)
  PROVE  OrderInv'
<1> USE DEF OrderInv
<1> DEFINE n == Cardinality({k \in Jobs : Created(k)})
           r == Request("insert", j)
<1>1. /\ add[j] = "none" /\ fetch # "none" /\ fetch' = fetch
      /\ (j \in Custom => fetch # "asked")
      /\ stamp' = [stamp EXCEPT ![j] = n + 1]
      /\ UNCHANGED <<acks, stream, queue, running, parked, db, finished, putBack>>
  BY DEF Add, memory, ghosts
<1>2. \/ /\ j \in Custom /\ add' = [add EXCEPT ![j] = "custom"]
         /\ waiting' = waiting /\ writes' = Append(writes, r)
      \/ /\ j \notin Custom /\ add' = [add EXCEPT ![j] = "waiting"]
         /\ waiting' = Append(waiting, j) /\ writes' = writes
  BY <1>1 DEF Add, StoreInsert
<1>3. /\ add \in [Jobs -> AddStates] /\ stamp \in [Jobs -> Nat] /\ waiting \in Seq(Jobs)
      /\ \A k \in Jobs : stamp'[k] \in Nat
  BY DEF TypeOK, TypeCaller, TypeTable, TypeSource
<1>4. stamp[j] = 0
  BY <1>1 DEF Stamped
<1>5. IsFiniteSet({k \in Jobs : Created(k)}) /\ n \in Nat
  BY QueueAssumption, FS_Subset, FS_CardinalityType
<1>6. /\ \A k \in Jobs : k # j => stamp'[k] = stamp[k] /\ stamp[k] < n + 1
      /\ \A k \in Jobs : k # j => add'[k] = add[k]
  <2>1. \A k \in Jobs : k # j => stamp'[k] = stamp[k] /\ stamp[k] < n + 1
    BY <1>1, <1>3, <1>5 DEF Stamped
  <2>2. \A k \in Jobs : k # j => add'[k] = add[k]
    BY <1>2, <1>3
  <2> QED
    BY <2>1, <2>2
<1>7. stamp'[j] = n + 1 /\ add'[j] = IF j \in Custom THEN "custom" ELSE "waiting"
  BY <1>1, <1>2, <1>3
<1>8. Cardinality({k \in Jobs : Created(k)})' = n + 1
  <2>1. {k \in Jobs : Created(k)}' = {k \in Jobs : Created(k)} \cup {j}
    BY <1>5, <1>6, <1>7 DEF Created
  <2>2. j \notin {k \in Jobs : Created(k)}
    BY <1>4 DEF Created
  <2>3. Cardinality({k \in Jobs : Created(k)} \cup {j}) = n + 1
    BY <1>5, <2>2, FS_AddElement
  <2> QED
    BY <2>1, <2>3
<1> HIDE DEF n
<1>9. Stamped'
  <2>1. \A k \in Jobs : stamp'[k] = 0 <=> add'[k] = "none"
    BY <1>5, <1>6, <1>7 DEF Stamped
  <2>2. \A k \in Jobs : stamp'[k] <= n + 1
    BY <1>3, <1>5, <1>6, <1>7
  <2> QED
    BY <1>8, <2>1, <2>2 DEF Stamped
<1>10. InTurn'
  <2>1. \A k \in Jobs : (Kept(k)' <=> Kept(k)) /\ (add[k] = "custom" => k \in Custom)
    BY <1>1 DEF Kept, StoreInv, Awaited
  <2>2. ASSUME NEW k \in Jobs, NEW l \in Jobs, Alike(k, l)
        PROVE  /\ Ended(k)' /\ Kept(k)' /\ add'[l] \in {"custom", "waiting", "inserting"}
                    => stamp'[k] < stamp'[l]
               /\ add'[k] = "inserting" /\ add'[l] = "waiting" => stamp'[k] < stamp'[l]
               /\ add'[k] = "waiting" /\ add'[l] = "custom" => stamp'[k] < stamp'[l]
    <3>1. CASE k # j /\ l # j
      BY <1>6, <2>1, <2>2, <3>1 DEF InTurn, Ended
    <3>2. CASE k # j /\ l = j
      BY <1>6, <1>7, <3>2
    <3>3. CASE k = j
      BY <1>6, <1>7, <2>1, <2>2, <3>3 DEF Ended, Alike
    <3> QED
      BY <3>1, <3>2, <3>3
  <2> QED
    BY <2>2 DEF InTurn, Alike
<1>11. \A k, l \in Jobs : add[k] # "none" /\ add[l] # "none" /\ stamp[k] < stamp[l] => stamp'[k] < stamp'[l]
  BY <1>1, <1>6
<1>12. Waits'
  <2>1. \A k \in Range(waiting) : k \in Jobs /\ k # j /\ add[k] = "waiting"
    BY <1>1, <1>3, RangeOfSeq DEF StoreInv, Awaited
  <2>2. Rising(waiting, AddedEarlier')
    <3>1. \A x, y \in Range(waiting) : <<x, y>> \in AddedEarlier => <<x, y>> \in AddedEarlier'
      BY <1>11, <2>1 DEF AddedEarlier, Alike
    <3> QED
      BY <3>1, RisingIn DEF Waits
  <2>3. \A k \in Range(waiting) : <<k, j>> \in AddedEarlier'
    BY <1>6, <1>7, <2>1 DEF AddedEarlier
  <2>4. Rising(Append(waiting, j), AddedEarlier')
    BY <1>3, <2>2, <2>3, RisingAppend
  <2>5. Range(Append(waiting, j)) = Range(waiting) \cup {j}
    BY <1>3, RangeAppend
  <2>6. Rising(waiting', AddedEarlier')
    BY <1>2, <2>2, <2>4
  <2>7. \A k \in Jobs : add'[k] = "waiting" => k \in Range(waiting')
    BY <1>2, <1>6, <1>7, <2>5 DEF Waits
  <2> QED
    BY <2>6, <2>7 DEF Waits, Rising
<1>13. Inserts'
  <2>1. \A x \in Range(acks) \cup Range(writes) :
          x \in Requests /\ (x.op = "insert" => x.job \in Jobs /\ x.job # j /\ add[x.job] # "none")
    <3>1. \A x \in Range(acks) : x \in Answer
      BY RangeOfSeq DEF TypeOK, TypeTable
    <3>2. \A x \in Range(writes) : x \in Write
      BY RangeOfSeq DEF TypeOK, TypeTable
    <3>3. \A x \in Range(acks) : x.op = "insert" => AwaitsInsert(x.job) /\ x.job \in Jobs
      BY <3>1 DEF StoreInv, Awaited, AnswersOf, Answer
    <3>4. \A x \in Range(writes) : x.op = "insert" => AwaitsInsert(x.job) /\ x.job \in Jobs
      BY <3>2 DEF StoreInv, Awaited, InsertsOf, Write
    <3> QED
      BY <1>1, <3>1, <3>2, <3>3, <3>4 DEF Requests, AwaitsInsert
  <2>2. \A x, y \in Range(acks) \cup Range(writes) : <<x, y>> \in InsertedEarlier => <<x, y>> \in InsertedEarlier'
    BY <1>11, <2>1 DEF InsertedEarlier, Alike, Requests, Write, Answer
  <2>3. Rising(acks, InsertedEarlier') /\ Rising(writes, InsertedEarlier')
    BY <2>2, RisingIn DEF Inserts
  <2>4. r \in Requests /\ r \in Write /\ r.op = "insert" /\ r.job = j
    BY DEF Request, Write, Requests
  <2>5. \A x \in Range(acks) \cup Range(writes) : <<x, r>> \in InsertedEarlier'
    BY <1>6, <1>7, <2>1, <2>4 DEF InsertedEarlier, Requests, Write, Answer
  <2>6. writes \in Seq(Requests) /\ Range(writes) \subseteq Requests
    BY SeqMonotonic, RangeOfSeq DEF TypeOK, TypeTable, Requests
  <2> HIDE DEF r
  <2>7. Rising(Append(writes, r), InsertedEarlier') /\ Range(Append(writes, r)) = Range(writes) \cup {r}
    BY <2>3, <2>4, <2>5, <2>6, RisingAppend, RangeAppend
  <2>8. Rising(writes', InsertedEarlier') /\ Range(writes') \subseteq Range(writes) \cup {r}
    BY <1>2, <2>3, <2>7
  <2>9. \A x \in Range(acks), w \in Range(writes') : <<x, w>> \in InsertedEarlier'
    BY <2>2, <2>5, <2>8 DEF Inserts
  <2>10. \A x \in Range(acks) : x.op = "insert" /\ ~x.ok => ~Kept(x.job)'
    BY FailedStays
  <2>11. ASSUME NEW k \in Jobs, add'[k] \in {"custom", "inserting"}
         PROVE  \E x \in Range(acks) \cup Range(writes') : x.op = "insert" /\ x.job = k
    <3>1. CASE k = j
      <4>1. r \in Range(writes')
        BY <1>2, <1>7, <2>7, <2>11, <3>1
      <4> QED
        BY <2>4, <3>1, <4>1
    <3>2. CASE k # j
      <4>1. add[k] \in {"custom", "inserting"}
        BY <1>6, <2>11, <3>2
      <4>2. Range(writes) \subseteq Range(writes')
        BY <1>2, <2>7
      <4> QED
        BY <4>1, <4>2 DEF Inserts
    <3> QED
      BY <3>1, <3>2
  <2> QED
    BY <1>1, <2>3, <2>8, <2>9, <2>10, <2>11 DEF Inserts, Rising
<1>14. Phases'
  BY <1>1, <1>6, <1>7 DEF Phases
<1>15. \A k \in Jobs : Ended(k) => Ended(k)' /\ add[k] # "none"
  BY <1>1, <1>6 DEF Ended
<1>16. Taken'
  BY <1>1, <1>15, HeldType DEF Taken
<1>17. Lined'
  <2>1. \A x, y \in Jobs : InOrder(<<x, y>>)' <=> InOrder(<<x, y>>)
    BY <1>1 DEF InOrder, Alike
  <2>2. \A x, y \in Jobs : Ended(x) /\ Ended(y) =>
          /\ <<x, y>> \in Earlier => <<x, y>> \in Earlier'
          /\ \A q : <<x, y>> \in EarlierOf(q) => <<x, y>> \in EarlierOf(q)'
    BY <1>11, <1>15, <2>1 DEF Earlier, EarlierOf
  <2>3. Rising(stream, Earlier')
    BY <2>2, RisingIn, HeldType DEF Lined, Taken
  <2>4. \A q \in Queues : Rising(queue[q], Earlier')
    BY <2>2, RisingIn, HeldType DEF Lined, Taken
  <2>5. ASSUME NEW q \in Queues
        PROVE  /\ \A x \in Range(queue[q]), y \in Range(stream) : <<x, y>> \in EarlierOf(q)'
               /\ running[q] # NoJob =>
                    \A y \in Range(queue[q]) \cup Range(stream) : <<running[q], y>> \in EarlierOf(q)'
    BY <2>2, HeldType DEF Lined, Taken
  <2> QED
    BY <1>1, <2>3, <2>4, <2>5 DEF Lined, Rising
<1> QED
  BY <1>9, <1>10, <1>12, <1>13, <1>14, <1>16, <1>17

(***************************************************************************)
(* The requests.                                                           *)
(***************************************************************************)
LEMMA RequestTypes ==
  ASSUME TypeOK
  PROVE  /\ writes \in Seq(Write) /\ acks \in Seq(Answer)
         /\ Range(writes) \subseteq Write /\ Range(acks) \subseteq Answer
         /\ writes \in Seq(Requests) /\ acks \in Seq(Requests)
<1>1. writes \in Seq(Write) /\ acks \in Seq(Answer)
  BY DEF TypeOK, TypeTable
<1>2. writes \in Seq(Requests)
  BY <1>1, SeqMonotonic DEF Requests
<1>3. acks \in Seq(Requests)
  BY <1>1, SeqMonotonic DEF Requests
<1> QED
  BY <1>1, <1>2, <1>3, RangeOfSeq

LEMMA RangeHeadTail ==
  ASSUME NEW S, NEW s \in Seq(S), s # <<>>
  PROVE  Range(s) = {Head(s)} \cup Range(Tail(s))
<1>1. /\ Len(s) \in Nat /\ Len(s) >= 1 /\ DOMAIN s = 1..Len(s)
      /\ DOMAIN Tail(s) = 1..(Len(s) - 1)
      /\ \A i \in 1..(Len(s) - 1) : Tail(s)[i] = s[i + 1]
      /\ Head(s) = s[1]
  BY HeadTailProperties, LenProperties, EmptySeq
<1>2. ASSUME NEW i \in DOMAIN s PROVE s[i] \in {Head(s)} \cup Range(Tail(s))
  <2>1. CASE i = 1
    BY <1>1, <2>1
  <2>2. CASE i # 1
    <3>1. i - 1 \in DOMAIN Tail(s) /\ Tail(s)[i - 1] = s[i]
      BY <1>1, <2>2
    <3> QED
      BY <3>1 DEF Range
  <2> QED
    BY <2>1, <2>2
<1>3. ASSUME NEW i \in DOMAIN Tail(s) PROVE Tail(s)[i] \in Range(s)
  <2>1. i + 1 \in DOMAIN s /\ Tail(s)[i] = s[i + 1]
    BY <1>1
  <2> QED
    BY <2>1 DEF Range
<1>4. Head(s) \in Range(s)
  BY <1>1 DEF Range
<1> QED
  BY <1>2, <1>3, <1>4 DEF Range

\* A delete is in order with everything.
LEMMA InsertsDelete ==
  ASSUME TypeOK, StoreInv, Inserts, [Next]_vars, UNCHANGED <<stamp, add, acks>>, NEW j \in Jobs,
         NEW k \in {"resolve", "reject"}, writes' = Append(writes, Request(k, j))
  PROVE  Inserts'
<1> DEFINE r == Request(k, j)
<1>1. r \in Requests /\ r.op # "insert" /\ r \in Write
  BY DEF Request, Write, Requests
<1>2. Range(writes') = Range(writes) \cup {r}
  BY <1>1, RequestTypes, RangeAppend
<1>3. \A x \in Requests : <<x, r>> \in InsertedEarlier
  BY <1>1 DEF InsertedEarlier
<1>4. Rising(writes', InsertedEarlier)
  <2>1. \A x \in Range(writes) : x \in Requests
    BY RequestTypes DEF Requests
  <2> HIDE DEF r
  <2>2. writes' = Append(writes, r)
    BY DEF r
  <2> QED
    BY <1>1, <1>3, <2>1, <2>2, RequestTypes, RisingAppend DEF Inserts
<1>5. \A x \in Range(acks), w \in Range(writes') : <<x, w>> \in InsertedEarlier
  BY <1>2, <1>3, RequestTypes DEF Inserts, Requests
<1>6. \A i \in Jobs : add[i] \in {"custom", "inserting"} =>
         \E x \in Range(acks) \cup Range(writes') : x.op = "insert" /\ x.job = i
  BY <1>2 DEF Inserts
<1>7. \A x \in Range(acks) : x.op = "insert" /\ ~x.ok => ~Kept(x.job)'
  BY FailedStays
<1> QED
  BY <1>4, <1>5, <1>6, <1>7, SameRelations DEF Inserts, Rising

LEMMA InsertsSame ==
  ASSUME TypeOK, StoreInv, Inserts, [Next]_vars, UNCHANGED <<stamp, add, acks, writes>>
  PROVE  Inserts'
<1>1. \A x \in Range(acks) : x.op = "insert" /\ ~x.ok => ~Kept(x.job)'
  BY FailedStays
<1> QED
  BY <1>1, SameRelations DEF Inserts, Rising

LEMMA WriteKeepsOrder ==
  ASSUME TypeOK, TypeOK', StoreInv, OrderInv, [Next]_vars, ~Restart, DbWrite \/ DbWriteFails
  PROVE  OrderInv'
<1> USE DEF OrderInv
<1> DEFINE w == Head(writes)
<1>1. PICK o \in BOOLEAN : /\ acks' = Append(acks, [op |-> w.op, job |-> w.job, ok |-> o])
                           /\ ~o => DbWriteFails
  BY DEF DbWrite, DbWriteFails
<1>2. /\ writes # <<>> /\ writes' = Tail(writes)
      /\ UNCHANGED <<stamp, add, waiting, fetch, stream, queue, running, parked, putBack>>
  BY DEF DbWrite, DbWriteFails, caller, source, memory, ghosts
<1> DEFINE x == [op |-> w.op, job |-> w.job, ok |-> o]
<1>3. w \in Write /\ w \in Range(writes) /\ Range(writes) = {w} \cup Range(Tail(writes))
  BY <1>2, RequestTypes, RangeHeadTail, HeadTailProperties
<1>4. x \in Answer /\ x.op = w.op /\ x.job = w.job /\ x.ok = o
  BY <1>3, AnswerType
<1> HIDE DEF x, w
<1>5. acks' = Append(acks, x)
  BY <1>1 DEF x
<1>6. \A y \in Requests : /\ <<y, w>> \in InsertedEarlier => <<y, x>> \in InsertedEarlier
                          /\ <<w, y>> \in InsertedEarlier => <<x, y>> \in InsertedEarlier
  BY <1>3, <1>4 DEF InsertedEarlier, Requests
<1>7. Range(acks') = Range(acks) \cup {x}
  BY <1>4, <1>5, RequestTypes, RangeAppend
<1>8. Rising(acks', InsertedEarlier)
  <2>1. \A y \in Range(acks) : <<y, x>> \in InsertedEarlier
    BY <1>3, <1>6, RequestTypes DEF Inserts, Requests
  <2> QED
    BY <1>4, <1>5, <2>1, RequestTypes, RisingAppend DEF Inserts
<1>9. /\ Rising(writes', InsertedEarlier)
      /\ \A y \in Range(writes') : <<w, y>> \in InsertedEarlier
  BY <1>2, RequestTypes, RisingTail DEF Inserts, w
<1>10. \A y \in Range(acks'), z \in Range(writes') : <<y, z>> \in InsertedEarlier
  <2>1. Range(writes') \subseteq Range(writes) /\ Range(writes) \subseteq Requests
    BY <1>2, <1>3, RequestTypes DEF Requests
  <2> QED
    BY <1>6, <1>7, <1>9, <2>1 DEF Inserts
<1>11. \A i \in Jobs : add[i] \in {"custom", "inserting"} =>
         \E y \in Range(acks') \cup Range(writes') : y.op = "insert" /\ y.job = i
  BY <1>2, <1>3, <1>4, <1>7 DEF Inserts
<1>12. ASSUME NEW y \in Range(acks'), y.op = "insert", ~y.ok PROVE ~Kept(y.job)'
  <2>1. CASE y \in Range(acks)
    BY <1>12, <2>1, FailedStays
  <2>2. CASE y = x
    <3>1. ~o /\ DbWriteFails /\ w.op = "insert"
      BY <1>1, <1>4, <1>12, <2>2
    <3>2. PICK i \in Jobs : i = w.job
      BY <1>3 DEF Write
    <3>3. ~Kept(i)
      <4>1. w \in InsertsOf(i)
        BY <1>3, <3>1, <3>2 DEF InsertsOf
      <4> QED
        BY <1>3, <4>1 DEF StoreInv, Awaited
    <3>4. ~Kept(i)'
      BY <3>1, <3>3 DEF DbWriteFails, Kept
    <3>5. y.job = i
      BY <1>4, <2>2, <3>2
    <3> QED
      BY <3>4, <3>5
  <2> QED
    BY <1>7, <1>12, <2>1, <2>2
<1>13. Inserts'
  <2>1. Rising(acks, InsertedEarlier)' /\ Rising(writes, InsertedEarlier)'
    BY <1>2, <1>8, <1>9, SameRelations DEF Rising
  <2> QED
    BY <1>2, <1>10, <1>11, <1>12, <2>1, SameRelations DEF Inserts
<1>14. Stamped' /\ InTurn' /\ Phases'
  BY <1>2, CallsRest
<1>15. Taken'
  BY <1>2 DEF Taken, Ended
<1>16. Waits' /\ Lined'
  BY <1>2, SameWaits, SameLine
<1> QED
  BY <1>13, <1>14, <1>15, <1>16

LEMMA DeleteAnswerKeepsOrder ==
  ASSUME TypeOK, TypeOK', StoreInv, OrderInv, [Next]_vars, ~Restart, DeleteAnswered
  PROVE  OrderInv'
<1> USE DEF OrderInv
<1>1. /\ acks # <<>> /\ acks' = Tail(acks) /\ Head(acks).op # "insert"
      /\ UNCHANGED <<stamp, add, writes, waiting, fetch, stream, queue, running, parked, putBack>>
  BY DEF DeleteAnswered, source, memory, ghosts
<1>2. Range(acks) = {Head(acks)} \cup Range(acks')
  BY <1>1, RequestTypes, RangeHeadTail
<1>3. Rising(acks', InsertedEarlier)
  BY <1>1, RequestTypes, RisingTail DEF Inserts
<1>4. \A x \in Range(acks') : x.op = "insert" /\ ~x.ok => ~Kept(x.job)'
  BY <1>2, FailedStays
<1>5. Inserts'
  BY <1>1, <1>2, <1>3, <1>4, SameRelations DEF Inserts, Rising
<1>6. Stamped' /\ InTurn' /\ Phases'
  BY <1>1, CallsRest
<1>7. Taken'
  BY <1>1 DEF Taken, Ended
<1>8. Waits' /\ Lined'
  BY <1>1, SameWaits, SameLine
<1> QED
  BY <1>5, <1>6, <1>7, <1>8

(***************************************************************************)
(* The job at the head of the calls that await the rows, and the answer of *)
(* an insert.                                                              *)
(***************************************************************************)
\* A job that ends its call of add() in turn is put behind the whole stream.
LEMMA StreamKeepsOrder ==
  ASSUME TypeOK, TypeOK', StoreInv, OrderInv, NEW j \in Jobs,
         add[j] \in {"waiting", "inserting", "custom"}, Ended(j)',
         \A k \in Jobs : Ended(k) => Ended(k)',
         UNCHANGED <<stamp, fetch, queue, running, parked, putBack>>,
         stream' = stream \/ stream' = Append(stream, j)
  PROVE  Taken' /\ Lined'
<1> USE DEF OrderInv
<1>1. stream \in Seq(Jobs) /\ Range(stream') \subseteq Range(stream) \cup {j}
  <2>1. stream \in Seq(Jobs)
    BY DEF TypeOK, TypeSource
  <2>2. Range(Append(stream, j)) = Range(stream) \cup {j}
    BY <2>1, RangeAppend
  <2> QED
    BY <2>1, <2>2
<1>2. Taken'
  <2>1. \A k \in Range(stream') : Ended(k)'
    BY <1>1, HeldType DEF Taken
  <2>2. \A q \in Queues : /\ running[q] # NoJob => Ended(running[q])'
                          /\ \A k \in Range(queue[q]) : Ended(k)'
                          /\ \A k \in Range(parked[q]) : Ended(k)'
    BY HeldType DEF Taken
  <2> QED
    BY <2>1, <2>2 DEF Taken, Ended
<1>3. \A k \in Jobs : Ended(k) /\ Kept(k) =>
         <<k, j>> \in Earlier /\ \A q : <<k, j>> \in EarlierOf(q)
  BY DEF InTurn, Earlier, EarlierOf, InOrder
<1>4. /\ \A k \in Range(stream) : k \in Jobs /\ Ended(k) /\ Kept(k)
      /\ \A q \in Queues : /\ running[q] # NoJob =>
                                running[q] \in Jobs /\ Ended(running[q]) /\ Kept(running[q])
                           /\ \A k \in Range(queue[q]) : k \in Jobs /\ Ended(k) /\ Kept(k)
  BY HeldType DEF Taken, StoreInv, Held
<1>5. Rising(stream', Earlier)
  <2>1. Rising(Append(stream, j), Earlier)
    BY <1>1, <1>3, <1>4, RisingAppend DEF Lined
  <2> QED
    BY <2>1 DEF Lined
<1>6. \A q \in Queues : \A k \in Range(queue[q]), l \in Range(stream') : <<k, l>> \in EarlierOf(q)
  BY <1>1, <1>3, <1>4 DEF Lined
<1>7. \A q \in Queues : running[q] # NoJob =>
        \A k \in Range(queue[q]) \cup Range(stream') : <<running[q], k>> \in EarlierOf(q)
  BY <1>1, <1>3, <1>4 DEF Lined
<1>8. Earlier' = Earlier /\ \A q : EarlierOf(q)' = EarlierOf(q)
  BY DEF Earlier, EarlierOf, InOrder, Alike
<1>9. Lined'
  <2>1. Rising(stream, Earlier)' /\ \A q \in Queues : Rising(queue[q], Earlier)'
    BY <1>5, <1>8 DEF Lined, Rising
  <2> QED
    BY <1>6, <1>7, <1>8, <2>1 DEF Lined
<1> QED
  BY <1>2, <1>9

LEMMA InsertKeepsOrder ==
  ASSUME TypeOK, TypeOK', StoreInv, OrderInv, [Next]_vars, ~Restart, AfterFetch
  PROVE  OrderInv'
<1> USE DEF OrderInv
<1> DEFINE j == Head(waiting)
           r == Request("insert", j)
<1>1. /\ j \in Jobs /\ add[j] = "waiting" /\ waiting \in Seq(Jobs) /\ waiting # <<>>
  BY HeadTailProperties, RangeTail DEF AfterFetch, TypeOK, TypeSource, StoreInv, Awaited
<1>2. /\ fetch = "done" /\ waiting' = Tail(waiting)
      /\ UNCHANGED <<stamp, acks, fetch, queue, running, parked, db, finished, putBack>>
      /\ \/ /\ j \in Custom /\ stream' = Append(stream, j) /\ writes' = writes
            /\ add' = [add EXCEPT ![j] = "added"]
         \/ /\ j \notin Custom /\ stream' = stream /\ writes' = Append(writes, r)
            /\ add' = [add EXCEPT ![j] = "inserting"]
  BY DEF AfterFetch, memory, ghosts
<1>3. /\ add'[j] = IF j \in Custom THEN "added" ELSE "inserting"
      /\ \A k \in Jobs : k # j => add'[k] = add[k]
  BY <1>1, <1>2 DEF TypeOK, TypeCaller
<1>4. /\ Rising(waiting', AddedEarlier) /\ \A k \in Range(waiting') : <<j, k>> \in AddedEarlier
  BY <1>1, <1>2, RisingTail DEF Waits
<1>5. Range(waiting) = {j} \cup Range(waiting')
  BY <1>1, <1>2, RangeHeadTail
<1>6. r \in Write /\ r \in Requests /\ r.op = "insert" /\ r.job = j
  BY <1>1 DEF Request, Write, Requests
<1> HIDE DEF r, j
<1>7. \A k \in Jobs : add'[k] = "waiting" /\ Alike(j, k) => stamp[j] < stamp[k]
  <2>1. \A k \in Jobs : add'[k] = "waiting" => add[k] = "waiting" /\ k # j
    BY <1>3
  <2>2. \A k \in Jobs : add'[k] = "waiting" => k \in Range(waiting')
    BY <1>5, <2>1 DEF Waits
  <2> QED
    BY <1>4, <2>2 DEF AddedEarlier
<1>8. Stamped'
  BY <1>1, <1>2, <1>3 DEF Stamped, Created
<1>9. InTurn'
  <2>1. \A k \in Jobs : (Kept(k)' <=> Kept(k)) /\ (add[k] = "custom" => k \in Custom)
    BY <1>2 DEF Kept, StoreInv, Awaited
  <2>2. \A k \in Jobs : add[k] = "inserting" => k \notin Custom
    BY DEF Phases
  <2>3. ASSUME NEW k \in Jobs, NEW l \in Jobs, Alike(k, l)
        PROVE  /\ Ended(k)' /\ Kept(k)' /\ add'[l] \in {"custom", "waiting", "inserting"}
                    => stamp[k] < stamp[l]
               /\ add'[k] = "inserting" /\ add'[l] = "waiting" => stamp[k] < stamp[l]
               /\ add'[k] = "waiting" /\ add'[l] = "custom" => stamp[k] < stamp[l]
    <3>1. CASE k # j /\ l # j
      BY <1>3, <2>1, <2>3, <3>1 DEF InTurn, Ended
    <3>2. CASE k # j /\ l = j
      BY <1>1, <1>3, <2>1, <2>3, <3>2 DEF InTurn, Ended
    <3>3. CASE k = j /\ l # j
      <4>1. add'[l] = "waiting" => stamp[k] < stamp[l]
        BY <1>7, <2>3, <3>3
      <4>2. add[l] = add'[l]
        BY <1>3, <3>3
      <4>3. add[l] = "custom" => stamp[k] < stamp[l]
        BY <1>1, <2>3, <3>3 DEF InTurn
      <4>4. j \in Custom => add[l] # "inserting"
        BY <2>2, <2>3, <3>3 DEF Alike
      <4>5. j \notin Custom => ~Ended(k)'
        BY <1>3, <3>3 DEF Ended
      <4> QED
        BY <1>3, <3>3, <4>1, <4>2, <4>3, <4>4, <4>5
    <3>4. CASE k = j /\ l = j
      BY <1>3, <3>4 DEF Ended
    <3> QED
      BY <3>1, <3>2, <3>3, <3>4
  <2> QED
    BY <1>2, <2>3 DEF InTurn, Alike
<1>10. Waits'
  <2>1. \A k \in Jobs : add'[k] = "waiting" => k \in Range(waiting')
    BY <1>3, <1>5 DEF Waits
  <2> QED
    BY <1>2, <1>4, <2>1, SameRelations DEF Waits, Rising
<1>11. Inserts'
  <2>1. CASE writes' = writes
    <3>1. \A k \in Jobs : add'[k] \in {"custom", "inserting"} => add[k] = add'[k]
      <4>1. Append(writes, r) # writes
        <5>1. Len(Append(writes, r)) = Len(writes) + 1 /\ Len(writes) \in Nat
          BY <1>6, RequestTypes, AppendProperties, LenProperties
        <5> QED
          BY <5>1
      <4>2. j \in Custom
        BY <1>2, <2>1, <4>1
      <4> QED
        BY <1>3, <4>2
    <3>2. \A x \in Range(acks) : x.op = "insert" /\ ~x.ok => ~Kept(x.job)'
      BY FailedStays
    <3> QED
      BY <1>2, <2>1, <3>1, <3>2, SameRelations DEF Inserts, Rising
  <2>2. CASE writes' = Append(writes, r) /\ j \notin Custom
    <3>1. \A x \in Range(acks) \cup Range(writes) : x \in Requests /\ <<x, r>> \in InsertedEarlier
      <4>1. \A x \in Range(acks) : x.op = "insert" => AwaitsInsert(x.job) /\ x.job \in Jobs
        BY RequestTypes DEF StoreInv, Awaited, AnswersOf, Answer
      <4>2. \A x \in Range(writes) : x.op = "insert" => AwaitsInsert(x.job) /\ x.job \in Jobs
        BY RequestTypes DEF StoreInv, Awaited, InsertsOf, Write
      <4>3. \A k \in Jobs : AwaitsInsert(k) /\ Alike(k, j) => stamp[k] < stamp[j]
        <5>1. \A k \in Jobs : add[k] = "custom" => k \in Custom
          BY DEF StoreInv, Awaited
        <5> QED
          BY <1>1, <2>2, <5>1 DEF AwaitsInsert, Phases, InTurn, Alike
      <4> QED
        BY <1>6, <4>1, <4>2, <4>3, RequestTypes DEF InsertedEarlier, Requests
    <3>2. Range(writes') = Range(writes) \cup {r}
      BY <1>6, <2>2, RequestTypes, RangeAppend
    <3>3. Rising(writes', InsertedEarlier)
      BY <1>6, <2>2, <3>1, RequestTypes, RisingAppend DEF Inserts
    <3>4. \A x \in Range(acks), w \in Range(writes') : <<x, w>> \in InsertedEarlier
      BY <3>1, <3>2 DEF Inserts
    <3>5. \A k \in Jobs : add'[k] \in {"custom", "inserting"} =>
            \E x \in Range(acks) \cup Range(writes') : x.op = "insert" /\ x.job = k
      BY <1>3, <1>6, <3>2 DEF Inserts
    <3>6. \A x \in Range(acks) : x.op = "insert" /\ ~x.ok => ~Kept(x.job)'
      BY FailedStays
    <3> QED
      BY <1>2, <3>3, <3>4, <3>5, <3>6, SameRelations DEF Inserts, Rising
  <2> QED
    BY <1>2, <2>1, <2>2
<1>12. Phases'
  BY <1>2, <1>3 DEF Phases
<1>13. Taken' /\ Lined'
  <2>1. \A k \in Jobs : Ended(k) => Ended(k)'
    BY <1>1, <1>3 DEF Ended
  <2>2. CASE j \in Custom
    <3>1. PICK i \in Jobs : i = j
      BY <1>1
    <3>2. /\ UNCHANGED <<stamp, fetch, queue, running, parked, putBack>>
          /\ stream' = Append(stream, i)
      BY <1>2, <2>2, <3>1
    <3>3. add[i] \in {"waiting", "inserting", "custom"} /\ Ended(i)'
      BY <1>1, <1>3, <2>2, <3>1 DEF Ended
    <3> QED
      BY <2>1, <3>2, <3>3, StreamKeepsOrder
  <2>3. CASE j \notin Custom
    <3>1. UNCHANGED stream
      BY <1>2, <2>3
    <3>2. Taken'
      BY <1>2, <2>1, <3>1, HeldType DEF Taken
    <3> QED
      BY <1>2, <3>1, <3>2, SameLine
  <2> QED
    BY <2>2, <2>3
<1> QED
  BY <1>8, <1>9, <1>10, <1>11, <1>12, <1>13

LEMMA InsertAnswerKeepsOrder ==
  ASSUME TypeOK, TypeOK', StoreInv, OrderInv, [Next]_vars, ~Restart, InsertAnswered
  PROVE  OrderInv'
<1> USE DEF OrderInv
<1> DEFINE h == Head(acks)
<1>1. /\ acks # <<>> /\ acks' = Tail(acks) /\ h.op = "insert" /\ h \in Answer /\ h \in Range(acks)
      /\ Range(acks) = {h} \cup Range(acks')
  BY RequestTypes, RangeHeadTail, HeadTailProperties DEF InsertAnswered
<1>2. PICK j \in Jobs : j = h.job
  BY <1>1 DEF Answer
<1>3. add[j] \in {"custom", "inserting"} /\ (add[j] = "custom" <=> j \in Custom)
  <2>1. AwaitsInsert(j)
    BY <1>1, <1>2 DEF AnswersOf, StoreInv, Awaited
  <2>2. add[j] = "custom" => j \in Custom
    BY DEF StoreInv, Awaited
  <2> QED
    BY <2>1, <2>2 DEF AwaitsInsert, Phases
<1>4. fetch # "none" /\ (j \in Custom => fetch # "asked")
  BY <1>3 DEF Phases
<1>5. /\ UNCHANGED <<stamp, writes, fetch, queue, running, parked, db, finished, putBack>>
      /\ \/ /\ ~h.ok /\ add' = [add EXCEPT ![j] = "failed"]
            /\ UNCHANGED <<stream, waiting>>
         \/ /\ add[j] = "inserting" /\ add' = [add EXCEPT ![j] = "added"]
            /\ stream' = Append(stream, j) /\ waiting' = waiting
         \/ /\ add[j] = "custom" /\ add' = [add EXCEPT ![j] = "waiting"]
            /\ waiting' = Append(waiting, j) /\ stream' = stream
  BY <1>2, <1>3, <1>4 DEF InsertAnswered, StoreInsert, memory, ghosts
<1>6. /\ \A k \in Jobs : k # j => add'[k] = add[k]
      /\ \/ add'[j] = "failed" /\ ~h.ok /\ waiting' = waiting
         \/ add'[j] = "added" /\ add[j] = "inserting" /\ waiting' = waiting
         \/ add'[j] = "waiting" /\ add[j] = "custom" /\ waiting' = Append(waiting, j)
  BY <1>5 DEF TypeOK, TypeCaller
<1>7. /\ Rising(acks', InsertedEarlier) /\ \A x \in Range(acks') : <<h, x>> \in InsertedEarlier
  BY <1>1, RequestTypes, RisingTail DEF Inserts
<1>8. ~h.ok => ~Kept(j)
  BY <1>1, <1>2 DEF Inserts
<1> HIDE DEF h
<1>9. ASSUME NEW k \in Jobs, add[k] \in {"custom", "inserting"}, k # j
      PROVE  /\ Alike(j, k) => stamp[j] < stamp[k]
             /\ \E x \in Range(acks') \cup Range(writes) : x.op = "insert" /\ x.job = k
  <2>1. PICK x \in Range(acks) \cup Range(writes) : x.op = "insert" /\ x.job = k
    BY <1>9 DEF Inserts
  <2>2. x # h
    BY <1>2, <1>9, <2>1
  <2>3. x \in Range(acks') \cup Range(writes)
    BY <1>1, <2>1, <2>2
  <2>4. <<h, x>> \in InsertedEarlier
    BY <1>1, <1>7, <2>3 DEF Inserts
  <2> QED
    BY <1>1, <1>2, <2>1, <2>3, <2>4 DEF InsertedEarlier
<1>10. Stamped'
  BY <1>3, <1>5, <1>6 DEF Stamped, Created
<1>11. InTurn'
  <2>1. \A k \in Jobs : /\ Kept(k)' <=> Kept(k)
                        /\ add[k] = "custom" => k \in Custom
                        /\ add[k] = "inserting" => k \notin Custom
    BY <1>5 DEF Kept, StoreInv, Awaited, Phases
  <2>2. ASSUME NEW k \in Jobs, NEW l \in Jobs, Alike(k, l)
        PROVE  /\ Ended(k)' /\ Kept(k)' /\ add'[l] \in {"custom", "waiting", "inserting"}
                    => stamp[k] < stamp[l]
               /\ add'[k] = "inserting" /\ add'[l] = "waiting" => stamp[k] < stamp[l]
               /\ add'[k] = "waiting" /\ add'[l] = "custom" => stamp[k] < stamp[l]
    <3>1. CASE k # j /\ l # j
      BY <1>6, <2>1, <2>2, <3>1 DEF InTurn, Ended
    <3>2. CASE k # j /\ l = j
      <4>1. add'[k] = add[k] /\ (add[k] = "inserting" => add'[l] # "waiting")
        BY <1>6, <2>1, <2>2, <3>2 DEF Alike
      <4>2. add'[l] # "custom"
        BY <1>6, <3>2
      <4>3. Ended(k)' => Ended(k)
        BY <4>1 DEF Ended
      <4> QED
        BY <1>3, <2>1, <2>2, <3>2, <4>1, <4>2, <4>3 DEF InTurn
    <3>3. CASE k = j /\ l # j
      <4>1. add'[l] = add[l] /\ add'[k] # "inserting"
        BY <1>6, <3>3
      <4>2. add[l] \in {"custom", "inserting"} => stamp[k] < stamp[l]
        BY <1>9, <2>2, <3>3
      <4>3. Ended(k)' /\ Kept(k)' => add[k] = "inserting"
        BY <1>6, <1>8, <2>1, <3>3 DEF Ended
      <4>4. add[k] = "inserting" /\ add[l] = "waiting" => stamp[k] < stamp[l]
        BY <2>2 DEF InTurn
      <4> QED
        BY <4>1, <4>2, <4>3, <4>4
    <3>4. CASE k = j /\ l = j
      BY <1>6, <3>4 DEF Ended
    <3> QED
      BY <3>1, <3>2, <3>3, <3>4
  <2> QED
    BY <1>5, <2>2 DEF InTurn, Alike
<1>12. Waits'
  <2>1. waiting \in Seq(Jobs) /\ \A k \in Range(waiting) : k \in Jobs /\ add[k] = "waiting"
    BY RangeOfSeq DEF TypeOK, TypeSource, StoreInv, Awaited
  <2>2. CASE waiting' = waiting /\ add'[j] # "waiting"
    <3>1. \A k \in Jobs : add'[k] = "waiting" => k \in Range(waiting)
      BY <1>6, <2>2 DEF Waits
    <3> QED
      BY <1>5, <2>2, <3>1, SameRelations DEF Waits, Rising
  <2>3. CASE add[j] = "custom" /\ waiting' = Append(waiting, j)
    <3>1. \A k \in Range(waiting) : <<k, j>> \in AddedEarlier
      BY <2>1, <2>3 DEF InTurn, AddedEarlier
    <3>2. Rising(waiting', AddedEarlier) /\ Range(waiting') = Range(waiting) \cup {j}
      BY <2>1, <2>3, <3>1, RisingAppend, RangeAppend DEF Waits
    <3>3. \A k \in Jobs : add'[k] = "waiting" => k \in Range(waiting')
      BY <1>6, <3>2 DEF Waits
    <3> QED
      BY <1>5, <3>2, <3>3, SameRelations DEF Waits, Rising
  <2> QED
    BY <1>6, <2>2, <2>3
<1>13. Inserts'
  <2>1. \A x \in Range(acks'), w \in Range(writes) : <<x, w>> \in InsertedEarlier
    BY <1>1 DEF Inserts
  <2>2. \A k \in Jobs : add'[k] \in {"custom", "inserting"} =>
          \E x \in Range(acks') \cup Range(writes) : x.op = "insert" /\ x.job = k
    BY <1>6, <1>9
  <2>3. \A x \in Range(acks') : x.op = "insert" /\ ~x.ok => ~Kept(x.job)'
    BY <1>1, FailedStays
  <2> QED
    BY <1>5, <1>7, <2>1, <2>2, <2>3, SameRelations DEF Inserts, Rising
<1>14. Phases'
  BY <1>3, <1>4, <1>5, <1>6 DEF Phases
<1>15. \A k \in Jobs : Ended(k) => Ended(k)'
  BY <1>3, <1>6 DEF Ended
<1>16. Taken' /\ Lined'
  <2>1. CASE stream' = stream
    <3>1. Taken'
      BY <1>5, <1>15, <2>1, HeldType DEF Taken
    <3> QED
      BY <1>5, <2>1, <3>1, SameLine
  <2>2. CASE stream' = Append(stream, j) /\ add'[j] = "added"
    <3>1. Ended(j)' /\ add[j] \in {"waiting", "inserting", "custom"}
      BY <1>3, <2>2 DEF Ended
    <3> QED
      BY <1>5, <1>15, <2>2, <3>1, StreamKeepsOrder
  <2> QED
    BY <1>5, <2>1, <2>2 DEF TypeOK, TypeCaller
<1> QED
  BY <1>10, <1>11, <1>12, <1>13, <1>14, <1>16

(***************************************************************************)
(* The stream and the queues.                                              *)
(***************************************************************************)
\* What the calls of add() wait for is not touched by a step that only deletes.
LEMMA CallsKeepOrder ==
  ASSUME TypeOK, StoreInv, OrderInv, [Next]_vars, ~Restart,
         UNCHANGED <<stamp, add, waiting, acks>>,
         \/ writes' = writes
         \/ \E j \in Jobs : \E k \in {"resolve", "reject"} : writes' = Append(writes, Request(k, j))
  PROVE  Stamped' /\ InTurn' /\ Phases' /\ Waits' /\ Inserts'
<1> USE DEF OrderInv
<1>1. Stamped' /\ InTurn' /\ Phases'
  BY CallsRest
<1>2. Waits'
  BY SameWaits
<1>3. Inserts'
  BY InsertsSame, InsertsDelete
<1> QED
  BY <1>1, <1>2, <1>3

LEMMA FetchKeepsOrder ==
  ASSUME TypeOK, TypeOK', StoreInv, OrderInv, [Next]_vars,
         StreamJobs \/ DbFetch \/ DbFetchFails \/ FetchAnswered
  PROVE  OrderInv'
<1> USE DEF OrderInv
<1>1. UNCHANGED <<stamp, add, waiting, acks, writes, queue, running, parked, putBack>> /\ ~Restart
  BY DEF StreamJobs, DbFetch, DbFetchFails, FetchAnswered, Restart, table, caller, memory, ghosts
<1>2. Stamped' /\ InTurn' /\ Phases' /\ Waits' /\ Inserts'
  BY <1>1, CallsKeepOrder
<1>3. CASE ~DbFetch
  <2>1. UNCHANGED stream /\ (fetch = "done" => fetch' = "done")
    BY <1>3 DEF StreamJobs, DbFetchFails, FetchAnswered
  <2>2. Taken'
    BY <1>1, <2>1 DEF Taken, Ended
  <2> QED
    BY <1>1, <1>2, <2>1, <2>2, SameLine
<1>4. CASE DbFetch
  <2>1. /\ fetch = "asked" /\ stream' \in RowsByTimestamp
        /\ stream' \in Seq(Jobs) /\ \A i \in DOMAIN stream' : stream'[i] \in db
    BY <1>4, RowsAreJobs, LenProperties DEF DbFetch
  <2>2. \A q \in Queues : queue[q] = <<>> /\ running[q] = NoJob /\ parked[q] = <<>>
    BY <2>1 DEF Taken
  <2>3. \A j \in db : Ended(j)
    <3>1. \A j \in db : j \in Jobs /\ Kept(j)
      BY DEF TypeOK, TypeTable, Kept
    <3>2. \A j \in db : add[j] # "none" /\ (add[j] = "waiting" => j \in Custom)
      BY <3>1 DEF StoreInv, Awaited
    <3>3. \A j \in db : add[j] = "custom" => j \in Custom
      BY <3>1 DEF StoreInv, Awaited
    <3>4. \A j \in db : add[j] \notin {"waiting", "custom", "inserting_unstreamed", "inserting"}
      BY <2>1, <3>1, <3>2, <3>3 DEF Phases
    <3> QED
      BY <3>1, <3>2, <3>4 DEF Ended, TypeOK, TypeCaller, AddStates
  <2>4. Rising(stream', Earlier)
    <3>1. \A m, n \in DOMAIN stream' : m < n => stamp[stream'[m]] < stamp[stream'[n]]
      BY <2>1 DEF RowsByTimestamp
    <3>2. \A m \in DOMAIN stream' : stream'[m] \in Jobs
      BY <2>1 DEF TypeOK, TypeTable
    <3> QED
      BY <3>1, <3>2 DEF Rising, Earlier
  <2>5. Taken'
    <3>1. \A j \in Range(stream') : Ended(j)
      BY <2>1, <2>3 DEF Range
    <3> QED
      BY <1>1, <2>2, <3>1, RangeEmpty DEF Taken, Ended
  <2>6. Lined'
    <3>1. Rising(stream', Earlier')
      BY <1>1, <2>4, LooserRelations, RisingLooser
    <3> QED
      BY <1>1, <2>2, <3>1, RangeEmpty, RisingEmpty DEF Lined, Rising
  <2> QED
    BY <1>2, <2>5, <2>6
<1> QED
  BY <1>3, <1>4

\* The next job of the stream comes behind those its queue holds already.
LEMMA EnqueueKeepsOrder ==
  ASSUME TypeOK, TypeOK', StoreInv, InTheirQueue, OrderInv, [Next]_vars, ~Restart, stream # <<>>, EnqueueHead,
         UNCHANGED <<stamp, add, waiting, acks, fetch, running, parked, putBack>>, fetch = "done"
  PROVE  OrderInv'
<1> USE DEF OrderInv
<1> DEFINE j == Head(stream)
           p == QueueOf[j]
<1>1. /\ j \in Jobs /\ p \in Queues /\ stream' = Tail(stream) /\ stream \in Seq(Jobs)
      /\ \A q \in Queues : queue[q] \in Seq(Jobs)
  BY HeadTailProperties, QueueAssumption DEF EnqueueHead, TypeOK, TypeSource, TypeMemory
<1>2. Stamped' /\ InTurn' /\ Phases' /\ Waits' /\ Inserts'
  <2>1. \/ writes' = writes
        \/ \E i \in Jobs : \E k \in {"resolve", "reject"} : writes' = Append(writes, Request(k, i))
    BY <1>1 DEF EnqueueHead
  <2> QED
    BY <2>1, CallsKeepOrder
<1>3. Range(stream) = {j} \cup Range(stream')
  BY <1>1, RangeHeadTail
<1>4. Rising(stream', Earlier) /\ \A k \in Range(stream') : <<j, k>> \in Earlier
  BY <1>1, RisingTail DEF Lined
<1>5. \/ queue' = queue
      \/ queue' = [queue EXCEPT ![p] = Append(queue[p], j)]
  BY DEF EnqueueHead
<1> HIDE DEF j, p
<1>6. p = QueueOf[j]
  BY DEF p
<1>7. Range(Append(queue[p], j)) = Range(queue[p]) \cup {j}
  BY <1>1, RangeAppend
<1>8. \A q \in Queues : \/ queue'[q] = queue[q]
                        \/ q = p /\ queue'[q] = Append(queue[p], j)
  BY <1>1, <1>5 DEF TypeOK, TypeMemory
<1>9. Taken'
  <2>1. \A k \in Range(stream') : Ended(k)
    BY <1>3 DEF Taken
  <2>2. \A q \in Queues : \A k \in Range(queue'[q]) : Ended(k)
    BY <1>3, <1>7, <1>8 DEF Taken
  <2> QED
    BY <2>1, <2>2 DEF Taken, Ended
<1>10. ASSUME NEW q \in Queues
       PROVE  /\ Rising(queue'[q], Earlier)
              /\ \A k \in Range(queue'[q]), l \in Range(stream') : <<k, l>> \in EarlierOf(q)
              /\ running[q] # NoJob =>
                   \A k \in Range(queue'[q]) \cup Range(stream') : <<running[q], k>> \in EarlierOf(q)
  <2>1. CASE queue'[q] = queue[q]
    BY <1>3, <2>1 DEF Lined
  <2>2. CASE q = p /\ queue'[q] = Append(queue[p], j)
    <3>1. \A k \in Range(queue[p]) : <<k, j>> \in Earlier
      <4>1. \A k \in Range(queue[p]) : QueueOf[k] = p => <<k, j>> \in Earlier
        BY <1>1, <1>3, <1>6 DEF Lined, Earlier, EarlierOf
      <4> QED
        BY <1>1, <4>1 DEF InTheirQueue
    <3>2. Rising(Append(queue[p], j), Earlier)
      BY <1>1, <3>1, RisingAppend DEF Lined
    <3>3. \A k \in Range(stream') : <<j, k>> \in EarlierOf(q)
      BY <1>4 DEF Earlier, EarlierOf
    <3> QED
      BY <1>3, <1>7, <2>2, <3>2, <3>3 DEF Lined
  <2> QED
    BY <1>8, <2>1, <2>2
<1>11. Lined'
  <2>1. Earlier \subseteq Earlier' /\ \A q : EarlierOf(q) \subseteq EarlierOf(q)'
    BY LooserRelations
  <2>2. Rising(stream', Earlier') /\ \A q \in Queues : Rising(queue'[q], Earlier')
    BY <1>4, <1>10, <2>1, RisingLooser
  <2>3. ASSUME NEW q \in Queues
        PROVE  /\ \A k \in Range(queue'[q]), l \in Range(stream') : <<k, l>> \in EarlierOf(q)'
               /\ running[q] # NoJob =>
                    \A k \in Range(queue'[q]) \cup Range(stream') : <<running[q], k>> \in EarlierOf(q)'
    BY <1>10, <2>1
  <2> QED
    BY <2>2, <2>3 DEF Lined, Rising
<1> QED
  BY <1>2, <1>9, <1>11

LEMMA StartKeepsOrder ==
  ASSUME TypeOK, TypeOK', StoreInv, OrderInv, [Next]_vars, NEW p \in Queues, Start(p)
  PROVE  OrderInv'
<1> USE DEF OrderInv
<1> DEFINE j == Head(queue[p])
<1>1. /\ queue[p] # <<>> /\ queue[p] \in Seq(Jobs) /\ j \in Jobs
      /\ queue' = [queue EXCEPT ![p] = Tail(queue[p])]
      /\ running' = running \/ running' = [running EXCEPT ![p] = j]
      /\ UNCHANGED <<stamp, add, waiting, acks, fetch, stream, parked, putBack>>
  BY HeadTailProperties DEF Start, TypeOK, TypeMemory, source
<1>2. Stamped' /\ InTurn' /\ Phases' /\ Waits' /\ Inserts'
  <2>1. \/ writes' = writes
        \/ \E i \in Jobs : \E k \in {"resolve", "reject"} : writes' = Append(writes, Request(k, i))
    BY <1>1 DEF Start, EndRejected
  <2>2. ~Restart
    BY <1>1 DEF Taken, Restart
  <2> QED
    BY <1>1, <2>1, <2>2, CallsKeepOrder
<1>3. Range(queue[p]) = {j} \cup Range(Tail(queue[p]))
  BY <1>1, RangeHeadTail
<1>4. Rising(Tail(queue[p]), Earlier) /\ \A k \in Range(Tail(queue[p])) : <<j, k>> \in Earlier
  BY <1>1, RisingTail DEF Lined
<1>5. fetch = "done"
  BY <1>1 DEF Taken
<1> HIDE DEF j
<1>6. /\ queue'[p] = Tail(queue[p]) /\ running'[p] \in {running[p], j}
      /\ \A q \in Queues : q # p => queue'[q] = queue[q] /\ running'[q] = running[q]
  BY <1>1 DEF TypeOK, TypeMemory
<1>7. ASSUME NEW q \in Queues
      PROVE  /\ running'[q] # NoJob => Ended(running'[q])
             /\ \A k \in Range(queue'[q]) : Ended(k)
  <2>1. CASE q = p
    BY <1>3, <1>6, <2>1 DEF Taken
  <2>2. CASE q # p
    BY <1>6, <2>2 DEF Taken
  <2> QED
    BY <2>1, <2>2
<1>8. Taken'
  BY <1>1, <1>5, <1>7 DEF Taken, Ended
<1>9. ASSUME NEW q \in Queues
      PROVE  /\ Rising(queue'[q], Earlier)
             /\ \A k \in Range(queue'[q]), l \in Range(stream) : <<k, l>> \in EarlierOf(q)
             /\ running'[q] # NoJob =>
                  \A k \in Range(queue'[q]) \cup Range(stream) : <<running'[q], k>> \in EarlierOf(q)
  <2>1. CASE q = p
    <3>1. \A k \in Range(Tail(queue[p])) : <<j, k>> \in EarlierOf(p)
      BY <1>4 DEF Earlier, EarlierOf
    <3> QED
      BY <1>3, <1>4, <1>6, <2>1, <3>1 DEF Lined
  <2>2. CASE q # p
    BY <1>6, <2>2 DEF Lined
  <2> QED
    BY <2>1, <2>2
<1>10. Lined'
  <2>1. Earlier \subseteq Earlier' /\ \A q : EarlierOf(q) \subseteq EarlierOf(q)'
    BY <1>1, LooserRelations
  <2>2. Rising(stream, Earlier') /\ \A q \in Queues : Rising(queue'[q], Earlier')
    BY <1>9, <2>1, RisingLooser DEF Lined
  <2>3. ASSUME NEW q \in Queues
        PROVE  /\ \A k \in Range(queue'[q]), l \in Range(stream) : <<k, l>> \in EarlierOf(q)'
               /\ running'[q] # NoJob =>
                    \A k \in Range(queue'[q]) \cup Range(stream) : <<running'[q], k>> \in EarlierOf(q)'
    BY <1>9, <2>1
  <2> QED
    BY <1>1, <2>2, <2>3 DEF Lined, Rising
<1> QED
  BY <1>2, <1>8, <1>10

LEMMA ReleaseKeepsOrder ==
  ASSUME TypeOK, TypeOK', StoreInv, OrderInv, [Next]_vars, ~Restart, NEW p \in Queues,
         RunSucceeds(p) \/ RunNeedsRetry(p) \/ RunFails(p)
  PROVE  OrderInv'
<1> USE DEF OrderInv
<1> DEFINE j == running[p]
<1>1. /\ j \in Jobs /\ j # NoJob /\ parked[p] \in Seq(Jobs)
      /\ running' = [running EXCEPT ![p] = NoJob]
      /\ UNCHANGED <<stamp, add, waiting, acks, fetch, stream, queue>>
      /\ \/ writes' = writes
         \/ \E i \in Jobs : \E k \in {"resolve", "reject"} : writes' = Append(writes, Request(k, i))
      /\ \/ parked' = parked /\ putBack' = putBack
         \/ /\ parked' = [parked EXCEPT ![p] = Append(parked[p], j)]
            /\ putBack' = putBack \cup {j}
  BY DEF RunSucceeds, RunNeedsRetry, KeepForRetry, RunFails, Release, EndResolved, EndRejected,
         TypeOK, TypeMemory, source
<1>2. Stamped' /\ InTurn' /\ Phases' /\ Waits' /\ Inserts'
  BY <1>1, CallsKeepOrder
<1>3. \A q \in Queues : running'[q] # NoJob => running'[q] = running[q]
  BY <1>1 DEF TypeOK, TypeMemory
<1>4. fetch = "done" /\ Ended(j)
  BY <1>1 DEF Taken
<1>5. ASSUME NEW q \in Queues PROVE \A k \in Range(parked'[q]) : Ended(k) /\ k \in putBack'
  <2>1. Range(Append(parked[p], j)) = Range(parked[p]) \cup {j}
    BY <1>1, RangeAppend
  <2>2. \/ parked'[q] = parked[q] /\ putBack \subseteq putBack'
        \/ q = p /\ parked'[q] = Append(parked[p], j) /\ putBack' = putBack \cup {j}
    BY <1>1 DEF TypeOK, TypeMemory
  <2> QED
    BY <1>4, <2>1, <2>2 DEF Taken
<1>6. Taken'
  <2>1. \A q \in Queues : running[q] = NoJob => running'[q] = NoJob
    BY <1>1 DEF TypeOK, TypeMemory
  <2> QED
    BY <1>1, <1>3, <1>4, <1>5, <2>1 DEF Taken, Ended
<1>7. Lined'
  <2>1. Earlier \subseteq Earlier' /\ \A q : EarlierOf(q) \subseteq EarlierOf(q)'
    BY <1>1, LooserRelations
  <2>2. Rising(stream, Earlier') /\ \A q \in Queues : Rising(queue[q], Earlier')
    BY <2>1, RisingLooser DEF Lined
  <2>3. ASSUME NEW q \in Queues
        PROVE  /\ \A k \in Range(queue[q]), l \in Range(stream) : <<k, l>> \in EarlierOf(q)'
               /\ running'[q] # NoJob =>
                    \A k \in Range(queue[q]) \cup Range(stream) : <<running'[q], k>> \in EarlierOf(q)'
    BY <1>3, <2>1 DEF Lined
  <2> QED
    BY <1>1, <2>2, <2>3 DEF Lined, Rising
<1> QED
  BY <1>2, <1>6, <1>7

\* A job that comes back from its retry has lost its place: no pair with it
\* is kept in order.
LEMMA RetryKeepsOrder ==
  ASSUME TypeOK, TypeOK', StoreInv, OrderInv, [Next]_vars, ~Restart, NEW p \in Queues, RetryParked(p)
  PROVE  OrderInv'
<1> USE DEF OrderInv
<1>1. /\ parked[p] # <<>> /\ parked[p] \in Seq(Jobs) /\ queue[p] \in Seq(Jobs)
      /\ queue' = [queue EXCEPT ![p] = queue[p] \o parked[p]]
      /\ parked' = [parked EXCEPT ![p] = <<>>]
      /\ UNCHANGED <<stamp, add, waiting, acks, writes, fetch, stream, running, putBack>>
  BY DEF RetryParked, TypeOK, TypeMemory, table, caller, source, ghosts
<1>2. Stamped' /\ InTurn' /\ Phases' /\ Waits' /\ Inserts'
  BY <1>1, CallsKeepOrder
<1>3. fetch = "done" /\ \A k \in Range(parked[p]) : k \in Jobs /\ Ended(k) /\ k \in putBack
  BY <1>1, HeldType DEF Taken
<1>4. Range(queue[p] \o parked[p]) \subseteq Range(queue[p]) \cup Range(parked[p])
  BY <1>1, RangeConcat
<1>5. /\ queue'[p] = queue[p] \o parked[p] /\ parked'[p] = <<>>
      /\ \A q \in Queues : q # p => queue'[q] = queue[q] /\ parked'[q] = parked[q]
  BY <1>1 DEF TypeOK, TypeMemory
<1>6. ASSUME NEW q \in Queues
      PROVE  /\ \A k \in Range(queue'[q]) : Ended(k)
             /\ \A k \in Range(parked'[q]) : Ended(k) /\ k \in putBack
  <2>1. CASE q = p
    BY <1>3, <1>4, <1>5, <2>1, RangeEmpty DEF Taken
  <2>2. CASE q # p
    BY <1>5, <2>2 DEF Taken
  <2> QED
    BY <2>1, <2>2
<1>7. Taken'
  BY <1>1, <1>3, <1>6 DEF Taken, Ended
<1>8. \A x, y \in Jobs : x \in putBack \/ y \in putBack =>
        <<x, y>> \in Earlier /\ \A q : <<x, y>> \in EarlierOf(q)
  BY DEF Earlier, EarlierOf, InOrder
<1>9. Rising(queue[p] \o parked[p], Earlier)
  <2>1. \A x \in Range(queue[p]), y \in Range(parked[p]) : <<x, y>> \in Earlier
    BY <1>3, <1>8, HeldType
  <2>2. \A x, y \in Range(parked[p]) : <<x, y>> \in Earlier
    BY <1>3, <1>8
  <2>3. Rising(parked[p], Earlier)
    BY <2>2 DEF Rising, Range
  <2> QED
    BY <1>1, <2>1, <2>3, RisingConcat DEF Lined
<1>10. ASSUME NEW q \in Queues
       PROVE  /\ Rising(queue'[q], Earlier)
              /\ \A k \in Range(queue'[q]), l \in Range(stream) : <<k, l>> \in EarlierOf(q)
              /\ running[q] # NoJob =>
                   \A k \in Range(queue'[q]) \cup Range(stream) : <<running[q], k>> \in EarlierOf(q)
  <2>1. CASE q = p
    <3>1. \A k \in Range(parked[p]), l \in Range(stream) : <<k, l>> \in EarlierOf(q)
      BY <1>3, <1>8, HeldType
    <3>2. running[q] # NoJob => \A k \in Range(parked[p]) : <<running[q], k>> \in EarlierOf(q)
      BY <1>3, <1>8, HeldType
    <3> QED
      BY <1>4, <1>5, <1>9, <2>1, <3>1, <3>2 DEF Lined
  <2>2. CASE q # p
    BY <1>5, <2>2 DEF Lined
  <2> QED
    BY <2>1, <2>2
<1>11. Lined'
  <2>1. Earlier \subseteq Earlier' /\ \A q : EarlierOf(q) \subseteq EarlierOf(q)'
    BY <1>1, LooserRelations
  <2>2. Rising(stream, Earlier') /\ \A q \in Queues : Rising(queue'[q], Earlier')
    BY <1>10, <2>1, RisingLooser DEF Lined
  <2>3. ASSUME NEW q \in Queues
        PROVE  /\ \A k \in Range(queue'[q]), l \in Range(stream) : <<k, l>> \in EarlierOf(q)'
               /\ running[q] # NoJob =>
                    \A k \in Range(queue'[q]) \cup Range(stream) : <<running[q], k>> \in EarlierOf(q)'
    BY <1>10, <2>1
  <2> QED
    BY <1>1, <2>2, <2>3 DEF Lined, Rising
<1> QED
  BY <1>2, <1>7, <1>11

LEMMA RestartKeepsOrder ==
  ASSUME TypeOK, TypeOK', StoreInv, OrderInv, Restart
  PROVE  OrderInv'
<1> USE DEF OrderInv
<1>1. /\ UNCHANGED stamp /\ waiting' = <<>> /\ writes' = <<>> /\ acks' = <<>> /\ stream' = <<>>
      /\ \A q \in Queues : queue'[q] = <<>> /\ parked'[q] = <<>> /\ running'[q] = NoJob
      /\ \A j \in Jobs : add'[j] \in {"none", "added", "failed", "lost"}
      /\ \A j \in Jobs : add'[j] = "none" <=> add[j] = "none"
  BY DEF Restart
<1>2. Stamped'
  BY <1>1 DEF Stamped, Created
<1>3. InTurn' /\ Phases'
  BY <1>1 DEF InTurn, Phases
<1>4. Waits' /\ Inserts' /\ Lined' /\ Taken'
  BY <1>1, RangeEmpty, RisingEmpty DEF Waits, Inserts, Lined, Taken, Rising
<1> QED
  BY <1>2, <1>3, <1>4

\* The stream is held only once it is read.
HoldsLate == consumer = "holding" => fetch = "done"

LEMMA HoldsLateInductive ==
  ASSUME HoldsLate, [Next]_vars
  PROVE  HoldsLate'
<1>1. CASE ConsumeOne \/ ConsumeHeld \/ Restart
  BY <1>1 DEF HoldsLate, ConsumeOne, ConsumeHeld, Restart
<1>2. CASE ~(ConsumeOne \/ ConsumeHeld \/ Restart)
  <2>1. consumer' = consumer
    BY <1>2
    DEF Next, vars, source, Add, AfterFetch, DbWrite, DbWriteFails, InsertAnswered,
        DeleteAnswered, StreamJobs, DbFetch, DbFetchFails, FetchAnswered, Start, RunSucceeds,
        RunNeedsRetry, RunFails, RunRetries, RetryParked, Pause, Resume, Shutdown
  <2> QED
    BY <1>2, <2>1, FetchStep DEF HoldsLate
<1> QED
  BY <1>1, <1>2

LEMMA OrderInductive ==
  ASSUME "none" \notin AddPhases, Custom = {} \/ "asked" \notin AddPhases,
         TypeOK, TypeOK', StoreInv, InTheirQueue, HoldsLate, OrderInv, [Next]_vars
  PROVE  OrderInv'
<1>1. CASE Restart
  BY <1>1, RestartKeepsOrder
<1>2. SUFFICES ASSUME ~Restart PROVE OrderInv'
  BY <1>1
<1>3. CASE \E j \in Jobs : Add(j)
  BY <1>3, AddKeepsOrder
<1>4. CASE AfterFetch
  BY <1>2, <1>4, InsertKeepsOrder
<1>5. CASE DbWrite \/ DbWriteFails
  BY <1>2, <1>5, WriteKeepsOrder
<1>6. CASE InsertAnswered
  BY <1>2, <1>6, InsertAnswerKeepsOrder
<1>7. CASE DeleteAnswered
  BY <1>2, <1>7, DeleteAnswerKeepsOrder
<1>8. CASE StreamJobs \/ DbFetch \/ DbFetchFails \/ FetchAnswered
  BY <1>8, FetchKeepsOrder
<1>9. CASE UNCHANGED <<stamp, add, waiting, acks, writes, fetch, stream, queue, running, parked>>
  <2>1. Stamped' /\ InTurn' /\ Phases' /\ Waits' /\ Inserts'
    BY <1>2, <1>9, CallsKeepOrder
  <2>2. putBack \subseteq putBack'
    BY <1>2, PutBackGrows
  <2>3. Taken'
    BY <1>9, <2>2 DEF OrderInv, Taken, Ended
  <2>4. Lined'
    BY <1>9, <2>2, SameLine DEF OrderInv
  <2> QED
    BY <2>1, <2>3, <2>4 DEF OrderInv
<1>10. CASE ConsumeOne \/ ConsumeHeld
  <2>1. /\ UNCHANGED <<stamp, add, waiting, acks, fetch, running, parked, putBack>> /\ stream # <<>>
        /\ \/ EnqueueHead
           \/ UNCHANGED <<stream, writes, queue>>
    BY <1>10 DEF ConsumeOne, ConsumeHeld, caller
  <2>2. fetch = "done"
    BY <1>10 DEF ConsumeOne, ConsumeHeld, HoldsLate
  <2> QED
    BY <1>2, <1>9, <2>1, <2>2, EnqueueKeepsOrder
<1>11. CASE \E q \in Queues : Start(q)
  BY <1>11, StartKeepsOrder
<1>12. CASE \E q \in Queues : RunSucceeds(q) \/ RunNeedsRetry(q) \/ RunFails(q)
  BY <1>2, <1>12, ReleaseKeepsOrder
<1>13. CASE \E q \in Queues : RetryParked(q)
  BY <1>2, <1>13, RetryKeepsOrder
<1>14. CASE \/ Pause \/ Resume \/ Shutdown \/ UNCHANGED vars
            \/ \E q \in Queues : RunRetries(q)
  <2>1. UNCHANGED <<stamp, add, waiting, acks, writes, fetch, stream, queue, running, parked>>
    BY <1>14 DEF Pause, Resume, Shutdown, RunRetries, vars, table, caller, source, memory
  <2> QED
    BY <1>9, <2>1
<1> QED
  BY <1>2, <1>3, <1>4, <1>5, <1>6, <1>7, <1>8, <1>10, <1>11, <1>12, <1>13, <1>14 DEF Next

LEMMA OrderIsKept ==
  ASSUME OrderInv, TypeOK, StoreInv
  PROVE  NoOvertaking
<1> USE DEF OrderInv
<1> SUFFICES ASSUME NEW q \in Queues
             PROVE  LET p == Pipeline(q)
                        own == {m \in DOMAIN p : QueueOf[p[m]] = q}
                    IN \A m \in own :
                         /\ \A n \in own :
                              m < n /\ Alike(p[m], p[n]) /\ {p[m], p[n]} \cap putBack = {}
                                => stamp[p[m]] < stamp[p[n]]
                         /\ \A j \in Jobs :
                              QueueOf[j] = q /\ Alike(j, p[m]) /\ Created(j)
                                /\ stamp[j] < stamp[p[m]]
                                => add[j] \in {"added", "failed", "lost"}
  BY DEF NoOvertaking
<1> DEFINE r == IF running[q] = NoJob THEN <<>> ELSE <<running[q]>>
           s == r \o queue[q]
           p == Pipeline(q)
<1>1. /\ queue[q] \in Seq(Jobs) /\ stream \in Seq(Jobs) /\ r \in Seq(Jobs)
      /\ Range(r) = IF running[q] = NoJob THEN {} ELSE {running[q]}
  <2>1. queue[q] \in Seq(Jobs) /\ stream \in Seq(Jobs) /\ running[q] \in Jobs \cup {NoJob}
    BY DEF TypeOK, TypeSource, TypeMemory
  <2>2. CASE running[q] = NoJob
    BY <2>1, <2>2, RangeEmpty
  <2>3. CASE running[q] # NoJob
    <3>1. r = <<running[q]>> /\ running[q] \in Jobs
      BY <2>1, <2>3
    <3> QED
      BY <2>1, <2>3, <3>1 DEF Range
  <2> QED
    BY <2>1, <2>2, <2>3
<1>2. s \in Seq(Jobs) /\ Range(s) \subseteq Range(r) \cup Range(queue[q])
  BY <1>1, ConcatProperties, RangeConcat
<1>3. p = s \o stream
  BY DEF Pipeline
<1>4. Rising(r, EarlierOf(q))
  <2>1. \A m, n \in DOMAIN r : ~(m < n)
    BY DEF r
  <2> QED
    BY <2>1 DEF Rising
<1>5. \A x, y \in Jobs : <<x, y>> \in Earlier => <<x, y>> \in EarlierOf(q)
  BY DEF Earlier, EarlierOf
<1>6. Rising(queue[q], EarlierOf(q)) /\ Rising(stream, EarlierOf(q))
  BY <1>5, RisingIn, HeldType DEF Lined
<1>7. \A x \in Range(r), y \in Range(queue[q]) \cup Range(stream) : <<x, y>> \in EarlierOf(q)
  BY <1>1 DEF Lined
<1> HIDE DEF r
<1>8. Rising(s, EarlierOf(q))
  BY <1>1, <1>4, <1>6, <1>7, RisingConcat
<1> HIDE DEF s, p
<1>9. p \in Seq(Jobs) /\ Rising(p, EarlierOf(q)) /\ Range(p) \subseteq Range(s) \cup Range(stream)
  <2>1. \A x \in Range(s), y \in Range(stream) : <<x, y>> \in EarlierOf(q)
    BY <1>2, <1>7 DEF Lined
  <2>2. Rising(s \o stream, EarlierOf(q))
    BY <1>1, <1>2, <1>6, <1>8, <2>1, RisingConcat
  <2>3. s \o stream \in Seq(Jobs) /\ Range(s \o stream) \subseteq Range(s) \cup Range(stream)
    BY <1>1, <1>2, ConcatProperties, RangeConcat
  <2> QED
    BY <1>3, <2>2, <2>3
<1>10. \A j \in Range(p) : Ended(j) /\ Kept(j) /\ j \in Jobs
  <2>1. \A j \in Range(r) \cup Range(queue[q]) \cup Range(stream) : Ended(j) /\ Kept(j) /\ j \in Jobs
    BY <1>1, HeldType DEF Taken, StoreInv, Held
  <2> QED
    BY <1>2, <1>9, <2>1
<1>11. ASSUME NEW m \in DOMAIN p, NEW n \in DOMAIN p, QueueOf[p[m]] = q, QueueOf[p[n]] = q, m < n,
              Alike(p[m], p[n]), {p[m], p[n]} \cap putBack = {}
       PROVE  stamp[p[m]] < stamp[p[n]]
  <2>1. <<p[m], p[n]>> \in EarlierOf(q)
    BY <1>9, <1>11 DEF Rising
  <2> QED
    BY <1>11, <2>1 DEF EarlierOf, InOrder
<1>12. ASSUME NEW m \in DOMAIN p, NEW j \in Jobs, Alike(j, p[m]), Created(j), stamp[j] < stamp[p[m]]
       PROVE  add[j] \in {"added", "failed", "lost"}
  <2>1. Ended(p[m]) /\ Kept(p[m]) /\ p[m] \in Jobs
    BY <1>10 DEF Range
  <2>2. stamp[p[m]] \in Nat /\ stamp[j] \in Nat
    BY <2>1 DEF TypeOK, TypeTable
  <2>3. add[j] \notin {"waiting", "inserting", "custom"}
    BY <1>12, <2>1, <2>2 DEF InTurn, Alike
  <2>4. add[j] \notin {"none", "inserting_unstreamed"}
    BY <1>12 DEF Phases, Stamped, Created
  <2> QED
    BY <2>3, <2>4 DEF TypeOK, TypeCaller, AddStates
<1> QED
  BY <1>11, <1>12 DEF p

\* The jobs of one conversation are taken up in the order in which they were
\* added, also behind the rows of an earlier process and when add() or its
\* callers' own inserts fail: for jobs inserted alike, in a queue whose stream
\* starts first, and with the callers' own inserts kept out of the moment at
\* which the stream has asked for the rows (JobQueue.ts, add and
\* enqueueStoredJob; conversationJobQueue.add).  A job put back for a retry
\* loses its place, the others keep theirs.
THEOREM NothingOvertakes ==
  ASSUME "none" \notin AddPhases, Custom = {} \/ "asked" \notin AddPhases
  PROVE  Spec => []NoOvertaking
<1>1. TypeOK /\ Init => OrderInv /\ HoldsLate
  <2> SUFFICES ASSUME TypeOK, Init PROVE OrderInv /\ HoldsLate
    OBVIOUS
  <2>1. Stamped
    <3>1. Cardinality({k \in Jobs : Created(k)}) \in Nat
      BY QueueAssumption, FS_Subset, FS_CardinalityType
    <3>2. \A j \in Jobs : stamp[j] = 0 /\ add[j] = "none"
      BY DEF Init
    <3> DEFINE n == Cardinality({k \in Jobs : Created(k)})
    <3> HIDE DEF n
    <3>3. \A j \in Jobs : stamp[j] <= n
      BY <3>1, <3>2 DEF n
    <3> QED
      BY <3>2, <3>3 DEF Stamped, n
  <2>2. InTurn /\ Phases /\ HoldsLate
    BY DEF Init, InTurn, Phases, Ended, HoldsLate
  <2>3. Waits /\ Inserts /\ Taken /\ Lined
    BY RangeEmpty, RisingEmpty DEF Init, Waits, Inserts, Taken, Lined
  <2> QED
    BY <2>1, <2>2, <2>3 DEF OrderInv
<1>2. TypeOK /\ TypeOK' /\ StoreInv /\ CopiesInv /\ HoldsLate /\ OrderInv /\ [Next]_vars
        => OrderInv' /\ HoldsLate'
  BY OrderInductive, HoldsLateInductive DEF CopiesInv
<1>3. TypeOK /\ StoreInv /\ OrderInv => NoOvertaking
  BY OrderIsKept
<1> QED
  BY <1>1, <1>2, <1>3, TypeCorrect, StoreInvariant, CopiesInvariant, PTL DEF Spec
=============================================================================
