------------------------------ MODULE JobQueue ------------------------------
(***************************************************************************)
(* One persistent job queue: JobQueue (ts/jobs/JobQueue.ts) on top of      *)
(* JobQueueDatabaseStore (ts/jobs/JobQueueDatabaseStore.ts) and the `jobs` *)
(* table.                                                                  *)
(*                                                                         *)
(* The renderer is single threaded, so what runs between two awaits is one *)
(* action.  Writes go to one database worker, which executes them in order *)
(* and answers in order; the read that starts the stream goes to another   *)
(* worker, so it is ordered with the writes only by when it executes.      *)
(* A crash loses everything but the table.                                 *)
(***************************************************************************)
EXTENDS Naturals, Sequences, FiniteSets, Functions

CONSTANTS
  Jobs,           \* jobs ever added
  Queues,         \* in-memory queues (one, or one per conversation)
  QueueOf,        \* the in-memory queue of a job (getInMemoryQueue)
  Custom,         \* jobs added with the caller's own `insert`
  Corrupt,        \* jobs whose stored data parseData rejects
  NoJob,          \* a model value: nothing runs
  MaxAttempts,    \* options.maxAttempts
  KeepOnRetry,    \* retryJobOnQueueIdle returns true (conversation queue)
  AddPhases,      \* how far the initial fetch may be when a caller adds
  MayShutDown,    \* the queue may be asked to shut down
  MaxPauses,      \* bound: calls of pause()
  MaxCrashes,     \* bound: restarts of the application
  MaxDbFailures   \* bound: database calls that reject

ASSUME QueueAssumption ==
  /\ QueueOf \in [Jobs -> Queues]
  /\ NoJob \notin Jobs
  /\ Custom \subseteq Jobs
  /\ Corrupt \subseteq Jobs
  /\ IsFiniteSet(Jobs)
ASSUME BoundAssumption ==
  /\ MaxAttempts \in Nat \ {0}
  /\ KeepOnRetry \in BOOLEAN
  /\ MayShutDown \in BOOLEAN
  /\ MaxPauses \in Nat /\ MaxCrashes \in Nat /\ MaxDbFailures \in Nat

VARIABLES
  \* The database, and what it is asked to do.
  db,            \* jobs with a row
  stamp,         \* the timestamp column, by order of creation; 0: not created
  writes,        \* write requests not yet executed
  acks,          \* executed writes whose answer is not yet delivered
  \* The caller's side.
  add,           \* progress of the call of add()
  completion,    \* the job's `completion` promise in this process
  \* The stream.
  fetch,         \* the initial fetch: getJobsInQueue
  waiting,       \* inserts awaiting initialFetchPromise, in order
  stream,        \* fetched jobs, then the AsyncQueue
  consumer,      \* the `for await` loop of streamJobs
  \* The in-memory queues.
  queue,         \* jobs waiting in each PQueue
  running,       \* the job occupying each PQueue
  attempt,       \* its attempt
  parked,        \* jobs kept for a later retry
  paused,
  shuttingDown,
  waitIdle,      \* PQueues whose onIdle() shutdown() still awaits
  \* History and bounds.
  finished,      \* jobs that came to an outcome in some process
  putBack,       \* jobs that this process has kept for a retry
  pauses, crashes, dbFailures

table  == <<db, stamp, writes, acks>>
caller == <<add, completion>>
source == <<fetch, waiting, stream, consumer>>
memory == <<queue, running, attempt, parked>>
control == <<paused, shuttingDown, waitIdle>>
ghosts == <<finished, putBack, pauses, crashes, dbFailures>>
vars == <<table, caller, source, memory, control, ghosts>>

Write == [op : {"insert", "resolve", "reject"}, job : Jobs]
Answer == [op : {"insert", "resolve", "reject"}, job : Jobs, ok : BOOLEAN]

\* "insert" stores the job; the other two delete its row and then settle the
\* completion promise that way.
Request(kind, j) == [op |-> kind, job |-> j]

Created(j) == stamp[j] # 0

Init ==
  /\ db = {}
  /\ stamp = [j \in Jobs |-> 0]
  /\ writes = <<>>
  /\ acks = <<>>
  /\ add = [j \in Jobs |-> "none"]
  /\ completion = [j \in Jobs |-> "none"]
  /\ fetch = "none"
  /\ waiting = <<>>
  /\ stream = <<>>
  /\ consumer = "reading"
  /\ queue = [q \in Queues |-> <<>>]
  /\ running = [q \in Queues |-> NoJob]
  /\ attempt = [q \in Queues |-> 0]
  /\ parked = [q \in Queues |-> <<>>]
  /\ paused = FALSE
  /\ shuttingDown = FALSE
  /\ waitIdle = {}
  /\ finished = {}
  /\ putBack = {}
  /\ pauses = 0
  /\ crashes = 0
  /\ dbFailures = 0

----------------------------------------------------------------------------
(***************************************************************************)
(* Adding a job.  add[j] is "none", "custom" (awaiting the caller's own    *)
(* insert), "waiting" (awaiting initialFetchPromise), "inserting" or       *)
(* "inserting_unstreamed" (awaiting db.insertJob, with or without having   *)
(* seen a fetch promise), "added", "failed" (rejected) or "lost" (the      *)
(* process died).                                                          *)
(***************************************************************************)

\* Mutants of StoreInsert: add() resolves before the write is answered; a plain
\* insert does not await the fetch; the fetch promise is published too late.
StoreInsertUnawaited(j, persisted) ==
  IF fetch = "none" /\ ~persisted
  THEN /\ add' = [add EXCEPT ![j] = "added"]
       /\ writes' = Append(writes, Request("insert", j))
       /\ UNCHANGED waiting
  ELSE /\ waiting' = Append(waiting, j)
       /\ add' = [add EXCEPT ![j] = "waiting"]
       /\ UNCHANGED writes
StoreInsertEager(j, persisted) ==
  /\ writes' = Append(writes, Request("insert", j))
  /\ add' = [add EXCEPT ![j] = "inserting"]
  /\ UNCHANGED waiting
StoreInsertLate(j, persisted) ==
  IF fetch = "done"
  THEN /\ waiting' = Append(waiting, j)
       /\ add' = [add EXCEPT ![j] = "waiting"]
       /\ UNCHANGED writes
  ELSE /\ add' = [add EXCEPT ![j] = "inserting_unstreamed"]
       /\ writes' = Append(writes, Request("insert", j))
       /\ UNCHANGED waiting

\* JobQueueDatabaseStore.insert up to its first await.
StoreInsert(j, persisted) ==
  IF fetch # "none"
  THEN /\ waiting' = Append(waiting, j)
       /\ add' = [add EXCEPT ![j] = "waiting"]
       /\ UNCHANGED writes
  ELSE IF persisted
  THEN /\ add' = [add EXCEPT ![j] = "added"]
       /\ UNCHANGED <<waiting, writes>>
  ELSE /\ add' = [add EXCEPT ![j] = "inserting_unstreamed"]
       /\ writes' = Append(writes, Request("insert", j))
       /\ UNCHANGED waiting

Add(j) ==
  /\ add[j] = "none"
  /\ fetch \in AddPhases
  /\ stamp' = [stamp EXCEPT ![j] = Cardinality({k \in Jobs : Created(k)}) + 1]
  /\ completion' = [completion EXCEPT ![j] = "pending"]
  /\ IF j \in Custom
     THEN /\ add' = [add EXCEPT ![j] = "custom"]
          /\ writes' = Append(writes, Request("insert", j))
          /\ UNCHANGED waiting
     ELSE StoreInsert(j, FALSE)
  /\ UNCHANGED <<db, acks, fetch, stream, consumer, memory, control, ghosts>>

\* JobQueueDatabaseStore.insert after `await initialFetchPromise`.
AfterFetch ==
  /\ fetch = "done"
  /\ waiting # <<>>
  /\ LET j == Head(waiting)
     IN IF j \in Custom
        THEN /\ stream' = Append(stream, j)
             /\ add' = [add EXCEPT ![j] = "added"]
             /\ UNCHANGED writes
        ELSE /\ writes' = Append(writes, Request("insert", j))
             /\ add' = [add EXCEPT ![j] = "inserting"]
             /\ UNCHANGED stream
  /\ waiting' = Tail(waiting)
  /\ UNCHANGED <<db, stamp, acks, completion, fetch, consumer, memory,
                 control, ghosts>>

----------------------------------------------------------------------------
(***************************************************************************)
(* The database worker and its answers.                                    *)
(***************************************************************************)
Settled(j, outcome) ==
  [completion EXCEPT ![j] = IF @ = "pending" THEN outcome ELSE @]

DbWrite ==
  /\ writes # <<>>
  /\ LET w == Head(writes)
     IN /\ db' = IF w.op = "insert" THEN db \cup {w.job} ELSE db \ {w.job}
        /\ acks' = Append(acks, [op |-> w.op, job |-> w.job, ok |-> TRUE])
  /\ writes' = Tail(writes)
  /\ UNCHANGED <<stamp, caller, source, memory, control, ghosts>>

DbWriteFails ==
  /\ dbFailures < MaxDbFailures
  /\ writes # <<>>
  /\ LET w == Head(writes)
     IN acks' = Append(acks, [op |-> w.op, job |-> w.job, ok |-> FALSE])
  /\ writes' = Tail(writes)
  /\ dbFailures' = dbFailures + 1
  /\ UNCHANGED <<db, stamp, caller, source, memory, control, finished, putBack,
                 pauses, crashes>>

\* The code after `await insert(job)` and after `await this.db.insertJob(..)`.
InsertAnswered ==
  /\ acks # <<>>
  /\ Head(acks).op = "insert"
  /\ LET j == Head(acks).job
     IN \/ /\ ~Head(acks).ok
           /\ add' = [add EXCEPT ![j] = "failed"]
           /\ UNCHANGED <<waiting, writes, stream>>
        \/ /\ Head(acks).ok
           /\ add[j] = "custom"
           /\ StoreInsert(j, TRUE)
           /\ UNCHANGED stream
        \/ /\ Head(acks).ok
           /\ add[j] = "inserting"
           /\ stream' = Append(stream, j)
           /\ add' = [add EXCEPT ![j] = "added"]
           /\ UNCHANGED <<waiting, writes>>
        \/ /\ Head(acks).ok
           /\ add[j] = "inserting_unstreamed"
           /\ add' = [add EXCEPT ![j] = "added"]
           /\ UNCHANGED <<waiting, writes, stream>>
  /\ acks' = Tail(acks)
  /\ UNCHANGED <<db, stamp, completion, fetch, consumer, memory, control,
                 ghosts>>

\* The code after `await this.#store.delete(..)`: when the delete rejects,
\* enqueueStoredJob rejects and the completion promise is left pending.
DeleteAnswered ==
  /\ acks # <<>>
  /\ Head(acks).op # "insert"
  /\ LET answer == Head(acks)
     IN completion' =
          IF ~answer.ok THEN completion
          ELSE Settled(answer.job,
                       IF answer.op = "resolve" THEN "resolved" ELSE "rejected")
  /\ acks' = Tail(acks)
  /\ UNCHANGED <<db, stamp, writes, add, source, memory, control, ghosts>>

----------------------------------------------------------------------------
(***************************************************************************)
(* The stream: fetch is "none", "asked", "read" (the rows are read, the    *)
(* answer is under way), "done" or "failed".                               *)
(***************************************************************************)
StreamJobs ==
  /\ fetch = "none"
  /\ fetch' = "asked"
  /\ UNCHANGED <<table, caller, waiting, stream, consumer, memory, control,
                 ghosts>>

\* Mutant of RowsByTimestamp: no ORDER BY.
RowsUnordered ==
  {s \in [1..Cardinality(db) -> db] :
     \A m, n \in DOMAIN s : m < n => s[m] # s[n]}

\* SELECT .. FROM jobs .. ORDER BY timestamp.
RowsByTimestamp ==
  {s \in [1..Cardinality(db) -> db] :
     \A m, n \in DOMAIN s : m < n => stamp[s[m]] < stamp[s[n]]}

DbFetch ==
  /\ fetch = "asked"
  /\ fetch' = "read"
  /\ stream' \in RowsByTimestamp
  /\ UNCHANGED <<table, caller, waiting, consumer, memory, control, ghosts>>

\* initialFetchPromise is never resolved then.
DbFetchFails ==
  /\ dbFailures < MaxDbFailures
  /\ fetch = "asked"
  /\ fetch' = "failed"
  /\ dbFailures' = dbFailures + 1
  /\ UNCHANGED <<table, caller, waiting, stream, consumer, memory, control,
                 finished, putBack, pauses, crashes>>

FetchAnswered ==
  /\ fetch = "read"
  /\ fetch' = "done"
  /\ UNCHANGED <<table, caller, waiting, stream, consumer, memory, control,
                 ghosts>>

\* Mutant of EnqueueHead: a job that cannot be parsed is skipped, not deleted.
EnqueueHeadSkips ==
  LET j == Head(stream)
      q == QueueOf[j]
  IN /\ stream' = Tail(stream)
     /\ queue' = IF j \in Corrupt THEN queue
                                   ELSE [queue EXCEPT ![q] = Append(@, j)]
     /\ UNCHANGED <<writes, finished>>

\* enqueueStoredJob(Head(stream)) up to its first await.
EnqueueHead ==
  LET j == Head(stream)
      q == QueueOf[j]
  IN /\ stream' = Tail(stream)
     /\ IF j \in Corrupt
        THEN /\ writes' = Append(writes, Request("reject", j))
             /\ finished' = finished \cup {j}
             /\ UNCHANGED queue
        ELSE /\ queue' = [queue EXCEPT ![q] = Append(@, j)]
             /\ UNCHANGED <<writes, finished>>

\* One iteration of the `for await` loop.
ConsumeOne ==
  /\ fetch = "done"
  /\ consumer = "reading"
  /\ stream # <<>>
  /\ \/ /\ shuttingDown
        /\ consumer' = "stopped"
        /\ UNCHANGED <<stream, writes, queue, finished>>
     \/ /\ ~shuttingDown
        /\ paused
        /\ consumer' = "holding"
        /\ UNCHANGED <<stream, writes, queue, finished>>
     \/ /\ ~shuttingDown
        /\ ~paused
        /\ EnqueueHead
        /\ UNCHANGED consumer
  /\ UNCHANGED <<db, stamp, acks, caller, fetch, waiting, running, attempt,
                 parked, control, putBack, pauses, crashes, dbFailures>>

\* The end of `while (this.#paused)`; shuttingDown is not looked at again.
ConsumeHeld ==
  /\ consumer = "holding"
  /\ stream # <<>>
  /\ ~paused
  /\ EnqueueHead
  /\ consumer' = "reading"
  /\ UNCHANGED <<db, stamp, acks, caller, fetch, waiting, running, attempt,
                 parked, control, putBack, pauses, crashes, dbFailures>>

----------------------------------------------------------------------------
(***************************************************************************)
(* The in-memory queues: the task enqueueStoredJob hands to queue.add and  *)
(* the code after it.                                                      *)
(***************************************************************************)
\* Mutant of Busy: PQueue.onEmpty, which ignores the task in progress.
NotEmpty(q) == queue[q] # <<>>

Busy(q) == queue[q] # <<>> \/ running[q] # NoJob

\* Mutant of IdleIf: a job that is turned away never makes its queue idle.
IdleIfRan(q, idle) ==
  waitIdle' = IF idle /\ running[q] # NoJob THEN waitIdle \ {q} ELSE waitIdle

\* A PQueue that becomes idle resolves its onIdle().
IdleIf(q, idle) == waitIdle' = IF idle THEN waitIdle \ {q} ELSE waitIdle

\* Mutant of EndResolved: the completion is resolved before the row is deleted.
EndResolvedEarly(j) ==
  /\ writes' = Append(writes, Request("resolve", j))
  /\ finished' = finished \cup {j}
  /\ completion' = Settled(j, "resolved")

\* The job's task has ended with SUCCESS, or with a retry that is dropped:
\* delete the row, then resolve.
EndResolved(j) ==
  /\ writes' = Append(writes, Request("resolve", j))
  /\ finished' = finished \cup {j}
  /\ UNCHANGED completion

\* Mutant of EndRejected: the row is deleted although the job was turned away.
EndRejectedAlways(j) ==
  /\ writes' = Append(writes, Request("reject", j))
  /\ finished' = IF shuttingDown THEN finished ELSE finished \cup {j}
  /\ UNCHANGED completion

\* It has ended with ERROR: while shutting down the row is kept for the next
\* process and the completion is rejected at once.
EndRejected(j) ==
  IF shuttingDown
  THEN /\ completion' = Settled(j, "rejected")
       /\ UNCHANGED <<writes, finished>>
  ELSE /\ writes' = Append(writes, Request("reject", j))
       /\ finished' = finished \cup {j}
       /\ UNCHANGED completion

\* Mutants of AttemptsLeft (one attempt too many) and of MayAttempt.
AttemptsLeftOffByOne(q) == attempt[q] <= MaxAttempts
MayAttemptAlways == TRUE

AttemptsLeft(q) == attempt[q] < MaxAttempts

\* What every attempt looks at before it calls run().
MayAttempt == ~shuttingDown

\* The queue takes its next job; the first attempt starts unless the queue is
\* shutting down, which ends the job with ERROR.
Start(q) ==
  /\ running[q] = NoJob
  /\ queue[q] # <<>>
  /\ queue' = [queue EXCEPT ![q] = Tail(@)]
  /\ IF MayAttempt
     THEN /\ running' = [running EXCEPT ![q] = Head(queue[q])]
          /\ attempt' = [attempt EXCEPT ![q] = 1]
          /\ UNCHANGED <<writes, completion, finished>>
     ELSE /\ EndRejected(Head(queue[q]))
          /\ UNCHANGED <<running, attempt>>
  /\ IdleIf(q, ~MayAttempt /\ Tail(queue[q]) = <<>>)
  /\ UNCHANGED <<db, stamp, acks, add, source, parked, paused, shuttingDown,
                 putBack, pauses, crashes, dbFailures>>

Release(q) ==
  /\ running' = [running EXCEPT ![q] = NoJob]
  /\ attempt' = [attempt EXCEPT ![q] = 0]
  /\ IdleIf(q, queue[q] = <<>>)

\* run() resolves with undefined.
RunSucceeds(q) ==
  /\ running[q] # NoJob
  /\ EndResolved(running[q])
  /\ Release(q)
  /\ UNCHANGED <<db, stamp, acks, add, source, queue, parked, paused,
                 shuttingDown, putBack, pauses, crashes, dbFailures>>

KeepForRetry(q) ==
  /\ parked' = [parked EXCEPT ![q] = Append(@, running[q])]
  /\ putBack' = putBack \cup {running[q]}

\* run() resolves with NEEDS_RETRY.
RunNeedsRetry(q) ==
  /\ running[q] # NoJob
  /\ IF KeepOnRetry
     THEN /\ KeepForRetry(q)
          /\ completion' = Settled(running[q], "resolved")
          /\ UNCHANGED <<writes, finished>>
     ELSE /\ EndResolved(running[q])
          /\ UNCHANGED <<parked, putBack>>
  /\ Release(q)
  /\ UNCHANGED <<db, stamp, acks, add, source, queue, paused, shuttingDown,
                 pauses, crashes, dbFailures>>

\* run() rejects and another attempt follows.
RunRetries(q) ==
  /\ running[q] # NoJob
  /\ AttemptsLeft(q)
  /\ MayAttempt
  /\ attempt' = [attempt EXCEPT ![q] = @ + 1]
  /\ UNCHANGED <<table, caller, source, queue, running, parked, control,
                 ghosts>>

\* run() rejects for the last time, or the next attempt finds the queue
\* shutting down.
RunFails(q) ==
  /\ running[q] # NoJob
  /\ ~AttemptsLeft(q) \/ ~MayAttempt
  /\ EndRejected(running[q])
  /\ Release(q)
  /\ UNCHANGED <<db, stamp, acks, add, source, queue, parked, paused,
                 shuttingDown, putBack, pauses, crashes, dbFailures>>

\* The conversation queue's retry callback hands every job it kept for the
\* conversation back to enqueueStoredJob.
RetryParked(q) ==
  /\ parked[q] # <<>>
  /\ queue' = [queue EXCEPT ![q] = @ \o parked[q]]
  /\ parked' = [parked EXCEPT ![q] = <<>>]
  /\ UNCHANGED <<table, caller, source, running, attempt, control, ghosts>>

----------------------------------------------------------------------------
(***************************************************************************)
(* Pause, shutdown, and the end of the process.                            *)
(***************************************************************************)
Pause ==
  /\ pauses < MaxPauses
  /\ ~paused
  /\ paused' = TRUE
  /\ pauses' = pauses + 1
  /\ UNCHANGED <<table, caller, source, memory, shuttingDown, waitIdle,
                 finished, putBack, crashes, dbFailures>>

Resume ==
  /\ paused
  /\ paused' = FALSE
  /\ UNCHANGED <<table, caller, source, memory, shuttingDown, waitIdle,
                 ghosts>>

Shutdown ==
  /\ MayShutDown
  /\ ~shuttingDown
  /\ shuttingDown' = TRUE
  /\ waitIdle' = {q \in Queues : Busy(q)}
  /\ UNCHANGED <<table, caller, source, memory, paused, ghosts>>

\* The process ends, by a crash or after shutdown(), and the next one starts.
Restart ==
  /\ crashes < MaxCrashes
  /\ crashes' = crashes + 1
  /\ writes' = <<>>
  /\ acks' = <<>>
  /\ add' = [j \in Jobs |->
               IF add[j] \in {"none", "added", "failed"} THEN add[j]
                                                          ELSE "lost"]
  /\ completion' = [j \in Jobs |-> "none"]
  /\ fetch' = "none"
  /\ waiting' = <<>>
  /\ stream' = <<>>
  /\ consumer' = "reading"
  /\ queue' = [q \in Queues |-> <<>>]
  /\ running' = [q \in Queues |-> NoJob]
  /\ attempt' = [q \in Queues |-> 0]
  /\ parked' = [q \in Queues |-> <<>>]
  /\ paused' = FALSE
  /\ shuttingDown' = FALSE
  /\ waitIdle' = {}
  /\ putBack' = {}
  /\ UNCHANGED <<db, stamp, finished, pauses, dbFailures>>

Next ==
  \/ \E j \in Jobs : Add(j)
  \/ AfterFetch
  \/ DbWrite \/ DbWriteFails
  \/ InsertAnswered \/ DeleteAnswered
  \/ StreamJobs \/ DbFetch \/ DbFetchFails \/ FetchAnswered
  \/ ConsumeOne \/ ConsumeHeld
  \/ \E q \in Queues : \/ Start(q)
                       \/ RunSucceeds(q)
                       \/ RunNeedsRetry(q)
                       \/ RunRetries(q)
                       \/ RunFails(q)
                       \/ RetryParked(q)
  \/ Pause \/ Resume \/ Shutdown \/ Restart

Spec == Init /\ [][Next]_vars

\* The event loop and the database worker always get round to what is
\* pending, every run() settles, and whoever pauses a queue resumes it.
Fairness ==
  /\ WF_vars(AfterFetch)
  /\ WF_vars(DbWrite)
  /\ WF_vars(InsertAnswered) /\ WF_vars(DeleteAnswered)
  /\ WF_vars(StreamJobs) /\ WF_vars(DbFetch) /\ WF_vars(FetchAnswered)
  /\ WF_vars(ConsumeOne) /\ WF_vars(ConsumeHeld)
  /\ WF_vars(Resume)
  /\ \A q \in Queues : /\ WF_vars(Start(q))
                       /\ WF_vars(RunSucceeds(q) \/ RunNeedsRetry(q)
                                  \/ RunRetries(q) \/ RunFails(q))

FairSpec == Spec /\ Fairness

----------------------------------------------------------------------------
(***************************************************************************)
(* Properties.                                                             *)
(***************************************************************************)
AddStates == {"none", "custom", "waiting", "inserting",
              "inserting_unstreamed", "added", "failed", "lost"}

TypeTable ==
  /\ db \in SUBSET Jobs
  /\ stamp \in [Jobs -> Nat]
  /\ writes \in Seq(Write)
  /\ acks \in Seq(Answer)
TypeCaller ==
  /\ add \in [Jobs -> AddStates]
  /\ completion \in [Jobs -> {"none", "pending", "resolved", "rejected"}]
TypeSource ==
  /\ fetch \in {"none", "asked", "read", "done", "failed"}
  /\ waiting \in Seq(Jobs)
  /\ stream \in Seq(Jobs)
  /\ consumer \in {"reading", "holding", "stopped"}
TypeMemory ==
  /\ queue \in [Queues -> Seq(Jobs)]
  /\ running \in [Queues -> Jobs \cup {NoJob}]
  /\ attempt \in [Queues -> 0..MaxAttempts]
  /\ parked \in [Queues -> Seq(Jobs)]
TypeControl ==
  /\ paused \in BOOLEAN
  /\ shuttingDown \in BOOLEAN
  /\ waitIdle \in SUBSET Queues
TypeGhosts ==
  /\ finished \in SUBSET Jobs /\ putBack \in SUBSET Jobs
  /\ pauses \in Nat /\ crashes \in Nat /\ dbFailures \in Nat

\* Type correctness; in particular no job is attempted more than maxAttempts
\* times in a row.
TypeOK ==
  /\ TypeTable /\ TypeCaller /\ TypeSource
  /\ TypeMemory /\ TypeControl /\ TypeGhosts

\* A job whose add() resolved keeps its row until it comes to an outcome:
\* success, the last failed attempt, unreadable data, or a retry the queue
\* drops.  Crashes, shutdowns and failing writes may happen at any time.
NoLostJob ==
  \A j \in Jobs : add[j] = "added" /\ j \notin finished => j \in db

\* The inductive invariant behind NoLostJob and ImplementsDurableJobs.
\* What the process holds, or was told is stored, has a row or an outcome ...
Kept(j) == j \in db \cup finished
Held ==
  /\ \A j \in Range(stream) : Kept(j)
  /\ \A q \in Queues : /\ running[q] # NoJob => Kept(running[q])
                       /\ \A j \in Range(queue[q]) : Kept(j)
                       /\ \A j \in Range(parked[q]) : Kept(j)
Told ==
  /\ \A x \in Range(acks) : x.op = "insert" /\ x.ok => Kept(x.job)
  /\ \A j \in Jobs :
       add[j] = "added" \/ (add[j] = "waiting" /\ j \in Custom) => Kept(j)
\* ... a delete is requested only after the outcome ...
DeletesFinished ==
  \A w \in Range(writes) : w.op # "insert" => w.job \in finished
\* ... and an insert is requested once, by the call of add() that awaits it,
\* for a job that has neither row nor outcome.
AtMostOne(s, T) == \A m, n \in DOMAIN s : s[m] \in T /\ s[n] \in T => m = n
InsertsOf(j) == {w \in Write : w.op = "insert" /\ w.job = j}
AnswersOf(j) == {x \in Answer : x.op = "insert" /\ x.job = j}
AwaitsInsert(j) == add[j] \in {"custom", "inserting", "inserting_unstreamed"}
Once ==
  \A j \in Jobs : /\ AtMostOne(writes, InsertsOf(j))
                  /\ AtMostOne(acks, AnswersOf(j))
                  /\ AtMostOne(waiting, {j})
Awaited ==
  \A j \in Jobs :
    /\ Range(writes) \cap InsertsOf(j) # {}
         => AwaitsInsert(j) /\ ~Kept(j) /\ Range(acks) \cap AnswersOf(j) = {}
    /\ Range(acks) \cap AnswersOf(j) # {} => AwaitsInsert(j)
    /\ j \in Range(waiting) => add[j] = "waiting"
    /\ add[j] = "custom" => j \in Custom
    /\ add[j] = "none" \/ (add[j] = "waiting" /\ j \notin Custom) => ~Kept(j)
StoreInv == Held /\ Told /\ DeletesFinished /\ Once /\ Awaited

\* How many times the process holds the job: streamed, queued, running,
\* kept for a retry, or finished and being deleted.
Positions(s, j) == {i \in DOMAIN s : s[i] = j}
DeletesOf(s, j) == {i \in DOMAIN s : s[i].job = j /\ s[i].op # "insert"}
Copies(j) ==
  LET q == QueueOf[j]
  IN Cardinality(Positions(stream, j)) + Cardinality(Positions(queue[q], j))
     + Cardinality(Positions(parked[q], j))
     + (IF running[q] = j THEN 1 ELSE 0)
     + Cardinality(DeletesOf(writes, j)) + Cardinality(DeletesOf(acks, j))

\* "It should produce one job per `insert`" (ts/jobs/types.ts, stream): no
\* job is ever in the hands of the process twice, whether it came from the
\* initial fetch, from the AsyncQueue or from a retry.
OneInstance == \A j \in Jobs : Copies(j) <= 1

\* "Add a job to the database. Doing this should enqueue it in the stream."
\* (ts/jobs/types.ts, insert): while the process streams, a job whose add()
\* resolved is finished or on its way to run; it is not merely a row that the
\* next process will find.
NotOrphaned ==
  (fetch = "done" /\ consumer # "stopped" /\ ~shuttingDown)
     => \A j \in Jobs :
          add[j] = "added" /\ j \notin finished => Copies(j) >= 1

\* When a caller's completion promise settles, the row is gone, unless the job
\* itself was kept for a retry or rejected because of a shutdown.
SettledAfterDelete ==
  \A j \in Jobs :
    j \in db => /\ completion[j] = "resolved" => j \in putBack
                /\ completion[j] = "rejected" => shuttingDown

\* Everything the process has taken up, next job of the in-memory queue first;
\* the stream holds the jobs of every queue.
Pipeline(q) ==
  (IF running[q] = NoJob THEN <<>> ELSE <<running[q]>>) \o queue[q] \o stream

\* A job that is inserted by its caller and one that add() inserts wait in
\* different places; only jobs inserted alike keep their order.
Alike(j, k) == j \in Custom <=> k \in Custom

\* Jobs of one conversation run in the order they were added, across the
\* initial fetch, later inserts and jobs that are put back for a retry, and
\* none is taken up while an earlier one is still being added.  A job that was
\* itself put back has lost its place.
NoOvertaking ==
  \A q \in Queues :
    LET p == Pipeline(q)
        own == {m \in DOMAIN p : QueueOf[p[m]] = q}
    IN \A m \in own :
         /\ \A n \in own :
              m < n /\ Alike(p[m], p[n]) /\ {p[m], p[n]} \cap putBack = {}
                => stamp[p[m]] < stamp[p[n]]
         /\ \A j \in Jobs :
              QueueOf[j] = q /\ Alike(j, p[m]) /\ Created(j) /\ stamp[j] < stamp[p[m]]
                => add[j] \in {"added", "failed", "lost"}

\* Once shutdown() has resolved no run() is in progress.
ShutdownDrained ==
  shuttingDown /\ waitIdle = {} => \A q \in Queues : running[q] = NoJob

\* After shutdown() is called no attempt starts, not even of the job the
\* paused stream holds or of one waiting in a queue.
NoStartInShutdown ==
  [][shuttingDown /\ shuttingDown'
       => \A q \in Queues : attempt'[q] \in {0, attempt[q]}]_vars

\* The queue keeps what DurableJobs promises: a row is written once, leaves
\* only after an outcome, and is never written again.
Durable == INSTANCE DurableJobs
             WITH store <- db, accepted <- {j \in Jobs : add[j] = "added"}
ImplementsDurableJobs == Durable!Spec

\* Every job whose add() resolved comes to an outcome, whatever is paused and
\* resumed in between and even if the process dies on the way, unless the
\* process shuts down.
EveryAddedJobFinishes ==
  \A j \in Jobs : add[j] = "added" ~> j \in finished \/ shuttingDown

\* shutdown() resolves.
ShutdownResolves ==
  shuttingDown ~> (~shuttingDown \/ waitIdle = {})
=============================================================================
