# Signal Desktop in TLA+

Signal Desktop (`package.json`, `ts/`) is an Electron application. Its renderer process is one JavaScript
thread in which many `async` functions are interleaved at their `await`s; it keeps its data in SQLite, which it
reaches through a few worker threads, and it may be killed at any time. The modules here are about the parts
of it whose correctness depends on that: what happens when something runs between two `await`s, when a
database call fails, and when the process dies in the middle.

Paths below are relative to the repository.

## 1. Inventory

### Job queue (`ts/jobs/JobQueue.ts`, `ts/jobs/JobQueueDatabaseStore.ts`)

A persistent queue for work that must survive a restart: sending messages, read syncs, spam reports.

| | |
|---|---|
| State | the `jobs` table; the store's AsyncQueue and `initialFetchPromise`; one `PQueue` of concurrency 1, or one per conversation; a completion promise per job; `#paused`, `#shuttingDown` |
| Operations | `add` (with the queue's own insert or the caller's), `streamJobs`, `enqueueStoredJob` (attempts, outcome, delete), `retryJobOnQueueIdle`, `pause`, `resume`, `shutdown` |
| Interactions | callers `add` and await `completion`; the database worker executes and answers; the conversation queue keeps jobs for a retry |
| Hard | `add` racing the first `SELECT`; a failed delete; shutdown between two attempts; a crash between an outcome and its delete |
| Correct if | a stored job is never lost; a job is in the hands of the process exactly once; jobs of a conversation keep their order; `shutdown()` resolves and nothing starts after it; every job finishes |

### AsyncQueue (`ts/util/AsyncQueue.ts`)

The hand-over between the callers of `add` and the `for await` loop of `streamJobs`. State: the array, the iterator
over it, the `#onAdd` callback. Hard: the array is replaced some microtasks after its iterator has
ended. Correct if every value comes out once, in order, and no wake-up is lost.

### Session transactions (`ts/SignalProtocolStore.ts`)

Sessions, sender keys and decrypted messages must change together: a ratchet that has moved on without
its message being stored is a lost message, and a ratchet that is moved back is a reused key.

| | |
|---|---|
| State | caches of the tables; three maps of pending writes; the zone (`#currentZone`, `#currentZoneDepth`, `#zoneQueue`); a session queue per device, a sender key queue per distribution, an identity queue per contact |
| Operations | `withZone`, `#enterZone`, `#leaveZone`, `#commitZoneChanges`, `#revertZoneChanges`; `enqueueSessionJob`, `loadSession`, `storeSession`, `saveSenderKey`, `addMultipleUnprocessed`, `archiveSession`, `archiveSiblingSessions`, `removeSession`, the purges, `saveIdentity` |
| Interactions | `MessageReceiver` decrypts whole batches in a zone of their own; senders use the global zone; libsignal calls back into the store in the middle of a cipher operation |
| Hard | maps emptied before the write is answered; records shared between caches and callers; locks of two kinds taken in both orders; a commit that fails after the body has ended |
| Correct if | a transaction is stored whole or not at all; no ratchet step is lost or taken twice; caches never run ahead of the tables; zones exclude each other; every caller gets its turn |

### Conversation job retries (`ts/jobs/conversationJobQueue.ts`) and challenge handler (`ts/challenge.ts`)

What the conversation queue does with a send that the server answers with 428, and with a recipient whose safety number changed.

| | |
|---|---|
| State | `#perConversationData`: BLOCKED, BLOCKED_WITH_JOBS, RUNNING or nothing, with `attempts`, `retryAt`, `jobs`, `callback`, a timer; the idle callbacks; `#verificationWaitMap`; the verification data of Redux. The handler's `#registeredConversations`, `#startTimers`, `#pendingStarts`, `#challengeToken`, the calls of `#solve` |
| Operations | `run` with its waiting loop, `retryJobOnQueueIdle`, `#captureRetryAt`, `#recordSuccessfulSend`, `#unblockConversationRetries`, `resolveVerificationWaiter`; `register`, `scheduleRetry`, `onResponse`, `onOnline`, `onOffline`, `#solve`, `load` |
| Interactions | the handler's `startQueue` resolves the waiter of a conversation, or unblocks its jobs; the user answers captcha and verification; the server accepts, rejects or asks again |
| Hard | state that is replaced by each of challenge, return, idle queue, timer and success; waiters whose wait has timed out; going offline while something is due; a token shared by several calls |
| Correct if | a kept job is in one place and has something that brings it back without the user; the backoff is not forgotten; every job ends |

### Message receiver (`ts/textsecure/MessageReceiver.ts`, the `unprocessed` table of `ts/sql/Server.ts`)

| | |
|---|---|
| State | the incoming, encrypted, decrypted and app queues; the batchers that decrypt and cache, and that remove; `isEmptied`, `stoppingProcessing`, `isAppReadyForProcessing`, `retryCachedTimeout`; the table |
| Operations | `handleRequest`, `decryptAndCacheBatch`, `queueDecryptedEnvelope`, `queueAllCached`, `maybeScheduleRetryTimeout`, `onEmpty`, `stopProcessing`, `getUnprocessedByIdsAndIncrementAttempts`, `removeUnprocessed` |
| Interactions | the server delivers until it is acknowledged; a batch is a call of `ZonedStore`; the app's handlers confirm |
| Hard | a crash, a reconnection or a rejecting commit between decryption, storing, acknowledging, handling and removal; rows that are read again while they are in hand |
| Correct if | what was acknowledged is on disk until it is dealt with, in plain text once its ratchet step is stored; `empty` comes after what it stands for; no row is left that nobody reads again |

### Receipts (`ts/messageModifiers/MessageReceipts.ts`, `ts/messages/MessageSendState.ts`)

| | |
|---|---|
| State | the rows of `syncTasks`, `cachedReceipts`, `processReceiptBatcher`; the model of the message in `MessageCache` and its row, with a send state for each recipient |
| Operations | `onReceipt`, `processBatch`, `forMessage`, `modifyTargetMessage`, `send`, `retryMessageSend`, `handleDataMessage` (transcripts and their updates), `runAllSyncTasks`, the reducer |
| Interactions | the receiver's handlers save and queue receipts; the send job and the transcript write the states they change |
| Hard | receipts that come before their message, between its two looks at them, and from two batches; statuses computed before an `await` and written after it |
| Correct if | no status goes back, and every receipt takes effect |

### Job manager (`ts/jobs/JobManager.ts` and its three managers)

| | |
|---|---|
| State | the table with `active`, `attempts`, `retryAfter`; `#activeJobs`, `#tickTimeout`, `#enabled`, `#saveJobsBatcher`, idle waiters |
| Operations | `addJob` (batched, or started out of turn), `#maybeStartJobs`, `#startJob`, `pauseForDuration`, `start`, `stop`, `cancelJobs`, `waitForIdle`, ticks |
| Hard | jobs that are counted before an `await` and started after it; a pause against a stop; the row of a job written by several hands |
| Correct if | the limit holds, no row is parked as active, and every job ends while the manager is on |

### The rest

`PROJECT.json` lists every component with its sources and the reason it is not modelled; section 6 sums them up.

## 2. Modules

| Module | What it is |
|---|---|
| `DurableJobs` | abstract: what a persistent queue promises |
| `JobQueue` | the job queue, its store, the table and the database worker; implements `DurableJobs` |
| `AsyncQueue` | the hand-over, microtask by microtask |
| `ZoneLock` | the zones: entering, leaving, handing over; its actions are conjuncts of the next two modules' |
| `ZonedStore` | the transactional store in these zones |
| `IdentityLocks` | zones, session queues and identity queue as locks |
| `Challenges` | the challenge handler; its actions are conjuncts of the next module's |
| `ConversationRetry` | the retries of the conversation queue, composed with `Challenges` |
| `EnvelopeCache` | the receiver from the websocket to the removal of the row |
| `JobManager` | the job manager |
| `SendState` | the reducer of send states, as operators |
| `Receipts` | receipts and the message they are about; extends `SendState` |
| `JobQueue_proof`, `AsyncQueue_proof`, `ZonedStore_proof`, `IdentityLocks_proof`, `JobManager_proof`, `Receipts_proof`, `ConversationRetry_proof`, `EnvelopeCache_proof` | theorems about the module they are named after |
| `MC`... | an instance of the module they are named after, for TLC |

Operators whose comment begins "Mutant of" are plausible bugs of the definition they name. No run uses them; they are
there to see each property fail.

### JobQueue

What runs between two `await`s is one action. `add[j]` says at which `await` the call of `add()` for `j` is;
`completion[j]` is its promise; `fetch` how far the initial fetch is; `waiting` the calls that await
`initialFetchPromise`. `stream` is what `streamJobs` has still to consume: the fetched rows, then the AsyncQueue. `queue[q]`,
`running[q]` and `attempt[q]` are a PQueue, the job in it and its attempt; `parked[q]` are the jobs the
conversation queue keeps for a retry, `putBack` (history) those it has kept in this process. The table is `db` and `stamp`. Writes are requests in `writes`, executed in order, with
answers in `acks` delivered in order: there is one writing worker (`ts/sql/main.ts`). Reads go to another worker, so `DbFetch` may
execute before or after any write.

Two simplifications need a reason. *The AsyncQueue is a sequence*: answers of the database arrive each in a macrotask of its own, so the
microtasks that separate the end of the array from its replacement are over by then; the calls that await `initialFetchPromise` run
back to back before the consumer does. `AsyncQueue` models the hand-over itself, and shows that under this
condition (`AddsWhileEnding = FALSE`) it is a queue. *`run()` is a choice* between success, failure and NEEDS_RETRY: what a job does is not the queue's
business.

### ZoneLock, ZonedStore

A *call* is an outermost `withZone`. Nested calls are for the zone their caller is in and end before it, so they change nothing but the depth.
`Work[c]` is what the body does, one piece after the other: a batch runs its envelopes one by one, because the
receiver's `encryptedQueue` has concurrency 1 (`ts/textsecure/MessageReceiver.ts:328`), and ends with its unprocessed rows;
every batch has a `Zone` of its own. A call in the global zone is a single operation, committed at once.

The value of a key is the set of steps that made it: a cipher operation stores what it read with its own
step added. A step that somebody overwrote is missing, a state that two cipher operations started from shows in what they
loaded. This is all the properties need to know of a ratchet.

`pending`, `cache` and `table` are the three places a value can be in; `Visible` looks them up in the order of `loadSession`. libsignal is
external: it is modelled by the calls it makes, load then store, and by `archiveCurrentState`, which changes the record it is called on, the one in the cache.

### IdentityLocks

The same zones with the queues that are taken inside them. A session job holds its session queue while libsignal saves the identity key on the
identity queue; a changed key makes `saveIdentity` archive the sibling sessions, each on its session queue, before it leaves the identity queue.
Data is left out: the module is about who waits for whom. The 30 minutes after which a `PQueue` gives up on a task
are left out too: they end a deadlock, they do not prevent it.

### Challenges, ConversationRetry

`run[c]` is the call of `run()` that holds the conversation's PQueue, `at` one of its `await`s; one pass of its loop is `Start`, `Load`,
`Pass` and one of the waits. `returned[c]` are jobs that have returned NEEDS_RETRY and of which `retryJobOnQueueIdle` has not been called
yet, `data[c]` is `#perConversationData`. UNBLOCKED is not a status here: the code leaves it for RUNNING before it awaits
anything. A timer that `data` no longer names is a stray one; the code never clears it, and it calls the callback of its time. `waiters` may hold a waiter whose job has stopped
waiting, as `#verificationWaitMap` does. `Droppable` are the jobs that untrusted recipients end (`ProfileKey`, `ProfileKeyForCall`, `Receipts`), `ProfileKeys` those of them that a pending verification ends too.

Time is what has come: a `retryAt` is absent, later or past, and matures by an action of its own; the waiting loop's
`MAX_RETRY_TIME` is `GiveUp`, which may happen on every pass. `attempts` is counted up to `MaxBackoff`, where FIBONACCI ends.
The handler's `online`, `rateLimited`, `asking` and `responding` are the state of its calls of `#solve`; user and server answer or do not.

### EnvelopeCache

An envelope that is delivered again has another id, so an id is a message and a number. `used` is the ratchet: a message
whose step is stored does not decrypt again. That steps and rows are written together or not at all is what `ZonedStore` shows of a batch
(`AllOrNothing`, `StepsWithMessage`), and is used here as one action, `Commit`.

`pipe` has the four queues and the list of the batcher. A task that only hands something over (`HandOver`) is over before anything else happens: all other
actions wait for `~HandOverDue`. What takes an `await` of the database, the cipher or a handler is an action of its own. The `empty`
of the server carries the ids delivered before it, so that `EmptyIsEarned` can be stated; nothing in the model looks at them.
`doubled` has the messages whose encrypted row was read while it was in the hands of the batcher, and those of which a failing batch had decrypted one envelope and failed another (see *Findings*).

### JobManager

A row is `active`, `attempts` and `retryAfter`; `calls[j]` is the call of `startJob` of a job that is in `#activeJobs`, before or after the result of `runJob`.
`reading` is what a call of `maybeStartJobs` will get from `getNextJobs`; a second call finds the first and does nothing, which the model
keeps as a set so that a mutant may hold two. The operator `MaybeStartJobs` is a conjunct of every action whose code calls it.
`start()` is three actions, one after each of its `await`s (`starting`). Each write of `startJob` may be rejected: a row that could not be marked active, removed or saved for a retry goes to the catch (`failing`, `Caught`), and
a row that the catch could not write either is `parked`.

### SendState, Receipts

`SendState` is the reducer on a status, without timestamps. `Receipts` has one message. `message` is the model in `MessageCache`, which all
who hold it share, and `stored` its row. `handling` says how far the transcript is: its first look at the receipts, the save, the second
look, handled; or `here`, when it was sent from this device. `taken` are the receipts `forMessage` has in hand, whose rows it has deleted;
`forgone` those without an effect, with the reason in the actions that add to it.

## 3. Runs

| Run | Question | Instance | States |
|---|---|---|---|
| `jq_durable` | Is a stored job ever lost, which promises settle before their row is gone, and does the queue implement `DurableJobs`? | 3 jobs in 2 conversations, one with a custom insert, one unreadable; `add` before, during and after the fetch; jobs kept for retries; one crash, one failing database call, shutdown | 5.6 M |
| `jq_streamed` | When jobs are added only after `streamJobs`, is each in hand exactly once and in order, also around retries; does shutdown drain and start nothing? | 3 jobs, 2 attempts, jobs kept for retries, a pause, a crash, shutdown | 4.8 M |
| `jq_live` | Is the order of custom inserts kept, does every job finish, and does `shutdown()` resolve? | 3 jobs, the two of one conversation with custom inserts, the third unreadable; `add` from the reading of the rows on, 2 attempts, a pause, a crash, shutdown | 329 K |
| `aq_alone` | Is the AsyncQueue a queue, and does every value come out? | 2 values, 5 calls of `add` | 1.5 K |
| `zs_transactions` | Are transactions whole, and ratchet steps neither lost nor taken twice? | two batches and two senders on one session, a sender key, two messages; a body that throws, failing operations, a failing commit, a crash | 107 K |
| `zs_live` | Does every call of `withZone` settle? | a batch, and a send, an archive, a purge and a removal of one session | 33 K |
| `zs_stuck` | (violated) Is a zone left when its commit fails? | the calls of `zs_transactions`, one failing call | |
| `il_profile` | Are there deadlocks between zones, session queues and identity queue? | two batches, a send and a profile fetch, two devices | 880 |
| `cr_retry` | Is a kept job in one place with something that brings it back; does the backoff grow; does every job end? | one conversation, a job that shows a captcha, one that is dropped at untrusted recipients, one that is also dropped at a pending verification; a registration of the last process; challenges with and without a token; 2 attempts, one 428, other failure or time offline | 374 K |
| `ec_cache` | Is what was acknowledged on disk until it is dealt with; does `empty` come last; is every row read again? | one message delivered twice, two failures, an attempt after the first, one crash, reconnection or stop | 2.2 M |
| `jm_jobs` | Does the limit hold, is no row left active with nobody running it, does every job end and `waitForIdle` resolve? | 2 jobs, a limit of 1, 2 attempts, 2 calls of `addJob`, two of: retry, rate limit, rejected write, stop, cancellation, call, restart | 181 K |
| `rc_receipts` | Does a status go back, is a receipt forgotten, does each due one take effect? | 2 recipients, a delivery and a read receipt of the first and a delivery receipt of the second, whom only an update of the transcript names; sends, retries, one restart | 124 K |

Every module has a `TypeOK`; that of `JobQueue` is checked by a run, those of `JobQueue`, `ZonedStore`, `IdentityLocks`, `ConversationRetry`, `JobManager` and `Receipts` are proved (of `EnvelopeCache` what the proofs need, `HandsTyped`), the others were
checked on the instances above. `MCZonedStore` and `MCIdentityLocks` assume the hypotheses of the theorems about their modules (section 4), so that TLC
evaluates them on the instances: `SendersAndBatches` where the calls are those of `zs_transactions`, and `SiblingsApart`.

**Why the bounds are enough.** Two jobs in a conversation and one beside it are what order and independence take; a third in the same
conversation would only repeat the second. The races of `add` with the fetch are between one job and the fetch. One crash
and one failing call let every action be followed by each; two crashes differ from one only in what the table
holds, which is arbitrary after the first. Two attempts have a first, a last and a retry between them. Two zones with calls in
them and the global one are what it takes for two different zones to wait; the safety properties of `ZonedStore` are about pairs of calls.
In `ConversationRetry` the state of a conversation is its own: what conversations share (the token, being online, the calls of `#solve`) one of
them meets with its own earlier calls. The envelopes of `EnvelopeCache` meet only in the queues, and one message with two ids is two envelopes there; the instance
with two attempts after the first and one failure (5.1 M states) holds too. So does `ConversationRetry` when the job that shows a captcha is one that is dropped
at untrusted recipients (`Droppable = {n1, s2}`, a `ProfileKeyForCall`; 379 K states).
A limit of 1 and two jobs is the smallest instance in which a job must wait for another; a forced start goes over the limit there. In `Receipts` recipients are
independent but for the row they share.

**Fairness.** Weak fairness of each kind of continuation: the event loop runs what is ready, the database worker executes and
answers what it was asked, timers and PQueues start what is next. `jq_live` also assumes that `run()` settles, which is up to
the jobs (the PQueues of the job queues have no timeout, `JobQueue.ts:72`, `ts/jobs/helpers/InMemoryQueues.ts:15`: a `run()` that hangs holds its queue until the process ends), and that whoever pauses a queue resumes it: the one queue that is
paused, while the lightbox shows (`ts/jobs/AttachmentDownloadManager.ts:585`), is resumed when it is closed (`ts/state/ducks/lightbox.ts:119`). Nothing is assumed of crashes, failures,
shutdown, or callers. `zs_live` has no failing database call, since `zs_stuck` shows what one does.
`cr_retry` asks nothing of user, server or network; `SF(GiveUp)` stands for time: every pass of the waiting loop takes some of the
`MAX_RETRY_TIME` after which the job is given up. `jm_jobs` assumes that the jobs that run end, that the database answers, that ticks fire, that a call is hung up some day, and
nothing of callers of `start`: its properties are about a manager that is not off, that is, neither stopped nor in a pause that has lost its timer (`PauseEnds`, see *Findings*). `rc_receipts` assumes that the next process handles a transcript that is
still unprocessed (`RowIsWatched`) and runs its sync tasks, and nothing of sends, retries and new receipts.

**Deadlock checking is off** in all runs: all of these systems stop when their callers have made their last call. The liveness runs show that
they do not stop before.

### Findings

`zs_stuck` — a commit that rejects at the end of a body is outside the `try`, so the zone is never left (`ts/SignalProtocolStore.ts:1152`): the calls of
other zones wait for ever.

The instances of the passing runs, or a named exception in a property, leave out what TLC found to break the properties there. Each is recorded as a hazard with
its line; widening the instance, or dropping the exception, shows it again:

| What | Where | Shown by |
|---|---|---|
| A job added before `streamJobs()` whose write is executed after the first `SELECT` waits for the next start. | `JobQueueDatabaseStore.ts:35` | `NotOrphaned` with `"none"` in `AddPhases` |
| A custom insert executed before that `SELECT` and answered after it runs twice. | `JobQueue.ts:190` | `OneInstance` with custom inserts and `"asked"` |
| Values added while the array of an AsyncQueue is ending are lost. | `AsyncQueue.ts:37` | `InOrder` with `AddsWhileEnding = TRUE` |
| `archiveSession` stores the entry it looked up before it was queued, and changes it in the cache at once. | `SignalProtocolStore.ts:1640` | `NoLostUpdate`, `CacheIsCommitted` with an archive |
| The purges delete memory first and table last. | `SignalProtocolStore.ts:1596` | `CacheMatchesTable` with a purge |
| `saveSenderKey` swallows the error of its commit. | `SignalProtocolStore.ts:913` | `StateUsedOnce` with sender keys in the global zone |
| A profile fetch with a changed key holds the identity queue and waits for a sibling's session queue, whose send waits for the identity queue. | `SignalProtocolStore.ts:2094` | `NoWaitCycle` with a send to a sibling |
| A reading of the `unprocessed` table gets rows that are in the batcher's hands: the failure of the second decryption replaces the stored plaintext. | `MessageReceiver.ts:998` | `PlainKept` without `doubled` |
| An old counter that a failing batch met because of its own decryption stays on the list of removals: a row that is read, decrypted and stored before the list is executed is deleted with its plaintext. | `MessageReceiver.ts:2057` | `PlainKept` without `Undone` in `doubled`, with `MaxAttempts`, `MaxEnds` 3 |
| A stored plaintext whose handler fails again after `empty` is not scheduled again before the next batch, `empty` or start. | `MessageReceiver.ts:980` | `RowIsWatched` without its condition on `attempts` |
| A job that is rate-limited while `start()` awaits `markAllJobsInactive` or `maybeStartJobs` pauses the manager; the `#tick` at the end of `start()` replaces the timer of the pause, and nothing enables the manager again until `start()` is called. | `JobManager.ts:98` | `PauseEnds` on the instance of `jm_jobs`; `JobsEnd`, `IdleResolves` with `~enabled /\ timer = "none"` for `Off` |
| When the write in the catch of `startJob` is rejected too, the row stays active until the next start. | `JobManager.ts:331` | `ActiveRowsRun`, `JobsEnd` without `parked` |
| A plain insert that waits for the rows is overtaken by a custom one of its conversation that was added later. | `JobQueueDatabaseStore.ts:37` | `NoOvertaking` without `Alike` |
| A job that was cancelled while it ran is saved again for its retry. | `JobManager.ts:429` | `CancelDone`, then `Retried` |
| `forMessage` deletes a receipt's row before the message is saved. | `MessageReceipts.ts:422` | `NoneForgotten` without `forgone` |
| A receipt of a recipient that only a later update names is dropped. | `modifyTargetMessage.ts:147` | the same |

## 4. Proofs

Each theorem is about every choice of the constants that satisfies the modules' assumptions: any jobs and queues, any calls, zones and work, any
receipts and recipients, any number of crashes and failures. Where the code does not do in general what a property says (section 3, *Findings*), the theorem has
a named hypothesis, which leaves out exactly that and is true of the instance of the run that checks the property.

| Theorem | What it says |
|---|---|
| `TypeCorrect` | `JobQueue`: `Spec => []TypeOK` |
| `StoreInvariant` | `JobQueue`: `Spec => []StoreInv`, the inductive invariant |
| `JobsAreNotLost` | `JobQueue`: a job whose `add()` resolved keeps its row until its outcome |
| `QueueIsDurable` | `JobQueue` implements `DurableJobs` |
| `SettlesAfterDelete`, `NothingStartsInShutdown`, `ShutdownDrains` | `JobQueue`: `Spec => []SettledAfterDelete`, `Spec => NoStartInShutdown`, `Spec => []ShutdownDrained` |
| `EveryJobTakenUpOnce` | `JobQueue`: `[]OneInstance` if `Custom = {}` |
| `NoJobIsOrphaned` | `JobQueue`: `[]NotOrphaned` if `"none" \notin AddPhases` |
| `NothingOvertakes` | `JobQueue`: `[]NoOvertaking` if `"none" \notin AddPhases`, and `Custom = {}` or `"asked" \notin AddPhases` |
| `ValuesInOrder` | `AsyncQueue`: `~AddsWhileEnding => (Spec => []InOrder)` |
| `TransactionsExclude`, `TypeCorrect` | `ZonedStore`: `Spec => []ZoneExclusion`, `[]TypeOK` |
| `NoStepIsUndone`, `RatchetsAdvance` | `ZonedStore`, of single sends and batches alone (`SendersAndBatches`): `Spec => NoLostUpdate`, `[]StateUsedOnce` |
| `TransactionsAreAtomic`, `StepsKeptWithMessage` | the same: `[]AllOrNothing`, `[]StepsWithMessage` |
| `CachesFollowTables`, `IdleCachesMatch` | the same: `[]CacheIsCommitted`, `[]CacheMatchesTable`; not of a process that also archives (which breaks the first) or purges (which breaks the second) |
| `LockTypes`, `LocksAreOrdered` | `IdentityLocks`: `Spec => []TypeOK`; `[]NoWaitCycle` if `SiblingsApart` |
| `KeptJobsComeBack`, `BlockedWhileReturning`, `TokenIsAwaited`, `RetryTypeCorrect` | `ConversationRetry`: `Spec => []KeptJobsHaveTrigger`, `[]BlockedIsShort`, `[]TokenHasAsker`, `[]TypeOK` |
| `JobsHaveOnePlace`, `BackoffIsKept` | `ConversationRetry`: `Spec => []OnePlace`, `Spec => BackoffGrows` |
| `AcknowledgedIsKept`, `PlaintextIsKept` | `EnvelopeCache`: `Spec => []NoneLost`, `[]PlainKept` |
| `EmptyComesLast`, `RowsAreWatched` | `EnvelopeCache`: `Spec => []EmptyIsEarned`, `[]RowIsWatched` |
| `LimitHolds`, `ActiveRowsDoRun`, `ManagerTypeCorrect` | `JobManager`: `Spec => []ConcurrencyBound`, `[]ActiveRowsRun`, `[]TypeOK` |
| `ReceiptsCommute`, `HighestTells` | `SendState`: the order of receipts makes no difference, and the higher of two tells |
| `ReceiptsNoneForgotten`, `ReceiptsNeverBackwards`, `ReceiptsTypeCorrect` | `Receipts`: `Spec => []NoneForgotten`, `Spec => NeverBackwards`, `Spec => []TypeOK` |

### JobQueue

`NoLostJob` says that an added job without an outcome is in the table. It is not inductive: to keep it, a step that deletes a row must know
that the job had its outcome, and a step that resolves `add()` must know that the row is there. `StoreInv` adds that, in five parts. `Held`: every job in the
stream or a queue has a row or an outcome. `Told`: so has every job whose insert was answered. `DeletesFinished`: a delete
is requested only for a job with an outcome. `Once`: one insert at most is under way for a job. `Awaited`: it is the one that its `add()`
waits for, and the job has no row yet. The last two are what makes a row be *written* once, which `DurableJobs` also asks for: without them a second
insert could bring back a finished job. The refinement then follows step by step: `DbWrite` is `Persist`, `Remove` or a stutter, what resolves `add()` is `Accept`,
what ends a job is `Finish`.

`SettledAfterDelete` looks at the promise and the table, which a step apart may both change; only a job that was put back may have a resolved promise and a row, and only one that shutdown turned away a rejected one. `SettledInv` adds that an answered delete is of a job that had its outcome and has no row
(`Deleted`), and that a promise settles only for a job that was stored (`SettledKept`): by `StoreInv` no insert of such a job is left.

`ShutdownDrained` is about what `onIdle` answered. `DrainInv` says that a PQueue with a running job has not been idle since `shutdown()`: what is taken up
later is turned away within the step that starts it, so it never comes to run.

`OneInstance` counts the copies of a job in the stream, its queue, with the runner, among the kept ones and in the deletes under way. A job has two ways in: its row may be fetched, or its `add()`
pushes it. `CopiesInv` keeps them apart: before the rows are read there are no copies at all (`NothingYet`), and an insert that awaited the fetch is one that was not read (`NotRead`). It is needed that
nothing lies in another queue's hands (`InTheirQueue`) and that a requested delete is of a finished job. What appending, taking the head and removing do to the count are lemmas, since an induction over
sequences is out of reach. The hypothesis is needed: a custom insert does not wait for the fetch, so that its row may be read and its job pushed too.

`NotOrphaned` is the other bound. `StreamedInv` says that no insert is under way that does not know of the fetch (`InsertsAwaitFetch`, from the hypothesis) and that from the reading of the rows to shutdown
an added job without an outcome has a copy (`NoneLeft`). A plain insert before `streamJobs()` is only a row, and if the rows have been read by then it stays one.

`NoOvertaking` compares two jobs of a conversation that were inserted *alike*, both by the queue or both by their callers, and of which neither was put back for a retry (`putBack`): those come back behind
younger ones, which is what the code means by a retry. So it speaks of the queue of the conversations as it is, with its custom inserts and its retries. A plain insert waits for the rows of the last process and a custom
one does not, so between the two the code keeps no order; `conversationJobQueue.add` is called both ways. `OrderInv` follows the stamps along the pipeline. They grow with each `add()` (`Stamped`); calls of one kind wait for the fetch, are
inserted and end in their order (`InTurn`, `Waits`, `Inserts`: requests and answers of the database worker are first in, first out), except that an insert that fails overtakes, which leaves nothing to run (`Kept`); only ended ones are taken up
(`Taken`), from which point a pair in order stays so in what is streamed, waits and runs (`Lined`), since putting one back only takes pairs away (`LooserRelations`). The hypotheses are the two places where the code keeps no order: an `add()` before
`streamJobs()`, and a custom insert while the rows are being asked for, which the fetch may find.

### AsyncQueue

`InOrder` needs `SleepsOnEmpty`: replacing the array loses nothing only because its iterator was at the end, which is so if nothing was added since.

### ZonedStore

`ZoneExclusion` is kept by entering only if the call is not in the zone or its queue already. `ExclusionInv` adds that a call not yet made is in neither
(`IdleOutside`). What entering and leaving keep is stated about the actions of `ZoneLock` alone (`ZoneInitial`, `EnterKeeps`, `LeaveKeeps`), here and in `IdentityLocks_proof`.

The data properties are proved of `SendersAndBatches`, and each of these theorems says only that much: calls that decrypt a batch in a zone of their own, with the rows of its messages, and senders that encrypt
once in the global zone. Its clauses are what the code does in these calls: `decryptAndCacheBatch` makes a new `Zone` (`MessageReceiver.ts:1025`), a row is added under a new
UUID, a sender's cipher operation is one `enqueueSessionJob` whose store is committed at once. What it leaves out either takes values away on purpose (archive, remove, purge), replaces a row (an envelope
retried from the cache) or is recorded as a hazard (`saveSenderKey` in the global zone). TLC checks those calls where it can, in `zs_live`.

`StoredInv` joins several views of a step. `WorkLeft` and `TurnHeld` (`ControlInv`): a call at a piece of work has one, and one that uses a session is at the head of its queue. `CallShape`, `FlightLine`,
`FlightShape`: a call has at most one entry in the two queues of the database worker, waits for it inside, and the entry covers only what the call has written. `ValueInv` says for each key how the places of
its value differ. What is pending is the row with steps of the batch that is inside (`PendingShape`); what is requested is the row with steps of its call (`RequestsGrow`); what was answered is the row
(`AnswersTrue`); the cache is the row or waits for such an answer (`CacheBehind`); what a running session job has read is what it would read now (`LoadedCurrent`). `CallFate` and `FlightFate` say for each phase of a call
whether all or nothing of what it wrote is stored, pending or requested; `StepsBuild` and `ChainBuilt` that a step that is stored was made from a value with every step stored before it. `StateUsedOnce` speaks of
calls that wrote a step: a batch whose one envelope does not decrypt resolves without.

### IdentityLocks

`NoWaitCycle` would follow from an order of the locks, but session and identity queue are taken in both orders. `LockInv` (`ZoneOK`, `PhaseOK`, `IdentityOK`,
`SessionOK`) says in which queues the phase of a call puts it, and the argument goes over the calls of a supposed circle instead. A call that archives siblings waits for nobody: by `SiblingsApart` the sessions it
archives are used in another zone only, and by `ZoneExclusion` nobody of another zone is inside. Neither does one that has saved the identity. So a call in the identity queue waits only for earlier ones there, of a circle
without these calls one in a session queue only for earlier ones there, and a call outside only for those inside. In each case the first of the circle in that queue (`FirstOfThem`, by the well-ordering of the naturals) waits for nobody of the circle. The code does not see to
`SiblingsApart`: a profile fetch and a send to a sibling device are both in the global zone. The theorem says that without this, the hazard at `SignalProtocolStore.ts:2094`, these locks do not deadlock.

### JobManager

`ConcurrencyBound` counts jobs at a time when nobody decides: `maybeStartJobs` counted before its `await`. `ManagerInv` says that one call reads at a time and that there will
be room for what it found (`Room`), whatever is started out of turn or ends meanwhile. That what was found is no more than the limit asked for is `NewestAreFew`, by the pigeonhole
principle: jobs differ in how many newer ones there are. `ActiveRowsRun` is about an enabled manager; to survive a stop, the end of a pause and a restart it
becomes `Quiet \/ Marked`: an active row is that of a job whose result is to come, or one that a rejected write of the catch has `parked`, or nothing can start before `start()` resets the rows. The assumptions are those of the module: finitely many jobs, with different
`receivedAt`.

### Receipts

`NeverBackwards` is about what the table says, but most of the writers compute from the model in `MessageCache`. `ReceiptsInv` says that the two agree where
both are there (`InStep`), how far the transcript is when which of them exists (`Progress`), and that what the batch is about to remove, or `forMessage` has put into
a message that is not saved, shows in it (`InHandShown`); with `NoneForgotten` that is inductive. Every writer puts a status *onward* of the one it
read, which is a fact about the reducer (`NumbersDiffer`: the order of the statuses is total), and `StoredOnward` says once what follows for all writers.

### ConversationRetry

`KeptJobsHaveTrigger` and `BlockedIsShort` are about one conversation's data, and every writer of `#perConversationData` must keep both: `DataAt` states them, with the type
and "jobs are kept in `BLOCKED_WITH_JOBS` alone", of the data, the jobs on their way back and whether there is a callback or a stray timer. `Running`, `Captured` and `Kept` are shown to give such data
once each (`RunningFits`, `CapturedFits`, `KeptFits`); an unblock may come at any time because `RunningFits` asks for no callback. `RunOK` adds that what runs is a job, so that only jobs are kept, and that a
throw leaves an attempt. `TokenHasAsker` is inductive with the types of the handler (`DialogOK`). The assumption is `JobsAssumption`.

`OnePlace` needs the places of a job apart. `PlacesInv` says of the four of them that each has a job once, that no two share one, that together they have exactly the jobs with a row
(`Rows`), and that `run()` is idle iff no job is in it. Each action moves one job between two neighbouring places, or all kept ones behind the queue (`JobsStayOrComeBack`). `BackoffGrows` follows with `CountInv`, that a
conversation without a status has no attempts: the one step that forgets attempts is the success of a send, and its job had a row until then (`RunningHasRow`).

### EnvelopeCache

`NoneLost` and `PlainKept` say of the table what it should have, but a row is deleted by what has been on `cacheRemoveBatcher` for a while, overwritten by what a batch has held since it was read, and
given up by a batch that fails. `KeptInv` therefore follows an envelope through all hands. `BatchParts`, `OneHand`: what a batch has taken waits, is decrypted or has failed, and no envelope is in two hands. `Closed`, `RowThere`: what
waits for its decryption has no plaintext row, and its encrypted one if it came from the table. `Removals`: what is on the list of removals is settled, or an encrypted duplicate of a message whose step is stored
or is about to be. `CommittedRows`: between commit and answer all that was taken has its row.

The hard part is that one message has several envelopes: a second one is acknowledged and thrown away as an old counter, and this is right only if the first one was stored. That is a matter of order. Of
one message at most the newest envelope is live (`Numbered`), it is not in the table (`LiveFresh`, `NewRequests`), and it is behind the earlier ones in the queue, the batcher and the batch (`FirstIn`); so an envelope of an acknowledged message comes to
the cipher after one that has been decrypted (`AckedLast`). What the queues hold, and in which order, is stated by `ToSet` and `Rising`, whose lemmas (`HoldsAppend`, `HoldsTail`, `HoldsBoth`, `HoldsCut`) replace inductions over sequences.
The exceptions, `doubled`, are in the properties, at exactly the steps that break the order: without the second, a failing batch takes back the step that `Removals` relies on, which the proof brought to light.

`EmptyIsEarned` is about the head of the last queue. `EarnedInv` says of each queue that what an `empty` or drain comes after is through with that queue, or ahead of it there (`Behind`), where what is through with a queue (`ThroughApp`, `ThroughDecrypted`, ...)
is what is in the later ones or done. `WaitForBatcher` is what carries this across the batcher, which is not a queue: an idle batcher holds nothing.

`RowIsWatched` speaks of new rows and of the time before `empty`. `WatchInv` splits it: until `isEmptied`, `empty` is to come from the server or in a queue (`EmptyAnnounced`); after it a row without an attempt has the timer, a read or the last envelope of
its batch behind it, or its batch has still to answer and will set the timer itself (`NewRowsWatched`).

**Only model-checked**: liveness (`EveryAddedJobFinishes`, `ShutdownResolves`, `EveryValueIsConsumed`, `CallsSettle`, `JobsFinish`, `JobsEnd`, `IdleResolves`, `ReceiptsApplied`), which
this prover cannot do. That `WithReceipts` is the receipts one by one is a fold, checked for the instance's values
by an assumption of `MCReceipts`; that two of them may be exchanged is proved.

## 5. Plan

The other message modifiers, of which `Receipts` is the pattern, and the retries on mismatched devices (`ts/textsecure/OutgoingMessage.ts`).

## 6. Not modelled, and why

The user interface, the start-up, calls, groups, backups and the updater are data, I/O or external engines; most of the repository's lines are there, and in
vendored and generated code. Sending, the connection, the storage service, conversations and profiles are retries around I/O, of
which the parts with state of their own (mismatched devices, reconnection, merging) are candidates.

Of the components that are partly modelled:

* *Session transactions*: prekeys, identity verification and session migration are single operations without a zone. That calls of another zone may
  starve while calls of the current one keep coming, and that a session job is timed out after 30 minutes while it goes on, are recorded in the source and not in the models: a
  timeout ends a deadlock, it does not prevent it.
* *Job queue*: `singleProtoJobQueue` and `callLinkRefreshJobQueue` run 5 and 10 jobs at a time, the model one in each `PQueue`. `deleteDownloadsJobQueue` is streamed at start and not shut down (`ts/jobs/initializeAllJobQueues.ts:52`).
* *Retries and challenges*: the status shown to the user (`setChallengeStatus`), the capping of `retryAt`, and what each type of job sends.
* *Receiver*: the expiry of rows after 45 days, the batcher's `maxSize` of 30, receipts the server sends, `drain()`, and what an envelope decrypts to. An `empty` of the previous
  connection that is still in the queues sets `isEmptied` for the new one; `EmptyIsEarned` is about what it stands for.
* *Receipts*: the copies of a story, among which a batch looks for its message when it finds no other (`MessageReceipts.ts:142`), and receipts of a reaction, which end there (`MessageReceipts.ts:108`); reactions, edits, deletes, read and view syncs; the eviction of a model from `MessageCache` while somebody holds it;
  receipts that the settings drop stay in `cachedReceipts` until they expire.
* *Job manager*: jobs that add jobs (`newJob`), priority downloads, an error of `getNextJobs` or `markAllJobsInactive`, rejected saves of `addJob` (its callers see them), a second `start()` while one awaits.
* *Batchers*: `removeAll` and `flushAndWait`.

Time is left out everywhere: a timer may fire at any time. What a job, an envelope or a record contains is left out.
