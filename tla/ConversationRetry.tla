-------------------------- MODULE ConversationRetry --------------------------
(***************************************************************************)
(* The retries of the conversation queue (ts/jobs/conversationJobQueue.ts) *)
(* with the challenge handler: which jobs wait for a captcha or a          *)
(* verification, which are kept for later, and what brings them back.      *)
(*                                                                         *)
(* What runs between two awaits is one action.  The rows of the jobs are   *)
(* JobQueue's; here a job's row goes when the job is done.                 *)
(***************************************************************************)
EXTENDS Challenges, Sequences, Functions

CONSTANTS
  Jobs, ConversationOf,
  Silent,        \* jobs for which shouldSendShowCaptcha is false
  Droppable,     \* jobs that are dropped when they find untrusted recipients
  ProfileKeys,   \* the ones of them that do not wait for a verification either
  Persisted,     \* registrations the last process may have left
  Answers,       \* what the server asks for with a 428
  MaxAttempts,
  MaxTroubles,   \* bound: answers 428, sends that fail otherwise, times offline
  MaxBackoff     \* attempts are counted this far: FIBONACCI is that long

ASSUME JobsAssumption ==
  /\ ConversationOf \in [Jobs -> Conversations]
  /\ Silent \subseteq Jobs /\ Droppable \subseteq Jobs /\ ProfileKeys \subseteq Droppable \cap Silent
  /\ Persisted \subseteq Call /\ \A p, q \in Persisted : p.conversation = q.conversation => p = q
  /\ Answers \subseteq [retryAt : {"never", "later"}, token : BOOLEAN]
  /\ None \notin Jobs
  /\ MaxAttempts \in Nat \ {0} /\ MaxBackoff \in Nat \ {0}
  /\ MaxTroubles \in Nat

VARIABLES
  queue,          \* the PQueue of a conversation, without the running job
  run,            \* the call of run() that holds the PQueue
  returned,       \* jobs that returned NEEDS_RETRY, before retryJobOnQueueIdle
  data,           \* #perConversationData
  idleCallbacks,  \* conversations whose callback awaits queue.onIdle()
  strayTimers,    \* conversations with a timer that data does not name any more
  waiters,        \* #verificationWaitMap
  verification,   \* verificationDataByConversation
  verified,       \* conversations verifyConversationsStoppingSend has yet to resolve
  isShuttingDown,
  added,          \* jobs that have had a row
  finished,       \* jobs whose row is gone
  turnedAway,     \* jobs that found the queue shut down
  troubles        \* how many there have been

jobVars == <<queue, run, returned>>
retryVars == <<data, idleCallbacks, strayTimers>>
userVars == <<verification, verified>>
endVars == <<finished, turnedAway>>
vars == <<challengeVars, jobVars, retryVars, waiters, userVars, isShuttingDown, added, endVars, troubles>>

NoRun == [job |-> None, at |-> "idle", attempt |-> 0, blocked |-> FALSE, goOn |-> FALSE]
NoData == [status |-> "none", attempts |-> 0, retryAt |-> "never", jobs |-> <<>>, timer |-> FALSE]

(* Mutants of Running: the jobs stay, or the attempts are forgotten.       *)
RunningWithJobs(d) == [d EXCEPT !.status = "RUNNING", !.retryAt = "never"]
RunningAnew(d) == IF d.status = "none" THEN d ELSE [NoData EXCEPT !.status = "RUNNING", !.attempts = 1]

Running(d) == IF d.status = "none" THEN d ELSE [NoData EXCEPT !.status = "RUNNING", !.attempts = d.attempts]
Trusted == [type |-> "none", jobs |-> {}]

(* MaxBackoff stands for every number of attempts from there on.           *)
OneMore(attempts) == IF attempts < MaxBackoff THEN attempts + 1 ELSE attempts

Init ==
  /\ \E calls \in SUBSET Persisted : ChallengeInit(calls)
  /\ queue = [c \in Conversations |-> <<>>]
  /\ run = [c \in Conversations |-> NoRun]
  /\ returned = [c \in Conversations |-> <<>>]
  /\ data = [c \in Conversations |-> NoData]
  /\ idleCallbacks = {} /\ strayTimers = {} /\ waiters = {}
  /\ verification = [c \in Conversations |-> Trusted]
  /\ verified = {} /\ isShuttingDown = FALSE
  /\ added = {} /\ finished = {} /\ turnedAway = {}
  /\ troubles = 0

-----------------------------------------------------------------------------
(* What several of the handlers do.                                        *)

(* #unblockConversationRetries.  BLOCKED_WITH_JOBS goes to UNBLOCKED and,  *)
(* in the callback, on to RUNNING before anybody can see it: the kept jobs *)
(* come after what is in the queue, in the order in which they were kept.  *)
Unblock(C) ==
  LET withJobs == {c \in C : data[c].status = "BLOCKED_WITH_JOBS"}
  IN /\ data' = [c \in Conversations |-> IF c \in C THEN Running(data[c]) ELSE data[c]]
     /\ queue' = [c \in Conversations |-> IF c \in withJobs THEN queue[c] \o data[c].jobs ELSE queue[c]]
     /\ Unregister(withJobs)
     /\ UNCHANGED registering

(* Mutant of Callback: no timer is set.                                    *)
CallbackWithoutTimer(c) ==
  IF data[c].status = "BLOCKED_WITH_JOBS" /\ data[c].retryAt \in {"never", "past"} THEN Unblock({c})
  ELSE UNCHANGED <<data, queue, records>>

(* The retry callback.  It clears the timer that data names.               *)
Callback(c) ==
  IF data[c].status # "BLOCKED_WITH_JOBS" THEN UNCHANGED <<data, queue, records>>
  ELSE IF data[c].retryAt \in {"never", "past"} THEN Unblock({c})
  ELSE /\ data' = [data EXCEPT ![c].timer = TRUE]
       /\ UNCHANGED <<queue, records>>

(* #recordSuccessfulSend                                                   *)
RecordSuccess(c) ==
  IF data[c].status = "BLOCKED_WITH_JOBS" THEN Unblock({c})
  ELSE /\ data' = [data EXCEPT ![c] = NoData]
       /\ UNCHANGED <<queue, records>>

(* resolveVerificationWaiter: where there is a waiter, nothing is          *)
(* unblocked.                                                              *)
ResolveWaiters(C) ==
  /\ waiters' = waiters \ C
  /\ run' = [c \in Conversations |->
              IF c \in C \cap waiters /\ run[c].at = "waiting" THEN [run[c] EXCEPT !.at = "checking"] ELSE run[c]]
  /\ Unblock(C \ waiters)

(* #captureRetryAt                                                         *)
Captured(d, retryAt) ==
  CASE d.status = "none" ->
         [NoData EXCEPT !.status = "BLOCKED", !.attempts = 1, !.retryAt = IF retryAt = "never" THEN "later" ELSE retryAt]
    [] d.status = "RUNNING" ->
         [NoData EXCEPT !.status = "BLOCKED", !.attempts = OneMore(d.attempts), !.retryAt = "later"]
    [] OTHER -> [d EXCEPT !.retryAt = "later"]

(* Mutant of Kept: BLOCKED stays as it was.                               *)
KeptBlocked(d, j) ==
  [d EXCEPT !.status = IF @ = "BLOCKED" THEN @ ELSE "BLOCKED_WITH_JOBS", !.jobs = Append(@, j), !.timer = FALSE]

(* The data of retryJobOnQueueIdle.                                        *)
Kept(d, j) ==
  [status |-> "BLOCKED_WITH_JOBS",
   attempts |-> CASE d.status = "none" -> 1 [] d.status = "RUNNING" -> OneMore(d.attempts) [] OTHER -> d.attempts,
   retryAt |-> IF d.status \in {"none", "RUNNING"} THEN "later" ELSE d.retryAt,
   jobs |-> Append(d.jobs, j),
   timer |-> FALSE]

At(c, step) == run' = [run EXCEPT ![c].at = step]
Release(c) == run' = [run EXCEPT ![c] = NoRun]

-----------------------------------------------------------------------------
(* The jobs.                                                               *)

Add(j) ==
  LET c == ConversationOf[j]
  IN /\ j \notin added /\ added' = added \cup {j}
     /\ queue' = [queue EXCEPT ![c] = Append(@, j)]
     /\ IF j \in Silent THEN UNCHANGED dialog ELSE MaybeSolve(c)
     /\ UNCHANGED <<records, serviceVars, run, returned, retryVars, waiters, userVars, isShuttingDown, endVars, troubles>>

(* An attempt begins, in enqueueStoredJob.                                 *)
Attempt(c, j, n) ==
  IF isShuttingDown
  THEN turnedAway' = turnedAway \cup {j} /\ Release(c)
  ELSE /\ run' = [run EXCEPT ![c] = [job |-> j, at |-> "loading", attempt |-> n,
                                     blocked |-> data[c].retryAt # "never", goOn |-> TRUE]]
       /\ UNCHANGED turnedAway

Start(c) ==
  /\ run[c].at = "idle" /\ queue[c] # <<>>
  /\ queue' = [queue EXCEPT ![c] = Tail(@)]
  /\ Attempt(c, Head(queue[c]), 1)
  /\ UNCHANGED <<challengeVars, returned, retryVars, waiters, userVars, isShuttingDown, added, finished, troubles>>

(* ConversationController.load() resolved: what was read before counts.    *)
NeedsRetry(c) ==
  /\ returned' = [returned EXCEPT ![c] = Append(@, run[c].job)]
  /\ Release(c)

Load(c) ==
  /\ run[c].at = "loading"
  /\ IF run[c].blocked /\ run[c].job \in Silent
     THEN NeedsRetry(c)
     ELSE /\ run' = [run EXCEPT ![c].at = "checking", ![c].blocked = FALSE]
          /\ UNCHANGED returned
  /\ UNCHANGED <<challengeVars, queue, retryVars, waiters, userVars, isShuttingDown, added, endVars, troubles>>

(* commonShouldJobContinue says no: it has been too long, or we did not    *)
(* come online in that time.                                               *)
GiveUp(c) ==
  /\ run[c].at = "checking"
  /\ run' = [run EXCEPT ![c].at = "sending", ![c].goOn = FALSE]
  /\ UNCHANGED <<challengeVars, queue, returned, retryVars, waiters, userVars, isShuttingDown, added, endVars, troubles>>

Finish(c) ==
  /\ finished' = finished \cup {run[c].job}
  /\ Release(c)
  /\ UNCHANGED turnedAway

(* run() throws: the next attempt begins, or the job is over.              *)
Throw(c) ==
  LET r == run[c]
  IN IF r.attempt < MaxAttempts
     THEN At(c, "thrown") /\ UNCHANGED endVars
     ELSE /\ IF isShuttingDown
             THEN turnedAway' = turnedAway \cup {r.job} /\ UNCHANGED finished
             ELSE finished' = finished \cup {r.job} /\ UNCHANGED turnedAway
          /\ Release(c)

NextAttempt(c) ==
  /\ run[c].at = "thrown"
  /\ Attempt(c, run[c].job, run[c].attempt + 1)
  /\ UNCHANGED <<challengeVars, queue, returned, retryVars, waiters, userVars, isShuttingDown, added, finished, troubles>>

Wait(c) == At(c, "waiting") /\ waiters' = waiters \cup {c}

(* The loop of run(), where the conversation has a challenge.              *)
AwaitCaptcha(c) ==
  /\ run[c].at = "checking" /\ online
  /\ IsRegistered(c) /\ run[c].job \notin Silent
  /\ IF isShuttingDown
     THEN Throw(c) /\ UNCHANGED <<waiters, dialog>>
     ELSE Wait(c) /\ MaybeSolve(c) /\ UNCHANGED endVars
  /\ UNCHANGED <<records, serviceVars, queue, returned, retryVars, userVars, isShuttingDown, added, troubles>>

(* ... and where it has none, or the job shows no captcha.                 *)
MayPass(c) ==
  /\ run[c].at = "checking" /\ online
  /\ ~IsRegistered(c) \/ run[c].job \in Silent

AwaitVerification(c) ==
  /\ MayPass(c) /\ verification[c].type = "pending"
  /\ Unblock({c} \ {d \in Conversations : IsRegistered(d)})
  /\ IF run[c].job \in ProfileKeys THEN Finish(c) /\ UNCHANGED waiters
     ELSE IF isShuttingDown THEN Throw(c) /\ UNCHANGED waiters
     ELSE Wait(c) /\ UNCHANGED endVars
  /\ UNCHANGED <<serviceVars, dialog, returned, idleCallbacks, strayTimers, userVars, isShuttingDown, added, troubles>>

(* A cancelled verification cancels the jobs there were at the time.       *)
Pass(c) ==
  /\ MayPass(c) /\ verification[c].type # "pending"
  /\ Unblock({c} \ {d \in Conversations : IsRegistered(d)})
  /\ run' = [run EXCEPT ![c].at = "sending", ![c].goOn = @ /\ run[c].job \notin verification[c].jobs]
  /\ verification' = [verification EXCEPT ![c] = IF run[c].job \in @.jobs THEN @ ELSE Trusted]
  /\ UNCHANGED <<serviceVars, dialog, returned, idleCallbacks, strayTimers, waiters, verified, isShuttingDown, added, endVars, troubles>>

WaitTimesOut(c) ==
  /\ run[c].at = "waiting"
  /\ At(c, "checking")
  /\ UNCHANGED <<challengeVars, queue, returned, retryVars, waiters, userVars, isShuttingDown, added, endVars, troubles>>

SendSucceeds(c) ==
  /\ run[c].at = "sending"
  /\ Finish(c)
  /\ IF run[c].goOn /\ ~isShuttingDown THEN RecordSuccess(c) ELSE UNCHANGED <<data, queue, records>>
  /\ UNCHANGED <<serviceVars, dialog, returned, idleCallbacks, strayTimers, waiters, userVars, isShuttingDown, added, troubles>>

Trouble == troubles < MaxTroubles /\ troubles' = troubles + 1

(* The server answers 428.                                                 *)
SendIsChallenged(c) ==
  LET silent == run[c].job \in Silent
  IN /\ run[c].at = "sending" /\ run[c].goOn
     /\ Trouble
     /\ \E challenge \in Answers :
          /\ Register(c, challenge, silent)
          /\ IF silent
             THEN /\ data' = [data EXCEPT ![c] = Captured(@, challenge.retryAt)]
                  /\ NeedsRetry(c) /\ UNCHANGED endVars
             ELSE Throw(c) /\ UNCHANGED <<data, returned>>
     /\ UNCHANGED <<serviceVars, dialog, queue, idleCallbacks, strayTimers, waiters, userVars, isShuttingDown, added>>

(* conversationStoppedByMissingVerification                                *)
SendIsStopped(c) ==
  /\ run[c].at = "sending" /\ run[c].goOn
  /\ Trouble
  /\ IF run[c].job \in Droppable
     THEN Finish(c) /\ UNCHANGED verification
     ELSE /\ verification' = [verification EXCEPT ![c] = [type |-> "pending", jobs |-> {}]]
          /\ Throw(c)
  /\ UNCHANGED <<challengeVars, queue, returned, retryVars, waiters, verified, isShuttingDown, added>>

SendFails(c) ==
  /\ run[c].at = "sending"
  /\ Trouble
  /\ Throw(c)
  /\ UNCHANGED <<challengeVars, queue, returned, retryVars, waiters, userVars, isShuttingDown, added>>

-----------------------------------------------------------------------------
(* The jobs that are kept.                                                 *)

(* Mutant of Keep: the timer is cleared with the data that names it.       *)
KeepClearingTimer(c) ==
  /\ returned[c] # <<>>
  /\ returned' = [returned EXCEPT ![c] = Tail(@)]
  /\ data' = [data EXCEPT ![c] = Kept(@, Head(returned[c]))]
  /\ idleCallbacks' = IF data[c].status = "BLOCKED_WITH_JOBS" THEN idleCallbacks ELSE idleCallbacks \cup {c}
  /\ UNCHANGED <<challengeVars, queue, run, strayTimers, waiters, userVars, isShuttingDown, added, endVars, troubles>>

(* retryJobOnQueueIdle.  A callback is made, and registered for the idle   *)
(* queue, unless there is one.  A timer keeps running.                     *)
Keep(c) ==
  /\ returned[c] # <<>>
  /\ returned' = [returned EXCEPT ![c] = Tail(@)]
  /\ data' = [data EXCEPT ![c] = Kept(@, Head(returned[c]))]
  /\ idleCallbacks' = IF data[c].status = "BLOCKED_WITH_JOBS" THEN idleCallbacks ELSE idleCallbacks \cup {c}
  /\ strayTimers' = IF data[c].timer THEN strayTimers \cup {c} ELSE strayTimers
  /\ UNCHANGED <<challengeVars, queue, run, waiters, userVars, isShuttingDown, added, endVars, troubles>>

Idle(c) == queue[c] = <<>> /\ run[c].at = "idle"

QueueIsIdle(c) ==
  /\ c \in idleCallbacks /\ Idle(c)
  /\ idleCallbacks' = idleCallbacks \ {c}
  /\ Callback(c)
  /\ UNCHANGED <<serviceVars, dialog, run, returned, strayTimers, waiters, userVars, isShuttingDown, added, endVars, troubles>>

(* A timer is due when the retryAt has come; if that was moved, the        *)
(* callback sets it again, which changes nothing here.                     *)
TimerFires(c) ==
  /\ data[c].timer /\ data[c].retryAt = "past"
  /\ Callback(c)
  /\ UNCHANGED <<serviceVars, dialog, run, returned, idleCallbacks, strayTimers, waiters, userVars, isShuttingDown, added, endVars, troubles>>

(* There may be more than one of these.                                    *)
StrayTimerFires(c) ==
  /\ c \in strayTimers
  /\ Callback(c)
  /\ strayTimers' \in {strayTimers, strayTimers \ {c}}
  /\ UNCHANGED <<serviceVars, dialog, run, returned, idleCallbacks, waiters, userVars, isShuttingDown, added, endVars, troubles>>

(* A retryAt is a minute away, at least: it does not come while            *)
(* microtasks of the conversation are due.                                 *)
MicrotasksDue(c) ==
  \/ returned[c] # <<>> \/ run[c].at = "loading"
  \/ run[c].at = "idle" /\ queue[c] # <<>>

RetryMatures(c) ==
  /\ data[c].retryAt = "later" /\ ~MicrotasksDue(c)
  /\ data' = [data EXCEPT ![c].retryAt = "past"]
  /\ UNCHANGED <<challengeVars, jobVars, idleCallbacks, strayTimers, waiters, userVars, isShuttingDown, added, endVars, troubles>>

-----------------------------------------------------------------------------
(* The handler starts a queue: background.ts has startQueue call           *)
(* resolveVerificationWaiter.                                              *)
StartQueue(c) ==
  /\ c \in starting
  /\ ResolveWaiters({c})
  /\ starting' = starting \ {c}
  /\ UNCHANGED <<online, rateLimited, dialog, returned, idleCallbacks, strayTimers, userVars, isShuttingDown, added, endVars, troubles>>

(* The user gives up the verification of every conversation...             *)
Pending == {c \in Conversations : verification[c].type = "pending"}

Cancel ==
  /\ Pending # {}
  /\ verification' = [c \in Conversations |->
       IF verification[c].type = "none" THEN Trusted ELSE [type |-> "cancelled", jobs |-> added]]
  /\ ResolveWaiters(Pending)
  /\ UNCHANGED <<serviceVars, dialog, returned, idleCallbacks, strayTimers, verified, isShuttingDown, added, endVars, troubles>>

(* ... or goes through with it, and the identities are stored.             *)
Verify ==
  /\ Pending # {}
  /\ verification' = [c \in Conversations |-> Trusted]
  /\ verified' = verified \cup Pending
  /\ UNCHANGED <<challengeVars, jobVars, retryVars, waiters, isShuttingDown, added, endVars, troubles>>

Verified(c) ==
  /\ c \in verified
  /\ verified' = verified \ {c}
  /\ ResolveWaiters({c})
  /\ UNCHANGED <<serviceVars, dialog, returned, idleCallbacks, strayTimers, verification, isShuttingDown, added, endVars, troubles>>

Shutdown ==
  /\ ~isShuttingDown /\ isShuttingDown' = TRUE
  /\ UNCHANGED <<challengeVars, jobVars, retryVars, waiters, userVars, added, endVars, troubles>>

(* The handler, with the server and the user it asks.                      *)
Handler ==
  /\ \/ \E call \in registering : Tracked(call)
     \/ \E c \in Conversations : StartTimerFires(c) \/ ChallengeMatures(c)
     \/ GoOnline \/ CaptchaAnswered \/ CaptchaAccepted \/ CaptchaRejected
  /\ UNCHANGED <<jobVars, retryVars, waiters, userVars, isShuttingDown, added, endVars, troubles>>

Offline ==
  /\ Trouble
  /\ GoOffline
  /\ UNCHANGED <<jobVars, retryVars, waiters, userVars, isShuttingDown, added, endVars>>

RunStep(c) ==
  \/ Start(c) \/ NextAttempt(c) \/ Load(c)
  \/ GiveUp(c) \/ AwaitCaptcha(c) \/ AwaitVerification(c) \/ Pass(c) \/ WaitTimesOut(c)
  \/ SendSucceeds(c) \/ SendIsChallenged(c) \/ SendIsStopped(c) \/ SendFails(c)

RetryStep(c) ==
  Keep(c) \/ QueueIsIdle(c) \/ TimerFires(c) \/ StrayTimerFires(c) \/ RetryMatures(c)

UserStep == Cancel \/ Verify \/ \E c \in Conversations : Verified(c)

Next ==
  \/ \E j \in Jobs : Add(j)
  \/ \E c \in Conversations : RunStep(c) \/ RetryStep(c) \/ StartQueue(c)
  \/ UserStep \/ Handler \/ Offline \/ Shutdown

Spec == Init /\ [][Next]_vars

(* The event loop goes on, timers fire, a send settles; nothing is asked   *)
(* of the user, the server or the network.  Every pass of the loop of      *)
(* run() takes some of the time after which a job gives up.                *)
Fairness ==
  \A c \in Conversations :
    /\ WF_vars(RunStep(c)) /\ SF_vars(GiveUp(c))
    /\ WF_vars(Keep(c)) /\ WF_vars(QueueIsIdle(c))
    /\ WF_vars(TimerFires(c)) /\ WF_vars(StrayTimerFires(c)) /\ WF_vars(RetryMatures(c))

FairSpec == Spec /\ Fairness

-----------------------------------------------------------------------------
RetryData == [status : {"none", "BLOCKED", "BLOCKED_WITH_JOBS", "RUNNING"}, attempts : 0..MaxBackoff,
              retryAt : When, jobs : Seq(Jobs), timer : BOOLEAN]
Run == [job : Jobs \cup {None}, at : {"idle", "loading", "checking", "waiting", "sending", "thrown"},
        attempt : 0..MaxAttempts, blocked : BOOLEAN, goOn : BOOLEAN]

(* Every variable has its type, and jobs are kept in one state alone.      *)
TypeOK ==
  /\ ChallengeTypeOK
  /\ queue \in [Conversations -> Seq(Jobs)] /\ run \in [Conversations -> Run]
  /\ returned \in [Conversations -> Seq(Jobs)] /\ data \in [Conversations -> RetryData]
  /\ {idleCallbacks, strayTimers, waiters, verified} \subseteq SUBSET Conversations
  /\ verification \in [Conversations -> [type : {"none", "pending", "cancelled"}, jobs : SUBSET Jobs]]
  /\ isShuttingDown \in BOOLEAN /\ {added, finished, turnedAway} \subseteq SUBSET Jobs
  /\ troubles \in 0..MaxTroubles
  /\ \A c \in Conversations : data[c].jobs # <<>> <=> data[c].status = "BLOCKED_WITH_JOBS"

(* A job that was added is, until its row goes or the queue is shut down,  *)
(* in one place: behind others, running, on its way back or kept.          *)
InHand(c) ==
  queue[c] \o (IF run[c].job = None THEN <<>> ELSE <<run[c].job>>) \o returned[c] \o data[c].jobs

OnePlace ==
  /\ \A c \in Conversations : IsInjective(InHand(c))
  /\ \A j \in Jobs :
       j \in Range(InHand(ConversationOf[j])) <=> j \in added \ (finished \cup turnedAway)

(* Kept jobs have something that will bring them back without the user or  *)
(* the server: a callback on the idle queue, or a timer.                   *)
KeptJobsHaveTrigger ==
  \A c \in Conversations :
    data[c].jobs # <<>> => c \in idleCallbacks \/ data[c].timer \/ c \in strayTimers

(* BLOCKED is the state between a challenge and the return of its job      *)
(* ("this should be a very short-lived state").                            *)
BlockedIsShort ==
  \A c \in Conversations : data[c].status = "BLOCKED" => returned[c] # <<>>

(* A token is held while somebody still waits to use it.                   *)
TokenHasAsker == hasToken => asking > 0

(* The attempts that make the backoff grow are forgotten only when a send  *)
(* goes through.                                                           *)
BackoffGrows ==
  [][\A c \in Conversations : data'[c].attempts < data[c].attempts =>
       run[c].goOn /\ run[c].job \in finished' \ finished]_vars

(* Every job is finished or turned away, whatever user, server and network *)
(* do.                                                                     *)
JobsFinish == \A j \in Jobs : j \in added ~> j \in finished \cup turnedAway
=============================================================================
