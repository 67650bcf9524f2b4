----------------------------- MODULE JobManager -----------------------------
(***************************************************************************)
(* The job manager (ts/jobs/JobManager.ts) with the saves and the calls of *)
(* AttachmentDownloadManager and the rate limits of                        *)
(* AttachmentBackupManager: jobs with rows, a limit of jobs that run at a  *)
(* time, ticks, a pause after a rate limit, retries, jobs that are started *)
(* out of turn, stop, cancellation, restarts.                              *)
(*                                                                         *)
(* The database executes in order: a write takes effect where it is asked  *)
(* for, and a read sees the rows of that time.  The writes of startJob may *)
(* be rejected; a rejected save of addJob is its caller's affair.  A       *)
(* retryAfter is "none", "later" or "past".  No job adds another one       *)
(* (newJob).                                                               *)
(***************************************************************************)
EXTENDS Naturals, FiniteSets

CONSTANTS
  Jobs, None,
  ReceivedAt,         \* getNextJobs takes the newest first
  MaxConcurrentJobs,
  MaxAttempts,
  MaxAdds,            \* bound: calls of addJob
  MaxTroubles         \* bound: results other than "finished", rejected writes, calls, stops, cancellations, restarts

\* parked is history: the write that should have made the row inactive was rejected.
Row == [active : BOOLEAN, attempts : Nat, retryAfter : {"none", "later", "past"}, parked : BOOLEAN]
Call == [at : {"running", "failing", "settling"}, attempts : Nat, isLastAttempt : BOOLEAN, forced : BOOLEAN]
NextJob == [job : Jobs, attempts : Nat]

ASSUME ManagerAssumption ==
  /\ IsFiniteSet(Jobs) /\ None \notin Row \cup Call
  /\ ReceivedAt \in [Jobs -> Nat]
  /\ \A j, k \in Jobs : ReceivedAt[j] = ReceivedAt[k] => j = k
  /\ {MaxConcurrentJobs, MaxAttempts} \subseteq Nat \ {0}
  /\ {MaxAdds, MaxTroubles} \subseteq Nat

VARIABLES
  rows,         \* the table: the row of a job, or None
  unsaved,      \* the list of #saveJobsBatcher
  forcing,      \* jobs that _addJob will start when it has saved them
  enabled,
  timer,        \* #tickTimeout: "none", a "tick", or the end of a "pause"
  starting,     \* what a call of start waits for (bound: one call at a time)
  reading,      \* what each call of maybeStartJobs will get from getNextJobs
  calls,        \* #activeJobs: the call of startJob for a job, or None
  cancelling,   \* jobs that cancelJobs waits for
  idleWaiting,  \* has waitForIdle callers that wait?
  inCall,       \* shouldHoldOffOnStartingQueuedJobs
  adds, troubles

tableVars == <<rows, unsaved, forcing>>
timeVars == <<enabled, timer, starting, reading>>
callVars == <<calls, cancelling>>
bounds == <<adds, troubles>>
vars == <<tableVars, timeVars, callVars, idleWaiting, inCall, bounds>>

NewRow == [active |-> FALSE, attempts |-> 0, retryAfter |-> "none", parked |-> FALSE]

Init ==
  /\ rows = [j \in Jobs |-> None] /\ unsaved = {} /\ forcing = {}
  /\ enabled = FALSE /\ timer = "none" /\ starting = "no" /\ reading = {}
  /\ calls = [j \in Jobs |-> None] /\ cancelling = {}
  /\ idleWaiting = FALSE /\ inCall = FALSE
  /\ adds = 0 /\ troubles = 0

Trouble == troubles < MaxTroubles /\ troubles' = troubles + 1

Running == {j \in Jobs : calls[j] # None}

-----------------------------------------------------------------------------
(* maybeStartJobs, up to its await.  A call that finds another one there   *)
(* does nothing.                                                           *)

(* Mutant of Due: a job that has a time for its retry is never due.        *)
DueWithoutRetry == {j \in Jobs : rows'[j] # None /\ ~rows'[j].active /\ rows'[j].retryAfter = "none"}

Due == {j \in Jobs : rows'[j] # None /\ ~rows'[j].active /\ rows'[j].retryAfter # "later"}

NextJobs(limit) ==
  {j \in Due : Cardinality({k \in Due : ReceivedAt[k] > ReceivedAt[j]}) < limit}

ActiveJobCount == Cardinality({j \in Jobs : calls'[j] # None})

Reads == {{[job |-> j, attempts |-> rows'[j].attempts] : j \in NextJobs(MaxConcurrentJobs - ActiveJobCount)}}

(* Mutant of MaybeStartJobs: calls may overlap.                            *)
MaybeStartJobsAgain ==
  reading' = reading \cup (IF ~enabled' \/ ActiveJobCount >= MaxConcurrentJobs THEN {} ELSE Reads)

MaybeStartJobs ==
  reading' = IF reading # {} \/ ~enabled' \/ ActiveJobCount >= MaxConcurrentJobs THEN reading ELSE Reads

(* startJob, up to the result of runJob, for those that are not running.   *)
(* Where the row cannot be saved, startJob goes on to its catch.           *)
StartJobs(jobs, forced) ==
  LET idle == {n \in jobs : calls[n.job] = None}
      Of(j) == CHOOSE n \in idle : n.job = j
      started == {n.job : n \in idle}
  IN \E unmarked \in SUBSET started :
     /\ IF unmarked = {} THEN UNCHANGED troubles ELSE Trouble
     /\ calls' = [j \in Jobs |->
          IF j \in started
          THEN [at |-> IF j \in unmarked THEN "failing" ELSE "running", attempts |-> Of(j).attempts,
                isLastAttempt |-> Of(j).attempts + 1 >= MaxAttempts, forced |-> forced]
          ELSE calls[j]]
     /\ rows' = [j \in Jobs |->
          IF j \in started \ unmarked
          THEN [active |-> TRUE, attempts |-> Of(j).attempts, retryAfter |-> "none", parked |-> FALSE]
          ELSE rows[j]]

(* getNextJobs has answered.  That the manager is still enabled, or the    *)
(* jobs still there, is not asked again.                                   *)
NextJobsRead ==
  /\ starting' = IF starting = "reading" THEN "ticking" ELSE starting
  /\ \E nextJobs \in reading :
       /\ reading' = reading \ {nextJobs}
       /\ IF nextJobs = {} /\ Running = {}
          THEN idleWaiting' = FALSE /\ UNCHANGED <<rows, calls, troubles>>
          ELSE /\ UNCHANGED idleWaiting
               /\ IF inCall THEN UNCHANGED <<rows, calls, troubles>> ELSE StartJobs(nextJobs, FALSE)
  /\ UNCHANGED <<unsaved, forcing, enabled, timer, cancelling, inCall, adds>>

-----------------------------------------------------------------------------
(* _addJob.  A job that is running is saved as it runs, with its attempts  *)
(* reset; another one goes to the batcher, or is saved and started.        *)
AddToRunning(j) ==
  /\ calls[j] # None
  /\ calls' = [calls EXCEPT ![j].attempts = 0]
  /\ rows' = [rows EXCEPT ![j] = NewRow]
  /\ UNCHANGED <<unsaved, forcing, reading>>

AddToBatch(j) ==
  /\ calls[j] = None
  /\ unsaved' = unsaved \cup {j}
  /\ UNCHANGED <<rows, forcing, calls>>
  /\ MaybeStartJobs

AddToStart(j) ==
  /\ calls[j] = None
  /\ rows' = [rows EXCEPT ![j] = NewRow]
  /\ forcing' = forcing \cup {j}
  /\ UNCHANGED <<unsaved, reading, calls>>

AddJob(j) ==
  /\ adds < MaxAdds /\ adds' = adds + 1
  /\ UNCHANGED <<enabled, timer, starting, cancelling, idleWaiting, inCall, troubles>>
  /\ AddToRunning(j) \/ AddToBatch(j) \/ AddToStart(j)

SaveBatch ==
  /\ unsaved # {} /\ unsaved' = {}
  /\ rows' = [j \in Jobs |-> IF j \in unsaved THEN NewRow ELSE rows[j]]
  /\ UNCHANGED <<forcing, enabled, timer, starting, callVars, idleWaiting, inCall, bounds>>
  /\ MaybeStartJobs

ForceStart(j) ==
  /\ j \in forcing /\ forcing' = forcing \ {j}
  /\ IF enabled THEN StartJobs({[job |-> j, attempts |-> 0]}, TRUE) ELSE UNCHANGED <<rows, calls, troubles>>
  /\ UNCHANGED <<unsaved, timeVars, cancelling, idleWaiting, inCall, adds>>

-----------------------------------------------------------------------------
(* startJob, from the result of runJob to its last write.                  *)

Ends(j, next) ==
  /\ calls[j] # None /\ calls[j].at = "running"
  /\ calls' = [calls EXCEPT ![j].at = next]
  /\ UNCHANGED <<unsaved, forcing, starting, reading, cancelling, idleWaiting, inCall, adds>>

(* Mutant of RetryLater: the row is written as it was.                     *)
RetryLaterActive(j) ==
  rows' = [rows EXCEPT ![j] =
    [active |-> TRUE, attempts |-> calls[j].attempts + 1, retryAfter |-> "later", parked |-> FALSE]]

RetryLater(j) ==
  rows' = [rows EXCEPT ![j] =
    [active |-> FALSE, attempts |-> calls[j].attempts + 1, retryAfter |-> "later", parked |-> FALSE]]

Finished(j) ==
  /\ Ends(j, "settling")
  /\ rows' = [rows EXCEPT ![j] = None]
  /\ UNCHANGED <<enabled, timer, troubles>>

Retried(j) ==
  /\ Ends(j, "settling") /\ Trouble
  /\ ~calls[j].isLastAttempt /\ RetryLater(j)
  /\ UNCHANGED <<enabled, timer>>

(* An error of the job, its last attempt's "retry", or a rejected write    *)
(* after "finished" or "retry".                                            *)
Threw(j) ==
  /\ Ends(j, "failing") /\ Trouble
  /\ UNCHANGED <<rows, enabled, timer>>

(* pauseForDuration, also when the manager has been stopped; the write     *)
(* after it may be rejected.                                               *)
RateLimited(j) ==
  /\ Trouble
  /\ \/ Ends(j, "settling") /\ RetryLater(j)
     \/ Ends(j, "failing") /\ UNCHANGED rows
  /\ enabled' = FALSE /\ timer' = "pause"

(* The catch.  When its write is rejected too the row stays as it is.      *)
Caught(j) ==
  /\ calls[j] # None /\ calls[j].at = "failing"
  /\ calls' = [calls EXCEPT ![j].at = "settling"]
  /\ \/ /\ IF calls[j].isLastAttempt THEN rows' = [rows EXCEPT ![j] = None] ELSE RetryLater(j)
        /\ UNCHANGED troubles
     \/ /\ Trouble
        /\ rows' = IF rows[j] # None /\ rows[j].active THEN [rows EXCEPT ![j].parked = TRUE] ELSE rows
  /\ UNCHANGED <<unsaved, forcing, timeVars, cancelling, idleWaiting, inCall, adds>>

Settled(j) ==
  /\ calls[j] # None /\ calls[j].at = "settling"
  /\ calls' = [calls EXCEPT ![j] = None]
  /\ UNCHANGED <<tableVars, enabled, timer, starting, cancelling, idleWaiting, inCall, bounds>>
  /\ MaybeStartJobs

-----------------------------------------------------------------------------
(* The manager.                                                            *)

(* ... maybeStartJobs, and #tick at once where that does not read (and     *)
(* then the call in #tick does not either), ...                            *)
StartMaybeStartsJobs ==
  /\ MaybeStartJobs
  /\ IF reading' = reading
     THEN starting' = "no" /\ timer' = "tick"
     ELSE starting' = "reading" /\ UNCHANGED timer

(* start: markAllJobsInactive, unless the manager is enabled, ...          *)
Start ==
  /\ starting = "no" /\ enabled' = TRUE
  /\ UNCHANGED <<unsaved, forcing, callVars, idleWaiting, inCall, bounds>>
  /\ IF enabled
     THEN UNCHANGED rows /\ StartMaybeStartsJobs
     ELSE /\ rows' = [j \in Jobs |->
               IF rows[j] # None THEN [rows[j] EXCEPT !.active = FALSE, !.parked = FALSE] ELSE None]
          /\ starting' = "marking" /\ UNCHANGED <<timer, reading>>

StartMarked ==
  /\ starting = "marking"
  /\ UNCHANGED <<tableVars, enabled, callVars, idleWaiting, inCall, bounds>>
  /\ StartMaybeStartsJobs

(* ... and, when NextJobsRead has ended its call of maybeStartJobs, #tick, *)
(* whatever has been done to enabled and to the timer meanwhile.           *)
StartTick ==
  /\ starting = "ticking" /\ starting' = "no"
  /\ timer' = "tick"
  /\ UNCHANGED <<tableVars, enabled, callVars, idleWaiting, inCall, bounds>>
  /\ MaybeStartJobs

(* stop.  It aborts what is running; how a job takes that is its own       *)
(* affair.                                                                 *)
Stop ==
  /\ Trouble
  /\ enabled' = FALSE /\ timer' = "none"
  /\ UNCHANGED <<tableVars, starting, reading, callVars, idleWaiting, inCall, adds>>

(* The timer: a tick, or the end of a pause.                               *)

(* Mutant of Tick: the timer is not set again.                             *)
TickOnce ==
  /\ timer # "none" /\ timer' = "none"
  /\ enabled' = (enabled \/ timer = "pause")
  /\ UNCHANGED <<tableVars, starting, callVars, idleWaiting, inCall, bounds>>
  /\ MaybeStartJobs

Tick ==
  /\ timer # "none" /\ timer' = "tick"
  /\ enabled' = (enabled \/ timer = "pause")
  /\ UNCHANGED <<tableVars, starting, callVars, idleWaiting, inCall, bounds>>
  /\ MaybeStartJobs

WaitForIdle ==
  /\ Running # {} /\ ~idleWaiting /\ idleWaiting' = TRUE
  /\ UNCHANGED <<tableVars, timeVars, callVars, inCall, bounds>>

(* cancelJobs, up to its await...                                          *)
Cancel(j) ==
  /\ Trouble
  /\ calls[j] # None /\ j \notin cancelling
  /\ cancelling' = cancelling \cup {j}
  /\ UNCHANGED <<tableVars, timeVars, calls, idleWaiting, inCall, adds>>

(* ... and when the job has settled or a second has passed.  hasCompleted  *)
(* is true of a job that is still in activeJobs: that one stays there.     *)
CancelDone(j) ==
  LET hasCompleted == calls[j] # None
  IN /\ j \in cancelling /\ cancelling' = cancelling \ {j}
     /\ calls' = IF hasCompleted THEN calls ELSE [calls EXCEPT ![j] = None]
     /\ rows' = [rows EXCEPT ![j] = None]
     /\ UNCHANGED <<unsaved, forcing, timeVars, idleWaiting, inCall, bounds>>

RetryMatures(j) ==
  /\ rows[j] # None /\ rows[j].retryAfter = "later"
  /\ rows' = [rows EXCEPT ![j].retryAfter = "past"]
  /\ UNCHANGED <<unsaved, forcing, timeVars, callVars, idleWaiting, inCall, bounds>>

UserCall ==
  /\ IF inCall THEN UNCHANGED troubles ELSE Trouble
  /\ inCall' = ~inCall
  /\ UNCHANGED <<tableVars, timeVars, callVars, idleWaiting, adds>>

Restart ==
  /\ Trouble
  /\ unsaved' = {} /\ forcing' = {}
  /\ enabled' = FALSE /\ timer' = "none" /\ starting' = "no" /\ reading' = {}
  /\ calls' = [j \in Jobs |-> None] /\ cancelling' = {}
  /\ idleWaiting' = FALSE /\ inCall' = FALSE
  /\ UNCHANGED <<rows, adds>>

Next ==
  \/ \E j \in Jobs :
       \/ AddJob(j) \/ ForceStart(j) \/ Finished(j) \/ Retried(j) \/ Threw(j) \/ RateLimited(j)
       \/ Caught(j) \/ Settled(j) \/ Cancel(j) \/ CancelDone(j) \/ RetryMatures(j)
  \/ NextJobsRead \/ SaveBatch \/ Start \/ StartMarked \/ StartTick \/ Stop \/ Tick
  \/ WaitForIdle \/ UserCall \/ Restart

Spec == Init /\ [][Next]_vars

(* The database answers, jobs end, timers fire, and calls are hung up.     *)
Fairness ==
  /\ WF_vars(NextJobsRead) /\ WF_vars(SaveBatch) /\ WF_vars(Tick) /\ WF_vars(inCall /\ UserCall)
  /\ WF_vars(StartMarked) /\ WF_vars(StartTick)
  /\ \A j \in Jobs :
       /\ WF_vars(ForceStart(j)) /\ WF_vars(Finished(j)) /\ WF_vars(Caught(j)) /\ WF_vars(Settled(j))
       /\ WF_vars(CancelDone(j)) /\ WF_vars(RetryMatures(j))

FairSpec == Spec /\ Fairness

-----------------------------------------------------------------------------
(* Every variable has its type.                                            *)
TypeOK ==
  /\ rows \in [Jobs -> Row \cup {None}]
  /\ unsaved \subseteq Jobs /\ forcing \subseteq Jobs
  /\ enabled \in BOOLEAN /\ timer \in {"none", "tick", "pause"}
  /\ starting \in {"no", "marking", "reading", "ticking"}
  /\ reading \subseteq SUBSET NextJob
  /\ calls \in [Jobs -> Call \cup {None}]
  /\ cancelling \subseteq Jobs
  /\ idleWaiting \in BOOLEAN /\ inCall \in BOOLEAN
  /\ adds \in 0..MaxAdds /\ troubles \in 0..MaxTroubles

InTurn == {j \in Running : ~calls[j].forced}

(* Jobs that have not been started out of turn keep to the limit, however  *)
(* many calls of maybeStartJobs there are.                                 *)
ConcurrencyBound == Cardinality(InTurn) <= MaxConcurrentJobs

(* A row that is marked active has a job that is running: nobody else      *)
(* would take it up again before the next start.  But for a row that the   *)
(* catch of startJob could not write.                                      *)
ActiveRowsRun ==
  enabled => \A j \in Jobs : rows[j] # None /\ rows[j].active => calls[j] # None \/ rows[j].parked

(* Stopped; or its pause has lost its timer, see PauseEnds.                *)
Off == ~enabled /\ timer # "pause"

(* The row of a job goes some day, while the manager is not off and        *)
(* startJob's last write for the row is not rejected.                      *)
JobsEnd == \A j \in Jobs : rows[j] # None ~> rows[j] = None \/ Off \/ rows[j].parked

(* waitForIdle resolves, while the manager is not off.                     *)
IdleResolves == idleWaiting ~> ~idleWaiting \/ Off

(* A pause ends: the manager is enabled again, or has been stopped.        *)
PauseEnds == timer = "pause" ~> enabled \/ timer = "none"
=============================================================================
