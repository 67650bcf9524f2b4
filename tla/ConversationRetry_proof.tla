------------------------ MODULE ConversationRetry_proof ------------------------
(***************************************************************************)
(* What is kept for later comes back by itself, BLOCKED lasts only while a *)
(* job returns, and a token has somebody who waits to use it: for any      *)
(* conversations, jobs and answers of the server.                          *)
(***************************************************************************)
EXTENDS ConversationRetry, TLAPS

-----------------------------------------------------------------------------
(* The inductive invariant, in the parts that the actions disturb.         *)

RecordsOK ==
  /\ registered \in [Conversations -> Challenge \cup {None}]
  /\ registering \subseteq Call
  /\ startTimer \in [Conversations -> {"none", "own", "free"}]
  /\ pendingStarts \subseteq Conversations

ServiceOK == starting \subseteq Conversations /\ online \in BOOLEAN /\ rateLimited \in BOOLEAN

DialogOK == hasToken \in BOOLEAN /\ asking \in Nat /\ responding \in Nat /\ TokenHasAsker

\* A job that runs is a job: what returns to be kept is one too.  After a
\* throw there is an attempt left.
RunOK ==
  /\ run \in [Conversations -> Run]
  /\ \A c \in Conversations :
       /\ run[c].at # "idle" => run[c].job \in Jobs
       /\ run[c].at = "thrown" => run[c].attempt < MaxAttempts

QueuesOK == queue \in [Conversations -> Seq(Jobs)]

\* What is asked of the data d of a conversation whose jobs on their way back
\* are those of back, and that has a callback or a stray timer if trigger.
DataAt(d, back, trigger) ==
  /\ d \in RetryData
  /\ d.jobs # <<>> <=> d.status = "BLOCKED_WITH_JOBS"
  /\ d.jobs # <<>> => trigger \/ d.timer
  /\ d.status = "BLOCKED" => back # <<>>

Trigger(c) == c \in idleCallbacks \/ c \in strayTimers

DataOK ==
  /\ data \in [Conversations -> RetryData]
  /\ returned \in [Conversations -> Seq(Jobs)]
  /\ \A c \in Conversations : DataAt(data[c], returned[c], Trigger(c))

EndsOK == added \subseteq Jobs /\ finished \subseteq Jobs /\ turnedAway \subseteq Jobs

RestOK ==
  /\ idleCallbacks \subseteq Conversations /\ strayTimers \subseteq Conversations
  /\ waiters \subseteq Conversations /\ verified \subseteq Conversations
  /\ verification \in [Conversations -> [type : {"none", "pending", "cancelled"}, jobs : SUBSET Jobs]]
  /\ isShuttingDown \in BOOLEAN
  /\ troubles \in 0..MaxTroubles

RetryInv == RecordsOK /\ ServiceOK /\ DialogOK /\ RunOK /\ QueuesOK /\ DataOK /\ EndsOK /\ RestOK

LEMMA InvImplies == RetryInv => TypeOK /\ KeptJobsHaveTrigger /\ BlockedIsShort /\ TokenHasAsker
<1> SUFFICES ASSUME RetryInv PROVE TypeOK /\ KeptJobsHaveTrigger /\ BlockedIsShort /\ TokenHasAsker
  OBVIOUS
<1>1. ChallengeTypeOK
  BY DEF RetryInv, RecordsOK, ServiceOK, DialogOK, ChallengeTypeOK
<1>2. \A c \in Conversations : DataAt(data[c], returned[c], Trigger(c))
  BY DEF RetryInv, DataOK
<1>3. TypeOK
  BY <1>1, <1>2 DEF RetryInv, RunOK, QueuesOK, DataOK, DataAt, EndsOK, RestOK, TypeOK
<1>4. KeptJobsHaveTrigger
  BY <1>2 DEF DataAt, Trigger, KeptJobsHaveTrigger
<1>5. BlockedIsShort
  BY <1>2 DEF DataAt, BlockedIsShort
<1> QED
  BY <1>3, <1>4, <1>5 DEF RetryInv, DialogOK

-----------------------------------------------------------------------------
(* The data of one conversation.                                           *)

LEMMA NoDataFits ==
  ASSUME NEW back, NEW trigger PROVE DataAt(NoData, back, trigger)
<1>1. NoData.jobs \in Seq(Jobs) /\ NoData.attempts \in 0..MaxBackoff
  BY JobsAssumption DEF NoData
<1> QED
  BY <1>1 DEF NoData, DataAt, RetryData, When

\* Running forgets the jobs, and is never BLOCKED.
LEMMA RunningFits ==
  ASSUME NEW d, NEW back, NEW trigger, DataAt(d, back, trigger), NEW back2, NEW trigger2
  PROVE  DataAt(Running(d), back2, trigger2)
<1>1. CASE d.status = "none"
  BY <1>1 DEF Running, DataAt
<1>2. CASE d.status # "none"
  <2>1. Running(d) = [status |-> "RUNNING", attempts |-> d.attempts, retryAt |-> "never",
                      jobs |-> <<>>, timer |-> FALSE]
    BY <1>2 DEF Running, NoData
  <2>2. d.attempts \in 0..MaxBackoff /\ <<>> \in Seq(Jobs)
    BY DEF DataAt, RetryData
  <2> QED
    BY <2>1, <2>2 DEF DataAt, RetryData, When
<1> QED
  BY <1>1, <1>2

LEMMA AttemptsCounted ==
  /\ 1 \in 0..MaxBackoff /\ 0 \in 0..MaxBackoff
  /\ \A n \in 0..MaxBackoff : OneMore(n) \in 0..MaxBackoff
BY JobsAssumption DEF OneMore

LEMMA CapturedFits ==
  ASSUME NEW d, NEW back, NEW trigger, DataAt(d, back, trigger),
         NEW retryAt \in When, NEW back2, back2 # <<>>
  PROVE  DataAt(Captured(d, retryAt), back2, trigger)
<1>1. d.attempts \in 0..MaxBackoff /\ <<>> \in Seq(Jobs)
  BY DEF DataAt, RetryData
<1>2. CASE d.status = "none"
  <2>1. Captured(d, retryAt) = [status |-> "BLOCKED", attempts |-> 1,
          retryAt |-> IF retryAt = "never" THEN "later" ELSE retryAt, jobs |-> <<>>, timer |-> FALSE]
    BY <1>2 DEF Captured, NoData
  <2> QED
    BY <1>1, <2>1, AttemptsCounted DEF DataAt, RetryData, When
<1>3. CASE d.status = "RUNNING"
  <2>1. Captured(d, retryAt) = [status |-> "BLOCKED", attempts |-> OneMore(d.attempts),
          retryAt |-> "later", jobs |-> <<>>, timer |-> FALSE]
    BY <1>3 DEF Captured, NoData
  <2> QED
    BY <1>1, <2>1, AttemptsCounted DEF DataAt, RetryData, When
<1>4. CASE d.status \notin {"none", "RUNNING"}
  <2>1. Captured(d, retryAt) = [d EXCEPT !.retryAt = "later"]
    BY <1>4 DEF Captured
  <2> QED
    BY <2>1 DEF DataAt, RetryData, When
<1> QED
  BY <1>2, <1>3, <1>4

LEMMA KeptFits ==
  ASSUME NEW d, NEW back, NEW trigger, DataAt(d, back, trigger), NEW j \in Jobs, NEW back2
  PROVE  DataAt(Kept(d, j), back2, TRUE)
<1>1. d.attempts \in 0..MaxBackoff /\ d.jobs \in Seq(Jobs) /\ d.retryAt \in When
  BY DEF DataAt, RetryData
<1>2. Append(d.jobs, j) \in Seq(Jobs) /\ Append(d.jobs, j) # <<>>
  BY <1>1
<1>3. Kept(d, j).attempts \in 0..MaxBackoff /\ Kept(d, j).retryAt \in When
  BY <1>1, AttemptsCounted DEF Kept, When
<1> QED
  BY <1>2, <1>3 DEF Kept, DataAt, RetryData

-----------------------------------------------------------------------------
(* What several of the handlers do.                                        *)

LEMMA UnregisterFits ==
  ASSUME RecordsOK, NEW C, Unregister(C), registering' = registering
  PROVE  RecordsOK'
BY DEF RecordsOK, Unregister

LEMMA StartQueuesFits ==
  ASSUME RecordsOK, ServiceOK, NEW C \in SUBSET Conversations, StartQueues(C),
         registering' \subseteq registering, UNCHANGED <<online, rateLimited>>
  PROVE  RecordsOK' /\ ServiceOK'
<1>1. CASE online
  BY <1>1 DEF StartQueues, RecordsOK, ServiceOK, Unregister
<1>2. CASE ~online
  BY <1>2 DEF StartQueues, RecordsOK, ServiceOK
<1> QED
  BY <1>1, <1>2

LEMMA RegisterFits ==
  ASSUME RecordsOK, NEW c \in Conversations, NEW challenge \in Challenge, NEW silent \in BOOLEAN,
         Register(c, challenge, silent)
  PROVE  RecordsOK'
<1>1. [conversation |-> c, challenge |-> challenge, silent |-> silent] \in Call
  BY DEF Call
<1>2. CASE IsRegistered(c)
  BY <1>2 DEF Register, RecordsOK, records
<1>3. CASE ~IsRegistered(c)
  BY <1>1, <1>3 DEF Register, RecordsOK
<1> QED
  BY <1>2, <1>3

LEMMA SolveFits ==
  ASSUME DialogOK, Solve PROVE DialogOK'
BY DEF DialogOK, Solve, TokenHasAsker

LEMMA MaybeSolveFits ==
  ASSUME DialogOK, NEW c, MaybeSolve(c) PROVE DialogOK'
<1>1. Solve \/ UNCHANGED dialog
  BY DEF MaybeSolve
<1> QED
  BY <1>1, SolveFits DEF DialogOK, TokenHasAsker, dialog

LEMMA UnblockFits ==
  ASSUME RecordsOK, QueuesOK, DataOK, NEW C, Unblock(C), UNCHANGED returned,
         \A c \in Conversations \ C : Trigger(c) => Trigger(c)'
  PROVE  RecordsOK' /\ QueuesOK' /\ DataOK'
<1>1. RecordsOK'
  BY UnregisterFits DEF Unblock
<1>2. \A c \in Conversations : data[c].jobs \in Seq(Jobs) /\ DataAt(data[c], returned[c], Trigger(c))
  BY DEF DataOK, RetryData
<1>3. QueuesOK'
  <2>1. \A c \in Conversations : queue[c] \o data[c].jobs \in Seq(Jobs)
    BY <1>2 DEF QueuesOK
  <2> QED
    BY <2>1 DEF QueuesOK, Unblock
<1>4. ASSUME NEW c \in Conversations
      PROVE  DataAt(data'[c], returned'[c], Trigger(c)')
  <2>1. CASE c \in C
    <3>1. data'[c] = Running(data[c])
      BY <2>1 DEF Unblock
    <3>2. DataAt(Running(data[c]), returned'[c], Trigger(c)')
      BY <1>2, RunningFits
    <3> QED
      BY <3>1, <3>2
  <2>2. CASE c \notin C
    <3>1. data'[c] = data[c] /\ (Trigger(c) => Trigger(c)')
      BY <2>2 DEF Unblock
    <3> QED
      BY <1>2, <3>1 DEF DataAt
  <2> QED
    BY <2>1, <2>2
<1>5. DataOK'
  <2>1. \A c \in Conversations : data'[c] \in RetryData
    BY <1>4 DEF DataAt
  <2>2. data' \in [Conversations -> RetryData]
    BY <2>1 DEF Unblock
  <2> QED
    BY <1>4, <2>2 DEF DataOK
<1> QED
  BY <1>1, <1>3, <1>5

\* The data of one conversation alone is written.
LEMMA DataStep ==
  ASSUME DataOK, NEW c \in Conversations, NEW d,
         data' = [data EXCEPT ![c] = d],
         returned' \in [Conversations -> Seq(Jobs)],
         DataAt(d, returned'[c], Trigger(c)'),
         \A e \in Conversations \ {c} : returned'[e] = returned[e] /\ (Trigger(e) => Trigger(e)')
  PROVE  DataOK'
<1>1. ASSUME NEW e \in Conversations PROVE DataAt(data'[e], returned'[e], Trigger(e)')
  <2>1. CASE e = c
    BY <2>1 DEF DataOK
  <2>2. CASE e # c
    <3>1. data'[e] = data[e] /\ returned'[e] = returned[e] /\ (Trigger(e) => Trigger(e)')
      BY <2>2 DEF DataOK
    <3>2. DataAt(data[e], returned[e], Trigger(e))
      BY DEF DataOK
    <3> QED
      BY <3>1, <3>2 DEF DataAt
  <2> QED
    BY <2>1, <2>2
<1>2. data' \in [Conversations -> RetryData]
  BY DEF DataOK, DataAt
<1> QED
  BY <1>1, <1>2 DEF DataOK

LEMMA CallbackFits ==
  ASSUME RecordsOK, QueuesOK, DataOK, NEW c \in Conversations, Callback(c), UNCHANGED returned,
         \A e \in Conversations \ {c} : Trigger(e) => Trigger(e)'
  PROVE  RecordsOK' /\ QueuesOK' /\ DataOK'
<1>1. DataAt(data[c], returned[c], Trigger(c)) /\ returned \in [Conversations -> Seq(Jobs)]
  BY DEF DataOK
<1>2. CASE data[c].status # "BLOCKED_WITH_JOBS"
  <2>1. UNCHANGED <<data, queue, records>>
    BY <1>2 DEF Callback
  <2>2. DataAt(data[c], returned'[c], Trigger(c)')
    BY <1>1, <1>2 DEF DataAt
  <2>3. data' = [data EXCEPT ![c] = data[c]]
    BY <2>1 DEF DataOK
  <2>4. DataOK'
    BY <1>1, <2>2, <2>3, DataStep
  <2> QED
    BY <2>1, <2>4 DEF records, RecordsOK, QueuesOK
<1>3. CASE data[c].status = "BLOCKED_WITH_JOBS" /\ data[c].retryAt \in {"never", "past"}
  <2>1. Unblock({c})
    BY <1>3 DEF Callback
  <2> QED
    BY <2>1, UnblockFits
<1>4. CASE data[c].status = "BLOCKED_WITH_JOBS" /\ data[c].retryAt \notin {"never", "past"}
  <2> DEFINE d == [data[c] EXCEPT !.timer = TRUE]
  <2>1. data' = [data EXCEPT ![c] = d] /\ UNCHANGED <<queue, records>>
    BY <1>4 DEF Callback
  <2>2. DataAt(d, returned'[c], Trigger(c)')
    BY <1>1, <1>4 DEF DataAt, RetryData
  <2>3. DataOK'
    BY <1>1, <2>1, <2>2, DataStep
  <2> QED
    BY <2>1, <2>3 DEF records, RecordsOK, QueuesOK
<1> QED
  BY <1>2, <1>3, <1>4

LEMMA RecordSuccessFits ==
  ASSUME RecordsOK, QueuesOK, DataOK, NEW c \in Conversations, RecordSuccess(c),
         UNCHANGED <<returned, idleCallbacks, strayTimers>>
  PROVE  RecordsOK' /\ QueuesOK' /\ DataOK'
<1>1. \A e : Trigger(e)' <=> Trigger(e)
  BY DEF Trigger
<1>2. CASE data[c].status = "BLOCKED_WITH_JOBS"
  <2>1. Unblock({c})
    BY <1>2 DEF RecordSuccess
  <2> QED
    BY <1>1, <2>1, UnblockFits
<1>3. CASE data[c].status # "BLOCKED_WITH_JOBS"
  <2>1. data' = [data EXCEPT ![c] = NoData] /\ UNCHANGED <<queue, records>>
    BY <1>3 DEF RecordSuccess
  <2>2. DataAt(NoData, returned'[c], Trigger(c)')
    BY NoDataFits
  <2>3. returned' \in [Conversations -> Seq(Jobs)]
    BY DEF DataOK
  <2>4. DataOK'
    BY <1>1, <2>1, <2>2, <2>3, DataStep
  <2> QED
    BY <2>1, <2>4 DEF records, RecordsOK, QueuesOK
<1> QED
  BY <1>2, <1>3

LEMMA ResolveWaitersFits ==
  ASSUME RecordsOK, QueuesOK, DataOK, RunOK, NEW C, ResolveWaiters(C),
         UNCHANGED <<returned, idleCallbacks, strayTimers>>
  PROVE  /\ RecordsOK' /\ QueuesOK' /\ DataOK' /\ RunOK'
         /\ waiters' \subseteq waiters
<1>1. \A e : Trigger(e)' <=> Trigger(e)
  BY DEF Trigger
<1>2. RecordsOK' /\ QueuesOK' /\ DataOK'
  <2>1. Unblock(C \ waiters)
    BY DEF ResolveWaiters
  <2> QED
    BY <1>1, <2>1, UnblockFits
<1>3. RunOK'
  BY DEF RunOK, Run, ResolveWaiters
<1> QED
  BY <1>2, <1>3 DEF ResolveWaiters

\* What a part of the invariant says of variables that stay as they are.
LEMMA Frames ==
  /\ RecordsOK /\ UNCHANGED records => RecordsOK'
  /\ ServiceOK /\ UNCHANGED serviceVars => ServiceOK'
  /\ DialogOK /\ UNCHANGED dialog => DialogOK'
  /\ RunOK /\ UNCHANGED run => RunOK'
  /\ QueuesOK /\ UNCHANGED queue => QueuesOK'
  /\ DataOK /\ UNCHANGED <<data, returned, idleCallbacks, strayTimers>> => DataOK'
  /\ EndsOK /\ UNCHANGED <<added, endVars>> => EndsOK'
  /\ RestOK /\ UNCHANGED <<idleCallbacks, strayTimers, waiters, userVars, isShuttingDown, troubles>> => RestOK'
<1>1. RecordsOK /\ UNCHANGED records => RecordsOK'
  BY DEF RecordsOK, records
<1>2. ServiceOK /\ UNCHANGED serviceVars => ServiceOK'
  BY DEF ServiceOK, serviceVars
<1>3. DialogOK /\ UNCHANGED dialog => DialogOK'
  BY DEF DialogOK, dialog, TokenHasAsker
<1>4. DataOK /\ UNCHANGED <<data, returned, idleCallbacks, strayTimers>> => DataOK'
  BY DEF DataOK, Trigger
<1>5. EndsOK /\ UNCHANGED <<added, endVars>> => EndsOK'
  BY DEF EndsOK, endVars
<1>6. RestOK /\ UNCHANGED <<idleCallbacks, strayTimers, waiters, userVars, isShuttingDown, troubles>> => RestOK'
  BY DEF RestOK, userVars
<1> QED
  BY <1>1, <1>2, <1>3, <1>4, <1>5, <1>6 DEF RunOK, QueuesOK
-----------------------------------------------------------------------------
(* The first state.                                                        *)

LEMMA Initially == Init => RetryInv
<1> SUFFICES ASSUME Init PROVE RetryInv
  OBVIOUS
<1>1. PICK calls \in SUBSET Persisted : ChallengeInit(calls)
  BY DEF Init
<1>2. calls \subseteq Call
  BY JobsAssumption
<1>3. RecordsOK
  <2>1. ASSUME NEW c \in Conversations, \E call \in calls : call.conversation = c
        PROVE  (CHOOSE call \in calls : call.conversation = c).challenge \in Challenge
    BY <1>2, <2>1 DEF Call
  <2>2. registered \in [Conversations -> Challenge \cup {None}]
    BY <1>1, <2>1 DEF ChallengeInit
  <2> QED
    BY <1>1, <1>2, <2>2 DEF ChallengeInit, RecordsOK
<1>4. ServiceOK /\ DialogOK
  BY <1>1 DEF ChallengeInit, ServiceOK, DialogOK, TokenHasAsker
<1>5. RunOK
  <2>1. NoRun \in Run /\ NoRun.at = "idle"
    BY JobsAssumption DEF NoRun, Run
  <2> QED
    BY <2>1 DEF Init, RunOK
<1>6. QueuesOK
  BY DEF Init, QueuesOK
<1>7. DataOK
  <2>1. \A c \in Conversations : DataAt(data[c], returned[c], Trigger(c))
    BY NoDataFits DEF Init
  <2>2. NoData \in RetryData
    BY NoDataFits DEF DataAt
  <2> QED
    BY <2>1, <2>2 DEF Init, DataOK
<1>8. EndsOK
  BY DEF Init, EndsOK
<1>9. RestOK
  <2>1. isShuttingDown \in BOOLEAN
    BY Zenon DEF Init
  <2>2. troubles \in 0..MaxTroubles
    BY JobsAssumption DEF Init
  <2>3. Trusted \in [type : {"none", "pending", "cancelled"}, jobs : SUBSET Jobs]
    BY DEF Trusted
  <2> QED
    BY <2>1, <2>2, <2>3 DEF Init, RestOK
<1> QED
  BY <1>3, <1>4, <1>5, <1>6, <1>7, <1>8, <1>9 DEF RetryInv

-----------------------------------------------------------------------------
(* The steps of a job.                                                     *)

LEMMA AtFits ==
  ASSUME RunOK, NEW c \in Conversations, run[c].at # "idle",
         NEW step \in {"loading", "checking", "waiting", "sending", "thrown"},
         step = "thrown" => run[c].attempt < MaxAttempts,
         At(c, step)
  PROVE  RunOK'
<1> DEFINE r == [run[c] EXCEPT !.at = step]
<1>1. run' = [run EXCEPT ![c] = r]
  BY DEF At
<1>2. r \in Run /\ r.job = run[c].job /\ r.attempt = run[c].attempt /\ r.at = step
  BY DEF RunOK, Run
<1>3. run[c].job \in Jobs
  BY DEF RunOK
<1> HIDE DEF r
<1> QED
  BY <1>1, <1>2, <1>3 DEF RunOK

LEMMA ReleaseFits ==
  ASSUME RunOK, NEW c \in Conversations, Release(c) PROVE RunOK'
<1>1. NoRun \in Run /\ NoRun.at = "idle"
  BY JobsAssumption DEF NoRun, Run
<1> QED
  BY <1>1 DEF RunOK, Release

LEMMA AttemptFits ==
  ASSUME RunOK, EndsOK, NEW c \in Conversations, NEW j \in Jobs, NEW n \in 1..MaxAttempts,
         Attempt(c, j, n), UNCHANGED <<added, finished>>
  PROVE  RunOK' /\ EndsOK'
<1>1. CASE isShuttingDown
  BY <1>1, ReleaseFits DEF Attempt, EndsOK
<1>2. CASE ~isShuttingDown
  <2> DEFINE r == [job |-> j, at |-> "loading", attempt |-> n,
                   blocked |-> data[c].retryAt # "never", goOn |-> TRUE]
  <2>1. run' = [run EXCEPT ![c] = r] /\ UNCHANGED turnedAway
    BY <1>2 DEF Attempt
  <2>2. r \in Run
    BY JobsAssumption DEF Run
  <2>3. RunOK'
    BY <2>1, <2>2 DEF RunOK
  <2> QED
    BY <2>1, <2>3 DEF EndsOK
<1> QED
  BY <1>1, <1>2

LEMMA FinishFits ==
  ASSUME RunOK, EndsOK, NEW c \in Conversations, run[c].at # "idle", Finish(c), UNCHANGED added
  PROVE  RunOK' /\ EndsOK'
BY ReleaseFits DEF Finish, RunOK, EndsOK

LEMMA ThrowFits ==
  ASSUME RunOK, EndsOK, NEW c \in Conversations, run[c].at # "idle", Throw(c), UNCHANGED added
  PROVE  RunOK' /\ EndsOK'
<1>1. run[c].job \in Jobs
  BY DEF RunOK
<1>2. CASE run[c].attempt < MaxAttempts
  <2>1. At(c, "thrown") /\ UNCHANGED endVars
    BY <1>2 DEF Throw
  <2> QED
    BY <1>2, <2>1, AtFits DEF EndsOK, endVars
<1>3. CASE ~(run[c].attempt < MaxAttempts)
  <2>1. Release(c)
    BY <1>3 DEF Throw
  <2>2. EndsOK'
    BY <1>1, <1>3 DEF Throw, EndsOK
  <2> QED
    BY <2>1, <2>2, ReleaseFits
<1> QED
  BY <1>2, <1>3

\* A job that returns to be kept can only help BLOCKED.
LEMMA NeedsRetryFits ==
  ASSUME RunOK, DataOK, NEW c \in Conversations, run[c].at # "idle", NeedsRetry(c)
  PROVE  /\ RunOK'
         /\ returned' \in [Conversations -> Seq(Jobs)]
         /\ returned'[c] # <<>>
         /\ \A e \in Conversations \ {c} : returned'[e] = returned[e]
<1>1. run[c].job \in Jobs /\ returned[c] \in Seq(Jobs)
  BY DEF RunOK, DataOK
<1>2. Append(returned[c], run[c].job) \in Seq(Jobs) /\ Append(returned[c], run[c].job) # <<>>
  BY <1>1
<1>3. returned' = [returned EXCEPT ![c] = Append(returned[c], run[c].job)]
  BY DEF NeedsRetry
<1> QED
  BY <1>2, <1>3, ReleaseFits DEF NeedsRetry, DataOK

LEMMA AddFits ==
  ASSUME RetryInv, NEW j \in Jobs, Add(j) PROVE RetryInv'
<1> DEFINE c == ConversationOf[j]
<1>1. c \in Conversations
  BY JobsAssumption
<1>2. QueuesOK'
  <2>1. queue' = [queue EXCEPT ![c] = Append(queue[c], j)]
    BY DEF Add
  <2>2. Append(queue[c], j) \in Seq(Jobs)
    BY <1>1 DEF RetryInv, QueuesOK
  <2> QED
    BY <2>1, <2>2 DEF RetryInv, QueuesOK
<1>3. DialogOK'
  BY MaybeSolveFits, Frames DEF Add, RetryInv
<1>4. EndsOK'
  BY DEF Add, RetryInv, EndsOK, endVars
<1> QED
  BY <1>2, <1>3, <1>4, Frames DEF Add, RetryInv, retryVars

LEMMA StartFits ==
  ASSUME RetryInv, NEW c \in Conversations, Start(c) PROVE RetryInv'
<1>1. queue[c] \in Seq(Jobs) /\ queue[c] # <<>>
  BY DEF RetryInv, QueuesOK, Start
<1>2. Head(queue[c]) \in Jobs /\ Tail(queue[c]) \in Seq(Jobs)
  BY <1>1
<1>3. QueuesOK'
  BY <1>2 DEF RetryInv, QueuesOK, Start
<1>4. RunOK' /\ EndsOK'
  <2>1. 1 \in 1..MaxAttempts
    BY JobsAssumption
  <2>2. Attempt(c, Head(queue[c]), 1) /\ UNCHANGED <<added, finished>>
    BY DEF Start
  <2> QED
    BY <1>2, <2>1, <2>2, AttemptFits DEF RetryInv
<1> QED
  BY <1>3, <1>4, Frames DEF Start, RetryInv, challengeVars, retryVars

LEMMA NextAttemptFits ==
  ASSUME RetryInv, NEW c \in Conversations, NextAttempt(c) PROVE RetryInv'
<1>1. run[c].job \in Jobs /\ run[c].attempt \in 0..MaxAttempts /\ run[c].attempt < MaxAttempts
  BY DEF RetryInv, RunOK, Run, NextAttempt
<1>2. run[c].attempt + 1 \in 1..MaxAttempts
  BY <1>1, JobsAssumption
<1>3. RunOK' /\ EndsOK'
  <2>1. Attempt(c, run[c].job, run[c].attempt + 1) /\ UNCHANGED <<added, finished>>
    BY DEF NextAttempt
  <2> QED
    BY <1>1, <1>2, <2>1, AttemptFits DEF RetryInv
<1> QED
  BY <1>3, Frames DEF NextAttempt, RetryInv, challengeVars, retryVars

LEMMA LoadFits ==
  ASSUME RetryInv, NEW c \in Conversations, Load(c) PROVE RetryInv'
<1>1. run[c].at = "loading" /\ run[c].job \in Jobs
  BY DEF RetryInv, RunOK, Load
<1>2. RunOK' /\ DataOK'
  <2>1. CASE NeedsRetry(c)
    <3>1. /\ RunOK' /\ returned' \in [Conversations -> Seq(Jobs)] /\ returned'[c] # <<>>
          /\ \A e \in Conversations \ {c} : returned'[e] = returned[e]
      BY <1>1, <2>1, NeedsRetryFits DEF RetryInv
    <3>2. UNCHANGED <<data, idleCallbacks, strayTimers>>
      BY DEF Load, retryVars
    <3>3. \A e \in Conversations : DataAt(data[e], returned'[e], Trigger(e)')
      BY <3>1, <3>2 DEF RetryInv, DataOK, DataAt, Trigger
    <3> QED
      BY <3>1, <3>2, <3>3 DEF RetryInv, DataOK
  <2>2. CASE UNCHANGED returned /\ run' = [run EXCEPT ![c].at = "checking", ![c].blocked = FALSE]
    <3>1. RunOK'
      BY <1>1, <2>2, ZenonT(30) DEF RetryInv, RunOK, Run
    <3> QED
      BY <2>2, <3>1, Frames DEF Load, RetryInv, retryVars
  <2> QED
    BY <2>1, <2>2 DEF Load
<1> QED
  BY <1>2, Frames DEF Load, RetryInv, challengeVars, retryVars

LEMMA GiveUpFits ==
  ASSUME RetryInv, NEW c \in Conversations, GiveUp(c) \/ WaitTimesOut(c) PROVE RetryInv'
<1>1. RunOK'
  BY DEF GiveUp, WaitTimesOut, At, RetryInv, RunOK, Run
<1> QED
  BY <1>1, Frames DEF GiveUp, WaitTimesOut, RetryInv, challengeVars, retryVars

LEMMA WaitFits ==
  ASSUME RunOK, NEW c \in Conversations, run[c].at # "idle", Wait(c),
         waiters \subseteq Conversations
  PROVE  RunOK' /\ waiters' \subseteq Conversations
BY AtFits DEF Wait

LEMMA AwaitCaptchaFits ==
  ASSUME RetryInv, NEW c \in Conversations, AwaitCaptcha(c) PROVE RetryInv'
<1>1. run[c].at = "checking" /\ waiters \subseteq Conversations
  BY DEF AwaitCaptcha, RetryInv, RestOK
<1>2. RunOK' /\ EndsOK' /\ DialogOK' /\ waiters' \subseteq Conversations
  <2>1. CASE isShuttingDown
    BY <1>1, <2>1, ThrowFits, Frames DEF AwaitCaptcha, RetryInv
  <2>2. CASE ~isShuttingDown
    BY <1>1, <2>2, WaitFits, MaybeSolveFits, Frames DEF AwaitCaptcha, RetryInv
  <2> QED
    BY <2>1, <2>2
<1>3. RestOK'
  BY <1>2 DEF AwaitCaptcha, RetryInv, RestOK, retryVars, userVars
<1> QED
  BY <1>2, <1>3, Frames DEF AwaitCaptcha, RetryInv, retryVars

LEMMA AwaitVerificationFits ==
  ASSUME RetryInv, NEW c \in Conversations, AwaitVerification(c) PROVE RetryInv'
<1>1. run[c].at = "checking" /\ waiters \subseteq Conversations
  BY DEF AwaitVerification, MayPass, RetryInv, RestOK
<1>2. RecordsOK' /\ QueuesOK' /\ DataOK'
  BY UnblockFits DEF AwaitVerification, RetryInv, Trigger
<1>3. RunOK' /\ EndsOK' /\ waiters' \subseteq Conversations
  <2>1. \/ Finish(c) /\ UNCHANGED waiters
        \/ Throw(c) /\ UNCHANGED waiters
        \/ Wait(c) /\ UNCHANGED endVars
    BY DEF AwaitVerification
  <2>2. RunOK /\ EndsOK /\ UNCHANGED added /\ run[c].at # "idle"
    BY <1>1 DEF AwaitVerification, RetryInv
  <2>3. CASE Finish(c) /\ UNCHANGED waiters
    BY <1>1, <2>2, <2>3, FinishFits
  <2>4. CASE Throw(c) /\ UNCHANGED waiters
    BY <1>1, <2>2, <2>4, ThrowFits
  <2>5. CASE Wait(c) /\ UNCHANGED endVars
    BY <1>1, <2>2, <2>5, WaitFits, Frames
  <2> QED
    BY <2>1, <2>3, <2>4, <2>5
<1>4. RestOK'
  BY <1>3 DEF AwaitVerification, RetryInv, RestOK, userVars
<1> QED
  BY <1>2, <1>3, <1>4, Frames DEF AwaitVerification, RetryInv

LEMMA PassFits ==
  ASSUME RetryInv, NEW c \in Conversations, Pass(c) PROVE RetryInv'
<1>1. RecordsOK' /\ QueuesOK' /\ DataOK'
  BY UnblockFits DEF Pass, RetryInv, Trigger
<1>2. RunOK'
  <2> DEFINE goOn == run[c].goOn /\ run[c].job \notin verification[c].jobs
             r == [run[c] EXCEPT !.at = "sending", !.goOn = goOn]
  <2>1. run' = [run EXCEPT ![c] = r]
    BY DEF Pass, RetryInv, RunOK, Run
  <2>2. goOn \in BOOLEAN
    BY Zenon
  <2>3. r \in Run /\ r.at = "sending" /\ r.job = run[c].job
    BY <2>2 DEF RetryInv, RunOK, Run
  <2>4. run[c].job \in Jobs
    BY DEF RetryInv, RunOK, Pass, MayPass
  <2> QED
    BY <2>1, <2>3, <2>4 DEF RetryInv, RunOK
<1>3. RestOK'
  <2>1. verification' \in [Conversations -> [type : {"none", "pending", "cancelled"}, jobs : SUBSET Jobs]]
    BY DEF Pass, RetryInv, RestOK, Trusted
  <2> QED
    BY <2>1 DEF Pass, RetryInv, RestOK
<1> QED
  BY <1>1, <1>2, <1>3, Frames DEF Pass, RetryInv

LEMMA SendSucceedsFits ==
  ASSUME RetryInv, NEW c \in Conversations, SendSucceeds(c) PROVE RetryInv'
<1>1. RunOK' /\ EndsOK'
  BY FinishFits DEF SendSucceeds, RetryInv
<1>2. RecordsOK' /\ QueuesOK' /\ DataOK'
  <2>1. CASE RecordSuccess(c)
    BY <2>1, RecordSuccessFits DEF SendSucceeds, RetryInv
  <2>2. CASE UNCHANGED <<data, queue, records>>
    BY <2>2, Frames DEF SendSucceeds, RetryInv
  <2> QED
    BY <2>1, <2>2 DEF SendSucceeds
<1> QED
  BY <1>1, <1>2, Frames DEF SendSucceeds, RetryInv

LEMMA TroubleFits ==
  ASSUME troubles \in 0..MaxTroubles, Trouble PROVE troubles' \in 0..MaxTroubles
BY JobsAssumption DEF Trouble

LEMMA SendIsChallengedFits ==
  ASSUME RetryInv, NEW c \in Conversations, SendIsChallenged(c) PROVE RetryInv'
<1> DEFINE silent == run[c].job \in Silent
<1>1. PICK challenge \in Answers :
        /\ Register(c, challenge, silent)
        /\ IF silent
           THEN /\ data' = [data EXCEPT ![c] = Captured(@, challenge.retryAt)]
                /\ NeedsRetry(c) /\ UNCHANGED endVars
           ELSE Throw(c) /\ UNCHANGED <<data, returned>>
  BY DEF SendIsChallenged
<1>2. challenge \in Challenge /\ challenge.retryAt \in When
  BY JobsAssumption DEF Challenge, When
<1>3. silent \in BOOLEAN
  OBVIOUS
<1>4. RecordsOK'
  <2>1. Register(c, challenge, silent)
    BY <1>1
  <2> HIDE DEF silent
  <2> QED
    BY <1>2, <1>3, <2>1, RegisterFits DEF RetryInv
<1>5. UNCHANGED <<added, idleCallbacks, strayTimers>> /\ run[c].at = "sending"
  BY DEF SendIsChallenged
<1>6. RunOK' /\ EndsOK' /\ DataOK'
  <2>1. CASE silent
    <3>1. NeedsRetry(c) /\ UNCHANGED endVars
      BY <1>1, <2>1
    <3>2. /\ RunOK' /\ returned' \in [Conversations -> Seq(Jobs)] /\ returned'[c] # <<>>
          /\ \A e \in Conversations \ {c} : returned'[e] = returned[e]
      BY <1>5, <3>1, NeedsRetryFits DEF RetryInv
    <3>3. data' = [data EXCEPT ![c] = Captured(data[c], challenge.retryAt)]
      BY <1>1, <2>1
    <3>4. \A e : Trigger(e)' <=> Trigger(e)
      BY <1>5 DEF Trigger
    <3>5. DataAt(data[c], returned[c], Trigger(c))
      BY DEF RetryInv, DataOK
    <3>6. DataAt(Captured(data[c], challenge.retryAt), returned'[c], Trigger(c))
      BY <1>2, <3>2, <3>5, CapturedFits
    <3>7. DataAt(Captured(data[c], challenge.retryAt), returned'[c], Trigger(c)')
      BY <3>4, <3>6 DEF DataAt
    <3>8. DataOK'
      BY <3>2, <3>3, <3>4, <3>7, DataStep DEF RetryInv
    <3> QED
      BY <1>5, <3>1, <3>2, <3>8, Frames DEF RetryInv
  <2>2. CASE ~silent
    BY <1>1, <1>5, <2>2, ThrowFits, Frames DEF RetryInv
  <2> QED
    BY <2>1, <2>2
<1>7. RestOK'
  BY TroubleFits DEF SendIsChallenged, RetryInv, RestOK, userVars
<1> QED
  BY <1>4, <1>6, <1>7, Frames DEF SendIsChallenged, RetryInv

LEMMA SendIsStoppedFits ==
  ASSUME RetryInv, NEW c \in Conversations, SendIsStopped(c) PROVE RetryInv'
<1>1. run[c].at = "sending" /\ UNCHANGED added
  BY DEF SendIsStopped
<1>2. RunOK' /\ EndsOK'
  BY <1>1, FinishFits, ThrowFits DEF SendIsStopped, RetryInv
<1>3. RestOK'
  <2>1. verification' \in [Conversations -> [type : {"none", "pending", "cancelled"}, jobs : SUBSET Jobs]]
    BY DEF SendIsStopped, RetryInv, RestOK
  <2> QED
    BY <2>1, TroubleFits DEF SendIsStopped, RetryInv, RestOK, retryVars
<1> QED
  BY <1>2, <1>3, Frames DEF SendIsStopped, RetryInv, challengeVars, retryVars

LEMMA SendFailsFits ==
  ASSUME RetryInv, NEW c \in Conversations, SendFails(c) PROVE RetryInv'
<1>1. RunOK' /\ EndsOK'
  BY ThrowFits DEF SendFails, RetryInv
<1>2. RestOK'
  BY TroubleFits DEF SendFails, RetryInv, RestOK, retryVars, userVars
<1> QED
  BY <1>1, <1>2, Frames DEF SendFails, RetryInv, challengeVars, retryVars

-----------------------------------------------------------------------------
(* The jobs that are kept.                                                 *)

LEMMA KeepFits ==
  ASSUME RetryInv, NEW c \in Conversations, Keep(c) PROVE RetryInv'
<1>1. returned[c] \in Seq(Jobs) /\ returned[c] # <<>> /\ DataAt(data[c], returned[c], Trigger(c))
  BY DEF RetryInv, DataOK, Keep
<1>2. Head(returned[c]) \in Jobs /\ Tail(returned[c]) \in Seq(Jobs)
  BY <1>1
<1>3. Trigger(c)'
  <2>1. CASE data[c].status = "BLOCKED_WITH_JOBS"
    <3>1. Trigger(c) \/ data[c].timer
      BY <1>1, <2>1 DEF DataAt
    <3> QED
      BY <2>1, <3>1 DEF Keep, Trigger
  <2>2. CASE data[c].status # "BLOCKED_WITH_JOBS"
    BY <2>2 DEF Keep, Trigger
  <2> QED
    BY <2>1, <2>2
<1>4. DataOK'
  <2>1. data' = [data EXCEPT ![c] = Kept(data[c], Head(returned[c]))]
    BY DEF Keep
  <2>2. returned' = [returned EXCEPT ![c] = Tail(returned[c])] /\ returned \in [Conversations -> Seq(Jobs)]
    BY DEF Keep, RetryInv, DataOK
  <2>3. DataAt(Kept(data[c], Head(returned[c])), returned'[c], TRUE)
    BY <1>1, <1>2, KeptFits
  <2>4. DataAt(Kept(data[c], Head(returned[c])), returned'[c], Trigger(c)')
    BY <1>3, <2>3 DEF DataAt
  <2>5. \A e \in Conversations \ {c} : returned'[e] = returned[e] /\ (Trigger(e) => Trigger(e)')
    BY <2>2 DEF Keep, Trigger
  <2> QED
    BY <1>2, <2>1, <2>2, <2>4, <2>5, DataStep DEF RetryInv
<1>5. RestOK'
  BY DEF Keep, RetryInv, RestOK, userVars
<1> QED
  BY <1>4, <1>5, Frames DEF Keep, RetryInv, challengeVars

LEMMA CallbacksFit ==
  ASSUME RetryInv, NEW c \in Conversations, QueueIsIdle(c) \/ TimerFires(c) \/ StrayTimerFires(c)
  PROVE  RetryInv'
<1>1. Callback(c) /\ UNCHANGED returned
  BY DEF QueueIsIdle, TimerFires, StrayTimerFires
<1>2. \A e \in Conversations \ {c} : Trigger(e) => Trigger(e)'
  BY DEF QueueIsIdle, TimerFires, StrayTimerFires, Trigger
<1>3. RecordsOK' /\ QueuesOK' /\ DataOK'
  BY <1>1, <1>2, CallbackFits DEF RetryInv
<1>4. RestOK'
  BY DEF QueueIsIdle, TimerFires, StrayTimerFires, RetryInv, RestOK, userVars
<1> QED
  BY <1>3, <1>4, Frames DEF QueueIsIdle, TimerFires, StrayTimerFires, RetryInv

LEMMA RetryMaturesFits ==
  ASSUME RetryInv, NEW c \in Conversations, RetryMatures(c) PROVE RetryInv'
<1> DEFINE d == [data[c] EXCEPT !.retryAt = "past"]
<1>1. DataAt(data[c], returned[c], Trigger(c)) /\ returned \in [Conversations -> Seq(Jobs)]
  BY DEF RetryInv, DataOK
<1>2. data' = [data EXCEPT ![c] = d] /\ UNCHANGED <<returned, idleCallbacks, strayTimers>>
  BY DEF RetryMatures, jobVars
<1>3. DataAt(d, returned'[c], Trigger(c)')
  BY <1>1, <1>2 DEF DataAt, RetryData, When, Trigger
<1>4. \A e : Trigger(e)' <=> Trigger(e)
  BY <1>2 DEF Trigger
<1>5. DataOK'
  BY <1>1, <1>2, <1>3, <1>4, DataStep DEF RetryInv
<1> QED
  BY <1>5, Frames DEF RetryMatures, RetryInv, challengeVars, jobVars

-----------------------------------------------------------------------------
(* The user and the handler.                                               *)

LEMMA StartQueueFits ==
  ASSUME RetryInv, NEW c \in Conversations, StartQueue(c) PROVE RetryInv'
<1>1. RecordsOK' /\ QueuesOK' /\ DataOK' /\ RunOK' /\ waiters' \subseteq waiters
  BY ResolveWaitersFits DEF StartQueue, RetryInv
<1>2. ServiceOK'
  BY DEF StartQueue, RetryInv, ServiceOK
<1>3. RestOK'
  BY <1>1 DEF StartQueue, RetryInv, RestOK, userVars
<1> QED
  BY <1>1, <1>2, <1>3, Frames DEF StartQueue, RetryInv

LEMMA UserStepFits ==
  ASSUME RetryInv, UserStep PROVE RetryInv'
<1>1. CASE Cancel
  <2>1. RecordsOK' /\ QueuesOK' /\ DataOK' /\ RunOK' /\ waiters' \subseteq waiters
    BY <1>1, ResolveWaitersFits DEF Cancel, RetryInv
  <2>2. verification' \in [Conversations -> [type : {"none", "pending", "cancelled"}, jobs : SUBSET Jobs]]
    BY <1>1 DEF Cancel, RetryInv, EndsOK, Trusted
  <2>3. RestOK'
    BY <1>1, <2>1, <2>2 DEF Cancel, RetryInv, RestOK
  <2> QED
    BY <1>1, <2>1, <2>3, Frames DEF Cancel, RetryInv
<1>2. CASE Verify
  <2>1. Pending \subseteq Conversations
    BY DEF Pending
  <2>2. RestOK'
    BY <1>2, <2>1 DEF Verify, RetryInv, RestOK, Trusted, retryVars
  <2> QED
    BY <1>2, <2>2, Frames DEF Verify, RetryInv, challengeVars, jobVars, retryVars
<1>3. ASSUME NEW c \in Conversations, Verified(c) PROVE RetryInv'
  <2>1. RecordsOK' /\ QueuesOK' /\ DataOK' /\ RunOK' /\ waiters' \subseteq waiters
    BY <1>3, ResolveWaitersFits DEF Verified, RetryInv
  <2>2. RestOK'
    BY <1>3, <2>1 DEF Verified, RetryInv, RestOK
  <2> QED
    BY <1>3, <2>1, <2>2, Frames DEF Verified, RetryInv
<1> QED
  BY <1>1, <1>2, <1>3 DEF UserStep

\* The steps of the handler leave the jobs alone.
LEMMA OfTheHandler ==
  ASSUME RetryInv, RecordsOK', ServiceOK', DialogOK',
         UNCHANGED <<jobVars, retryVars, waiters, userVars, isShuttingDown, added, endVars, troubles>>
  PROVE  RetryInv'
BY Frames DEF RetryInv, jobVars, retryVars

LEMMA TrackedFits ==
  ASSUME RecordsOK, ServiceOK, DialogOK, NEW call \in registering, Tracked(call)
  PROVE  RecordsOK' /\ ServiceOK' /\ DialogOK'
<1> DEFINE c == call.conversation
<1>1. c \in Conversations
  BY DEF RecordsOK, Call
<1>2. CASE call.challenge.retryAt = "past"
  <2>1. StartQueues({c}) /\ UNCHANGED <<dialog, online, rateLimited>> /\ registering' \subseteq registering
    BY <1>2 DEF Tracked
  <2> QED
    BY <1>1, <2>1, StartQueuesFits, Frames
<1>3. CASE call.challenge.retryAt # "past"
  <2>1. RecordsOK' /\ ServiceOK'
    BY <1>1, <1>3 DEF Tracked, RecordsOK, ServiceOK
  <2>2. Solve \/ UNCHANGED dialog
    BY <1>3 DEF Tracked
  <2> QED
    BY <2>1, <2>2, SolveFits, Frames
<1> QED
  BY <1>2, <1>3

LEMMA StartTimerFits ==
  ASSUME RecordsOK, ServiceOK, DialogOK, NEW c \in Conversations, StartTimerFires(c)
  PROVE  RecordsOK' /\ ServiceOK' /\ DialogOK'
<1>1. DialogOK'
  BY Frames DEF StartTimerFires
<1>2. CASE online
  <2>1. Unregister({c}) /\ starting' = starting \cup {c} /\ UNCHANGED <<registering, online>> /\ rateLimited' = FALSE
    BY <1>2 DEF StartTimerFires, StartQueues
  <2>2. RecordsOK'
    BY <2>1, UnregisterFits
  <2> QED
    BY <1>1, <2>1, <2>2 DEF ServiceOK
<1>3. CASE ~online
  BY <1>1, <1>3 DEF StartTimerFires, RecordsOK, ServiceOK
<1> QED
  BY <1>2, <1>3

LEMMA ChallengeMaturesFits ==
  ASSUME RecordsOK, ServiceOK, DialogOK, NEW c \in Conversations, ChallengeMatures(c)
  PROVE  RecordsOK' /\ ServiceOK' /\ DialogOK'
<1>1. registered[c] \in Challenge
  BY DEF ChallengeMatures, IsRegistered, RecordsOK
<1>2. registered' \in [Conversations -> Challenge \cup {None}]
  BY <1>1 DEF ChallengeMatures, RecordsOK, Challenge, When
<1>3. \A call \in Call : [call EXCEPT !.challenge.retryAt = "past"] \in Call
  BY DEF Call, Challenge, When
<1>4. registering' \subseteq Call
  BY <1>3 DEF ChallengeMatures, RecordsOK
<1> QED
  BY <1>2, <1>4, Frames DEF ChallengeMatures, RecordsOK, ServiceOK

LEMMA HandlerFits ==
  ASSUME RetryInv, Handler PROVE RetryInv'
<1> SUFFICES RecordsOK' /\ ServiceOK' /\ DialogOK'
  BY OfTheHandler DEF Handler
<1>1. RecordsOK /\ ServiceOK /\ DialogOK
  BY DEF RetryInv
<1>2. CASE GoOnline
  <2>1. RecordsOK' /\ ServiceOK'
    BY <1>1, <1>2 DEF GoOnline, RecordsOK, ServiceOK
  <2> QED
    BY <1>1, <1>2, <2>1, Frames DEF GoOnline
<1>3. CASE CaptchaAnswered
  <2>1. asking' \in Nat /\ responding' \in Nat
    BY <1>1, <1>3 DEF CaptchaAnswered, DialogOK
  <2>2. hasToken' = FALSE
    BY <1>3 DEF CaptchaAnswered
  <2>3. hasToken' \in BOOLEAN /\ TokenHasAsker'
    BY <2>2, Zenon DEF TokenHasAsker
  <2>4. DialogOK'
    BY <2>1, <2>3 DEF DialogOK
  <2> QED
    BY <1>1, <1>3, <2>4, Frames DEF CaptchaAnswered
<1>4. CASE CaptchaAccepted
  <2>1. DialogOK'
    BY <1>1, <1>4 DEF CaptchaAccepted, DialogOK, TokenHasAsker
  <2>2. {c \in Conversations : IsRegistered(c)} \in SUBSET Conversations
    OBVIOUS
  <2> QED
    BY <1>1, <1>4, <2>1, <2>2, StartQueuesFits DEF CaptchaAccepted
<1>5. CASE CaptchaRejected
  <2>1. DialogOK'
    BY <1>1, <1>5 DEF CaptchaRejected, DialogOK, TokenHasAsker
  <2>2. PICK retryAt \in {"later", "past"} :
          registered' = [c \in Conversations |->
            IF IsRegistered(c) THEN [registered[c] EXCEPT !.retryAt = retryAt] ELSE None]
    BY <1>5 DEF CaptchaRejected
  <2>3. ASSUME NEW c \in Conversations, IsRegistered(c)
        PROVE  [registered[c] EXCEPT !.retryAt = retryAt] \in Challenge
    BY <1>1, <2>3 DEF RecordsOK, IsRegistered, Challenge, When
  <2>4. registered' \in [Conversations -> Challenge \cup {None}]
    BY <2>2, <2>3
  <2> QED
    BY <1>1, <1>5, <2>1, <2>4 DEF CaptchaRejected, RecordsOK, ServiceOK
<1> QED
  BY <1>1, <1>2, <1>3, <1>4, <1>5, TrackedFits, StartTimerFits, ChallengeMaturesFits DEF Handler

LEMMA OfflineFits ==
  ASSUME RetryInv, Offline PROVE RetryInv'
<1>1. ServiceOK'
  BY DEF Offline, GoOffline, RetryInv, ServiceOK
<1>2. RestOK'
  BY TroubleFits DEF Offline, RetryInv, RestOK, retryVars, userVars
<1> QED
  BY <1>1, <1>2, Frames DEF Offline, GoOffline, RetryInv, jobVars, retryVars

LEMMA ShutdownFits ==
  ASSUME RetryInv, Shutdown PROVE RetryInv'
<1>1. RestOK'
  BY DEF Shutdown, RetryInv, RestOK, retryVars, userVars
<1> QED
  BY <1>1, Frames DEF Shutdown, RetryInv, challengeVars, jobVars, retryVars

-----------------------------------------------------------------------------
LEMMA StepFits == RetryInv /\ [Next]_vars => RetryInv'
<1> SUFFICES ASSUME RetryInv, [Next]_vars PROVE RetryInv'
  OBVIOUS
<1>1. ASSUME NEW j \in Jobs, Add(j) PROVE RetryInv'
  BY <1>1, AddFits
<1>2. ASSUME NEW c \in Conversations, RunStep(c) PROVE RetryInv'
  BY <1>2, StartFits, NextAttemptFits, LoadFits, GiveUpFits, AwaitCaptchaFits, AwaitVerificationFits,
     PassFits, SendSucceedsFits, SendIsChallengedFits, SendIsStoppedFits, SendFailsFits DEF RunStep
<1>3. ASSUME NEW c \in Conversations, RetryStep(c) PROVE RetryInv'
  BY <1>3, KeepFits, CallbacksFit, RetryMaturesFits DEF RetryStep
<1>4. CASE UNCHANGED vars
  BY <1>4, Frames DEF RetryInv, vars, challengeVars, jobVars, retryVars
<1> QED
  BY <1>1, <1>2, <1>3, <1>4, StartQueueFits, UserStepFits, HandlerFits, OfflineFits, ShutdownFits DEF Next

LEMMA AlwaysRetryInv == Spec => []RetryInv
BY Initially, StepFits, PTL DEF Spec

(* Every variable keeps its type, and data holds kept jobs in the state    *)
(* BLOCKED_WITH_JOBS alone (perConversationData of                         *)
(* conversationJobQueue.ts), for any number of conversations and jobs.     *)
THEOREM RetryTypeCorrect == Spec => []TypeOK
BY AlwaysRetryInv, InvImplies, PTL

(* Jobs that retryJobOnQueueIdle has kept have a callback on the idle      *)
(* queue or a timer, however the runs, unblocks, captures and timers of    *)
(* any number of conversations interleave.                                 *)
THEOREM KeptJobsComeBack == Spec => []KeptJobsHaveTrigger
BY AlwaysRetryInv, InvImplies, PTL

(* A conversation is BLOCKED only while the job that was challenged is on  *)
(* its way to retryJobOnQueueIdle, as the comment on the state says.       *)
THEOREM BlockedWhileReturning == Spec => []BlockedIsShort
BY AlwaysRetryInv, InvImplies, PTL

(* The challenge handler keeps the token of a 428 only while a call of     *)
(* #solve waits for the user: no later challenge meets a stale token.      *)
THEOREM TokenIsAwaited == Spec => []TokenHasAsker
BY AlwaysRetryInv, InvImplies, PTL

-----------------------------------------------------------------------------
(* One place for every job.  The parts of InHand are kept apart, and what  *)
(* they hold together are the jobs with a row.                             *)

\* What a step does to the order within a place is left out here: a place
\* counts by its range, and holds a job once.
LEMMA RangeAppended ==
  ASSUME NEW s \in Seq(Jobs), NEW j \in Jobs
  PROVE  /\ Range(Append(s, j)) = Range(s) \cup {j}
         /\ IsInjective(s) /\ j \notin Range(s) => IsInjective(Append(s, j))
<1> DEFINE t == Append(s, j)
<1>1. /\ DOMAIN s = 1..Len(s) /\ Len(s) \in Nat
      /\ DOMAIN t = 1..(Len(s) + 1) /\ t[Len(s) + 1] = j
      /\ \A i \in 1..Len(s) : t[i] = s[i]
  OBVIOUS
<1>2. \A i \in 1..(Len(s) + 1) : i \in 1..Len(s) \/ i = Len(s) + 1
  BY <1>1
<1>3. 1..Len(s) \subseteq 1..(Len(s) + 1) /\ Len(s) + 1 \in 1..(Len(s) + 1)
  BY <1>1
<1> HIDE DEF t
<1>4. Range(t) = Range(s) \cup {j}
  BY <1>1, <1>2, <1>3 DEF Range
<1>5. ASSUME IsInjective(s), j \notin Range(s) PROVE IsInjective(t)
  <2>1. \A i \in 1..Len(s) : s[i] # j
    BY <1>1, <1>5 DEF Range
  <2> QED
    BY <1>1, <1>2, <1>5, <2>1 DEF IsInjective
<1> QED
  BY <1>4, <1>5 DEF t

LEMMA RangeOfTail ==
  ASSUME NEW s \in Seq(Jobs), s # <<>>, IsInjective(s)
  PROVE  /\ Head(s) \in Jobs /\ Tail(s) \in Seq(Jobs)
         /\ Head(s) \in Range(s)
         /\ Range(Tail(s)) = Range(s) \ {Head(s)}
         /\ IsInjective(Tail(s))
<1> DEFINE t == Tail(s)
<1>1. /\ DOMAIN s = 1..Len(s) /\ Len(s) \in Nat \ {0} /\ Head(s) = s[1]
      /\ DOMAIN t = 1..(Len(s) - 1)
      /\ \A i \in 1..(Len(s) - 1) : t[i] = s[i + 1]
      /\ Head(s) \in Jobs /\ t \in Seq(Jobs)
  OBVIOUS
<1>2. \A i \in 1..Len(s) : i # 1 => i - 1 \in 1..(Len(s) - 1) /\ (i - 1) + 1 = i
  BY <1>1
<1>3. \A i \in 1..(Len(s) - 1) : i + 1 \in 1..Len(s) /\ i + 1 # 1
  BY <1>1
<1>4. 1 \in 1..Len(s) /\ \A i, k \in 1..(Len(s) - 1) : i + 1 = k + 1 => i = k
  BY <1>1
<1> HIDE DEF t
<1>5. \A i \in 1..Len(s) : s[i] = s[1] => i = 1
  BY <1>1, <1>4 DEF IsInjective
<1>6. \A i \in 1..(Len(s) - 1) : t[i] \in Range(s) /\ t[i] # s[1]
  BY <1>1, <1>3, <1>5 DEF Range
<1>7. \A i \in 1..Len(s) : i # 1 => s[i] \in Range(t)
  <2> SUFFICES ASSUME NEW i \in 1..Len(s), i # 1 PROVE s[i] \in Range(t)
    OBVIOUS
  <2>1. t[i - 1] = s[i] /\ i - 1 \in DOMAIN t
    BY <1>1, <1>2
  <2> QED
    BY <2>1 DEF Range
<1>8. Range(t) = Range(s) \ {s[1]}
  BY <1>1, <1>5, <1>6, <1>7 DEF Range
<1>9. IsInjective(t)
  BY <1>1, <1>3, <1>4 DEF IsInjective
<1>10. s[1] \in Range(s)
  BY <1>1, <1>4 DEF Range
<1> QED
  BY <1>1, <1>8, <1>9, <1>10 DEF t

LEMMA RangeOfBoth ==
  ASSUME NEW s \in Seq(Jobs), NEW t \in Seq(Jobs)
  PROVE  /\ s \o t \in Seq(Jobs)
         /\ Range(s \o t) = Range(s) \cup Range(t)
         /\ IsInjective(s) /\ IsInjective(t) /\ Range(s) \cap Range(t) = {} => IsInjective(s \o t)
<1> DEFINE u == s \o t
           m == Len(s)
           n == Len(t)
<1>1. /\ m \in Nat /\ n \in Nat /\ DOMAIN s = 1..m /\ DOMAIN t = 1..n /\ DOMAIN u = 1..(m + n)
      /\ \A i \in 1..m : u[i] = s[i]
      /\ \A i \in 1..n : u[m + i] = t[i]
      /\ u \in Seq(Jobs)
  OBVIOUS
<1> HIDE DEF u, m, n
<1>2. \A i \in 1..(m + n) : i \in 1..m \/ (i \notin 1..m /\ i - m \in 1..n /\ m + (i - m) = i)
  BY <1>1
<1>3. /\ \A i \in 1..m : i \in 1..(m + n)
      /\ \A i \in 1..n : m + i \in 1..(m + n)
  BY <1>1
<1>4. \A i \in 1..(m + n) : i \notin 1..m => u[i] = t[i - m] /\ i - m \in 1..n
  BY <1>1, <1>2
<1>5. Range(u) = Range(s) \cup Range(t)
  <2>1. \A i \in 1..(m + n) : u[i] \in Range(s) \cup Range(t)
    BY <1>1, <1>4 DEF Range
  <2>2. \A i \in 1..m : s[i] \in Range(u)
    BY <1>1, <1>3 DEF Range
  <2>3. \A i \in 1..n : t[i] \in Range(u)
    BY <1>1, <1>3 DEF Range
  <2> QED
    BY <1>1, <2>1, <2>2, <2>3, ZenonT(30) DEF Range
<1>6. ASSUME IsInjective(s), IsInjective(t), Range(s) \cap Range(t) = {} PROVE IsInjective(u)
  <2>1. \A i \in 1..m, k \in 1..n : s[i] # t[k]
    BY <1>1, <1>6 DEF Range
  <2> SUFFICES ASSUME NEW i \in 1..(m + n), NEW k \in 1..(m + n), u[i] = u[k] PROVE i = k
    BY <1>1 DEF IsInjective
  <2>2. CASE i \in 1..m /\ k \in 1..m
    BY <1>1, <1>6, <2>2 DEF IsInjective
  <2>3. CASE i \in 1..m /\ k \notin 1..m
    BY <1>1, <1>4, <2>1, <2>3
  <2>4. CASE i \notin 1..m /\ k \in 1..m
    BY <1>1, <1>4, <2>1, <2>4
  <2>5. CASE i \notin 1..m /\ k \notin 1..m
    <3>1. t[i - m] = t[k - m] /\ i - m \in 1..n /\ k - m \in 1..n
      BY <1>4, <2>5
    <3>2. i - m = k - m
      BY <1>1, <1>6, <3>1 DEF IsInjective
    <3> QED
      BY <1>1, <3>2
  <2> QED
    BY <2>2, <2>3, <2>4, <2>5
<1> QED
  BY <1>1, <1>5, <1>6 DEF u

LEMMA NothingInRange == Range(<<>>) = {} /\ IsInjective(<<>>)
BY DEF Range, IsInjective

\* A sequence of jobs holds jobs, and None is no job.
LEMMA JobsInRange ==
  ASSUME NEW s \in Seq(Jobs) PROVE Range(s) \subseteq Jobs /\ None \notin Range(s)
<1>1. \A i \in DOMAIN s : s[i] \in Jobs
  OBVIOUS
<1> QED
  BY <1>1, JobsAssumption DEF Range

-----------------------------------------------------------------------------
\* The jobs of a conversation that have a row.
Rows(c) == {j \in added \ (finished \cup turnedAway) : ConversationOf[j] = c}

\* The queue q, the running job j, what is on its way back and what is kept
\* hold the jobs of S, each of them once.
PlacesAt(q, j, back, kept, S) ==
  /\ IsInjective(q) /\ IsInjective(back) /\ IsInjective(kept)
  /\ Range(q) \cap Range(back) = {} /\ Range(q) \cap Range(kept) = {} /\ Range(back) \cap Range(kept) = {}
  /\ j \notin Range(q) \cup Range(back) \cup Range(kept)
  /\ S = (Range(q) \cup Range(back) \cup Range(kept) \cup {j}) \ {None}

OwnPlaces(c) == PlacesAt(queue[c], run[c].job, returned[c], data[c].jobs, Rows(c))

\* Only what has had a row can lose it, or be turned away.
PlacesInv ==
  /\ \A c \in Conversations : (run[c].at = "idle" <=> run[c].job = None) /\ OwnPlaces(c)
  /\ finished \cup turnedAway \subseteq added

\* What moves from one place to another.
LEMMA JobComes ==
  ASSUME NEW q \in Seq(Jobs), NEW r, NEW b, NEW k, NEW S, PlacesAt(q, r, b, k, S),
         NEW j \in Jobs, j \notin S
  PROVE  PlacesAt(Append(q, j), r, b, k, S \cup {j})
<1>1. j # None
  BY JobsAssumption
<1>2. j \notin Range(q) \cup Range(b) \cup Range(k) \cup {r}
  BY <1>1 DEF PlacesAt
<1>3. Range(Append(q, j)) = Range(q) \cup {j} /\ IsInjective(Append(q, j))
  BY <1>2, RangeAppended DEF PlacesAt
<1> QED
  BY <1>1, <1>2, <1>3 DEF PlacesAt

LEMMA JobStarts ==
  ASSUME NEW q \in Seq(Jobs), q # <<>>, NEW b, NEW k, NEW S, PlacesAt(q, None, b, k, S)
  PROVE  /\ Head(q) \in S /\ Head(q) \in Jobs
         /\ PlacesAt(Tail(q), Head(q), b, k, S)
         /\ PlacesAt(Tail(q), None, b, k, S \ {Head(q)})
<1>1. /\ Head(q) \in Jobs /\ Head(q) \in Range(q)
      /\ Range(Tail(q)) = Range(q) \ {Head(q)} /\ IsInjective(Tail(q))
  BY RangeOfTail DEF PlacesAt
<1>2. Head(q) # None
  BY <1>1, JobsAssumption
<1> QED
  BY <1>1, <1>2 DEF PlacesAt

LEMMA JobEnds ==
  ASSUME NEW q \in Seq(Jobs), NEW j, NEW b \in Seq(Jobs), NEW k \in Seq(Jobs), NEW S,
         PlacesAt(q, j, b, k, S)
  PROVE  PlacesAt(q, None, b, k, S \ {j})
BY JobsInRange DEF PlacesAt

LEMMA JobReturns ==
  ASSUME NEW q \in Seq(Jobs), NEW j \in Jobs, NEW b \in Seq(Jobs), NEW k \in Seq(Jobs), NEW S,
         PlacesAt(q, j, b, k, S)
  PROVE  PlacesAt(q, None, Append(b, j), k, S)
<1>1. Range(Append(b, j)) = Range(b) \cup {j} /\ IsInjective(Append(b, j))
  BY RangeAppended DEF PlacesAt
<1>2. None \notin Range(q) \cup Range(b) \cup Range(k) /\ j # None
  BY JobsInRange, JobsAssumption
<1> QED
  BY <1>1, <1>2 DEF PlacesAt

LEMMA JobIsKept ==
  ASSUME NEW q, NEW r, NEW b \in Seq(Jobs), b # <<>>, NEW k \in Seq(Jobs), NEW S,
         PlacesAt(q, r, b, k, S)
  PROVE  PlacesAt(q, r, Tail(b), Append(k, Head(b)), S)
<1>1. /\ Head(b) \in Jobs /\ Head(b) \in Range(b)
      /\ Range(Tail(b)) = Range(b) \ {Head(b)} /\ IsInjective(Tail(b))
  BY RangeOfTail DEF PlacesAt
<1>2. Head(b) \notin Range(k)
  BY <1>1 DEF PlacesAt
<1>3. Range(Append(k, Head(b))) = Range(k) \cup {Head(b)} /\ IsInjective(Append(k, Head(b)))
  BY <1>1, <1>2, RangeAppended DEF PlacesAt
<1> QED
  BY <1>1, <1>3 DEF PlacesAt

LEMMA JobsComeBack ==
  ASSUME NEW q \in Seq(Jobs), NEW r, NEW b, NEW k \in Seq(Jobs), NEW S,
         PlacesAt(q, r, b, k, S)
  PROVE  PlacesAt(q \o k, r, b, <<>>, S)
<1>1. Range(q \o k) = Range(q) \cup Range(k) /\ IsInjective(q \o k)
  BY RangeOfBoth DEF PlacesAt
<1> QED
  BY <1>1, NothingInRange DEF PlacesAt

\* The places together are InHand.
LEMMA PlacesImply == RetryInv /\ PlacesInv => OnePlace
<1> SUFFICES ASSUME RetryInv, PlacesInv PROVE OnePlace
  OBVIOUS
<1>1. ASSUME NEW c \in Conversations
      PROVE  IsInjective(InHand(c)) /\ Range(InHand(c)) = Rows(c)
  <2> DEFINE r == IF run[c].job = None THEN <<>> ELSE <<run[c].job>>
  <2>1. queue[c] \in Seq(Jobs) /\ returned[c] \in Seq(Jobs) /\ data[c].jobs \in Seq(Jobs)
    BY DEF RetryInv, QueuesOK, DataOK, RetryData
  <2>2. run[c].job \in Jobs \cup {None}
    BY DEF RetryInv, RunOK, Run
  <2>3. r \in Seq(Jobs) /\ Range(r) = {run[c].job} \ {None} /\ IsInjective(r)
    <3>1. CASE run[c].job = None
      BY <3>1, NothingInRange
    <3>2. CASE run[c].job # None
      <4>1. r = <<run[c].job>> /\ run[c].job \in Jobs
        BY <2>2, <3>2
      <4>2. DOMAIN r = {1} /\ r[1] = run[c].job
        BY <4>1
      <4> HIDE DEF r
      <4> QED
        BY <3>2, <4>1, <4>2 DEF Range, IsInjective
    <3> QED
      BY <3>1, <3>2
  <2>4. OwnPlaces(c)
    BY DEF PlacesInv
  <2>5. None \notin Range(queue[c]) \cup Range(returned[c]) \cup Range(data[c].jobs)
    BY <2>1, JobsInRange
  <2>6. InHand(c) = ((queue[c] \o r) \o returned[c]) \o data[c].jobs
    BY DEF InHand
  <2> HIDE DEF r
  <2> DEFINE s == queue[c] \o r
  <2>7. s \in Seq(Jobs) /\ Range(s) = Range(queue[c]) \cup Range(r) /\ IsInjective(s)
    BY <2>1, <2>3, <2>4, RangeOfBoth DEF OwnPlaces, PlacesAt
  <2> HIDE DEF s
  <2> DEFINE t == s \o returned[c]
  <2>8. t \in Seq(Jobs) /\ Range(t) = Range(s) \cup Range(returned[c]) /\ IsInjective(t)
    BY <2>1, <2>3, <2>4, <2>7, RangeOfBoth DEF OwnPlaces, PlacesAt
  <2> HIDE DEF t
  <2> DEFINE u == t \o data[c].jobs
  <2>9. Range(u) = Range(t) \cup Range(data[c].jobs) /\ IsInjective(u)
    BY <2>1, <2>3, <2>4, <2>7, <2>8, RangeOfBoth DEF OwnPlaces, PlacesAt
  <2>10. u = InHand(c)
    BY <2>6 DEF s, t
  <2> HIDE DEF u
  <2> QED
    BY <2>3, <2>4, <2>5, <2>7, <2>8, <2>9, <2>10 DEF OwnPlaces, PlacesAt
<1>2. ASSUME NEW j \in Jobs
      PROVE  j \in Range(InHand(ConversationOf[j])) <=> j \in added \ (finished \cup turnedAway)
  <2>1. ConversationOf[j] \in Conversations
    BY JobsAssumption
  <2> QED
    BY <1>1, <2>1 DEF Rows
<1> QED
  BY <1>1, <1>2 DEF OnePlace

-----------------------------------------------------------------------------
\* What a step does to the places of a conversation besides its run: the kept
\* jobs stay where they are, or come after the queue.
JobsStayOrComeBack(c) ==
  \/ queue'[c] = queue[c] /\ data'[c].jobs = data[c].jobs
  \/ queue'[c] = queue[c] \o data[c].jobs /\ data'[c].jobs = <<>>

RunSame(c) == run'[c].job = run[c].job /\ (run'[c].at = "idle" <=> run[c].at = "idle")
RunGone(c) == run'[c].job = None /\ run'[c].at = "idle"

\* ... and to the run of c: the job goes on, ends or is on its way back.
RunMoves(c) ==
  /\ \A e \in Conversations \ {c} : RunSame(e)
  /\ \/ RunSame(c) /\ UNCHANGED <<returned, endVars>>
     \/ /\ RunGone(c) /\ UNCHANGED returned
        /\ finished' \cup turnedAway' = finished \cup turnedAway \cup {run[c].job}
     \/ /\ RunGone(c) /\ returned' = [returned EXCEPT ![c] = Append(@, run[c].job)]
        /\ UNCHANGED endVars

\* Nothing is counted where there is no data.
CountInv == \A c \in Conversations : data[c].status = "none" => data[c].attempts = 0

\* The attempts of a conversation are not forgotten, and counted from 0.
Counts(d, d2) == d2.attempts >= d.attempts /\ (d2.status = "none" => d2.attempts = 0)

\* The queues, the kept jobs and what is counted are typed.
LEMMA PlaceTypes ==
  ASSUME RetryInv
  PROVE  \A c \in Conversations :
           /\ queue[c] \in Seq(Jobs) /\ returned[c] \in Seq(Jobs) /\ data[c].jobs \in Seq(Jobs)
           /\ data[c] \in RetryData /\ data[c].attempts \in 0..MaxBackoff
           /\ data[c].jobs # <<>> <=> data[c].status = "BLOCKED_WITH_JOBS"
           /\ run[c].at # "idle" => run[c].job \in Jobs
BY DEF RetryInv, QueuesOK, RunOK, DataOK, DataAt, RetryData

\* A conversation's places stay in order when its kept jobs come back.
LEMMA PlacesAfterMove ==
  ASSUME RetryInv, PlacesInv, NEW c \in Conversations, JobsStayOrComeBack(c)
  PROVE  /\ PlacesAt(queue'[c], run[c].job, returned[c], data'[c].jobs, Rows(c))
         /\ queue'[c] \in Seq(Jobs) /\ data'[c].jobs \in Seq(Jobs)
<1>1. PlacesAt(queue[c], run[c].job, returned[c], data[c].jobs, Rows(c))
  BY DEF PlacesInv, OwnPlaces
<1>2. queue[c] \in Seq(Jobs) /\ returned[c] \in Seq(Jobs) /\ data[c].jobs \in Seq(Jobs)
  BY PlaceTypes
<1>3. CASE queue'[c] = queue[c] /\ data'[c].jobs = data[c].jobs
  BY <1>1, <1>2, <1>3
<1>4. CASE queue'[c] = queue[c] \o data[c].jobs /\ data'[c].jobs = <<>>
  <2>1. PlacesAt(queue[c] \o data[c].jobs, run[c].job, returned[c], <<>>, Rows(c))
    BY <1>1, <1>2, JobsComeBack
  <2>2. queue[c] \o data[c].jobs \in Seq(Jobs)
    BY <1>2
  <2> QED
    BY <1>4, <2>1, <2>2
<1> QED
  BY <1>3, <1>4 DEF JobsStayOrComeBack

LEMMA PlacesStay ==
  ASSUME RetryInv, PlacesInv, \A c \in Conversations : JobsStayOrComeBack(c) /\ RunSame(c),
         UNCHANGED <<returned, added, endVars>>
  PROVE  PlacesInv'
<1> SUFFICES ASSUME NEW c \in Conversations
             PROVE  (run'[c].at = "idle" <=> run'[c].job = None) /\ OwnPlaces(c)'
  BY DEF PlacesInv, endVars
<1>1. Rows(c)' = Rows(c)
  BY DEF Rows, endVars
<1>2. run'[c].job = run[c].job /\ (run'[c].at = "idle" <=> run[c].at = "idle")
  BY DEF RunSame
<1>3. run[c].at = "idle" <=> run[c].job = None
  BY DEF PlacesInv
<1>4. PlacesAt(queue'[c], run'[c].job, returned'[c], data'[c].jobs, Rows(c)')
  BY <1>1, <1>2, PlacesAfterMove
<1> QED
  BY <1>2, <1>3, <1>4 DEF OwnPlaces, PlacesAt

\* The one job that ends leaves the rows of its conversation alone.
LEMMA RowsWithout ==
  ASSUME NEW c, NEW j, j \in Rows(c), UNCHANGED added,
         finished' \cup turnedAway' = finished \cup turnedAway \cup {j}, NEW e
  PROVE  Rows(e)' = IF e = c THEN Rows(e) \ {j} ELSE Rows(e)
<1>1. ConversationOf[j] = c
  BY DEF Rows
<1>2. \A x : x \in Rows(e)' <=> x \in added /\ x \notin finished \cup turnedAway \cup {j} /\ ConversationOf[x] = e
  BY DEF Rows
<1>3. \A x : x \in Rows(e) <=> x \in added /\ x \notin finished \cup turnedAway /\ ConversationOf[x] = e
  BY DEF Rows
<1>4. CASE e = c
  <2>1. \A x : x \in Rows(e)' <=> x \in Rows(e) \ {j}
    BY <1>2, <1>3
  <2> QED
    BY <1>4, <2>1
<1>5. CASE e # c
  <2>1. \A x : x \in Rows(e)' <=> x \in Rows(e)
    BY <1>1, <1>2, <1>3, <1>5
  <2> QED
    BY <1>5, <2>1
<1> QED
  BY <1>4, <1>5

\* A job that runs has its row.
LEMMA RunningHasRow ==
  ASSUME RetryInv, PlacesInv, NEW c \in Conversations, run[c].at # "idle"
  PROVE  run[c].job \in Jobs /\ run[c].job \in Rows(c) /\ run[c].job \notin finished
<1>1. run[c].job \in Jobs
  BY PlaceTypes
<1>2. run[c].job \in Rows(c)
  BY <1>1, JobsAssumption DEF PlacesInv, OwnPlaces, PlacesAt
<1> QED
  BY <1>1, <1>2 DEF Rows

LEMMA RunPlaces ==
  ASSUME RetryInv, PlacesInv, NEW c \in Conversations, run[c].at # "idle",
         \A e \in Conversations : JobsStayOrComeBack(e), RunMoves(c), UNCHANGED added
  PROVE  PlacesInv'
<1>1. run[c].job \in Jobs /\ run[c].job \in Rows(c)
  BY RunningHasRow
<1>2. \A e \in Conversations : run[e].at = "idle" <=> run[e].job = None
  BY DEF PlacesInv
<1>3. CASE RunSame(c) /\ UNCHANGED <<returned, endVars>>
  BY <1>3, PlacesStay DEF RunMoves
<1>4. CASE /\ RunGone(c) /\ UNCHANGED returned
           /\ finished' \cup turnedAway' = finished \cup turnedAway \cup {run[c].job}
  <2>. finished' \cup turnedAway' \subseteq added'
    BY <1>1, <1>4 DEF PlacesInv, Rows
  <2> SUFFICES ASSUME NEW e \in Conversations
               PROVE  (run'[e].at = "idle" <=> run'[e].job = None) /\ OwnPlaces(e)'
    BY DEF PlacesInv
  <2>1. /\ PlacesAt(queue'[e], run[e].job, returned[e], data'[e].jobs, Rows(e))
        /\ queue'[e] \in Seq(Jobs) /\ data'[e].jobs \in Seq(Jobs) /\ returned[e] \in Seq(Jobs)
    BY PlacesAfterMove, PlaceTypes
  <2>2. PICK R : R = Rows(e)
    OBVIOUS
  <2>3. Rows(e)' = IF e = c THEN R \ {run[c].job} ELSE R
    BY <1>1, <1>4, <2>2, RowsWithout
  <2>4. CASE e = c
    <3>1. PlacesAt(queue'[e], None, returned[e], data'[e].jobs, R \ {run[e].job})
      BY <2>1, <2>2, JobEnds
    <3>2. run'[e].job = None /\ run'[e].at = "idle" /\ returned'[e] = returned[e] /\ Rows(e)' = R \ {run[e].job}
      BY <1>4, <2>3, <2>4 DEF RunGone
    <3> QED
      BY <3>1, <3>2 DEF OwnPlaces
  <2>5. CASE e # c
    <3>1. run'[e].job = run[e].job /\ (run'[e].at = "idle" <=> run[e].at = "idle")
      BY <2>5 DEF RunMoves, RunSame
    <3>2. returned'[e] = returned[e] /\ Rows(e)' = R
      BY <1>4, <2>3, <2>5
    <3> QED
      BY <1>2, <2>1, <2>2, <3>1, <3>2 DEF OwnPlaces
  <2> QED
    BY <2>4, <2>5
<1>5. CASE /\ RunGone(c) /\ returned' = [returned EXCEPT ![c] = Append(@, run[c].job)]
           /\ UNCHANGED endVars
  <2> SUFFICES ASSUME NEW e \in Conversations
               PROVE  (run'[e].at = "idle" <=> run'[e].job = None) /\ OwnPlaces(e)'
    BY <1>5 DEF PlacesInv, endVars
  <2>1. /\ PlacesAt(queue'[e], run[e].job, returned[e], data'[e].jobs, Rows(e))
        /\ queue'[e] \in Seq(Jobs) /\ data'[e].jobs \in Seq(Jobs) /\ returned[e] \in Seq(Jobs)
    BY PlacesAfterMove, PlaceTypes
  <2>2. Rows(e)' = Rows(e)
    BY <1>5 DEF Rows, endVars
  <2>3. returned \in [Conversations -> Seq(Jobs)]
    BY DEF RetryInv, DataOK
  <2>4. CASE e = c
    <3>1. PlacesAt(queue'[e], None, Append(returned[e], run[e].job), data'[e].jobs, Rows(e))
      BY <1>1, <2>1, <2>4, JobReturns
    <3>2. run'[e].job = None /\ run'[e].at = "idle" /\ returned'[e] = Append(returned[e], run[e].job)
      BY <1>5, <2>3, <2>4 DEF RunGone
    <3> QED
      BY <2>2, <3>1, <3>2 DEF OwnPlaces
  <2>5. CASE e # c
    <3>1. run'[e].job = run[e].job /\ (run'[e].at = "idle" <=> run[e].at = "idle")
      BY <2>5 DEF RunMoves, RunSame
    <3>2. returned'[e] = returned[e]
      BY <1>5, <2>3, <2>5
    <3> QED
      BY <1>2, <2>1, <2>2, <3>1, <3>2 DEF OwnPlaces
  <2> QED
    BY <2>4, <2>5
<1> QED
  BY <1>3, <1>4, <1>5 DEF RunMoves

-----------------------------------------------------------------------------
(* What several of the handlers do to the places and to the attempts.      *)

LEMMA RunningCounts ==
  ASSUME NEW d \in RetryData, d.status = "none" => d.attempts = 0
  PROVE  Counts(d, Running(d)) /\ (d.status # "none" => Running(d).jobs = <<>>)
                               /\ (d.status = "none" => Running(d) = d)
<1>1. d.attempts \in Nat
  BY JobsAssumption DEF RetryData
<1>2. CASE d.status = "none"
  BY <1>1, <1>2 DEF Running, Counts
<1>3. CASE d.status # "none"
  <2>1. Running(d).attempts = d.attempts /\ Running(d).status = "RUNNING" /\ Running(d).jobs = <<>>
    BY <1>3 DEF Running, NoData
  <2> QED
    BY <1>1, <1>3, <2>1 DEF Counts
<1> QED
  BY <1>2, <1>3

LEMMA AttemptsKept ==
  ASSUME NEW d \in RetryData, d.status = "none" => d.attempts = 0
  PROVE  Counts(d, d)
<1>1. d.attempts \in Nat
  BY JobsAssumption DEF RetryData
<1> QED
  BY <1>1 DEF Counts

\* Nothing moves, and nothing is counted.
LEMMA NothingMoves ==
  ASSUME RetryInv, CountInv, NEW c \in Conversations, queue'[c] = queue[c], data'[c] = data[c]
  PROVE  JobsStayOrComeBack(c) /\ Counts(data[c], data'[c])
<1>1. Counts(data[c], data[c])
  BY PlaceTypes, AttemptsKept DEF CountInv
<1> QED
  BY <1>1 DEF JobsStayOrComeBack

LEMMA UnblockMoves ==
  ASSUME RetryInv, CountInv, NEW C, Unblock(C), NEW c \in Conversations
  PROVE  JobsStayOrComeBack(c) /\ Counts(data[c], data'[c])
<1>1. /\ data[c] \in RetryData /\ data[c].jobs \in Seq(Jobs) /\ queue[c] \in Seq(Jobs)
      /\ data[c].jobs # <<>> <=> data[c].status = "BLOCKED_WITH_JOBS"
      /\ data[c].status = "none" => data[c].attempts = 0
  BY PlaceTypes DEF CountInv
<1>2. CASE c \notin C
  <2>1. data'[c] = data[c] /\ queue'[c] = queue[c]
    BY <1>2 DEF Unblock
  <2> QED
    BY <2>1, NothingMoves
<1>3. CASE c \in C
  <2>1. data'[c] = Running(data[c])
    BY <1>3 DEF Unblock
  <2>2. queue'[c] = IF data[c].status = "BLOCKED_WITH_JOBS" THEN queue[c] \o data[c].jobs ELSE queue[c]
    BY <1>3 DEF Unblock
  <2>3. Counts(data[c], data'[c])
    BY <1>1, <2>1, RunningCounts
  <2>4. CASE data[c].status = "BLOCKED_WITH_JOBS"
    <3>1. data'[c].jobs = <<>>
      BY <1>1, <2>1, <2>4, RunningCounts
    <3> QED
      BY <2>2, <2>3, <2>4, <3>1 DEF JobsStayOrComeBack
  <2>5. CASE data[c].status # "BLOCKED_WITH_JOBS"
    <3>1. data'[c].jobs = <<>>
      BY <1>1, <2>1, <2>5, RunningCounts
    <3> QED
      BY <1>1, <2>2, <2>3, <2>5, <3>1 DEF JobsStayOrComeBack
  <2> QED
    BY <2>4, <2>5
<1> QED
  BY <1>2, <1>3

\* The data of one conversation is written, without its jobs.
LEMMA OneDataMoves ==
  ASSUME RetryInv, CountInv, NEW c \in Conversations, NEW d, data' = [data EXCEPT ![c] = d],
         d.jobs = data[c].jobs, UNCHANGED queue, NEW e \in Conversations
  PROVE  /\ JobsStayOrComeBack(e)
         /\ Counts(data[c], d) \/ e # c => Counts(data[e], data'[e])
<1>1. data \in [Conversations -> RetryData]
  BY DEF RetryInv, DataOK
<1>2. CASE e = c
  <2>1. data'[e] = d
    BY <1>1, <1>2
  <2> QED
    BY <1>2, <2>1 DEF JobsStayOrComeBack
<1>3. CASE e # c
  <2>1. data'[e] = data[e] /\ queue'[e] = queue[e]
    BY <1>1, <1>3
  <2> QED
    BY <2>1, NothingMoves
<1> QED
  BY <1>2, <1>3

LEMMA CallbackMoves ==
  ASSUME RetryInv, CountInv, NEW c \in Conversations, Callback(c), NEW e \in Conversations
  PROVE  JobsStayOrComeBack(e) /\ Counts(data[e], data'[e])
<1>1. CASE data[c].status # "BLOCKED_WITH_JOBS"
  <2>1. UNCHANGED <<data, queue>>
    BY <1>1 DEF Callback
  <2> QED
    BY <2>1, NothingMoves
<1>2. CASE data[c].status = "BLOCKED_WITH_JOBS" /\ data[c].retryAt \in {"never", "past"}
  <2>1. Unblock({c})
    BY <1>2 DEF Callback
  <2> QED
    BY <2>1, UnblockMoves
<1>3. CASE data[c].status = "BLOCKED_WITH_JOBS" /\ data[c].retryAt \notin {"never", "past"}
  <2> DEFINE d == [data[c] EXCEPT !.timer = TRUE]
  <2>1. data' = [data EXCEPT ![c] = d] /\ UNCHANGED queue
    BY <1>3 DEF Callback
  <2>2. data[c] \in RetryData
    BY PlaceTypes
  <2>3. d.jobs = data[c].jobs /\ d.attempts = data[c].attempts /\ d.status = data[c].status
    BY <2>2 DEF RetryData
  <2>4. Counts(data[c], data[c])
    BY <2>2, AttemptsKept DEF CountInv
  <2>5. Counts(data[c], d)
    BY <2>3, <2>4 DEF Counts
  <2> HIDE DEF d
  <2> QED
    BY <2>1, <2>3, <2>5, OneDataMoves
<1> QED
  BY <1>1, <1>2, <1>3

\* A send that goes through forgets the attempts of its conversation alone.
LEMMA RecordSuccessMoves ==
  ASSUME RetryInv, CountInv, NEW c \in Conversations, RecordSuccess(c), NEW e \in Conversations
  PROVE  /\ JobsStayOrComeBack(e)
         /\ data'[e].status = "none" => data'[e].attempts = 0
         /\ e # c => Counts(data[e], data'[e])
<1>1. CASE data[c].status = "BLOCKED_WITH_JOBS"
  <2>1. Unblock({c})
    BY <1>1 DEF RecordSuccess
  <2> QED
    BY <2>1, UnblockMoves DEF Counts
<1>2. CASE data[c].status # "BLOCKED_WITH_JOBS"
  <2>1. data' = [data EXCEPT ![c] = NoData] /\ UNCHANGED queue
    BY <1>2 DEF RecordSuccess
  <2>2. data[c].jobs = <<>> /\ data \in [Conversations -> RetryData]
    BY <1>2, PlaceTypes DEF RetryInv, DataOK
  <2>3. NoData.jobs = <<>> /\ NoData.attempts = 0
    BY DEF NoData
  <2>4. JobsStayOrComeBack(e) /\ (e # c => Counts(data[e], data'[e]))
    BY <2>1, <2>2, <2>3, OneDataMoves
  <2>5. e = c => data'[e].attempts = 0
    BY <2>1, <2>2, <2>3
  <2> QED
    BY <2>4, <2>5 DEF Counts
<1> QED
  BY <1>1, <1>2

LEMMA ResolveWaitersMoves ==
  ASSUME RetryInv, CountInv, NEW C, ResolveWaiters(C), NEW c \in Conversations
  PROVE  JobsStayOrComeBack(c) /\ Counts(data[c], data'[c]) /\ RunSame(c)
<1>1. JobsStayOrComeBack(c) /\ Counts(data[c], data'[c])
  BY UnblockMoves DEF ResolveWaiters
<1>2. RunSame(c)
  BY DEF ResolveWaiters, RunSame, RetryInv, RunOK, Run
<1> QED
  BY <1>1, <1>2

LEMMA CapturedCounts ==
  ASSUME NEW d \in RetryData, d.status = "none" => d.attempts = 0, NEW retryAt,
         d.jobs # <<>> <=> d.status = "BLOCKED_WITH_JOBS"
  PROVE  Counts(d, Captured(d, retryAt)) /\ Captured(d, retryAt).jobs = d.jobs
<1>1. d.attempts \in 0..MaxBackoff /\ MaxBackoff \in Nat
  BY JobsAssumption DEF RetryData
<1>2. OneMore(d.attempts) >= d.attempts
  BY <1>1 DEF OneMore
<1>3. CASE d.status = "none"
  <2>1. Captured(d, retryAt).attempts = 1 /\ Captured(d, retryAt).jobs = <<>> /\ Captured(d, retryAt).status = "BLOCKED"
    BY <1>3 DEF Captured, NoData
  <2> QED
    BY <1>1, <1>3, <2>1 DEF Counts
<1>4. CASE d.status = "RUNNING"
  <2>1. /\ Captured(d, retryAt).attempts = OneMore(d.attempts)
        /\ Captured(d, retryAt).jobs = <<>> /\ Captured(d, retryAt).status = "BLOCKED"
    BY <1>4 DEF Captured, NoData
  <2> QED
    BY <1>2, <1>4, <2>1 DEF Counts
<1>5. CASE d.status \notin {"none", "RUNNING"}
  <2>1. Captured(d, retryAt) = [d EXCEPT !.retryAt = "later"]
    BY <1>5 DEF Captured
  <2> QED
    BY <1>1, <1>5, <2>1 DEF Counts, RetryData
<1> QED
  BY <1>3, <1>4, <1>5

LEMMA KeptCounts ==
  ASSUME NEW d \in RetryData, d.status = "none" => d.attempts = 0, NEW j
  PROVE  Counts(d, Kept(d, j))
<1>1. d.attempts \in 0..MaxBackoff /\ MaxBackoff \in Nat
  BY JobsAssumption DEF RetryData
<1>2. OneMore(d.attempts) >= d.attempts
  BY <1>1 DEF OneMore
<1>3. Kept(d, j).status = "BLOCKED_WITH_JOBS" /\ Kept(d, j).attempts >= d.attempts
  BY <1>1, <1>2 DEF Kept
<1> QED
  BY <1>3 DEF Counts

-----------------------------------------------------------------------------
(* The actions.  A step keeps the places, and forgets no attempts unless a *)
(* send went through.                                                      *)

Forgotten(c) == run[c].goOn /\ run[c].job \in finished' \ finished

StepKeeps ==
  /\ PlacesInv'
  /\ \A c \in Conversations :
       /\ data'[c].status = "none" => data'[c].attempts = 0
       /\ data'[c].attempts < data[c].attempts => Forgotten(c)

\* What counts up forgets nothing.
LEMMA CountedUp ==
  ASSUME RetryInv, PlacesInv', \A c \in Conversations : data'[c].attempts \in Nat /\ Counts(data[c], data'[c])
  PROVE  StepKeeps
<1>1. \A c \in Conversations : data[c].attempts \in Nat
  BY PlaceTypes, JobsAssumption
<1> QED
  BY <1>1 DEF StepKeeps, Counts

\* The data of every step is typed.
LEMMA CountsTyped ==
  ASSUME RetryInv' PROVE \A c \in Conversations : data'[c].attempts \in Nat
BY JobsAssumption DEF RetryInv, DataOK, RetryData

\* The jobs go where the run of c takes them, and attempts count up.
LEMMA RunKeeps ==
  ASSUME RetryInv, PlacesInv, CountInv, RetryInv', NEW c \in Conversations, run[c].at # "idle",
         \A e \in Conversations : JobsStayOrComeBack(e) /\ Counts(data[e], data'[e]),
         RunMoves(c), UNCHANGED added
  PROVE  StepKeeps
BY RunPlaces, CountedUp, CountsTyped

\* The places stay, and attempts count up.
LEMMA StayKeeps ==
  ASSUME RetryInv, PlacesInv, CountInv, RetryInv',
         \A e \in Conversations : JobsStayOrComeBack(e) /\ Counts(data[e], data'[e]) /\ RunSame(e),
         UNCHANGED <<returned, added, endVars>>
  PROVE  StepKeeps
BY PlacesStay, CountedUp, CountsTyped

\* Queue and data are left alone.
LEMMA Untouched ==
  ASSUME RetryInv, CountInv, UNCHANGED <<queue, data>>
  PROVE  \A e \in Conversations : JobsStayOrComeBack(e) /\ Counts(data[e], data'[e])
BY NothingMoves

\* What the steps of a run do to it.
LEMMA AtMoves ==
  ASSUME RetryInv, NEW c \in Conversations, run[c].at # "idle", NEW step, step # "idle", At(c, step),
         UNCHANGED <<returned, endVars>>
  PROVE  RunMoves(c)
<1>1. run \in [Conversations -> Run]
  BY DEF RetryInv, RunOK
<1>2. \A e \in Conversations \ {c} : run'[e] = run[e]
  BY <1>1 DEF At
<1>3. run'[c].job = run[c].job /\ run'[c].at = step
  BY <1>1 DEF At, Run
<1> QED
  BY <1>2, <1>3 DEF RunMoves, RunSame

LEMMA ReleaseMoves ==
  ASSUME RetryInv, NEW c \in Conversations, Release(c)
  PROVE  RunGone(c) /\ \A e \in Conversations \ {c} : RunSame(e)
<1>1. run \in [Conversations -> Run]
  BY DEF RetryInv, RunOK
<1>2. \A e \in Conversations \ {c} : run'[e] = run[e]
  BY <1>1 DEF Release
<1>3. run'[c] = NoRun
  BY <1>1 DEF Release
<1> QED
  BY <1>2, <1>3 DEF RunSame, RunGone, NoRun

LEMMA FinishMoves ==
  ASSUME RetryInv, NEW c \in Conversations, Finish(c), UNCHANGED returned
  PROVE  RunMoves(c)
<1>1. finished' \cup turnedAway' = finished \cup turnedAway \cup {run[c].job}
  BY DEF Finish
<1> QED
  BY <1>1, ReleaseMoves DEF Finish, RunMoves

LEMMA ThrowMoves ==
  ASSUME RetryInv, NEW c \in Conversations, run[c].at # "idle", Throw(c), UNCHANGED returned
  PROVE  RunMoves(c)
<1>1. CASE run[c].attempt < MaxAttempts
  <2>1. At(c, "thrown") /\ UNCHANGED endVars
    BY <1>1 DEF Throw
  <2> QED
    BY <2>1, AtMoves
<1>2. CASE ~(run[c].attempt < MaxAttempts)
  <2>1. Release(c)
    BY <1>2 DEF Throw
  <2>2. finished' \cup turnedAway' = finished \cup turnedAway \cup {run[c].job}
    BY <1>2 DEF Throw
  <2> QED
    BY <2>1, <2>2, ReleaseMoves DEF RunMoves
<1> QED
  BY <1>1, <1>2

LEMMA NeedsRetryMoves ==
  ASSUME RetryInv, NEW c \in Conversations, NeedsRetry(c), UNCHANGED endVars
  PROVE  RunMoves(c)
BY ReleaseMoves DEF NeedsRetry, RunMoves

-----------------------------------------------------------------------------
LEMMA AddKeeps ==
  ASSUME RetryInv, PlacesInv, CountInv, RetryInv', NEW j \in Jobs, Add(j)
  PROVE  StepKeeps
<1> DEFINE c == ConversationOf[j]
<1>1. c \in Conversations
  BY JobsAssumption
<1>2. /\ j \notin added /\ added' = added \cup {j} /\ queue' = [queue EXCEPT ![c] = Append(@, j)]
      /\ UNCHANGED <<run, returned, data, endVars>>
  BY DEF Add, retryVars
<1>3. queue \in [Conversations -> Seq(Jobs)] /\ finished \cup turnedAway \subseteq Jobs
  BY DEF RetryInv, QueuesOK, EndsOK
<1>4. finished \cup turnedAway \subseteq added
  BY DEF PlacesInv
<1>5. UNCHANGED endVars /\ j \notin finished \cup turnedAway
  BY <1>2, <1>4
<1>6. ASSUME NEW e \in Conversations
      PROVE  (run'[e].at = "idle" <=> run'[e].job = None) /\ OwnPlaces(e)'
  <2>1. run'[e] = run[e] /\ returned'[e] = returned[e] /\ data'[e] = data[e]
    BY <1>2
  <2>2. (run[e].at = "idle" <=> run[e].job = None) /\ OwnPlaces(e)
    BY DEF PlacesInv
  <2>3. PICK R : R = Rows(e)
    OBVIOUS
  <2>4. \A x : x \in Rows(e)' <=> x \in R \/ (x = j /\ e = c)
    <3>1. \A x : x \in Rows(e)' <=> x \in added \cup {j} /\ x \notin finished \cup turnedAway /\ ConversationOf[x] = e
      BY <1>2, <1>5 DEF Rows, endVars
    <3>2. \A x : x \in R <=> x \in added /\ x \notin finished \cup turnedAway /\ ConversationOf[x] = e
      BY <2>3 DEF Rows
    <3> QED
      BY <1>5, <3>1, <3>2
  <2>5. CASE e = c
    <3>1. Rows(e)' = R \cup {j} /\ j \notin R
      BY <1>2, <2>3, <2>4, <2>5 DEF Rows
    <3>2. queue'[e] = Append(queue[e], j) /\ queue[e] \in Seq(Jobs)
      BY <1>2, <1>3, <2>5
    <3>3. PlacesAt(Append(queue[e], j), run[e].job, returned[e], data[e].jobs, R \cup {j})
      BY <2>2, <2>3, <3>1, <3>2, JobComes DEF OwnPlaces
    <3> QED
      BY <2>1, <2>2, <3>1, <3>2, <3>3 DEF OwnPlaces
  <2>6. CASE e # c
    <3>1. Rows(e)' = R
      BY <2>4, <2>6
    <3>2. queue'[e] = queue[e]
      BY <1>2, <1>3, <2>6
    <3> QED
      BY <2>1, <2>2, <2>3, <3>1, <3>2 DEF OwnPlaces
  <2> QED
    BY <2>5, <2>6
<1>7. PlacesInv'
  BY <1>2, <1>4, <1>6 DEF PlacesInv, endVars
<1>8. \A e \in Conversations : Counts(data[e], data'[e])
  BY <1>2, PlaceTypes, AttemptsKept DEF CountInv
<1> QED
  BY <1>7, <1>8, CountedUp, CountsTyped

LEMMA StartKeeps ==
  ASSUME RetryInv, PlacesInv, CountInv, RetryInv', NEW c \in Conversations, Start(c)
  PROVE  StepKeeps
<1>1. /\ run[c].at = "idle" /\ queue[c] # <<>> /\ queue' = [queue EXCEPT ![c] = Tail(@)]
      /\ Attempt(c, Head(queue[c]), 1) /\ UNCHANGED <<returned, data, added, finished>>
  BY DEF Start, retryVars
<1>2. queue \in [Conversations -> Seq(Jobs)] /\ run \in [Conversations -> Run]
  BY DEF RetryInv, QueuesOK, RunOK
<1>3. run[c].job = None /\ OwnPlaces(c)
  BY <1>1 DEF PlacesInv
<1>4. PICK j : j = Head(queue[c])
  OBVIOUS
<1>5. /\ j \in Rows(c) /\ j \in Jobs
      /\ PlacesAt(Tail(queue[c]), j, returned[c], data[c].jobs, Rows(c))
      /\ PlacesAt(Tail(queue[c]), None, returned[c], data[c].jobs, Rows(c) \ {j})
  BY <1>1, <1>2, <1>3, <1>4, JobStarts DEF OwnPlaces
<1>6. Attempt(c, j, 1)
  BY <1>1, <1>4
<1>7. \A e \in Conversations \ {c} : run'[e] = run[e] /\ queue'[e] = queue[e]
  BY <1>1, <1>2, <1>6 DEF Attempt, Release
<1>8. PICK R : R = Rows(c)
  OBVIOUS
<1>9. ASSUME isShuttingDown PROVE PlacesInv'
  <2>1. turnedAway' = turnedAway \cup {j} /\ run'[c] = NoRun
    BY <1>2, <1>6, <1>9 DEF Attempt, Release
  <2>2. finished' \cup turnedAway' = finished \cup turnedAway \cup {j}
    BY <1>1, <2>1
  <2>3. \A e : Rows(e)' = IF e = c THEN Rows(e) \ {j} ELSE Rows(e)
    BY <1>1, <1>5, <2>2, RowsWithout
  <2>4. finished' \cup turnedAway' \subseteq added'
    BY <1>1, <1>5, <2>2 DEF PlacesInv, Rows
  <2>5. ASSUME NEW e \in Conversations
        PROVE  (run'[e].at = "idle" <=> run'[e].job = None) /\ OwnPlaces(e)'
    <3>1. CASE e = c
      <4>1. Rows(e)' = R \ {j}
        BY <1>8, <2>3, <3>1
      <4>2. run'[e].job = None /\ run'[e].at = "idle" /\ queue'[e] = Tail(queue[e])
        BY <1>1, <1>2, <2>1, <3>1 DEF NoRun
      <4> QED
        BY <1>1, <1>5, <1>8, <3>1, <4>1, <4>2 DEF OwnPlaces
    <3>2. CASE e # c
      <4>1. PICK Q : Q = Rows(e)
        OBVIOUS
      <4>2. Rows(e)' = Q
        BY <2>3, <3>2, <4>1
      <4> QED
        BY <1>1, <1>7, <3>2, <4>1, <4>2 DEF OwnPlaces, PlacesInv
    <3> QED
      BY <3>1, <3>2
  <2> QED
    BY <2>4, <2>5 DEF PlacesInv
<1>10. ASSUME ~isShuttingDown PROVE PlacesInv'
  <2>1. run'[c].job = j /\ run'[c].at = "loading" /\ UNCHANGED turnedAway
    BY <1>2, <1>6, <1>10 DEF Attempt
  <2>2. \A e : Rows(e)' = Rows(e)
    BY <1>1, <2>1 DEF Rows
  <2>3. j # None
    BY <1>5, JobsAssumption
  <2>4. ASSUME NEW e \in Conversations
        PROVE  (run'[e].at = "idle" <=> run'[e].job = None) /\ OwnPlaces(e)'
    <3>1. PICK Q : Q = Rows(e)
      OBVIOUS
    <3>2. Rows(e)' = Q
      BY <2>2, <3>1
    <3>3. CASE e = c
      <4>1. queue'[e] = Tail(queue[e])
        BY <1>1, <1>2, <3>3
      <4> QED
        BY <1>1, <1>5, <2>1, <2>3, <3>1, <3>2, <3>3, <4>1 DEF OwnPlaces
    <3>4. CASE e # c
      BY <1>1, <1>7, <3>1, <3>2, <3>4 DEF OwnPlaces, PlacesInv
    <3> QED
      BY <3>3, <3>4
  <2> QED
    BY <1>1, <2>1, <2>4 DEF PlacesInv
<1>11. \A e \in Conversations : Counts(data[e], data'[e])
  BY <1>1, PlaceTypes, AttemptsKept DEF CountInv
<1> QED
  BY <1>9, <1>10, <1>11, CountedUp, CountsTyped

LEMMA KeepKeeps ==
  ASSUME RetryInv, PlacesInv, CountInv, RetryInv', NEW c \in Conversations, Keep(c)
  PROVE  StepKeeps
<1>1. PICK j : j = Head(returned[c])
  OBVIOUS
<1>2. /\ returned[c] # <<>> /\ returned' = [returned EXCEPT ![c] = Tail(@)]
      /\ data' = [data EXCEPT ![c] = Kept(@, j)]
      /\ UNCHANGED <<queue, run, added, endVars>>
  BY <1>1 DEF Keep
<1>3. returned \in [Conversations -> Seq(Jobs)] /\ data \in [Conversations -> RetryData]
  BY DEF RetryInv, DataOK
<1>4. /\ queue[c] \in Seq(Jobs) /\ returned[c] \in Seq(Jobs) /\ data[c].jobs \in Seq(Jobs)
      /\ OwnPlaces(c)
  BY PlaceTypes DEF PlacesInv
<1>5. PlacesAt(queue[c], run[c].job, Tail(returned[c]), Append(data[c].jobs, j), Rows(c))
  BY <1>1, <1>2, <1>4, JobIsKept DEF OwnPlaces
<1>6. data'[c].jobs = Append(data[c].jobs, j)
  BY <1>2, <1>3 DEF Kept
<1>7. ASSUME NEW e \in Conversations
      PROVE  (run'[e].at = "idle" <=> run'[e].job = None) /\ OwnPlaces(e)'
  <2>1. PICK Q : Q = Rows(e)
    OBVIOUS
  <2>2. Rows(e)' = Q
    BY <1>2, <2>1 DEF Rows, endVars
  <2>3. CASE e = c
    <3>1. returned'[e] = Tail(returned[e])
      BY <1>2, <1>3, <2>3
    <3> QED
      BY <1>2, <1>5, <1>6, <2>1, <2>2, <2>3, <3>1 DEF OwnPlaces, PlacesInv
  <2>4. CASE e # c
    BY <1>2, <1>3, <2>1, <2>2, <2>4 DEF OwnPlaces, PlacesInv
  <2> QED
    BY <2>3, <2>4
<1>8. PlacesInv'
  BY <1>2, <1>7 DEF PlacesInv, endVars
<1>9. ASSUME NEW e \in Conversations PROVE Counts(data[e], data'[e])
  <2>1. data[e] \in RetryData /\ (data[e].status = "none" => data[e].attempts = 0)
    BY PlaceTypes DEF CountInv
  <2>2. data'[e] = IF e = c THEN Kept(data[e], j) ELSE data[e]
    BY <1>2, <1>3
  <2> QED
    BY <2>1, <2>2, KeptCounts, AttemptsKept
<1> QED
  BY <1>8, <1>9, CountedUp, CountsTyped

-----------------------------------------------------------------------------
LEMMA NextAttemptKeeps ==
  ASSUME RetryInv, PlacesInv, CountInv, RetryInv', NEW c \in Conversations, NextAttempt(c)
  PROVE  StepKeeps
<1>1. /\ run[c].at = "thrown" /\ Attempt(c, run[c].job, run[c].attempt + 1)
      /\ UNCHANGED <<queue, returned, data, added, finished>>
  BY DEF NextAttempt, retryVars
<1>2. RunMoves(c)
  <2>1. CASE isShuttingDown
    <3>1. Release(c) /\ finished' \cup turnedAway' = finished \cup turnedAway \cup {run[c].job}
      BY <1>1, <2>1 DEF Attempt
    <3> QED
      BY <1>1, <3>1, ReleaseMoves DEF RunMoves
  <2>2. CASE ~isShuttingDown
    <3>1. run \in [Conversations -> Run]
      BY DEF RetryInv, RunOK
    <3>2. run'[c].job = run[c].job /\ run'[c].at = "loading" /\ UNCHANGED turnedAway
      BY <1>1, <2>2, <3>1 DEF Attempt
    <3>3. \A e \in Conversations \ {c} : run'[e] = run[e]
      BY <1>1, <2>2, <3>1 DEF Attempt
    <3> QED
      BY <1>1, <3>2, <3>3 DEF RunMoves, RunSame, endVars
  <2> QED
    BY <2>1, <2>2
<1> QED
  BY <1>1, <1>2, RunKeeps, Untouched

LEMMA LoadKeeps ==
  ASSUME RetryInv, PlacesInv, CountInv, RetryInv', NEW c \in Conversations, Load(c)
  PROVE  StepKeeps
<1>1. run[c].at = "loading" /\ UNCHANGED <<queue, data, added, endVars>>
  BY DEF Load, retryVars
<1>2. RunMoves(c)
  <2>1. CASE run[c].blocked /\ run[c].job \in Silent
    BY <1>1, <2>1, NeedsRetryMoves DEF Load
  <2>2. CASE ~(run[c].blocked /\ run[c].job \in Silent)
    <3>1. run' = [run EXCEPT ![c].at = "checking", ![c].blocked = FALSE] /\ UNCHANGED returned
      BY <2>2 DEF Load
    <3>2. run \in [Conversations -> Run]
      BY DEF RetryInv, RunOK
    <3>3. run'[c].job = run[c].job /\ run'[c].at = "checking" /\ \A e \in Conversations \ {c} : run'[e] = run[e]
      BY <3>1, <3>2 DEF Run
    <3> QED
      BY <1>1, <3>1, <3>3 DEF RunMoves, RunSame
  <2> QED
    BY <2>1, <2>2
<1> QED
  BY <1>1, <1>2, RunKeeps, Untouched

LEMMA GiveUpKeeps ==
  ASSUME RetryInv, PlacesInv, CountInv, RetryInv', NEW c \in Conversations, GiveUp(c)
  PROVE  StepKeeps
<1>1. /\ run[c].at = "checking" /\ UNCHANGED <<queue, data, returned, added, endVars>>
      /\ run' = [run EXCEPT ![c].at = "sending", ![c].goOn = FALSE]
  BY DEF GiveUp, retryVars
<1>2. run \in [Conversations -> Run]
  BY DEF RetryInv, RunOK
<1>3. run'[c].job = run[c].job /\ run'[c].at = "sending" /\ \A e \in Conversations \ {c} : run'[e] = run[e]
  BY <1>1, <1>2 DEF Run
<1>4. RunMoves(c)
  BY <1>1, <1>3 DEF RunMoves, RunSame
<1> QED
  BY <1>1, <1>4, RunKeeps, Untouched

LEMMA AwaitCaptchaKeeps ==
  ASSUME RetryInv, PlacesInv, CountInv, RetryInv', NEW c \in Conversations, AwaitCaptcha(c)
  PROVE  StepKeeps
<1>1. run[c].at = "checking" /\ UNCHANGED <<queue, data, returned, added>>
  BY DEF AwaitCaptcha, retryVars
<1>2. RunMoves(c)
  <2>1. CASE isShuttingDown
    BY <1>1, <2>1, ThrowMoves DEF AwaitCaptcha
  <2>2. CASE ~isShuttingDown
    <3>1. At(c, "waiting") /\ UNCHANGED endVars
      BY <2>2 DEF AwaitCaptcha, Wait
    <3> QED
      BY <1>1, <3>1, AtMoves
  <2> QED
    BY <2>1, <2>2
<1> QED
  BY <1>1, <1>2, RunKeeps, Untouched

LEMMA AwaitVerificationKeeps ==
  ASSUME RetryInv, PlacesInv, CountInv, RetryInv', NEW c \in Conversations, AwaitVerification(c)
  PROVE  StepKeeps
<1>1. /\ run[c].at = "checking" /\ UNCHANGED <<returned, added>>
      /\ Unblock({c} \ {d \in Conversations : IsRegistered(d)})
  BY DEF AwaitVerification, MayPass
<1>2. RunMoves(c)
  <2>1. CASE run[c].job \in ProfileKeys
    BY <1>1, <2>1, FinishMoves DEF AwaitVerification
  <2>2. CASE run[c].job \notin ProfileKeys /\ isShuttingDown
    BY <1>1, <2>2, ThrowMoves DEF AwaitVerification
  <2>3. CASE run[c].job \notin ProfileKeys /\ ~isShuttingDown
    <3>1. At(c, "waiting") /\ UNCHANGED endVars
      BY <2>3 DEF AwaitVerification, Wait
    <3> QED
      BY <1>1, <3>1, AtMoves
  <2> QED
    BY <2>1, <2>2, <2>3
<1> QED
  BY <1>1, <1>2, RunKeeps, UnblockMoves

LEMMA PassKeeps ==
  ASSUME RetryInv, PlacesInv, CountInv, RetryInv', NEW c \in Conversations, Pass(c)
  PROVE  StepKeeps
<1>1. /\ run[c].at = "checking" /\ UNCHANGED <<returned, added, endVars>>
      /\ Unblock({c} \ {d \in Conversations : IsRegistered(d)})
      /\ run' = [run EXCEPT ![c].at = "sending", ![c].goOn = @ /\ run[c].job \notin verification[c].jobs]
  BY DEF Pass, MayPass
<1>2. run \in [Conversations -> Run]
  BY DEF RetryInv, RunOK
<1>3. run'[c].job = run[c].job /\ run'[c].at = "sending" /\ \A e \in Conversations \ {c} : run'[e] = run[e]
  BY <1>1, <1>2 DEF Run
<1>4. RunMoves(c)
  BY <1>1, <1>3 DEF RunMoves, RunSame
<1> QED
  BY <1>1, <1>4, RunKeeps, UnblockMoves

LEMMA WaitTimesOutKeeps ==
  ASSUME RetryInv, PlacesInv, CountInv, RetryInv', NEW c \in Conversations, WaitTimesOut(c)
  PROVE  StepKeeps
<1>1. /\ run[c].at = "waiting" /\ At(c, "checking") /\ UNCHANGED <<queue, data, returned, added, endVars>>
  BY DEF WaitTimesOut, retryVars
<1>2. RunMoves(c)
  BY <1>1, AtMoves
<1> QED
  BY <1>1, <1>2, RunKeeps, Untouched

\* The one step that forgets attempts: the job of the send has its row until
\* then, so that its end is the end of a send that went through.
LEMMA SendSucceedsKeeps ==
  ASSUME RetryInv, PlacesInv, CountInv, RetryInv', NEW c \in Conversations, SendSucceeds(c)
  PROVE  StepKeeps
<1>1. run[c].at = "sending" /\ Finish(c) /\ UNCHANGED <<returned, added>>
  BY DEF SendSucceeds
<1>2. RunMoves(c)
  BY <1>1, FinishMoves
<1>3. CASE run[c].goOn /\ ~isShuttingDown
  <2>1. RecordSuccess(c)
    BY <1>3 DEF SendSucceeds
  <2>2. \A e \in Conversations :
          /\ JobsStayOrComeBack(e)
          /\ data'[e].status = "none" => data'[e].attempts = 0
          /\ e # c => Counts(data[e], data'[e])
    BY <2>1, RecordSuccessMoves
  <2>3. PlacesInv'
    BY <1>1, <1>2, <2>2, RunPlaces
  <2>4. Forgotten(c)
    <3>1. run[c].job \notin finished
      BY <1>1, RunningHasRow
    <3> QED
      BY <1>1, <1>3, <3>1 DEF Finish, Forgotten
  <2>5. \A e \in Conversations : data[e].attempts \in Nat /\ data'[e].attempts \in Nat
    BY PlaceTypes, JobsAssumption, CountsTyped
  <2>6. \A e \in Conversations : data'[e].attempts < data[e].attempts => e = c
    BY <2>2, <2>5 DEF Counts
  <2> QED
    BY <2>2, <2>3, <2>4, <2>6 DEF StepKeeps
<1>4. CASE ~(run[c].goOn /\ ~isShuttingDown)
  <2>1. UNCHANGED <<queue, data>>
    BY <1>4 DEF SendSucceeds
  <2> QED
    BY <1>1, <1>2, <2>1, RunKeeps, Untouched
<1> QED
  BY <1>3, <1>4

LEMMA SendIsChallengedKeeps ==
  ASSUME RetryInv, PlacesInv, CountInv, RetryInv', NEW c \in Conversations, SendIsChallenged(c)
  PROVE  StepKeeps
<1>1. run[c].at = "sending" /\ UNCHANGED <<queue, added>>
  BY DEF SendIsChallenged
<1>2. CASE run[c].job \in Silent
  <2>1. PICK challenge \in Answers :
          data' = [data EXCEPT ![c] = Captured(@, challenge.retryAt)] /\ NeedsRetry(c) /\ UNCHANGED endVars
    BY <1>2 DEF SendIsChallenged
  <2>2. RunMoves(c)
    BY <2>1, NeedsRetryMoves
  <2>3. PICK d : d = Captured(data[c], challenge.retryAt)
    OBVIOUS
  <2>4. data' = [data EXCEPT ![c] = d]
    BY <2>1, <2>3 DEF RetryInv, DataOK
  <2>5. Counts(data[c], d) /\ d.jobs = data[c].jobs
    BY <2>3, PlaceTypes, CapturedCounts DEF CountInv
  <2>6. \A e \in Conversations : JobsStayOrComeBack(e) /\ Counts(data[e], data'[e])
    BY <1>1, <2>4, <2>5, OneDataMoves
  <2> QED
    BY <1>1, <2>2, <2>6, RunKeeps
<1>3. CASE run[c].job \notin Silent
  <2>1. Throw(c) /\ UNCHANGED <<data, returned>>
    BY <1>3 DEF SendIsChallenged
  <2>2. RunMoves(c)
    BY <1>1, <2>1, ThrowMoves
  <2> QED
    BY <1>1, <2>1, <2>2, RunKeeps, Untouched
<1> QED
  BY <1>2, <1>3

LEMMA SendIsStoppedKeeps ==
  ASSUME RetryInv, PlacesInv, CountInv, RetryInv', NEW c \in Conversations, SendIsStopped(c)
  PROVE  StepKeeps
<1>1. run[c].at = "sending" /\ UNCHANGED <<queue, data, returned, added>>
  BY DEF SendIsStopped, retryVars
<1>2. RunMoves(c)
  <2>1. CASE run[c].job \in Droppable
    BY <1>1, <2>1, FinishMoves DEF SendIsStopped
  <2>2. CASE run[c].job \notin Droppable
    BY <1>1, <2>2, ThrowMoves DEF SendIsStopped
  <2> QED
    BY <2>1, <2>2
<1> QED
  BY <1>1, <1>2, RunKeeps, Untouched

LEMMA SendFailsKeeps ==
  ASSUME RetryInv, PlacesInv, CountInv, RetryInv', NEW c \in Conversations, SendFails(c)
  PROVE  StepKeeps
<1>1. run[c].at = "sending" /\ Throw(c) /\ UNCHANGED <<queue, data, returned, added>>
  BY DEF SendFails, retryVars
<1>2. RunMoves(c)
  BY <1>1, ThrowMoves
<1> QED
  BY <1>1, <1>2, RunKeeps, Untouched

\* The callback on the idle queue and the timers.
LEMMA CallbacksKeep ==
  ASSUME RetryInv, PlacesInv, CountInv, RetryInv', NEW c \in Conversations,
         QueueIsIdle(c) \/ TimerFires(c) \/ StrayTimerFires(c)
  PROVE  StepKeeps
<1>1. Callback(c) /\ UNCHANGED <<run, returned, added, endVars>>
  BY DEF QueueIsIdle, TimerFires, StrayTimerFires
<1>2. \A e \in Conversations : JobsStayOrComeBack(e) /\ Counts(data[e], data'[e]) /\ RunSame(e)
  BY <1>1, CallbackMoves DEF RunSame
<1> QED
  BY <1>1, <1>2, StayKeeps

LEMMA RetryMaturesKeeps ==
  ASSUME RetryInv, PlacesInv, CountInv, RetryInv', NEW c \in Conversations, RetryMatures(c)
  PROVE  StepKeeps
<1> DEFINE d == [data[c] EXCEPT !.retryAt = "past"]
<1>1. data' = [data EXCEPT ![c] = d] /\ UNCHANGED <<queue, run, returned, added, endVars>>
  BY DEF RetryMatures, jobVars
<1>2. data[c] \in RetryData
  BY PlaceTypes
<1>3. d.jobs = data[c].jobs /\ d.attempts = data[c].attempts /\ d.status = data[c].status
  BY <1>2 DEF RetryData
<1>4. Counts(data[c], data[c])
  BY <1>2, AttemptsKept DEF CountInv
<1>5. Counts(data[c], d)
  BY <1>3, <1>4 DEF Counts
<1> HIDE DEF d
<1>6. \A e \in Conversations : JobsStayOrComeBack(e) /\ Counts(data[e], data'[e]) /\ RunSame(e)
  BY <1>1, <1>3, <1>5, OneDataMoves DEF RunSame
<1> QED
  BY <1>1, <1>6, StayKeeps

\* What resolves waiters: the handler's queues, and the user.
LEMMA ResolvingKeeps ==
  ASSUME RetryInv, PlacesInv, CountInv, RetryInv', NEW C, ResolveWaiters(C),
         UNCHANGED <<returned, added, endVars>>
  PROVE  StepKeeps
BY ResolveWaitersMoves, StayKeeps

\* No queue, run or data is concerned.
LEMMA RestKeeps ==
  ASSUME RetryInv, PlacesInv, CountInv, RetryInv', UNCHANGED <<jobVars, data, added, endVars>>
  PROVE  StepKeeps
BY Untouched, StayKeeps DEF RunSame, jobVars

-----------------------------------------------------------------------------
LEMMA EveryStepKeeps ==
  ASSUME RetryInv, PlacesInv, CountInv, RetryInv', [Next]_vars
  PROVE  StepKeeps
<1>1. ASSUME NEW j \in Jobs, Add(j) PROVE StepKeeps
  BY <1>1, AddKeeps
<1>2. ASSUME NEW c \in Conversations, RunStep(c) PROVE StepKeeps
  BY <1>2, StartKeeps, NextAttemptKeeps, LoadKeeps, GiveUpKeeps, AwaitCaptchaKeeps, AwaitVerificationKeeps,
     PassKeeps, WaitTimesOutKeeps, SendSucceedsKeeps, SendIsChallengedKeeps, SendIsStoppedKeeps, SendFailsKeeps
  DEF RunStep
<1>3. ASSUME NEW c \in Conversations, RetryStep(c) PROVE StepKeeps
  BY <1>3, KeepKeeps, CallbacksKeep, RetryMaturesKeeps DEF RetryStep
<1>4. ASSUME NEW c \in Conversations, StartQueue(c) PROVE StepKeeps
  BY <1>4, ResolvingKeeps DEF StartQueue
<1>5. CASE UserStep
  <2>1. CASE Cancel
    BY <2>1, ResolvingKeeps DEF Cancel
  <2>2. CASE Verify
    BY <2>2, RestKeeps DEF Verify, retryVars
  <2>3. ASSUME NEW c \in Conversations, Verified(c) PROVE StepKeeps
    BY <2>3, ResolvingKeeps DEF Verified
  <2> QED
    BY <1>5, <2>1, <2>2, <2>3 DEF UserStep
<1>6. CASE Handler \/ Offline \/ Shutdown \/ UNCHANGED vars
  BY <1>6, RestKeeps DEF Handler, Offline, Shutdown, vars, retryVars
<1> QED
  BY <1>1, <1>2, <1>3, <1>4, <1>5, <1>6 DEF Next

HandInv == RetryInv /\ PlacesInv /\ CountInv

LEMMA PlacesAtFirst == Init => PlacesInv /\ CountInv
<1> SUFFICES ASSUME Init PROVE PlacesInv /\ CountInv
  OBVIOUS
<1>1. \A c \in Conversations : Rows(c) = {}
  BY DEF Init, Rows
<1>2. \A c \in Conversations : OwnPlaces(c)
  BY <1>1, NothingInRange DEF Init, OwnPlaces, PlacesAt, NoRun, NoData
<1> QED
  BY <1>2 DEF Init, PlacesInv, CountInv, NoRun, NoData

LEMMA HandStep == HandInv /\ [Next]_vars => HandInv' /\ StepKeeps
<1> SUFFICES ASSUME HandInv, [Next]_vars PROVE HandInv' /\ StepKeeps
  OBVIOUS
<1>1. RetryInv'
  BY StepFits DEF HandInv
<1>2. StepKeeps
  BY <1>1, EveryStepKeeps DEF HandInv
<1>3. CountInv'
  BY <1>2 DEF StepKeeps, CountInv
<1> QED
  BY <1>1, <1>2, <1>3 DEF StepKeeps, HandInv

LEMMA AlwaysInHand == Spec => []HandInv
<1>1. Init => HandInv
  BY Initially, PlacesAtFirst DEF HandInv
<1> QED
  BY <1>1, HandStep, PTL DEF Spec

(* A job that was added is, until its row goes or the queue is shut down,  *)
(* in exactly one place of its conversation: queued behind others,         *)
(* running, on its way to retryJobOnQueueIdle or kept in                   *)
(* perConversationData.  None is lost and none runs twice, however         *)
(* captures, unblocks, timers and resolved waiters interleave.             *)
THEOREM JobsHaveOnePlace == Spec => []OnePlace
<1>1. HandInv => OnePlace
  BY PlacesImply DEF HandInv
<1> QED
  BY <1>1, AlwaysInHand, PTL

(* The attempts that the backoff of a conversation is computed from go     *)
(* down only when a job that was to be sent is done: no unblock, timer or  *)
(* new challenge resets them (attempts of perConversationData).            *)
THEOREM BackoffIsKept == Spec => BackoffGrows
<1>1. StepKeeps => \A c \in Conversations : data'[c].attempts < data[c].attempts =>
                     run[c].goOn /\ run[c].job \in finished' \ finished
  BY DEF StepKeeps, Forgotten
<1>2. HandInv /\ [Next]_vars =>
        [\A c \in Conversations : data'[c].attempts < data[c].attempts =>
           run[c].goOn /\ run[c].job \in finished' \ finished]_vars
  BY <1>1, HandStep
<1>3. HandInv /\ [Next]_vars => HandInv'
  BY HandStep
<1> QED
  BY <1>2, AlwaysInHand, PTL DEF Spec, BackoffGrows
=============================================================================
