----------------------------- MODULE Challenges -----------------------------
(***************************************************************************)
(* The challenge handler (ts/challenge.ts).  When the server answers a     *)
(* send with 428, the conversation is registered; it is started again when *)
(* its retryAt has come, when a captcha is accepted, or when the process   *)
(* is online again.  The actions are conjuncts of the actions of           *)
(* ConversationRetry, whose queues the handler starts.                     *)
(*                                                                         *)
(* Time is what has come: a retryAt is "never" (absent), "later" or        *)
(* "past".  A token is there or not.                                       *)
(***************************************************************************)
EXTENDS Naturals

CONSTANTS Conversations, None

VARIABLES
  registered,     \* #registeredConversations: a record, or None
  registering,    \* calls of register() that await #persist
  startTimer,     \* #startTimers; an "own" timer is due at the record's retryAt
  starting,       \* calls of #startQueue that await #persist
  pendingStarts,  \* #pendingStarts
  online,         \* #isOnline
  rateLimited,    \* is #challengeRateLimitRetryAt set?
  hasToken,       \* is #challengeToken set?
  asking,         \* calls of #solve that await the user
  responding      \* calls of #solve that await the server

records == <<registered, registering, startTimer, pendingStarts>>
dialog == <<hasToken, asking, responding>>
serviceVars == <<starting, online, rateLimited>>
challengeVars == <<records, serviceVars, dialog>>

When == {"never", "later", "past"}
Challenge == [retryAt : When, token : BOOLEAN]
Call == [conversation : Conversations, challenge : Challenge, silent : BOOLEAN]

ChallengeTypeOK ==
  /\ registered \in [Conversations -> Challenge \cup {None}]
  /\ registering \subseteq Call
  /\ startTimer \in [Conversations -> {"none", "own", "free"}]
  /\ starting \subseteq Conversations /\ pendingStarts \subseteq Conversations
  /\ {online, rateLimited, hasToken} \subseteq BOOLEAN
  /\ asking \in Nat /\ responding \in Nat

IsRegistered(c) == registered[c] # None

(* load(): what the last process persisted is registered again.            *)
ChallengeInit(calls) ==
  /\ registered = [c \in Conversations |->
       IF \E call \in calls : call.conversation = c
       THEN (CHOOSE call \in calls : call.conversation = c).challenge ELSE None]
  /\ registering = calls
  /\ startTimer = [c \in Conversations |-> "none"]
  /\ starting = {} /\ pendingStarts = {}
  /\ online = FALSE /\ rateLimited = FALSE /\ hasToken = FALSE
  /\ asking = 0 /\ responding = 0

-----------------------------------------------------------------------------
(* register(), up to its await.  A timer an earlier record has left behind *)
(* knows nothing of this one.                                              *)
Register(c, challenge, silent) ==
  IF IsRegistered(c) THEN UNCHANGED records
  ELSE /\ registered' = [registered EXCEPT ![c] = challenge]
       /\ registering' = registering \cup {[conversation |-> c, challenge |-> challenge, silent |-> silent]}
       /\ startTimer' = [startTimer EXCEPT ![c] = IF @ = "none" THEN @ ELSE "free"]
       /\ UNCHANGED pendingStarts

Unregister(C) ==
  /\ registered' = [c \in Conversations |-> IF c \in C THEN None ELSE registered[c]]
  /\ startTimer' = [c \in Conversations |-> IF c \in C THEN "none" ELSE startTimer[c]]
  /\ pendingStarts' = pendingStarts \ C

(* #startQueue of each of C, up to its await.                              *)
StartQueues(C) ==
  IF online
  THEN Unregister(C) /\ starting' = starting \cup C
  ELSE /\ pendingStarts' = pendingStarts \cup C
       /\ UNCHANGED <<registered, startTimer, starting>>

(* #solve, up to the captcha.                                              *)
Solve ==
  /\ asking' = asking + 1
  /\ hasToken' = TRUE
  /\ UNCHANGED responding

MaybeSolve(c) ==
  IF /\ IsRegistered(c) /\ registered[c].token
     /\ asking + responding = 0
     /\ ~rateLimited
  THEN Solve
  ELSE UNCHANGED dialog

-----------------------------------------------------------------------------
(* register(), after #persist.                                             *)
Tracked(call) ==
  LET c == call.conversation
      ch == call.challenge
  IN /\ call \in registering
     /\ registering' = registering \ {call}
     /\ IF ch.retryAt = "past"
        THEN StartQueues({c}) /\ UNCHANGED dialog
        ELSE /\ startTimer' = [startTimer EXCEPT ![c] =
                  IF rateLimited THEN "free"
                  ELSE IF ch.retryAt = "never" THEN @
                  ELSE IF registered[c] = ch THEN "own" ELSE "free"]
             /\ IF ch.token /\ ~call.silent THEN Solve ELSE UNCHANGED dialog
             /\ UNCHANGED <<registered, starting, pendingStarts>>
     /\ UNCHANGED <<online, rateLimited>>

(* The timer of scheduleRetry.                                             *)
IsDue(c) ==
  \/ startTimer[c] = "free"
  \/ startTimer[c] = "own" /\ (IsRegistered(c) => registered[c].retryAt = "past")

StartTimerFires(c) ==
  /\ IsDue(c)
  /\ rateLimited' = FALSE
  /\ IF online
     THEN StartQueues({c})
     ELSE /\ startTimer' = [startTimer EXCEPT ![c] = "none"]
          /\ pendingStarts' = pendingStarts \cup {c}
          /\ UNCHANGED <<registered, starting>>
  /\ UNCHANGED <<registering, online, dialog>>

(* The retryAt of a challenge comes.                                       *)
ChallengeMatures(c) ==
  /\ IsRegistered(c) /\ registered[c].retryAt = "later"
  /\ registered' = [registered EXCEPT ![c].retryAt = "past"]
  /\ registering' = {IF call.conversation = c /\ call.challenge.retryAt = "later"
                     THEN [call EXCEPT !.challenge.retryAt = "past"] ELSE call : call \in registering}
  /\ UNCHANGED <<startTimer, starting, pendingStarts, online, rateLimited, dialog>>

GoOffline ==
  /\ online /\ online' = FALSE
  /\ UNCHANGED <<records, starting, rateLimited, dialog>>

(* onOnline forgets the pending starts, and starts what has matured.       *)
GoOnline ==
  /\ ~online /\ online' = TRUE
  /\ LET matured == {c \in Conversations : IsRegistered(c) /\ registered[c].retryAt = "past"}
     IN /\ registered' = [c \in Conversations |-> IF c \in matured THEN None ELSE registered[c]]
        /\ startTimer' = [c \in Conversations |-> IF c \in matured THEN "none" ELSE startTimer[c]]
        /\ starting' = starting \cup matured
  /\ pendingStarts' = {}
  /\ UNCHANGED <<registering, rateLimited, dialog>>

(* Mutant of CaptchaAnswered: the token is not given up.                   *)
CaptchaAnsweredTokenKept ==
  /\ asking > 0
  /\ asking' = asking - 1
  /\ responding' = IF hasToken THEN responding + 1 ELSE responding
  /\ UNCHANGED <<records, serviceVars, hasToken>>

(* #solve, when the user has answered.  Who finds no token has been        *)
(* overtaken by another #solve.                                            *)
CaptchaAnswered ==
  /\ asking > 0
  /\ asking' = asking - 1
  /\ hasToken' = FALSE
  /\ responding' = IF hasToken THEN responding + 1 ELSE responding
  /\ UNCHANGED <<records, serviceVars>>

CaptchaAccepted ==
  /\ responding > 0
  /\ responding' = responding - 1
  /\ StartQueues({c \in Conversations : IsRegistered(c)})
  /\ UNCHANGED <<registering, online, rateLimited, hasToken, asking>>

(* forceWaitOnAll.  The server may give no time to wait.                   *)
CaptchaRejected ==
  /\ responding > 0
  /\ responding' = responding - 1
  /\ rateLimited' = TRUE
  /\ \E retryAt \in {"later", "past"} :
       registered' = [c \in Conversations |->
         IF IsRegistered(c) THEN [registered[c] EXCEPT !.retryAt = retryAt] ELSE None]
  /\ startTimer' = [c \in Conversations |-> IF IsRegistered(c) THEN "own" ELSE startTimer[c]]
  /\ UNCHANGED <<registering, starting, pendingStarts, online, hasToken, asking>>
=============================================================================
