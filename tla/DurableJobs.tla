---------------------------- MODULE DurableJobs ----------------------------
(***************************************************************************)
(* What a persistent job queue promises its callers, and nothing about how *)
(* it keeps the promise: a job is stored once, the caller is told so, the  *)
(* job comes to an outcome, and only then does its row leave the store.    *)
(* JobQueue implements this specification.                                 *)
(***************************************************************************)
CONSTANT Jobs

VARIABLES
  store,      \* jobs with a row in the table
  accepted,   \* jobs whose caller was told that the job is stored
  finished    \* jobs that came to an outcome

vars == <<store, accepted, finished>>

Init ==
  /\ store = {}
  /\ accepted = {}
  /\ finished = {}

\* A finished job is never stored again.
Persist(j) ==
  /\ j \notin store \cup finished
  /\ store' = store \cup {j}
  /\ UNCHANGED <<accepted, finished>>

Accept(j) ==
  /\ j \in store \cup finished
  /\ accepted' = accepted \cup {j}
  /\ UNCHANGED <<store, finished>>

Finish(j) ==
  /\ j \in store
  /\ finished' = finished \cup {j}
  /\ UNCHANGED <<store, accepted>>

Remove(j) ==
  /\ j \in finished
  /\ store' = store \ {j}
  /\ UNCHANGED <<accepted, finished>>

Next == \E j \in Jobs : Persist(j) \/ Accept(j) \/ Finish(j) \/ Remove(j)

Spec == Init /\ [][Next]_vars
=============================================================================
