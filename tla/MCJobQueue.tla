----------------------------- MODULE MCJobQueue -----------------------------
(***************************************************************************)
(* Instances of JobQueue for TLC.                                          *)
(***************************************************************************)
EXTENDS JobQueue, TLC

CONSTANTS a, b, c, q1, q2

\* a and b share a conversation, c is in another one.
MCJobs == {a, b, c}
MCQueues == {q1, q2}
MCQueueOf == (a :> q1) @@ (b :> q1) @@ (c :> q2)
=============================================================================
