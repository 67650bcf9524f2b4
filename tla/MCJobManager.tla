---------------------------- MODULE MCJobManager ----------------------------
(* Instances of JobManager.                                                *)
EXTENDS JobManager, TLC

CONSTANTS a, b, c
TwoJobs == {a, b}
ThreeJobs == {a, b, c}
MCReceivedAt == [j \in Jobs |-> CASE j = a -> 1 [] j = b -> 2 [] OTHER -> 3]
=============================================================================
