---------------------------- MODULE MCAsyncQueue ----------------------------
(***************************************************************************)
(* Instances of AsyncQueue for TLC.                                        *)
(***************************************************************************)
EXTENDS AsyncQueue
=============================================================================
