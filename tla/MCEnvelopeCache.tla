--------------------------- MODULE MCEnvelopeCache ---------------------------
(* Instances of EnvelopeCache.                                             *)
EXTENDS EnvelopeCache

CONSTANT m1
=============================================================================
