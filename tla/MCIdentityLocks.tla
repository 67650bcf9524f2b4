-------------------------- MODULE MCIdentityLocks --------------------------
(***************************************************************************)
(* Instance of IdentityLocks for TLC: decrypt1 and decrypt2 are envelopes  *)
(* of two batches, send1 is a message to the device whose session          *)
(* saveIdentity leaves alone, profile fetches the contact's profile.       *)
(***************************************************************************)
EXTENDS IdentityLocks, TLC

CONSTANTS decrypt1, decrypt2, send1, profile, dev1, dev2, z1, z2, g

MCCalls == {decrypt1, decrypt2, send1, profile}
MCZones == {z1, z2, g}
MCZoneOf ==
  (decrypt1 :> z1) @@ (decrypt2 :> z2) @@ (send1 :> g) @@ (profile :> g)
MCDevice ==
  (decrypt1 :> dev1) @@ (decrypt2 :> dev2) @@ (send1 :> dev1)
    @@ (profile :> dev1)

\* The theorem about NoWaitCycle (IdentityLocks_proof) is about this instance.
ASSUME SiblingsAssumption == SiblingsApart
=============================================================================
