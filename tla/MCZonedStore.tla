---------------------------- MODULE MCZonedStore ----------------------------
(***************************************************************************)
(* Instances of ZonedStore for TLC.  b1 and b2 are batches of envelopes in *)
(* zones of their own; the other calls are made in the global zone.        *)
(***************************************************************************)
EXTENDS ZonedStore, TLC

CONSTANTS b1, b2, e1, e2, x, y, w, z1, z2, g, s, k, u1, u2

MCZones == {z1, z2, g}
MCZoneOf == (b1 :> z1) @@ (b2 :> z2) @@ (e1 :> g) @@ (e2 :> g) @@ (x :> g)
              @@ (y :> g) @@ (w :> g)
ZonesOf(calls) == [c \in calls |-> MCZoneOf[c]]

\* Two batches and two senders that use the same session.
Senders == {b1, b2, e1, e2}
SendersZones == ZonesOf(Senders)
SendersWork ==
  (b1 :> <<<<"cipher", s>>, <<"cipher", s>>, <<"add", u1>>>>)
    @@ (b2 :> <<<<"cipher", s>>, <<"cipher", k>>, <<"add", u2>>>>)
    @@ (e1 :> <<<<"cipher", s>>>>) @@ (e2 :> <<<<"cipher", s>>>>)

ASSUME SendersAssumption == Calls = Senders => SendersAndBatches

\* A batch and calls that do everything there is to do to a session.
Everything == {b1, e1, x, y, w}
EverythingZones == ZonesOf(Everything)
EverythingWork ==
  (b1 :> <<<<"cipher", s>>, <<"cipher", k>>, <<"add", u1>>>>)
    @@ (e1 :> <<<<"cipher", s>>>>) @@ (x :> <<<<"archive", s>>>>)
    @@ (y :> <<<<"purge", s>>>>) @@ (w :> <<<<"remove", s>>>>)
=============================================================================
