------------------------------ MODULE ZoneLock ------------------------------
(***************************************************************************)
(* The zones of SignalProtocolStore (ts/SignalProtocolStore.ts, withZone): *)
(* a re-entrant lock.  Any number of calls may be in one zone; a call for  *)
(* another zone waits in #zoneQueue until the last of them has left.       *)
(*                                                                         *)
(* Only outermost calls of withZone are modelled.  A nested call is made   *)
(* by a call that is inside, for the same zone, and ends before it: it     *)
(* enters at once and #currentZoneDepth is 1 exactly when one outermost    *)
(* call is inside and none of its nested calls is running.                 *)
(***************************************************************************)
EXTENDS Naturals, Sequences

CONSTANTS
  Calls,     \* outermost calls of withZone
  Zones,
  ZoneOf,    \* the zone of a call
  NoZone     \* a model value: #currentZone is undefined

ASSUME ZoneAssumption ==
  /\ ZoneOf \in [Calls -> Zones]
  /\ NoZone \notin Zones

VARIABLES
  zone,      \* #currentZone
  inside,    \* calls in it; their number is #currentZoneDepth
  blocked    \* #zoneQueue

zoneVars == <<zone, inside, blocked>>

ZoneInit ==
  /\ zone = NoZone
  /\ inside = {}
  /\ blocked = <<>>

\* withZone up to the start of the body.
Enter(c) ==
  IF zone \in {NoZone, ZoneOf[c]}
  THEN /\ zone' = ZoneOf[c]
       /\ inside' = inside \cup {c}
       /\ UNCHANGED blocked
  ELSE /\ blocked' = Append(blocked, c)
       /\ UNCHANGED <<zone, inside>>

\* The first n waiting calls are all those before the first one of another
\* zone.
Wakes(n) ==
  /\ \A i \in 1..n : ZoneOf[blocked[i]] = ZoneOf[blocked[1]]
  /\ n < Len(blocked) => ZoneOf[blocked[n + 1]] # ZoneOf[blocked[1]]

\* Mutant of Leave: the zone is handed over although calls are still inside.
LeaveEarly(c) ==
  IF blocked = <<>>
  THEN /\ zone' = IF inside = {c} THEN NoZone ELSE zone
       /\ inside' = inside \ {c}
       /\ UNCHANGED blocked
  ELSE /\ zone' = ZoneOf[Head(blocked)]
       /\ \E n \in 1..Len(blocked) :
            /\ Wakes(n)
            /\ inside' = (inside \ {c}) \cup {blocked[i] : i \in 1..n}
            /\ blocked' = SubSeq(blocked, n + 1, Len(blocked))
\* Mutant of Leave: nobody is woken.
LeaveSilently(c) ==
  /\ zone' = IF inside = {c} THEN NoZone ELSE zone
  /\ inside' = inside \ {c}
  /\ UNCHANGED blocked

\* #leaveZone; the callbacks of the woken calls enter at once.
Leave(c) ==
  IF inside # {c} \/ blocked = <<>>
  THEN /\ zone' = IF inside = {c} THEN NoZone ELSE zone
       /\ inside' = inside \ {c}
       /\ UNCHANGED blocked
  ELSE /\ zone' = ZoneOf[Head(blocked)]
       /\ \E n \in 1..Len(blocked) :
            /\ Wakes(n)
            /\ inside' = {blocked[i] : i \in 1..n}
            /\ blocked' = SubSeq(blocked, n + 1, Len(blocked))

----------------------------------------------------------------------------
ZoneTypeOK ==
  /\ zone \in Zones \cup {NoZone}
  /\ inside \in SUBSET Calls
  /\ blocked \in Seq(Calls)

\* "Only one session transaction could be running at the same time": the calls
\* inside are all of the current zone, there is one exactly when a call is
\* inside, and a call waits only for another zone's calls to leave.
ZoneExclusion ==
  /\ zone = NoZone <=> inside = {}
  /\ \A c \in inside : ZoneOf[c] = zone
  /\ blocked # <<>> => zone # NoZone /\ ZoneOf[Head(blocked)] # zone
  /\ \A m, n \in DOMAIN blocked : blocked[m] = blocked[n] => m = n
  /\ \A n \in DOMAIN blocked : blocked[n] \notin inside
=============================================================================
