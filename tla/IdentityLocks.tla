---------------------------- MODULE IdentityLocks ----------------------------
(***************************************************************************)
(* The locks of SignalProtocolStore (ts/SignalProtocolStore.ts) for one    *)
(* contact: the zone, a session queue for each of the contact's devices,   *)
(* and the contact's identity queue.                                       *)
(*                                                                         *)
(* A session job encrypts or decrypts for one device; libsignal saves the  *)
(* contact's identity key in the middle of it.  updateIdentityKey saves it *)
(* outside of any session job.  A key that has changed makes saveIdentity, *)
(* still on the identity queue, archive the sessions of the contact's      *)
(* other devices, each on its session queue.                               *)
(***************************************************************************)
EXTENDS ZoneLock, FiniteSets

CONSTANTS
  Devices,
  Device,      \* the device a call is about
  SessionJobs, \* calls that save the identity inside a session job
  MayChange    \* calls that may find that the key has changed

ASSUME LockAssumption ==
  /\ Device \in [Calls -> Devices]
  /\ SessionJobs \subseteq Calls /\ MayChange \subseteq Calls

VARIABLES
  phase,
  session,     \* sessionQueues: the head runs
  identity,    \* the identity queue
  siblings     \* devices whose session a call has still to archive

vars == <<zoneVars, phase, session, identity, siblings>>

Init ==
  /\ ZoneInit
  /\ phase = [c \in Calls |-> "idle"]
  /\ session = [d \in Devices |-> <<>>]
  /\ identity = <<>>
  /\ siblings = [c \in Calls |-> {}]

To(c, p) == phase' = [phase EXCEPT ![c] = p]

Call(c) ==
  /\ phase[c] = "idle"
  /\ Enter(c)
  /\ To(c, "called")
  /\ UNCHANGED <<session, identity, siblings>>

\* enqueueSessionJob.
QueueSession(c) ==
  /\ phase[c] = "called"
  /\ c \in SessionJobs
  /\ c \in inside
  /\ session' = [session EXCEPT ![Device[c]] = Append(@, c)]
  /\ To(c, "in_session")
  /\ UNCHANGED <<zoneVars, identity, siblings>>

\* Mutant of MaySaveIdentity: the identity queue is entered before the zone.
MaySaveIdentityOutside(c) ==
  \/ c \in SessionJobs /\ phase[c] = "in_session"
                       /\ Head(session[Device[c]]) = c
  \/ c \notin SessionJobs /\ phase[c] = "called"

MaySaveIdentity(c) ==
  \/ c \in SessionJobs /\ phase[c] = "in_session"
                       /\ Head(session[Device[c]]) = c
  \/ c \notin SessionJobs /\ phase[c] = "called" /\ c \in inside

\* saveIdentity up to #runOnIdentityQueue, from a running session job or not.
SaveIdentity(c) ==
  /\ MaySaveIdentity(c)
  /\ identity' = Append(identity, c)
  /\ To(c, "in_identity")
  /\ UNCHANGED <<zoneVars, session, siblings>>

HasIdentity(c) == identity # <<>> /\ Head(identity) = c

SameKey(c) ==
  /\ phase[c] = "in_identity"
  /\ HasIdentity(c)
  /\ identity' = Tail(identity)
  /\ To(c, "saved")
  /\ UNCHANGED <<zoneVars, session, siblings>>

\* The other sessions of the contact.
Siblings(c) == Devices \ {Device[c]}

\* archiveSiblingSessions, which re-enters the zone, queues all of its jobs
\* at once.
ChangedKey(c) ==
  /\ phase[c] = "in_identity"
  /\ HasIdentity(c)
  /\ c \in MayChange
  /\ c \in inside
  /\ siblings' = [siblings EXCEPT ![c] = Siblings(c)]
  /\ session' = [d \in Devices |-> IF d \in Siblings(c)
                                  THEN Append(session[d], c) ELSE session[d]]
  /\ To(c, "archiving")
  /\ UNCHANGED <<zoneVars, identity>>

Archived(c, d) ==
  /\ phase[c] = "archiving"
  /\ d \in siblings[c]
  /\ Head(session[d]) = c
  /\ session' = [session EXCEPT ![d] = Tail(@)]
  /\ siblings' = [siblings EXCEPT ![c] = @ \ {d}]
  /\ UNCHANGED <<zoneVars, phase, identity>>

AllArchived(c) ==
  /\ phase[c] = "archiving"
  /\ siblings[c] = {}
  /\ identity' = Tail(identity)
  /\ To(c, "saved")
  /\ UNCHANGED <<zoneVars, session, siblings>>

\* The session job, if there is one, and the call end.
End(c) ==
  /\ phase[c] = "saved"
  /\ session' = IF c \in SessionJobs
                THEN [session EXCEPT ![Device[c]] = Tail(@)] ELSE session
  /\ Leave(c)
  /\ To(c, "ended")
  /\ UNCHANGED <<identity, siblings>>

Next ==
  \E c \in Calls :
    \/ Call(c) \/ QueueSession(c) \/ SaveIdentity(c)
    \/ SameKey(c) \/ ChangedKey(c)
    \/ \E d \in Devices : Archived(c, d)
    \/ AllArchived(c) \/ End(c)

Spec == Init /\ [][Next]_vars

----------------------------------------------------------------------------
TypeOK ==
  /\ ZoneTypeOK
  /\ phase \in [Calls -> {"idle", "called", "in_session", "in_identity",
                          "archiving", "saved", "ended"}]
  /\ session \in [Devices -> Seq(Calls)]
  /\ identity \in Seq(Calls)
  /\ siblings \in [Calls -> SUBSET Devices]
  /\ \A c \in Calls : Device[c] \notin siblings[c]

\* What the code does not see to: no session job for a sibling shares its zone
\* with a call that may archive the sibling's session.  Where it does, calls
\* may wait for each other.
SiblingsApart ==
  \A c \in MayChange, e \in SessionJobs :
    c # e /\ ZoneOf[c] = ZoneOf[e] => Device[c] = Device[e]

\* The calls that must leave a queue or the zone before c can go on.
Before(q, c) ==
  {q[m] : m \in {i \in DOMAIN q : \E n \in DOMAIN q : i < n /\ q[n] = c}}
WaitsFor(c) ==
  Before(identity, c)
    \cup (UNION {Before(session[d], c) : d \in Devices})
    \cup (IF \E n \in DOMAIN blocked : blocked[n] = c THEN inside ELSE {})

\* "Not entering the zone now would mean that we can take locks in different
\* order here and in MessageReceiver which will lead to a deadlock"
\* (ts/SignalProtocolStore.ts, #runOnIdentityQueue): no calls wait for each
\* other.
NoWaitCycle ==
  \A S \in SUBSET Calls :
    S # {} => \E c \in S : WaitsFor(c) \cap S = {}
=============================================================================
