------------------------- MODULE IdentityLocks_proof -------------------------
(***************************************************************************)
(* The locks of SignalProtocolStore have an order, although the session    *)
(* queues are taken both before and under the identity queue: for any      *)
(* calls, devices and zones that keep SiblingsApart, no calls wait for     *)
(* each other.                                                             *)
(***************************************************************************)
EXTENDS IdentityLocks, WellFoundedInduction, TLAPS

-----------------------------------------------------------------------------
(* What entering and leaving a zone keeps: about the actions of ZoneLock   *)
(* alone, as in ZonedStore_proof.                                          *)

Waiting == {blocked[n] : n \in DOMAIN blocked}

\* No call is in a zone, and no call waits, at the start.
LEMMA ZoneInitial ==
  ASSUME ZoneInit
  PROVE  ZoneTypeOK /\ ZoneExclusion /\ inside = {} /\ Waiting = {}
BY DEF ZoneInit, ZoneTypeOK, ZoneExclusion, Waiting

\* Entering a zone keeps the zones apart, if the call is not there yet.
LEMMA EnterKeeps ==
  ASSUME ZoneTypeOK, ZoneExclusion,
         NEW c \in Calls, c \notin inside, c \notin Waiting,
         Enter(c)
  PROVE  /\ ZoneTypeOK' /\ ZoneExclusion'
         /\ inside' \subseteq inside \cup {c}
         /\ Waiting' \subseteq Waiting \cup {c}
<1> USE ZoneAssumption DEF ZoneTypeOK
<1>1. CASE zone \in {NoZone, ZoneOf[c]}
  <2>1. zone' = ZoneOf[c] /\ inside' = inside \cup {c} /\ blocked' = blocked
    BY <1>1 DEF Enter
  <2>2. ZoneTypeOK'
    BY <2>1
  <2>3. ZoneExclusion'
    BY <1>1, <2>1 DEF ZoneExclusion, Waiting
  <2> QED
    BY <2>1, <2>2, <2>3 DEF Waiting
<1>2. CASE zone \notin {NoZone, ZoneOf[c]}
  <2>1. blocked' = Append(blocked, c) /\ zone' = zone /\ inside' = inside
    BY <1>2 DEF Enter
  <2>2. ZoneTypeOK'
    BY <2>1
  <2>3. /\ DOMAIN blocked = 1..Len(blocked)
        /\ DOMAIN blocked' = 1..(Len(blocked) + 1)
        /\ \A n \in 1..Len(blocked) : blocked'[n] = blocked[n]
        /\ blocked'[Len(blocked) + 1] = c
    BY <2>1
  <2>4. Waiting' = Waiting \cup {c}
    BY <2>3 DEF Waiting
  <2>5. ZoneOf[Head(blocked')] # zone'
    <3>1. CASE blocked = <<>>
      BY <1>2, <2>1, <3>1
    <3>2. CASE blocked # <<>>
      BY <2>1, <3>2 DEF ZoneExclusion
    <3> QED
      BY <3>1, <3>2
  <2>6. \A m, n \in DOMAIN blocked' : blocked'[m] = blocked'[n] => m = n
    BY <2>3 DEF ZoneExclusion, Waiting
  <2>7. \A n \in DOMAIN blocked' : blocked'[n] \notin inside'
    BY <2>1, <2>3 DEF ZoneExclusion
  <2>8. /\ zone' = NoZone <=> inside' = {}
        /\ \A d \in inside' : ZoneOf[d] = zone'
        /\ zone' # NoZone
    BY <1>2, <2>1 DEF ZoneExclusion
  <2> QED
    BY <2>1, <2>2, <2>4, <2>5, <2>6, <2>7, <2>8 DEF ZoneExclusion
<1> QED
  BY <1>1, <1>2

\* Leaving a zone keeps the zones apart: the zone changes hands only when its
\* last call leaves, and then to calls of one zone.
LEMMA LeaveKeeps ==
  ASSUME ZoneTypeOK, ZoneExclusion,
         NEW c,
         Leave(c)
  PROVE  /\ ZoneTypeOK' /\ ZoneExclusion'
         /\ inside' \subseteq inside \cup Waiting
         /\ Waiting' \subseteq Waiting
<1> USE ZoneAssumption DEF ZoneTypeOK
<1>1. CASE inside # {c} \/ blocked = <<>>
  <2>1. /\ zone' = IF inside = {c} THEN NoZone ELSE zone
        /\ inside' = inside \ {c}
        /\ blocked' = blocked
    BY <1>1 DEF Leave
  <2>2. ZoneTypeOK'
    BY <2>1
  <2>3. ZoneExclusion'
    BY <1>1, <2>1 DEF ZoneExclusion
  <2> QED
    BY <2>1, <2>2, <2>3 DEF Waiting
<1>2. CASE ~(inside # {c} \/ blocked = <<>>)
  <2>1. PICK n \in 1..Len(blocked) :
          /\ zone' = ZoneOf[Head(blocked)]
          /\ Wakes(n)
          /\ inside' = {blocked[i] : i \in 1..n}
          /\ blocked' = SubSeq(blocked, n + 1, Len(blocked))
    BY <1>2 DEF Leave
  <2>2. /\ DOMAIN blocked = 1..Len(blocked)
        /\ Head(blocked) = blocked[1]
        /\ \A i \in 1..Len(blocked) : blocked[i] \in Calls
    BY <1>2
  <2>3. /\ blocked' \in Seq(Calls)
        /\ DOMAIN blocked' = 1..(Len(blocked) - n)
        /\ \A i \in 1..(Len(blocked) - n) : blocked'[i] = blocked[n + i]
    BY <2>1
  <2>4. ZoneTypeOK'
    BY <2>1, <2>2, <2>3
  <2>5. Waiting' \subseteq Waiting /\ inside' \subseteq Waiting
    BY <2>1, <2>2, <2>3 DEF Waiting
  <2>6. zone' # NoZone /\ inside' # {}
    BY <2>1, <2>2
  <2>7. \A d \in inside' : ZoneOf[d] = zone'
    BY <2>1, <2>2 DEF Wakes
  <2>8. ASSUME blocked' # <<>> PROVE ZoneOf[Head(blocked')] # zone'
    <3>1. n < Len(blocked)
      BY <2>1, <2>3, <2>8
    <3>2. Head(blocked') = blocked[n + 1]
      BY <2>3, <2>8, <3>1
    <3> QED
      BY <2>1, <2>2, <3>1, <3>2 DEF Wakes
  <2> DEFINE l == Len(blocked)
             bn == blocked'
  <2>9. /\ l \in Nat /\ n \in 1..l
        /\ \A i, j \in 1..l : blocked[i] = blocked[j] => i = j
        /\ DOMAIN bn = 1..(l - n)
        /\ \A i \in 1..(l - n) : bn[i] = blocked[n + i]
        /\ inside' = {blocked[i] : i \in 1..n}
    BY <2>1, <2>2, <2>3 DEF ZoneExclusion
  <2> HIDE DEF l, bn
  <2>10. \A i \in 1..(l - n) : n + i \in 1..l /\ n + i \notin 1..n
    BY <2>9
  <2>11. \A i, j \in DOMAIN bn : bn[i] = bn[j] => i = j
    <3> SUFFICES ASSUME NEW i \in 1..(l - n), NEW j \in 1..(l - n),
                        blocked[n + i] = blocked[n + j]
                 PROVE  i = j
      BY <2>9
    <3>1. n + i = n + j
      BY <2>9, <2>10
    <3> QED
      BY <2>9, <3>1
  <2>12. \A i \in DOMAIN bn : bn[i] \notin inside'
    <3>1. ASSUME NEW i \in 1..(l - n), NEW j \in 1..n
          PROVE  blocked[n + i] # blocked[j]
      <4>1. n + i \in 1..l /\ j \in 1..l /\ n + i # j
        BY <2>9, <2>10
      <4> QED
        BY <2>9, <4>1
    <3>2. ASSUME NEW i \in 1..(l - n) PROVE bn[i] \notin inside'
      <4>1. \A j \in 1..n : bn[i] # blocked[j]
        BY <2>9, <3>1
      <4> QED
        BY <2>9, <4>1, Zenon
    <3> QED
      BY <2>9, <3>2
  <2> QED
    BY <2>4, <2>5, <2>6, <2>7, <2>8, <2>11, <2>12 DEF ZoneExclusion, bn
<1> QED
  BY <1>1, <1>2

-----------------------------------------------------------------------------
(* Queues.                                                                 *)

Members(q) == {q[n] : n \in DOMAIN q}
Distinct(q) == \A m, n \in DOMAIN q : q[m] = q[n] => m = n

\* Every set of numbers has a least one.
LEMMA LeastNatural ==
  ASSUME NEW T \in SUBSET Nat, T # {}
  PROVE  \E x \in T : \A y \in T : x <= y
<1> DEFINE R == OpToRel(<, Nat)
<1>1. IsWellFoundedOn(R, Nat)
  BY NatLessThanWellFounded, Zenon
<1>2. ASSUME NEW x \in Nat, NEW y \in Nat, y < x PROVE <<y, x>> \in R
  BY <1>2 DEF OpToRel
<1> HIDE DEF R
<1>3. PICK x \in T : \A y \in T : ~(<<y, x>> \in R)
  BY <1>1, WFMin
<1>4. ASSUME NEW y \in T PROVE x <= y
  <2>1. ~(y < x)
    BY <1>2, <1>3
  <2> QED
    BY <2>1
<1> QED
  BY <1>4

\* Appending adds a member.
LEMMA MembersAppend ==
  ASSUME NEW q \in Seq(Calls), NEW c \in Calls
  PROVE  /\ Append(q, c) \in Seq(Calls)
         /\ Members(Append(q, c)) = Members(q) \cup {c}
         /\ Distinct(q) /\ c \notin Members(q) => Distinct(Append(q, c))
         /\ q # <<>> => Head(Append(q, c)) = Head(q)
<1> DEFINE t == Append(q, c)
<1>1. /\ DOMAIN q = 1..Len(q) /\ Len(q) \in Nat
      /\ DOMAIN t = 1..(Len(q) + 1) /\ t[Len(q) + 1] = c
      /\ \A i \in 1..Len(q) : t[i] = q[i]
      /\ t \in Seq(Calls)
      /\ q # <<>> => Head(t) = Head(q)
  OBVIOUS
<1>2. \A i \in 1..(Len(q) + 1) : i \in 1..Len(q) \/ i = Len(q) + 1
  BY <1>1
<1>3. 1..Len(q) \subseteq 1..(Len(q) + 1) /\ Len(q) + 1 \in 1..(Len(q) + 1)
  BY <1>1
<1> HIDE DEF t
<1>4. Members(t) = Members(q) \cup {c}
  BY <1>1, <1>2, <1>3 DEF Members
<1>5. ASSUME Distinct(q), c \notin Members(q) PROVE Distinct(t)
  <2>1. \A i \in 1..Len(q) : q[i] # c
    BY <1>1, <1>5 DEF Members
  <2> QED
    BY <1>1, <1>2, <1>5, <2>1 DEF Distinct
<1> QED
  BY <1>1, <1>4, <1>5 DEF t

\* The head is a member, and the tail has the others.
LEMMA MembersTail ==
  ASSUME NEW q \in Seq(Calls), q # <<>>, Distinct(q)
  PROVE  /\ Head(q) \in Members(q) /\ Tail(q) \in Seq(Calls)
         /\ Members(Tail(q)) = Members(q) \ {Head(q)}
         /\ Distinct(Tail(q))
<1> DEFINE t == Tail(q)
<1>1. /\ DOMAIN q = 1..Len(q) /\ Len(q) \in Nat \ {0} /\ Head(q) = q[1]
      /\ DOMAIN t = 1..(Len(q) - 1)
      /\ \A i \in 1..(Len(q) - 1) : t[i] = q[i + 1]
      /\ t \in Seq(Calls)
  OBVIOUS
<1>2. \A i \in 1..Len(q) : i # 1 => i - 1 \in 1..(Len(q) - 1) /\ (i - 1) + 1 = i
  BY <1>1
<1>3. \A i \in 1..(Len(q) - 1) : i + 1 \in 1..Len(q) /\ i + 1 # 1
  BY <1>1
<1>4. 1 \in 1..Len(q) /\ \A i, k \in 1..(Len(q) - 1) : i + 1 = k + 1 => i = k
  BY <1>1
<1> HIDE DEF t
<1>5. \A i \in 1..Len(q) : q[i] = q[1] => i = 1
  BY <1>1, <1>4 DEF Distinct
<1>6. \A i \in 1..(Len(q) - 1) : t[i] \in Members(q) /\ t[i] # q[1]
  BY <1>1, <1>3, <1>5 DEF Members
<1>7. \A i \in 1..Len(q) : i # 1 => q[i] \in Members(t)
  <2> SUFFICES ASSUME NEW i \in 1..Len(q), i # 1 PROVE q[i] \in Members(t)
    OBVIOUS
  <2>1. t[i - 1] = q[i] /\ i - 1 \in DOMAIN t
    BY <1>1, <1>2
  <2> QED
    BY <2>1 DEF Members
<1>8. Members(t) = Members(q) \ {q[1]}
  BY <1>1, <1>5, <1>6, <1>7 DEF Members
<1>9. Distinct(t)
  BY <1>1, <1>3, <1>4, SMTT(30) DEF Distinct
<1>10. q[1] \in Members(q)
  BY <1>1, <1>4 DEF Members
<1> QED
  BY <1>1, <1>8, <1>9, <1>10 DEF t

\* Only members of a queue have somebody before them: other members, and
\* nobody if they are the head.
LEMMA BeforeMembers ==
  ASSUME NEW q \in Seq(Calls), Distinct(q), NEW c
  PROVE  /\ Before(q, c) \subseteq Members(q) \ {c}
         /\ c \notin Members(q) => Before(q, c) = {}
         /\ q # <<>> /\ Head(q) = c => Before(q, c) = {}
<1>1. DOMAIN q = 1..Len(q) /\ Len(q) \in Nat /\ (q # <<>> => Head(q) = q[1] /\ 1 \in 1..Len(q))
  OBVIOUS
<1>2. ASSUME NEW x \in Before(q, c)
      PROVE  \E m, n \in 1..Len(q) : m < n /\ q[m] = x /\ q[n] = c
  BY <1>1, <1>2 DEF Before
<1>3. ASSUME NEW x \in Before(q, c) PROVE x \in Members(q) /\ x # c /\ c \in Members(q)
  <2>1. PICK m \in 1..Len(q), n \in 1..Len(q) : m < n /\ q[m] = x /\ q[n] = c
    BY <1>2
  <2>2. m # n
    BY <2>1
  <2> QED
    BY <1>1, <2>1, <2>2 DEF Members, Distinct
<1>4. ASSUME q # <<>>, Head(q) = c, NEW x \in Before(q, c) PROVE FALSE
  <2>1. PICK m \in 1..Len(q), n \in 1..Len(q) : m < n /\ q[m] = x /\ q[n] = c
    BY <1>2
  <2>2. n = 1
    BY <1>1, <1>4, <2>1 DEF Distinct
  <2> QED
    BY <2>1, <2>2
<1> QED
  BY <1>3, <1>4

\* Of those in a queue one comes first.
LEMMA FirstOfThem ==
  ASSUME NEW q \in Seq(Calls), Distinct(q), NEW S, S \cap Members(q) # {}
  PROVE  \E c \in S \cap Members(q) : Before(q, c) \cap S = {}
<1> DEFINE T == {n \in 1..Len(q) : q[n] \in S}
<1>1. DOMAIN q = 1..Len(q) /\ Len(q) \in Nat
  OBVIOUS
<1>2. T \in SUBSET Nat /\ T # {}
  BY <1>1 DEF Members
<1>3. PICK n \in T : \A m \in T : n <= m
  <2> HIDE DEF T
  <2> QED
    BY <1>2, LeastNatural
<1>4. q[n] \in S \cap Members(q)
  BY <1>1, <1>3 DEF Members
<1>5. ASSUME NEW x \in Before(q, q[n]) PROVE x \notin S
  <2>1. PICK m \in 1..Len(q), k \in 1..Len(q) : m < k /\ q[m] = x /\ q[k] = q[n]
    BY <1>1 DEF Before
  <2>2. k = n
    BY <1>1, <1>3, <2>1 DEF Distinct
  <2>3. ~(n <= m)
    BY <1>1, <1>3, <2>1, <2>2
  <2> QED
    BY <1>3, <2>1, <2>3
<1> QED
  BY <1>4, <1>5

-----------------------------------------------------------------------------
(* The inductive invariant: which locks a call in each phase has or waits  *)
(* for.                                                                    *)

Phase == {"idle", "called", "in_session", "in_identity", "archiving", "saved", "ended"}
Working == {"in_session", "in_identity", "archiving", "saved"}

ZoneOK ==
  /\ ZoneTypeOK /\ ZoneExclusion
  /\ \A c \in Calls :
       /\ c \in inside => phase[c] \notin {"idle", "ended"}
       /\ c \in Waiting => phase[c] = "called"
       /\ phase[c] \in Working => c \in inside

PhaseOK ==
  /\ phase \in [Calls -> Phase]
  /\ siblings \in [Calls -> SUBSET Devices]
  /\ \A c \in Calls :
       /\ Device[c] \notin siblings[c]
       /\ siblings[c] # {} => phase[c] = "archiving"
       /\ phase[c] = "archiving" => c \in MayChange
       /\ phase[c] = "in_session" => c \in SessionJobs

IdentityOK ==
  /\ identity \in Seq(Calls) /\ Distinct(identity)
  /\ \A c \in Calls :
       /\ c \in Members(identity) <=> phase[c] \in {"in_identity", "archiving"}
       /\ phase[c] = "archiving" => Head(identity) = c

\* Who is in the session queue of a device: the calls for it, and who is
\* archiving its session.
InSession(c, d) ==
  \/ c \in SessionJobs /\ Device[c] = d /\ phase[c] \in Working
  \/ d \in siblings[c]

SessionOK ==
  /\ session \in [Devices -> Seq(Calls)]
  /\ \A d \in Devices :
       /\ Distinct(session[d])
       /\ \A c \in Calls : c \in Members(session[d]) <=> InSession(c, d)
  /\ \A c \in SessionJobs :
       phase[c] \in {"in_identity", "archiving", "saved"} => Head(session[Device[c]]) = c

LockInv == ZoneOK /\ PhaseOK /\ IdentityOK /\ SessionOK

-----------------------------------------------------------------------------
(* Nobody waits in a circle.                                               *)

\* Those who have what they need wait for nobody; an archiving call finds the
\* session queues of the siblings to itself.
LEMMA NobodyToWaitFor ==
  ASSUME LockInv, SiblingsApart, NEW c \in Calls,
         \/ phase[c] \in {"archiving", "saved"}
         \/ phase[c] \in {"idle", "called", "ended"} /\ c \notin Waiting
  PROVE  WaitsFor(c) = {}
<1>1. Before(identity, c) = {}
  <2>1. identity \in Seq(Calls) /\ Distinct(identity)
    BY DEF LockInv, IdentityOK
  <2>2. CASE phase[c] = "archiving"
    <3>1. Head(identity) = c /\ c \in Members(identity)
      BY <2>2 DEF LockInv, IdentityOK
    <3>2. identity # <<>>
      BY <3>1 DEF Members
    <3> QED
      BY <2>1, <3>1, <3>2, BeforeMembers
  <2>3. CASE phase[c] # "archiving"
    <3>1. c \notin Members(identity)
      BY <2>3 DEF LockInv, IdentityOK
    <3> QED
      BY <2>1, <3>1, BeforeMembers
  <2> QED
    BY <2>2, <2>3
<1>2. ASSUME NEW d \in Devices PROVE Before(session[d], c) = {}
  <2>1. session[d] \in Seq(Calls) /\ Distinct(session[d])
    BY DEF LockInv, SessionOK
  <2>2. CASE c \notin Members(session[d])
    BY <2>1, <2>2, BeforeMembers
  <2>3. CASE c \in Members(session[d]) /\ d \notin siblings[c]
    <3>1. c \in SessionJobs /\ Device[c] = d /\ phase[c] \in Working
      BY <2>3 DEF LockInv, SessionOK, InSession
    <3>2. phase[c] \in {"in_identity", "archiving", "saved"}
      BY <3>1 DEF Working
    <3>3. Head(session[d]) = c
      BY <3>1, <3>2 DEF LockInv, SessionOK
    <3>4. session[d] # <<>>
      BY <2>3 DEF Members
    <3> QED
      BY <2>1, <3>3, <3>4, BeforeMembers
  <2>4. CASE c \in Members(session[d]) /\ d \in siblings[c]
    <3>1. phase[c] = "archiving" /\ c \in MayChange /\ Device[c] # d
      BY <2>4 DEF LockInv, PhaseOK
    <3>2. c \in inside
      BY <3>1 DEF LockInv, ZoneOK, Working
    <3>3. ASSUME NEW e \in Members(session[d]), e # c PROVE FALSE
      <4>1. e \in Calls
        BY <2>1 DEF Members
      <4>2. InSession(e, d)
        BY <4>1 DEF LockInv, SessionOK
      <4>3. CASE d \in siblings[e]
        <5>1. phase[e] = "archiving"
          BY <4>1, <4>3 DEF LockInv, PhaseOK
        <5> QED
          BY <3>1, <3>3, <4>1, <5>1 DEF LockInv, IdentityOK
      <4>4. CASE e \in SessionJobs /\ Device[e] = d /\ phase[e] \in Working
        <5>1. e \in inside
          BY <4>1, <4>4 DEF LockInv, ZoneOK
        <5>2. ZoneOf[e] = ZoneOf[c]
          BY <3>2, <5>1 DEF LockInv, ZoneOK, ZoneExclusion
        <5> QED
          BY <3>1, <3>3, <4>4, <5>2 DEF SiblingsApart
      <4> QED
        BY <4>2, <4>3, <4>4 DEF InSession
    <3> QED
      BY <2>1, <3>3, BeforeMembers
  <2> QED
    BY <2>2, <2>3, <2>4
<1>3. c \notin Waiting
  BY DEF LockInv, ZoneOK
<1> QED
  BY <1>1, <1>2, <1>3 DEF WaitsFor, Waiting

\* Who is in a session queue of its own or on the identity queue waits for
\* those before it there alone.
LEMMA WaitsInOneQueue ==
  ASSUME LockInv, NEW c \in Calls, phase[c] \in {"in_session", "in_identity"}
  PROVE  /\ phase[c] = "in_identity" => WaitsFor(c) = Before(identity, c)
         /\ phase[c] = "in_session" => WaitsFor(c) = Before(session[Device[c]], c)
<1>1. c \notin Waiting /\ siblings[c] = {} /\ Device[c] \in Devices
  BY LockAssumption DEF LockInv, ZoneOK, PhaseOK
<1>2. ASSUME NEW d \in Devices PROVE session[d] \in Seq(Calls) /\ Distinct(session[d])
  BY DEF LockInv, SessionOK
<1>3. ASSUME NEW d \in Devices, c \notin SessionJobs \/ Device[c] # d PROVE Before(session[d], c) = {}
  <2>1. c \notin Members(session[d])
    BY <1>1, <1>3 DEF LockInv, SessionOK, InSession
  <2> QED
    BY <1>2, <2>1, BeforeMembers
<1>4. WaitsFor(c) = Before(identity, c) \cup (UNION {Before(session[d], c) : d \in Devices})
  BY <1>1 DEF WaitsFor, Waiting
<1>5. ASSUME phase[c] = "in_identity" PROVE WaitsFor(c) = Before(identity, c)
  <2>1. CASE c \notin SessionJobs
    BY <1>3, <1>4, <2>1
  <2>2. CASE c \in SessionJobs
    <3>1. Head(session[Device[c]]) = c /\ c \in Members(session[Device[c]])
      BY <1>1, <1>5, <2>2 DEF LockInv, SessionOK, InSession, Working
    <3>2. session[Device[c]] # <<>>
      BY <3>1 DEF Members
    <3>3. Before(session[Device[c]], c) = {}
      BY <1>1, <1>2, <3>1, <3>2, BeforeMembers
    <3> QED
      BY <1>3, <1>4, <3>3
  <2> QED
    BY <2>1, <2>2
<1>6. ASSUME phase[c] = "in_session" PROVE WaitsFor(c) = Before(session[Device[c]], c)
  <2>1. c \notin Members(identity) /\ identity \in Seq(Calls) /\ Distinct(identity)
    BY <1>6 DEF LockInv, IdentityOK
  <2>2. Before(identity, c) = {}
    BY <2>1, BeforeMembers
  <2> QED
    BY <1>1, <1>3, <1>4, <2>2
<1> QED
  BY <1>5, <1>6

\* Who waits for a zone waits for those inside alone.
LEMMA WaitsForZone ==
  ASSUME LockInv, NEW c \in Calls, c \in Waiting
  PROVE  WaitsFor(c) \subseteq inside
<1>1. phase[c] = "called" /\ siblings[c] = {}
  BY DEF LockInv, ZoneOK, PhaseOK
<1>2. Before(identity, c) = {}
  <2>1. c \notin Members(identity) /\ identity \in Seq(Calls) /\ Distinct(identity)
    BY <1>1 DEF LockInv, IdentityOK
  <2> QED
    BY <2>1, BeforeMembers
<1>3. ASSUME NEW d \in Devices PROVE Before(session[d], c) = {}
  <2>1. c \notin Members(session[d]) /\ session[d] \in Seq(Calls) /\ Distinct(session[d])
    BY <1>1 DEF LockInv, SessionOK, InSession, Working
  <2> QED
    BY <2>1, BeforeMembers
<1>4. ASSUME NEW x \in WaitsFor(c) PROVE x \in inside
  BY <1>2, <1>3, <1>4 DEF WaitsFor
<1> QED
  BY <1>4

LEMMA NobodyInACircle ==
  ASSUME LockInv, SiblingsApart
  PROVE  NoWaitCycle
<1> SUFFICES ASSUME NEW S \in SUBSET Calls, S # {}
             PROVE  \E c \in S : WaitsFor(c) \cap S = {}
  BY DEF NoWaitCycle
<1>1. \A c \in Calls : phase[c] \in Phase /\ Device[c] \in Devices
  BY LockAssumption DEF LockInv, PhaseOK
<1>2. CASE \E c \in S :
              \/ phase[c] \in {"archiving", "saved"}
              \/ phase[c] \in {"idle", "called", "ended"} /\ c \notin Waiting
  BY <1>2, NobodyToWaitFor
<1>3. CASE /\ ~\E c \in S : phase[c] \in {"archiving", "saved"}
           /\ \E c \in S : phase[c] = "in_identity"
  <2>1. identity \in Seq(Calls) /\ Distinct(identity) /\ S \cap Members(identity) # {}
    BY <1>3 DEF LockInv, IdentityOK
  <2>2. PICK c \in S \cap Members(identity) : Before(identity, c) \cap S = {}
    BY <2>1, FirstOfThem
  <2>3. phase[c] = "in_identity"
    BY <1>3, <2>2 DEF LockInv, IdentityOK
  <2> QED
    BY <2>2, <2>3, WaitsInOneQueue
<1>4. CASE /\ ~\E c \in S : phase[c] \in {"archiving", "saved", "in_identity"}
           /\ \E c \in S : phase[c] = "in_session"
  <2>1. PICK e \in S : phase[e] = "in_session"
    BY <1>4
  <2> DEFINE q == session[Device[e]]
  <2>2. q \in Seq(Calls) /\ Distinct(q) /\ e \in Members(q)
    BY <1>1, <2>1 DEF LockInv, PhaseOK, SessionOK, InSession, Working
  <2>3. PICK c \in S \cap Members(q) : Before(q, c) \cap S = {}
    <3> HIDE DEF q
    <3> QED
      BY <2>1, <2>2, FirstOfThem
  <2>4. InSession(c, Device[e]) /\ siblings[c] = {}
    <3>1. phase[c] # "archiving"
      BY <1>4, <2>3
    <3> QED
      BY <1>1, <2>3, <3>1 DEF LockInv, PhaseOK, SessionOK
  <2>5. Device[c] = Device[e] /\ phase[c] = "in_session"
    BY <1>4, <2>3, <2>4 DEF InSession, Working
  <2> QED
    BY <2>3, <2>5, WaitsInOneQueue
<1>5. CASE \A c \in S : c \in Waiting
  <2>1. PICK c \in S : TRUE
    OBVIOUS
  <2>2. \A x \in S : x \notin inside
    BY <1>5 DEF LockInv, ZoneOK, ZoneExclusion, Waiting
  <2> QED
    BY <1>5, <2>1, <2>2, WaitsForZone
<1> QED
  BY <1>1, <1>2, <1>3, <1>4, <1>5 DEF Phase

-----------------------------------------------------------------------------
(* The steps.                                                              *)

LEMMA LocksAtFirst == Init => LockInv
<1> SUFFICES ASSUME Init PROVE LockInv
  OBVIOUS
<1>1. ZoneOK
  BY ZoneInitial DEF Init, ZoneOK, Working
<1>2. PhaseOK
  BY LockAssumption DEF Init, PhaseOK, Phase
<1>3. IdentityOK
  BY DEF Init, IdentityOK, Members, Distinct
<1>4. SessionOK
  BY LockAssumption DEF Init, SessionOK, Members, Distinct, InSession, Working
<1> QED
  BY <1>1, <1>2, <1>3, <1>4 DEF LockInv

\* The phase of one call alone changes.
LEMMA PhaseStep ==
  ASSUME PhaseOK, NEW c \in Calls, NEW p \in Phase, To(c, p)
  PROVE  /\ phase' \in [Calls -> Phase] /\ phase'[c] = p
         /\ \A e \in Calls \ {c} : phase'[e] = phase[e]
BY DEF PhaseOK, To

LEMMA CallFits ==
  ASSUME LockInv, NEW c \in Calls, Call(c) PROVE LockInv'
<1>1. phase[c] = "idle" /\ Enter(c) /\ To(c, "called") /\ UNCHANGED <<session, identity, siblings>>
  BY DEF Call
<1>2. /\ phase' \in [Calls -> Phase] /\ phase'[c] = "called"
      /\ \A e \in Calls \ {c} : phase'[e] = phase[e]
  BY <1>1, PhaseStep DEF LockInv, Phase
<1>3. c \notin inside /\ c \notin Waiting
  BY <1>1 DEF LockInv, ZoneOK
<1>4. /\ ZoneTypeOK' /\ ZoneExclusion'
      /\ inside' \subseteq inside \cup {c} /\ Waiting' \subseteq Waiting \cup {c}
  BY <1>1, <1>3, EnterKeeps DEF LockInv, ZoneOK
<1>5. inside \subseteq inside'
  BY <1>1 DEF Enter
<1>6. ZoneOK'
  BY <1>1, <1>2, <1>4, <1>5 DEF LockInv, ZoneOK, Working
<1>7. PhaseOK'
  BY <1>1, <1>2 DEF LockInv, PhaseOK
<1>8. IdentityOK'
  BY <1>1, <1>2 DEF LockInv, IdentityOK
<1>9. SessionOK'
  BY <1>1, <1>2, LockAssumption DEF LockInv, SessionOK, InSession, Working
<1> QED
  BY <1>6, <1>7, <1>8, <1>9 DEF LockInv

\* A call that works goes on to work.
LEMMA ZoneStays ==
  ASSUME LockInv, NEW c \in Calls, NEW p \in Working, To(c, p), c \in inside, UNCHANGED zoneVars
  PROVE  ZoneOK'
<1>1. /\ phase' \in [Calls -> Phase] /\ phase'[c] = p
      /\ \A e \in Calls \ {c} : phase'[e] = phase[e]
  BY PhaseStep DEF LockInv, Phase, Working
<1>2. ZoneTypeOK' /\ ZoneExclusion' /\ inside' = inside /\ Waiting' = Waiting
  BY DEF LockInv, ZoneOK, ZoneTypeOK, ZoneExclusion, zoneVars, Waiting
<1>3. c \notin Waiting
  BY DEF LockInv, ZoneOK, ZoneExclusion, Waiting
<1> QED
  BY <1>1, <1>2, <1>3 DEF LockInv, ZoneOK, Working

LEMMA QueueSessionFits ==
  ASSUME LockInv, NEW c \in Calls, QueueSession(c) PROVE LockInv'
<1>1. /\ phase[c] = "called" /\ c \in SessionJobs /\ c \in inside
      /\ session' = [session EXCEPT ![Device[c]] = Append(@, c)]
      /\ To(c, "in_session") /\ UNCHANGED <<zoneVars, identity, siblings>>
  BY DEF QueueSession
<1>2. /\ phase' \in [Calls -> Phase] /\ phase'[c] = "in_session"
      /\ \A e \in Calls \ {c} : phase'[e] = phase[e]
  BY <1>1, PhaseStep DEF LockInv, Phase
<1>3. ZoneOK'
  BY <1>1, ZoneStays DEF Working
<1>4. PhaseOK' /\ siblings[c] = {}
  BY <1>1, <1>2 DEF LockInv, PhaseOK
<1>5. IdentityOK'
  BY <1>1, <1>2 DEF LockInv, IdentityOK
<1>6. Device[c] \in Devices
  BY LockAssumption
<1>7. ASSUME NEW d \in Devices
      PROVE  /\ session'[d] \in Seq(Calls) /\ Distinct(session'[d])
             /\ \A e \in Calls : e \in Members(session'[d]) <=> InSession(e, d)'
             /\ session[d] # <<>> => Head(session'[d]) = Head(session[d])
  <2>1. /\ session[d] \in Seq(Calls) /\ Distinct(session[d])
        /\ \A e \in Calls : e \in Members(session[d]) <=> InSession(e, d)
    BY DEF LockInv, SessionOK
  <2>2. CASE d = Device[c]
    <3>1. session'[d] = Append(session[d], c)
      BY <1>1, <2>2 DEF LockInv, SessionOK
    <3>2. ~InSession(c, d)
      BY <1>1, <1>4 DEF InSession, Working
    <3>3. c \notin Members(session[d])
      BY <2>1, <3>2
    <3>4. /\ session'[d] \in Seq(Calls) /\ Distinct(session'[d])
          /\ Members(session'[d]) = Members(session[d]) \cup {c}
          /\ session[d] # <<>> => Head(session'[d]) = Head(session[d])
      BY <2>1, <3>1, <3>3, MembersAppend
    <3>5. \A e \in Calls : InSession(e, d)' <=> InSession(e, d) \/ e = c
      BY <1>1, <1>2, <2>2 DEF InSession, Working
    <3> QED
      BY <2>1, <3>4, <3>5
  <2>3. CASE d # Device[c]
    <3>1. session'[d] = session[d]
      BY <1>1, <2>3 DEF LockInv, SessionOK
    <3>2. \A e \in Calls : InSession(e, d)' <=> InSession(e, d)
      BY <1>1, <1>2, <2>3 DEF InSession, Working
    <3> QED
      BY <2>1, <3>1, <3>2
  <2> QED
    BY <2>2, <2>3
<1>8. ASSUME NEW e \in SessionJobs, phase'[e] \in {"in_identity", "archiving", "saved"}
      PROVE  Head(session'[Device[e]]) = e
  <2>1. e \in Calls /\ Device[e] \in Devices /\ e # c /\ phase'[e] = phase[e]
    BY <1>2, <1>8, LockAssumption
  <2>2. Head(session[Device[e]]) = e /\ e \in Members(session[Device[e]])
    BY <1>8, <2>1 DEF LockInv, SessionOK, InSession, Working
  <2>3. session[Device[e]] # <<>>
    BY <2>2 DEF Members
  <2> QED
    BY <1>7, <2>1, <2>2, <2>3
<1>9. SessionOK'
  <2>1. session' \in [Devices -> Seq(Calls)]
    BY <1>1, <1>7 DEF LockInv, SessionOK
  <2> QED
    BY <1>7, <1>8, <2>1 DEF SessionOK
<1> QED
  BY <1>3, <1>4, <1>5, <1>9 DEF LockInv

LEMMA SaveIdentityFits ==
  ASSUME LockInv, NEW c \in Calls, SaveIdentity(c) PROVE LockInv'
<1>1. /\ MaySaveIdentity(c) /\ identity' = Append(identity, c)
      /\ To(c, "in_identity") /\ UNCHANGED <<zoneVars, session, siblings>>
  BY DEF SaveIdentity
<1>2. /\ phase' \in [Calls -> Phase] /\ phase'[c] = "in_identity"
      /\ \A e \in Calls \ {c} : phase'[e] = phase[e]
  BY <1>1, PhaseStep DEF LockInv, Phase
<1>3. c \in inside /\ phase[c] \in {"in_session", "called"}
  BY <1>1 DEF MaySaveIdentity, LockInv, ZoneOK, Working
<1>4. ZoneOK'
  BY <1>1, <1>3, ZoneStays DEF Working
<1>5. PhaseOK' /\ siblings[c] = {}
  BY <1>1, <1>2, <1>3 DEF LockInv, PhaseOK
<1>6. IdentityOK'
  <2>1. identity \in Seq(Calls) /\ Distinct(identity) /\ c \notin Members(identity)
    BY <1>3 DEF LockInv, IdentityOK
  <2>2. /\ identity' \in Seq(Calls) /\ Members(identity') = Members(identity) \cup {c}
        /\ Distinct(identity') /\ (identity # <<>> => Head(identity') = Head(identity))
    BY <1>1, <2>1, MembersAppend
  <2>3. ASSUME NEW e \in Calls, phase'[e] = "archiving" PROVE Head(identity') = e
    <3>1. e # c /\ phase[e] = "archiving"
      BY <1>2, <2>3
    <3>2. Head(identity) = e /\ e \in Members(identity)
      BY <3>1 DEF LockInv, IdentityOK
    <3>3. identity # <<>>
      BY <3>2 DEF Members
    <3> QED
      BY <2>2, <3>2, <3>3
  <2>4. \A e \in Calls : e \in Members(identity') <=> phase'[e] \in {"in_identity", "archiving"}
    BY <1>2, <2>2 DEF LockInv, IdentityOK
  <2> QED
    BY <2>2, <2>3, <2>4 DEF IdentityOK
<1>7. SessionOK'
  <2>1. \A e \in Calls, d \in Devices : InSession(e, d)' <=> InSession(e, d)
    BY <1>1, <1>2, <1>3 DEF InSession, Working, MaySaveIdentity
  <2>2. c \in SessionJobs => Head(session[Device[c]]) = c
    BY <1>1 DEF MaySaveIdentity
  <2>3. \A e \in SessionJobs : phase'[e] \in {"in_identity", "archiving", "saved"} => Head(session'[Device[e]]) = e
    BY <1>1, <1>2, <2>2, LockAssumption DEF LockInv, SessionOK
  <2> QED
    BY <1>1, <2>1, <2>3 DEF LockInv, SessionOK
<1> QED
  BY <1>4, <1>5, <1>6, <1>7 DEF LockInv

\* Who leaves the identity queue is its head.
LEMMA IdentityTail ==
  ASSUME LockInv, NEW c \in Calls, phase[c] \in {"in_identity", "archiving"}, HasIdentity(c),
         identity' = Tail(identity), phase' \in [Calls -> Phase], phase'[c] = "saved",
         \A e \in Calls \ {c} : phase'[e] = phase[e]
  PROVE  IdentityOK'
<1>1. identity \in Seq(Calls) /\ Distinct(identity) /\ identity # <<>> /\ Head(identity) = c
  BY DEF LockInv, IdentityOK, HasIdentity
<1>2. identity' \in Seq(Calls) /\ Members(identity') = Members(identity) \ {c} /\ Distinct(identity')
  BY <1>1, MembersTail
<1>3. \A e \in Calls : phase'[e] # "archiving"
  BY <1>1 DEF LockInv, IdentityOK
<1>4. \A e \in Calls : e \in Members(identity') <=> phase'[e] \in {"in_identity", "archiving"}
  BY <1>2 DEF LockInv, IdentityOK
<1> QED
  BY <1>2, <1>3, <1>4 DEF IdentityOK

\* The session queues are left alone by a call that goes on to work.
LEMMA SessionsStay ==
  ASSUME LockInv, NEW c \in Calls, phase[c] \in {"in_identity", "archiving"}, UNCHANGED <<session, siblings>>,
         phase'[c] \in {"saved", "in_identity", "archiving"}, \A e \in Calls \ {c} : phase'[e] = phase[e]
  PROVE  SessionOK'
<1>1. \A e \in Calls, d \in Devices : InSession(e, d)' <=> InSession(e, d)
  BY DEF InSession, Working
<1>2. \A e \in SessionJobs : phase'[e] \in {"in_identity", "archiving", "saved"} =>
        phase[e] \in {"in_identity", "archiving", "saved"}
  BY LockAssumption
<1> QED
  BY <1>1, <1>2 DEF LockInv, SessionOK

LEMMA SavedFits ==
  ASSUME LockInv, NEW c \in Calls, SameKey(c) \/ AllArchived(c) PROVE LockInv'
<1>1. /\ phase[c] \in {"in_identity", "archiving"} /\ identity' = Tail(identity)
      /\ To(c, "saved") /\ UNCHANGED <<zoneVars, session, siblings>>
      /\ siblings[c] = {}
  BY DEF SameKey, AllArchived, LockInv, PhaseOK
<1>2. /\ phase' \in [Calls -> Phase] /\ phase'[c] = "saved"
      /\ \A e \in Calls \ {c} : phase'[e] = phase[e]
  BY <1>1, PhaseStep DEF LockInv, Phase
<1>3. HasIdentity(c)
  <2>1. CASE SameKey(c)
    BY <2>1 DEF SameKey
  <2>2. CASE AllArchived(c)
    <3>1. Head(identity) = c /\ c \in Members(identity)
      BY <2>2 DEF AllArchived, LockInv, IdentityOK
    <3> QED
      BY <3>1 DEF Members, HasIdentity
  <2> QED
    BY <2>1, <2>2
<1>4. ZoneOK'
  <2>1. c \in inside
    BY <1>1 DEF LockInv, ZoneOK, Working
  <2> QED
    BY <1>1, <2>1, ZoneStays DEF Working
<1>5. PhaseOK'
  BY <1>1, <1>2 DEF LockInv, PhaseOK
<1>6. IdentityOK'
  BY <1>1, <1>2, <1>3, IdentityTail
<1>7. SessionOK'
  BY <1>1, <1>2, SessionsStay
<1> QED
  BY <1>4, <1>5, <1>6, <1>7 DEF LockInv

LEMMA ChangedKeyFits ==
  ASSUME LockInv, NEW c \in Calls, ChangedKey(c) PROVE LockInv'
<1>1. /\ phase[c] = "in_identity" /\ HasIdentity(c) /\ c \in MayChange /\ c \in inside
      /\ siblings' = [siblings EXCEPT ![c] = Siblings(c)]
      /\ session' = [d \in Devices |-> IF d \in Siblings(c) THEN Append(session[d], c) ELSE session[d]]
      /\ To(c, "archiving") /\ UNCHANGED <<zoneVars, identity>>
  BY DEF ChangedKey
<1>2. /\ phase' \in [Calls -> Phase] /\ phase'[c] = "archiving"
      /\ \A e \in Calls \ {c} : phase'[e] = phase[e]
  BY <1>1, PhaseStep DEF LockInv, Phase
<1>3. ZoneOK'
  BY <1>1, ZoneStays DEF Working
<1>4. /\ siblings' \in [Calls -> SUBSET Devices] /\ siblings'[c] = Siblings(c)
      /\ \A e \in Calls \ {c} : siblings'[e] = siblings[e]
  BY <1>1 DEF LockInv, PhaseOK, Siblings
<1>5. PhaseOK' /\ siblings[c] = {}
  BY <1>1, <1>2, <1>4 DEF LockInv, PhaseOK, Siblings
<1>6. IdentityOK'
  BY <1>1, <1>2 DEF LockInv, IdentityOK, HasIdentity
<1>7. ASSUME NEW d \in Devices
      PROVE  /\ session'[d] \in Seq(Calls) /\ Distinct(session'[d])
             /\ \A e \in Calls : e \in Members(session'[d]) <=> InSession(e, d)'
             /\ session[d] # <<>> => Head(session'[d]) = Head(session[d])
  <2>1. /\ session[d] \in Seq(Calls) /\ Distinct(session[d])
        /\ \A e \in Calls : e \in Members(session[d]) <=> InSession(e, d)
    BY DEF LockInv, SessionOK
  <2>2. CASE d \in Siblings(c)
    <3>1. session'[d] = Append(session[d], c)
      BY <1>1, <2>2
    <3>2. c \notin Members(session[d])
      BY <1>5, <2>1, <2>2 DEF InSession, Siblings
    <3>3. /\ session'[d] \in Seq(Calls) /\ Distinct(session'[d])
          /\ Members(session'[d]) = Members(session[d]) \cup {c}
          /\ session[d] # <<>> => Head(session'[d]) = Head(session[d])
      BY <2>1, <3>1, <3>2, MembersAppend
    <3>4. \A e \in Calls : InSession(e, d)' <=> InSession(e, d) \/ e = c
      BY <1>1, <1>2, <1>4, <2>2 DEF InSession, Working
    <3> QED
      BY <2>1, <3>3, <3>4
  <2>3. CASE d \notin Siblings(c)
    <3>1. session'[d] = session[d]
      BY <1>1, <2>3
    <3>2. \A e \in Calls : InSession(e, d)' <=> InSession(e, d)
      BY <1>1, <1>2, <1>4, <1>5, <2>3 DEF InSession, Working
    <3> QED
      BY <2>1, <3>1, <3>2
  <2> QED
    BY <2>2, <2>3
<1>8. ASSUME NEW e \in SessionJobs, phase'[e] \in {"in_identity", "archiving", "saved"}
      PROVE  Head(session'[Device[e]]) = e
  <2>1. e \in Calls /\ Device[e] \in Devices /\ phase[e] \in {"in_identity", "archiving", "saved"}
    BY <1>1, <1>2, <1>8, LockAssumption
  <2>2. Head(session[Device[e]]) = e /\ e \in Members(session[Device[e]])
    BY <2>1 DEF LockInv, SessionOK, InSession, Working
  <2>3. session[Device[e]] # <<>>
    BY <2>2 DEF Members
  <2> QED
    BY <1>7, <2>1, <2>2, <2>3
<1>9. SessionOK'
  <2>1. session' \in [Devices -> Seq(Calls)]
    BY <1>1, <1>7
  <2> QED
    BY <1>7, <1>8, <2>1 DEF SessionOK
<1> QED
  BY <1>3, <1>5, <1>6, <1>9 DEF LockInv

\* The head leaves the session queue of d, and the others keep their places.
LEMMA SessionTail ==
  ASSUME LockInv, NEW c \in Calls, NEW d \in Devices,
         session' = [session EXCEPT ![d] = Tail(@)],
         c \in Members(session[d]), Head(session[d]) = c,
         \A e \in Calls, f \in Devices : InSession(e, f)' <=> InSession(e, f) /\ ~(e = c /\ f = d),
         \A e \in SessionJobs : phase'[e] \in {"in_identity", "archiving", "saved"} =>
           phase[e] \in {"in_identity", "archiving", "saved"} /\ ~(e = c /\ Device[e] = d)
  PROVE  SessionOK'
<1>1. /\ session[d] \in Seq(Calls) /\ Distinct(session[d]) /\ session[d] # <<>>
  BY DEF LockInv, SessionOK, Members
<1>2. /\ session'[d] \in Seq(Calls) /\ Distinct(session'[d])
      /\ Members(session'[d]) = Members(session[d]) \ {c}
  <2>1. session'[d] = Tail(session[d])
    BY DEF LockInv, SessionOK
  <2> QED
    BY <1>1, <2>1, MembersTail
<1>3. \A f \in Devices \ {d} : session'[f] = session[f]
  BY DEF LockInv, SessionOK
<1>4. ASSUME NEW f \in Devices
      PROVE  /\ session'[f] \in Seq(Calls) /\ Distinct(session'[f])
             /\ \A e \in Calls : e \in Members(session'[f]) <=> InSession(e, f)'
  <2>1. /\ session[f] \in Seq(Calls) /\ Distinct(session[f])
        /\ \A e \in Calls : e \in Members(session[f]) <=> InSession(e, f)
    BY DEF LockInv, SessionOK
  <2>2. CASE f = d
    BY <1>2, <2>1, <2>2
  <2>3. CASE f # d
    BY <1>3, <2>1, <2>3
  <2> QED
    BY <2>2, <2>3
<1>5. ASSUME NEW e \in SessionJobs, phase'[e] \in {"in_identity", "archiving", "saved"}
      PROVE  Head(session'[Device[e]]) = e
  <2>1. Device[e] \in Devices /\ Head(session[Device[e]]) = e /\ ~(e = c /\ Device[e] = d)
    BY <1>5, LockAssumption DEF LockInv, SessionOK
  <2>2. Device[e] # d
    BY <2>1
  <2> QED
    BY <1>3, <2>1, <2>2
<1>6. session' \in [Devices -> Seq(Calls)]
  BY <1>4 DEF LockInv, SessionOK
<1> QED
  BY <1>4, <1>5, <1>6 DEF SessionOK

LEMMA ArchivedFits ==
  ASSUME LockInv, NEW c \in Calls, NEW d \in Devices, Archived(c, d) PROVE LockInv'
<1>1. /\ phase[c] = "archiving" /\ d \in siblings[c] /\ Head(session[d]) = c
      /\ session' = [session EXCEPT ![d] = Tail(@)]
      /\ siblings' = [siblings EXCEPT ![c] = @ \ {d}]
      /\ UNCHANGED <<zoneVars, phase, identity>>
  BY DEF Archived
<1>2. /\ siblings' \in [Calls -> SUBSET Devices] /\ siblings'[c] = siblings[c] \ {d}
      /\ \A e \in Calls \ {c} : siblings'[e] = siblings[e]
      /\ Device[c] # d
  BY <1>1 DEF LockInv, PhaseOK
<1>3. PhaseOK'
  BY <1>1, <1>2 DEF LockInv, PhaseOK
<1>4. ZoneOK'
  BY <1>1 DEF LockInv, ZoneOK, ZoneTypeOK, ZoneExclusion, zoneVars, Waiting
<1>5. IdentityOK'
  BY <1>1 DEF LockInv, IdentityOK
<1>6. c \in Members(session[d])
  BY <1>1 DEF LockInv, SessionOK, InSession
<1>7. \A e \in Calls, f \in Devices : InSession(e, f)' <=> InSession(e, f) /\ ~(e = c /\ f = d)
  BY <1>1, <1>2 DEF InSession
<1>8. \A e \in SessionJobs : phase'[e] \in {"in_identity", "archiving", "saved"} =>
        phase[e] \in {"in_identity", "archiving", "saved"} /\ ~(e = c /\ Device[e] = d)
  BY <1>1, <1>2
<1>9. Head(session[d]) = c /\ session' = [session EXCEPT ![d] = Tail(@)]
  BY <1>1
<1>10. SessionOK'
  BY <1>6, <1>7, <1>8, <1>9, SessionTail
<1> QED
  BY <1>3, <1>4, <1>5, <1>10 DEF LockInv

LEMMA EndFits ==
  ASSUME LockInv, NEW c \in Calls, End(c) PROVE LockInv'
<1>1. /\ phase[c] = "saved" /\ Leave(c) /\ To(c, "ended") /\ UNCHANGED <<identity, siblings>>
      /\ session' = IF c \in SessionJobs THEN [session EXCEPT ![Device[c]] = Tail(@)] ELSE session
  BY DEF End
<1>2. /\ phase' \in [Calls -> Phase] /\ phase'[c] = "ended"
      /\ \A e \in Calls \ {c} : phase'[e] = phase[e]
  BY <1>1, PhaseStep DEF LockInv, Phase
<1>3. PhaseOK' /\ siblings[c] = {}
  BY <1>1, <1>2 DEF LockInv, PhaseOK
<1>4. IdentityOK'
  BY <1>1, <1>2 DEF LockInv, IdentityOK
<1>5. ZoneOK'
  <2>1. c \in inside
    BY <1>1 DEF LockInv, ZoneOK, Working
  <2>2. /\ ZoneTypeOK' /\ ZoneExclusion'
        /\ inside' \subseteq inside \cup Waiting /\ Waiting' \subseteq Waiting
    BY <1>1, LeaveKeeps DEF LockInv, ZoneOK
  <2>3. c \notin Waiting
    BY <2>1 DEF LockInv, ZoneOK, ZoneExclusion, Waiting
  <2>4. c \notin inside' /\ inside \ {c} \subseteq inside'
    <3>1. CASE inside # {c} \/ blocked = <<>>
      BY <1>1, <3>1 DEF Leave
    <3>2. CASE ~(inside # {c} \/ blocked = <<>>)
      <4>1. PICK n \in 1..Len(blocked) : inside' = {blocked[i] : i \in 1..n}
        BY <1>1, <3>2 DEF Leave
      <4>2. \A i \in 1..n : i \in DOMAIN blocked
        BY DEF LockInv, ZoneOK, ZoneTypeOK
      <4>3. inside' \subseteq Waiting
        BY <4>1, <4>2 DEF Waiting
      <4> QED
        BY <2>3, <3>2, <4>3
    <3> QED
      BY <3>1, <3>2
  <2> QED
    BY <1>2, <2>2, <2>3, <2>4 DEF LockInv, ZoneOK, Working
<1>6. SessionOK'
  <2>1. CASE c \in SessionJobs
    <3>1. Device[c] \in Devices
      BY LockAssumption
    <3>2. c \in Members(session[Device[c]]) /\ Head(session[Device[c]]) = c
      BY <1>1, <2>1, <3>1 DEF LockInv, SessionOK, InSession, Working
    <3>3. \A e \in Calls, f \in Devices : InSession(e, f)' <=> InSession(e, f) /\ ~(e = c /\ f = Device[c])
      BY <1>1, <1>2, <1>3 DEF InSession, Working
    <3>4. \A e \in SessionJobs : phase'[e] \in {"in_identity", "archiving", "saved"} =>
            phase[e] \in {"in_identity", "archiving", "saved"} /\ ~(e = c /\ Device[e] = Device[c])
      BY <1>2, LockAssumption
    <3>5. session' = [session EXCEPT ![Device[c]] = Tail(@)]
      BY <1>1, <2>1
    <3>6. PICK d \in Devices : d = Device[c]
      BY <3>1
    <3> QED
      BY <3>2, <3>3, <3>4, <3>5, <3>6, SessionTail
  <2>2. CASE c \notin SessionJobs
    <3>1. \A e \in Calls, f \in Devices : InSession(e, f)' <=> InSession(e, f)
      BY <1>1, <1>2, <2>2 DEF InSession, Working
    <3>2. \A e \in SessionJobs : phase'[e] = phase[e]
      BY <1>2, <2>2, LockAssumption
    <3> QED
      BY <1>1, <2>2, <3>1, <3>2 DEF LockInv, SessionOK
  <2> QED
    BY <2>1, <2>2
<1> QED
  BY <1>3, <1>4, <1>5, <1>6 DEF LockInv

LEMMA LockStep == LockInv /\ [Next]_vars => LockInv'
<1> SUFFICES ASSUME LockInv, [Next]_vars PROVE LockInv'
  OBVIOUS
<1>1. CASE UNCHANGED vars
  <2>1. ZoneOK'
    BY <1>1 DEF vars, zoneVars, LockInv, ZoneOK, ZoneTypeOK, ZoneExclusion, Waiting
  <2>2. PhaseOK' /\ IdentityOK'
    BY <1>1 DEF vars, LockInv, PhaseOK, IdentityOK
  <2>3. SessionOK'
    BY <1>1 DEF vars, LockInv, SessionOK, InSession
  <2> QED
    BY <2>1, <2>2, <2>3 DEF LockInv
<1> QED
  BY <1>1, CallFits, QueueSessionFits, SaveIdentityFits, SavedFits, ChangedKeyFits, ArchivedFits, EndFits DEF Next

LEMMA AlwaysLockInv == Spec => []LockInv
BY LocksAtFirst, LockStep, PTL DEF Spec

(* The queues, the zone and the phases of the calls keep their types, for  *)
(* any calls and devices.                                                  *)
THEOREM LockTypes == Spec => []TypeOK
<1>1. LockInv => TypeOK
  BY DEF LockInv, ZoneOK, PhaseOK, IdentityOK, SessionOK, Phase, TypeOK
<1> QED
  BY <1>1, AlwaysLockInv, PTL

(* No calls wait for each other in a circle of zone, session queues and    *)
(* identity queue (withZone, enqueueSessionJob and #runOnIdentityQueue of  *)
(* SignalProtocolStore.ts), although the session queues are taken both     *)
(* before and under the identity queue: the zone keeps apart whoever would *)
(* meet, as long as no session job for a sibling device runs in the zone   *)
(* of a call that may archive the sibling's session.                       *)
THEOREM LocksAreOrdered ==
  ASSUME SiblingsApart
  PROVE  Spec => []NoWaitCycle
<1>1. LockInv => NoWaitCycle
  BY NobodyInACircle
<1> QED
  BY <1>1, AlwaysLockInv, PTL
=============================================================================
