--------------------------- MODULE JobManager_proof ---------------------------
(***************************************************************************)
(* The limit of jobs that run at a time holds, and no row stays marked as  *)
(* active without a job that runs (but for those whose last write was      *)
(* rejected), for any jobs, limits and number of failures, rejected        *)
(* writes, stops, cancellations and restarts.                              *)
(***************************************************************************)
EXTENDS JobManager, FiniteSetTheorems, TLAPS

-----------------------------------------------------------------------------
(* What getNextJobs returns keeps to its limit: jobs differ in the time    *)
(* they were received at, hence in how many newer ones there are.          *)
Newer(D, j) == {k \in D : ReceivedAt[k] > ReceivedAt[j]}
Newest(D, limit) == {j \in D : Cardinality(Newer(D, j)) < limit}

LEMMA NewerDiffer ==
  ASSUME NEW D \in SUBSET Jobs, NEW x \in D, NEW y \in D, ReceivedAt[x] > ReceivedAt[y]
  PROVE  Cardinality(Newer(D, x)) # Cardinality(Newer(D, y))
<1>1. IsFiniteSet(D)
  BY FS_Subset, ManagerAssumption
<1>2. /\ IsFiniteSet(Newer(D, y))
      /\ Newer(D, x) \in SUBSET Newer(D, y)
      /\ x \in Newer(D, y) /\ x \notin Newer(D, x)
  <2>1. Newer(D, y) \in SUBSET D
    BY DEF Newer
  <2>2. IsFiniteSet(Newer(D, y))
    BY <1>1, <2>1, FS_Subset
  <2>3. \A j \in D : ReceivedAt[j] \in Nat
    BY ManagerAssumption
  <2> QED
    BY <2>2, <2>3 DEF Newer
<1> QED
  BY <1>2, FS_Subset

LEMMA NewestAreFew ==
  ASSUME NEW D \in SUBSET Jobs, NEW limit \in Nat
  PROVE  IsFiniteSet(Newest(D, limit)) /\ Cardinality(Newest(D, limit)) <= limit
<1> DEFINE S == Newest(D, limit)
           T == 0..(limit - 1)
           f == [j \in S |-> Cardinality(Newer(D, j))]
<1>1. IsFiniteSet(D) /\ IsFiniteSet(S)
  BY FS_Subset, ManagerAssumption DEF Newest
<1>2. IsFiniteSet(T) /\ Cardinality(T) = limit
  BY FS_Interval
<1>3. f \in [S -> T]
  <2> SUFFICES ASSUME NEW j \in S PROVE Cardinality(Newer(D, j)) \in T
    OBVIOUS
  <2>1. Newer(D, j) \in SUBSET D
    BY DEF Newer
  <2>2. Cardinality(Newer(D, j)) \in Nat
    BY <1>1, <2>1, FS_Subset, FS_CardinalityType
  <2> QED
    BY <2>2 DEF Newest
<1>4. ASSUME NEW x \in S, NEW y \in S, x # y PROVE f[x] # f[y]
  <2>1. x \in D /\ y \in D
    BY DEF Newest
  <2>2. ReceivedAt[x] > ReceivedAt[y] \/ ReceivedAt[y] > ReceivedAt[x]
    BY <1>4, <2>1, ManagerAssumption
  <2> QED
    BY <2>1, <2>2, NewerDiffer
<1>5. ~(Cardinality(T) < Cardinality(S))
  <2> SUFFICES ASSUME Cardinality(T) < Cardinality(S) PROVE FALSE
    OBVIOUS
  <2> HIDE DEF S, T, f
  <2> QED
    BY <1>1, <1>2, <1>3, <1>4, FS_PigeonHole
<1>6. Cardinality(S) \in Nat
  BY <1>1, FS_CardinalityType
<1> QED
  BY <1>1, <1>2, <1>5, <1>6

-----------------------------------------------------------------------------
(* The inductive invariant.                                                *)

JobsOf(nextJobs) == {n.job : n \in nextJobs}

\* One call of maybeStartJobs at a time reads, and there will be room for what
\* it finds: jobs that are started out of turn meanwhile do not count.
Room ==
  /\ \A nextJobs, other \in reading : nextJobs = other
  /\ \A nextJobs \in reading : Cardinality(InTurn) + Cardinality(JobsOf(nextJobs)) <= MaxConcurrentJobs

\* An active row is that of a job whose last write is still to come, or has
\* been rejected; but for a process that has just begun, which starts nothing.
Marked == \A j \in Jobs : rows[j] # None /\ rows[j].active =>
            \/ calls[j] # None /\ calls[j].at \in {"running", "failing"}
            \/ rows[j].parked
Quiet == ~enabled /\ timer = "none" /\ starting = "no" /\ reading = {} /\ \A j \in Jobs : calls[j] = None

ManagerInv == TypeOK /\ ConcurrencyBound /\ Room /\ (Quiet \/ Marked)

LEMMA JobSets ==
  /\ IsFiniteSet(InTurn) /\ Cardinality(InTurn) \in Nat
  /\ \A D \in SUBSET Jobs : IsFiniteSet(D) /\ Cardinality(D) \in Nat
<1>1. InTurn \in SUBSET Jobs
  BY DEF InTurn, Running
<1>2. \A D \in SUBSET Jobs : IsFiniteSet(D) /\ Cardinality(D) \in Nat
  BY FS_Subset, FS_CardinalityType, ManagerAssumption
<1> QED
  BY <1>1, <1>2

LEMMA Initially == Init => ManagerInv
<1> SUFFICES ASSUME Init PROVE ManagerInv
  OBVIOUS
<1>1. TypeOK
  <2>1. enabled \in BOOLEAN /\ idleWaiting \in BOOLEAN /\ inCall \in BOOLEAN
    BY Zenon DEF Init
  <2>2. rows \in [Jobs -> Row \cup {None}] /\ calls \in [Jobs -> Call \cup {None}]
    BY DEF Init
  <2>3. adds \in 0..MaxAdds /\ troubles \in 0..MaxTroubles
    BY ManagerAssumption DEF Init
  <2> QED
    BY <2>1, <2>2, <2>3 DEF Init, TypeOK
<1>2. InTurn = {}
  BY DEF Init, InTurn, Running
<1>3. ConcurrencyBound
  BY <1>2, FS_EmptySet, ManagerAssumption DEF ConcurrencyBound
<1>4. Room /\ Quiet
  BY DEF Init, Room, Quiet
<1> QED
  BY <1>1, <1>3, <1>4 DEF ManagerInv

-----------------------------------------------------------------------------
(* The parts the actions are made of.                                      *)

\* What maybeStartJobs will get has the type of what getNextJobs returns.
LEMMA ReadingTyped ==
  ASSUME TypeOK, rows' \in [Jobs -> Row \cup {None}], reading' \subseteq reading \/ MaybeStartJobs
  PROVE  reading' \subseteq SUBSET NextJob
<1>1. CASE reading' \subseteq reading
  BY <1>1 DEF TypeOK
<1>2. CASE MaybeStartJobs
  <2>1. \A j \in Due : rows'[j].attempts \in Nat
    BY DEF Due, Row
  <2>2. \A limit : NextJobs(limit) \subseteq Due /\ Due \subseteq Jobs
    BY DEF NextJobs, Due
  <2>3. Reads \subseteq SUBSET NextJob
    BY <2>1, <2>2 DEF Reads, NextJob
  <2> QED
    BY <1>2, <2>3 DEF MaybeStartJobs, TypeOK
<1> QED
  BY <1>1, <1>2

\* A call of maybeStartJobs that reads takes no more than there is room for.
LEMMA ReadsFit ==
  ASSUME TypeOK, ActiveJobCount < MaxConcurrentJobs
  PROVE  \A nextJobs \in Reads :
           Cardinality(InTurn') + Cardinality(JobsOf(nextJobs)) <= MaxConcurrentJobs
<1> DEFINE Active == {j \in Jobs : calls'[j] # None}
           limit == MaxConcurrentJobs - ActiveJobCount
<1>1. Active \in SUBSET Jobs /\ InTurn' \in SUBSET Active
  BY DEF InTurn, Running
<1>2. ActiveJobCount \in Nat /\ Cardinality(InTurn') \in Nat /\ Cardinality(InTurn') <= ActiveJobCount
  BY <1>1, JobSets, FS_Subset, FS_CardinalityType DEF ActiveJobCount
<1>3. limit \in Nat
  BY <1>2, ManagerAssumption
<1>4. Due \in SUBSET Jobs /\ NextJobs(limit) = Newest(Due, limit)
  BY DEF Due, NextJobs, Newest, Newer
<1>5. Cardinality(NextJobs(limit)) <= limit /\ Cardinality(NextJobs(limit)) \in Nat
  <2>1. Cardinality(Newest(Due, limit)) <= limit
    BY <1>3, <1>4, NewestAreFew
  <2>2. Newest(Due, limit) \in SUBSET Jobs
    BY <1>4 DEF Newest
  <2> QED
    BY <1>4, <2>1, <2>2, JobSets
<1>6. \A nextJobs \in Reads : JobsOf(nextJobs) = NextJobs(limit)
  <2> DEFINE record(j) == [job |-> j, attempts |-> rows'[j].attempts]
             found == {record(j) : j \in NextJobs(limit)}
  <2>1. JobsOf(found) = NextJobs(limit)
    <3>1. \A j : record(j).job = j
      OBVIOUS
    <3> HIDE DEF record, limit
    <3> QED
      BY <3>1, Zenon DEF JobsOf
  <2>2. Reads = {found}
    BY Zenon DEF Reads
  <2> QED
    BY <2>1, <2>2
<1> QED
  BY <1>2, <1>5, <1>6, ManagerAssumption

\* Steps that start nothing in turn.
LEMMA RoomKept ==
  ASSUME ManagerInv, InTurn' \subseteq InTurn, reading' \subseteq reading \/ MaybeStartJobs
  PROVE  ConcurrencyBound' /\ Room'
<1>1. /\ Cardinality(InTurn') <= Cardinality(InTurn)
      /\ Cardinality(InTurn') \in Nat /\ Cardinality(InTurn) \in Nat
  BY JobSets, FS_Subset, FS_CardinalityType
<1>2. ConcurrencyBound'
  BY <1>1, ManagerAssumption DEF ManagerInv, ConcurrencyBound
<1>3. \A nextJobs \in reading : Cardinality(JobsOf(nextJobs)) \in Nat
  <2>1. \A nextJobs \in reading : JobsOf(nextJobs) \in SUBSET Jobs
    BY DEF ManagerInv, TypeOK, NextJob, JobsOf
  <2> QED
    BY <2>1, JobSets
<1>4. CASE reading' \subseteq reading
  BY <1>1, <1>3, <1>4, <1>2, ManagerAssumption DEF ManagerInv, Room
<1>5. CASE MaybeStartJobs /\ ~(reading' \subseteq reading)
  <2>1. reading' = Reads /\ (ActiveJobCount < MaxConcurrentJobs)
    <3>1. reading' = Reads /\ ~(ActiveJobCount >= MaxConcurrentJobs)
      BY <1>5 DEF MaybeStartJobs
    <3>2. ActiveJobCount \in Nat
      <4>1. {j \in Jobs : calls'[j] # None} \in SUBSET Jobs
        OBVIOUS
      <4> QED
        BY <4>1, JobSets DEF ActiveJobCount
    <3> QED
      BY <3>1, <3>2, ManagerAssumption
  <2>2. \A nextJobs, other \in Reads : nextJobs = other
    BY DEF Reads
  <2> QED
    BY <1>2, <2>1, <2>2, ReadsFit DEF ManagerInv, Room
<1> QED
  BY <1>4, <1>5

\* What startJob starts, it marks in the table.
LEMMA StartJobsStarts ==
  ASSUME TypeOK, NEW jobs \in SUBSET NextJob, NEW forced \in BOOLEAN, StartJobs(jobs, forced)
  PROVE  /\ rows' \in [Jobs -> Row \cup {None}] /\ calls' \in [Jobs -> Call \cup {None}]
         /\ troubles' \in 0..MaxTroubles
         /\ \A j \in Jobs :
              \/ calls'[j] = calls[j] /\ rows'[j] = rows[j]
              \/ /\ j \in JobsOf(jobs) /\ calls'[j] # None
                 /\ calls'[j].at \in {"running", "failing"} /\ calls'[j].forced = forced
<1> DEFINE idle == {n \in jobs : calls[n.job] = None}
           Of(j) == CHOOSE n \in idle : n.job = j
           started == {n.job : n \in idle}
           call(U, j) == [at |-> IF j \in U THEN "failing" ELSE "running", attempts |-> Of(j).attempts,
                       isLastAttempt |-> Of(j).attempts + 1 >= MaxAttempts, forced |-> forced]
           row(j) == [active |-> TRUE, attempts |-> Of(j).attempts, retryAfter |-> "none", parked |-> FALSE]
<1>1. \A j \in started : Of(j).attempts \in Nat
  <2> SUFFICES ASSUME NEW j \in started PROVE Of(j).attempts \in Nat
    OBVIOUS
  <2>1. Of(j) \in idle
    OBVIOUS
  <2> QED
    BY <2>1 DEF NextJob
<1>2. PICK U \in SUBSET started :
        /\ IF U = {} THEN UNCHANGED troubles ELSE Trouble
        /\ calls' = [j \in Jobs |-> IF j \in started THEN call(U, j) ELSE calls[j]]
        /\ rows' = [j \in Jobs |-> IF j \in started \ U THEN row(j) ELSE rows[j]]
  BY DEF StartJobs
<1> HIDE DEF Of
<1>3. \A j \in started : call(U, j) \in Call /\ row(j) \in Row
  <2>1. ASSUME NEW j \in started PROVE row(j) \in Row
    BY <1>1, <2>1 DEF Row
  <2>2. ASSUME NEW j \in started PROVE call(U, j) \in Call
    <3>1. (Of(j).attempts + 1 >= MaxAttempts) \in BOOLEAN /\ Of(j).attempts \in Nat
      BY <1>1, <2>2
    <3>2. (IF j \in U THEN "failing" ELSE "running") \in {"running", "failing", "settling"}
      OBVIOUS
    <3>3. \A at \in {"running", "failing", "settling"}, n \in Nat, last, out \in BOOLEAN :
            [at |-> at, attempts |-> n, isLastAttempt |-> last, forced |-> out] \in Call
      BY DEF Call
    <3> QED
      BY <3>1, <3>2, <3>3, Zenon
  <2> QED
    BY <2>1, <2>2
<1>4. \A j \in started :
        call(U, j) # None /\ call(U, j).at \in {"running", "failing"} /\ call(U, j).forced = forced
  <2>1. \A j : call(U, j).at \in {"running", "failing"}
    OBVIOUS
  <2>2. \A j : call(U, j).forced = forced
    BY Zenon
  <2>3. \A j \in started : call(U, j) # None
    <3> HIDE DEF call, started
    <3> QED
      BY <1>3, ManagerAssumption
  <2> QED
    BY <2>1, <2>2, <2>3, Zenon
<1>5. started \subseteq JobsOf(jobs)
  BY DEF JobsOf
<1>6. troubles' \in 0..MaxTroubles
  BY <1>2, ManagerAssumption DEF Trouble, TypeOK
<1> HIDE DEF started, call, row
<1>7. rows' \in [Jobs -> Row \cup {None}] /\ calls' \in [Jobs -> Call \cup {None}]
  BY <1>2, <1>3 DEF TypeOK
<1>8. ASSUME NEW j \in Jobs
      PROVE  \/ calls'[j] = calls[j] /\ rows'[j] = rows[j]
             \/ /\ j \in JobsOf(jobs) /\ calls'[j] # None
                /\ calls'[j].at \in {"running", "failing"} /\ calls'[j].forced = forced
  <2>1. CASE j \in started
    <3>1. calls'[j] = call(U, j)
      BY <1>2, <2>1
    <3> QED
      BY <1>4, <1>5, <2>1, <3>1
  <2>2. CASE j \notin started
    BY <1>2, <2>2
  <2> QED
    BY <2>1, <2>2
<1> QED
  BY <1>6, <1>7, <1>8

-----------------------------------------------------------------------------
(* The actions.                                                            *)

LEMMA NextJobsReadStep == ASSUME ManagerInv, NextJobsRead PROVE ManagerInv'
<1>1. PICK nextJobs \in reading :
        /\ reading' = reading \ {nextJobs}
        /\ IF nextJobs = {} /\ Running = {}
           THEN idleWaiting' = FALSE /\ UNCHANGED <<rows, calls, troubles>>
           ELSE /\ UNCHANGED idleWaiting
                /\ IF inCall THEN UNCHANGED <<rows, calls, troubles>> ELSE StartJobs(nextJobs, FALSE)
  BY DEF NextJobsRead
<1>2. /\ reading' = {} /\ starting' \in {"no", "marking", "reading", "ticking"}
      /\ UNCHANGED <<unsaved, forcing, enabled, timer, cancelling, inCall, adds>>
  BY <1>1 DEF NextJobsRead, ManagerInv, Room, TypeOK
<1>3. idleWaiting' \in BOOLEAN
  BY <1>1, Zenon DEF ManagerInv, TypeOK
<1>4. Marked
  BY DEF ManagerInv, Quiet
<1>5. CASE UNCHANGED <<rows, calls, troubles>>
  <2>1. TypeOK'
    BY <1>2, <1>3, <1>5 DEF ManagerInv, TypeOK
  <2>2. InTurn' \subseteq InTurn
    BY <1>5 DEF InTurn, Running
  <2>3. Marked'
    BY <1>4, <1>5 DEF Marked
  <2> QED
    BY <1>2, <2>1, <2>2, <2>3, RoomKept DEF ManagerInv
<1>6. CASE StartJobs(nextJobs, FALSE)
  <2>1. nextJobs \in SUBSET NextJob
    BY DEF ManagerInv, TypeOK
  <2>2. /\ rows' \in [Jobs -> Row \cup {None}] /\ calls' \in [Jobs -> Call \cup {None}]
        /\ troubles' \in 0..MaxTroubles
        /\ \A j \in Jobs :
             \/ calls'[j] = calls[j] /\ rows'[j] = rows[j]
             \/ /\ j \in JobsOf(nextJobs) /\ calls'[j] # None
                /\ calls'[j].at \in {"running", "failing"} /\ calls'[j].forced = FALSE
    BY <1>6, <2>1, StartJobsStarts DEF ManagerInv
  <2>3. TypeOK'
    BY <1>2, <1>3, <2>2 DEF ManagerInv, TypeOK
  <2>4. Marked'
    BY <1>4, <2>2 DEF Marked
  <2>5. ConcurrencyBound'
    <3>1. InTurn' \in SUBSET (InTurn \cup JobsOf(nextJobs))
      BY <2>2 DEF InTurn, Running
    <3>2. JobsOf(nextJobs) \in SUBSET Jobs /\ InTurn \in SUBSET Jobs
      BY <2>1 DEF JobsOf, NextJob, InTurn, Running
    <3>3. /\ IsFiniteSet(InTurn \cup JobsOf(nextJobs))
          /\ Cardinality(InTurn \cup JobsOf(nextJobs)) <= Cardinality(InTurn) + Cardinality(JobsOf(nextJobs))
      <4>1. InTurn \cap JobsOf(nextJobs) \in SUBSET Jobs
        BY <3>2
      <4>2. /\ IsFiniteSet(InTurn) /\ IsFiniteSet(JobsOf(nextJobs))
            /\ Cardinality(InTurn) \in Nat /\ Cardinality(JobsOf(nextJobs)) \in Nat
            /\ Cardinality(InTurn \cap JobsOf(nextJobs)) \in Nat
        BY <3>2, <4>1, JobSets
      <4>3. /\ IsFiniteSet(InTurn \cup JobsOf(nextJobs))
            /\ Cardinality(InTurn \cup JobsOf(nextJobs))
                 = Cardinality(InTurn) + Cardinality(JobsOf(nextJobs)) - Cardinality(InTurn \cap JobsOf(nextJobs))
        BY <4>2, FS_Union, Zenon
      <4> QED
        BY <4>2, <4>3
    <3>4. Cardinality(InTurn') <= Cardinality(InTurn \cup JobsOf(nextJobs))
      BY <3>1, <3>3, FS_Subset
    <3>5. Cardinality(InTurn) + Cardinality(JobsOf(nextJobs)) <= MaxConcurrentJobs
      BY DEF ManagerInv, Room
    <3>6. /\ Cardinality(InTurn') \in Nat /\ Cardinality(InTurn) \in Nat
          /\ Cardinality(JobsOf(nextJobs)) \in Nat /\ Cardinality(InTurn \cup JobsOf(nextJobs)) \in Nat
      <4>1. InTurn' \in SUBSET Jobs /\ InTurn \cup JobsOf(nextJobs) \in SUBSET Jobs
        BY <3>1, <3>2
      <4> QED
        BY <3>2, <4>1, JobSets
    <3> QED
      BY <3>3, <3>4, <3>5, <3>6, ManagerAssumption DEF ConcurrencyBound
  <2>6. Room'
    BY <1>2 DEF Room
  <2> QED
    BY <2>3, <2>4, <2>5, <2>6 DEF ManagerInv
<1> QED
  BY <1>1, <1>5, <1>6

\* The steps that start nothing: what is left to show of them.
LEMMA OtherSteps ==
  ASSUME ManagerInv, TypeOK', reading' \subseteq reading \/ MaybeStartJobs,
         \A j \in Jobs : calls'[j] # None =>
           \/ calls'[j].forced = TRUE
           \/ calls[j] # None /\ calls'[j].forced = calls[j].forced,
         (Quiet \/ Marked)'
  PROVE  ManagerInv'
<1>1. InTurn' \subseteq InTurn
  <2>1. \A j \in Jobs : calls[j] # None /\ calls[j].forced # TRUE => calls[j].forced = FALSE
    BY DEF ManagerInv, TypeOK, Call
  <2> QED
    BY <2>1 DEF InTurn, Running
<1> QED
  BY <1>1, RoomKept DEF ManagerInv

\* A manager that is not enabled reads nothing.
LEMMA NothingRead == ASSUME ~enabled', MaybeStartJobs PROVE reading' = reading
BY DEF MaybeStartJobs

LEMMA AddJobStep == ASSUME ManagerInv, NEW j \in Jobs, AddJob(j) PROVE ManagerInv'
<1>1. /\ adds' \in 0..MaxAdds
      /\ UNCHANGED <<enabled, timer, starting, cancelling, idleWaiting, inCall, troubles>>
  BY ManagerAssumption DEF AddJob, ManagerInv, TypeOK
<1>2. NewRow \in Row /\ NewRow.active = FALSE
  BY DEF NewRow, Row
<1>3. CASE AddToRunning(j)
  <2>1. /\ calls[j] \in Call /\ ~Quiet
        /\ calls' = [calls EXCEPT ![j] = [calls[j] EXCEPT !.attempts = 0]]
        /\ rows' = [rows EXCEPT ![j] = NewRow]
        /\ UNCHANGED <<unsaved, forcing, reading>>
    BY <1>3 DEF AddToRunning, ManagerInv, TypeOK, Quiet
  <2>2. /\ calls'[j] \in Call /\ calls'[j].at = calls[j].at /\ calls'[j].forced = calls[j].forced
        /\ calls'[j] # None /\ calls[j] # None
    BY <2>1, ManagerAssumption DEF Call, ManagerInv, TypeOK
  <2>3. TypeOK'
    BY <1>1, <1>2, <2>1, <2>2 DEF ManagerInv, TypeOK
  <2>4. Marked'
    BY <1>2, <2>1, <2>2 DEF ManagerInv, TypeOK, Marked
  <2> QED
    BY <2>1, <2>2, <2>3, <2>4, OtherSteps DEF ManagerInv, TypeOK
<1>4. CASE AddToBatch(j)
  <2>1. unsaved' \subseteq Jobs /\ UNCHANGED <<rows, forcing, calls>> /\ MaybeStartJobs
    BY <1>4 DEF AddToBatch, ManagerInv, TypeOK
  <2>2. TypeOK'
    <3>1. reading' \subseteq SUBSET NextJob
      BY <2>1, ReadingTyped DEF ManagerInv, TypeOK
    <3> QED
      BY <1>1, <2>1, <3>1 DEF ManagerInv, TypeOK
  <2>3. (Quiet \/ Marked)'
    BY <1>1, <2>1, NothingRead DEF ManagerInv, Quiet, Marked
  <2> QED
    BY <2>1, <2>2, <2>3, OtherSteps DEF ManagerInv, TypeOK
<1>5. CASE AddToStart(j)
  <2>1. rows' = [rows EXCEPT ![j] = NewRow] /\ forcing' \subseteq Jobs /\ UNCHANGED <<unsaved, reading, calls>>
    BY <1>5 DEF AddToStart, ManagerInv, TypeOK
  <2>2. TypeOK'
    BY <1>1, <1>2, <2>1 DEF ManagerInv, TypeOK
  <2>3. (Quiet \/ Marked)'
    BY <1>1, <1>2, <2>1 DEF ManagerInv, TypeOK, Quiet, Marked
  <2> QED
    BY <2>1, <2>2, <2>3, OtherSteps DEF ManagerInv, TypeOK
<1> QED
  BY <1>3, <1>4, <1>5 DEF AddJob

LEMMA SaveBatchStep == ASSUME ManagerInv, SaveBatch PROVE ManagerInv'
<1>1. /\ unsaved' = {} /\ rows' = [j \in Jobs |-> IF j \in unsaved THEN NewRow ELSE rows[j]]
      /\ UNCHANGED <<forcing, enabled, timer, starting, calls, cancelling, idleWaiting, inCall, adds, troubles>>
      /\ MaybeStartJobs
  BY DEF SaveBatch, callVars, bounds
<1>2. NewRow \in Row /\ NewRow.active = FALSE
  BY DEF NewRow, Row
<1>3. rows' \in [Jobs -> Row \cup {None}]
  BY <1>1, <1>2 DEF ManagerInv, TypeOK
<1>4. TypeOK'
  <2>1. reading' \subseteq SUBSET NextJob
    BY <1>1, <1>3, ReadingTyped DEF ManagerInv
  <2> QED
    BY <1>1, <1>3, <2>1 DEF ManagerInv, TypeOK
<1>5. (Quiet \/ Marked)'
  BY <1>1, <1>2, NothingRead DEF ManagerInv, Quiet, Marked
<1> QED
  BY <1>1, <1>4, <1>5, OtherSteps DEF ManagerInv, TypeOK

LEMMA ForceStartStep == ASSUME ManagerInv, NEW j \in Jobs, ForceStart(j) PROVE ManagerInv'
<1>1. /\ forcing' \subseteq Jobs
      /\ UNCHANGED <<unsaved, enabled, timer, starting, reading, cancelling, idleWaiting, inCall, adds>>
  BY DEF ForceStart, timeVars, ManagerInv, TypeOK
<1>2. CASE UNCHANGED <<rows, calls, troubles>>
  <2>1. TypeOK'
    BY <1>1, <1>2 DEF ManagerInv, TypeOK
  <2>2. (Quiet \/ Marked)'
    BY <1>1, <1>2 DEF ManagerInv, Quiet, Marked
  <2> QED
    BY <1>1, <1>2, <2>1, <2>2, OtherSteps DEF ManagerInv, TypeOK
<1>3. CASE enabled /\ StartJobs({[job |-> j, attempts |-> 0]}, TRUE)
  <2>1. {[job |-> j, attempts |-> 0]} \in SUBSET NextJob
    BY DEF NextJob
  <2>2. /\ rows' \in [Jobs -> Row \cup {None}] /\ calls' \in [Jobs -> Call \cup {None}]
        /\ troubles' \in 0..MaxTroubles
        /\ \A k \in Jobs :
             \/ calls'[k] = calls[k] /\ rows'[k] = rows[k]
             \/ calls'[k] # None /\ calls'[k].at \in {"running", "failing"} /\ calls'[k].forced = TRUE
    BY <1>3, <2>1, StartJobsStarts DEF ManagerInv
  <2>3. TypeOK'
    BY <1>1, <2>2 DEF ManagerInv, TypeOK
  <2>4. Marked'
    BY <1>3, <2>2 DEF ManagerInv, Quiet, Marked
  <2>5. \A k \in Jobs : calls'[k] # None =>
           \/ calls'[k].forced = TRUE
           \/ calls[k] # None /\ calls'[k].forced = calls[k].forced
    BY <2>2
  <2> QED
    BY <1>1, <2>3, <2>4, <2>5, OtherSteps
<1> QED
  BY <1>2, <1>3 DEF ForceStart

\* The end of runJob, and of the catch: a call that was running or failing
\* goes on to its catch with its row as it is, or settles when its row is gone,
\* written for a retry, or left as it is by a rejected write.
LEMMA CallStep ==
  ASSUME ManagerInv, NEW j \in Jobs, NEW next \in {"failing", "settling"},
         calls[j] # None,
         calls' = [calls EXCEPT ![j].at = next],
         UNCHANGED <<unsaved, forcing, starting, reading, cancelling, idleWaiting, inCall, adds>>,
         \/ rows' = [rows EXCEPT ![j] = None]
         \/ RetryLater(j)
         \/ rows' = rows /\ (next = "failing" \/ rows[j] = None \/ ~rows[j].active)
         \/ rows' = [rows EXCEPT ![j].parked = TRUE] /\ rows[j] # None,
         enabled' \in BOOLEAN, timer' \in {"none", "tick", "pause"}, troubles' \in 0..MaxTroubles
  PROVE  ManagerInv'
<1>1. calls[j] \in Call /\ Marked /\ calls' = [calls EXCEPT ![j] = [calls[j] EXCEPT !.at = next]]
  BY DEF ManagerInv, TypeOK, Quiet
<1>2. /\ calls'[j] \in Call /\ calls'[j].forced = calls[j].forced /\ calls'[j].at = next
      /\ calls'[j] # None /\ calls[j] # None
  BY <1>1, ManagerAssumption DEF Call, ManagerInv, TypeOK
<1>3. /\ rows' \in [Jobs -> Row \cup {None}]
      /\ rows'[j] # None /\ rows'[j].active => next = "failing" \/ rows'[j].parked
      /\ \A k \in Jobs : k # j => rows'[k] = rows[k]
  <2>1. [active |-> FALSE, attempts |-> calls[j].attempts + 1, retryAfter |-> "later", parked |-> FALSE] \in Row
    BY <1>1 DEF Row, Call
  <2>2. CASE rows' = [rows EXCEPT ![j] = None]
    BY <2>2 DEF ManagerInv, TypeOK
  <2>3. CASE RetryLater(j)
    BY <2>1, <2>3 DEF RetryLater, ManagerInv, TypeOK
  <2>4. CASE rows' = rows /\ (next = "failing" \/ rows[j] = None \/ ~rows[j].active)
    BY <2>4 DEF ManagerInv, TypeOK
  <2>5. CASE rows' = [rows EXCEPT ![j].parked = TRUE] /\ rows[j] # None
    <3>1. rows[j] \in Row /\ rows' = [rows EXCEPT ![j] = [rows[j] EXCEPT !.parked = TRUE]]
      BY <2>5 DEF ManagerInv, TypeOK
    <3>2. [rows[j] EXCEPT !.parked = TRUE] \in Row /\ [rows[j] EXCEPT !.parked = TRUE].parked = TRUE
      BY <3>1 DEF Row
    <3> QED
      BY <3>1, <3>2 DEF ManagerInv, TypeOK
  <2> QED
    BY <2>2, <2>3, <2>4, <2>5
<1>4. TypeOK'
  BY <1>1, <1>2, <1>3 DEF ManagerInv, TypeOK
<1>5. Marked'
  BY <1>1, <1>2, <1>3 DEF ManagerInv, TypeOK, Marked
<1> QED
  BY <1>1, <1>2, <1>4, <1>5, OtherSteps DEF ManagerInv, TypeOK

LEMMA ResultStep ==
  ASSUME ManagerInv, NEW j \in Jobs, Finished(j) \/ Retried(j) \/ Threw(j) \/ RateLimited(j) PROVE ManagerInv'
<1>1. enabled' \in BOOLEAN
  BY Zenon DEF Finished, Retried, Threw, RateLimited, ManagerInv, TypeOK
<1>2. timer' \in {"none", "tick", "pause"} /\ troubles' \in 0..MaxTroubles
  BY ManagerAssumption DEF Finished, Retried, Threw, RateLimited, Trouble, ManagerInv, TypeOK
<1>3. CASE Ends(j, "settling") /\ (rows' = [rows EXCEPT ![j] = None] \/ RetryLater(j))
  BY <1>1, <1>2, <1>3, CallStep DEF Ends
<1>4. CASE Ends(j, "failing") /\ rows' = rows
  BY <1>1, <1>2, <1>4, CallStep DEF Ends
<1> QED
  BY <1>3, <1>4 DEF Finished, Retried, Threw, RateLimited

LEMMA CaughtStep == ASSUME ManagerInv, NEW j \in Jobs, Caught(j) PROVE ManagerInv'
<1>1. /\ calls[j] # None /\ calls' = [calls EXCEPT ![j].at = "settling"]
      /\ UNCHANGED <<unsaved, forcing, enabled, timer, starting, reading, cancelling, idleWaiting, inCall, adds>>
  BY DEF Caught, timeVars
<1>2. \/ rows' = [rows EXCEPT ![j] = None]
      \/ RetryLater(j)
      \/ rows' = rows /\ (rows[j] = None \/ ~rows[j].active)
      \/ rows' = [rows EXCEPT ![j].parked = TRUE] /\ rows[j] # None
  BY DEF Caught
<1>3. troubles' \in 0..MaxTroubles
  BY ManagerAssumption DEF Caught, Trouble, ManagerInv, TypeOK
<1>4. enabled' \in BOOLEAN /\ timer' \in {"none", "tick", "pause"}
  BY <1>1 DEF ManagerInv, TypeOK
<1> QED
  BY <1>1, <1>2, <1>3, <1>4, CallStep

LEMMA SettledStep == ASSUME ManagerInv, NEW j \in Jobs, Settled(j) PROVE ManagerInv'
<1>1. /\ calls[j] # None /\ calls[j].at = "settling" /\ calls' = [calls EXCEPT ![j] = None]
      /\ UNCHANGED <<rows, unsaved, forcing, enabled, timer, starting, cancelling, idleWaiting, inCall, adds, troubles>>
      /\ MaybeStartJobs /\ Marked
  BY DEF Settled, tableVars, bounds, ManagerInv, Quiet
<1>2. TypeOK'
  <2>1. reading' \subseteq SUBSET NextJob
    BY <1>1, ReadingTyped DEF ManagerInv, TypeOK
  <2> QED
    BY <1>1, <2>1 DEF ManagerInv, TypeOK
<1>3. Marked'
  BY <1>1 DEF ManagerInv, TypeOK, Marked
<1> QED
  BY <1>1, <1>2, <1>3, OtherSteps DEF ManagerInv, TypeOK

LEMMA StartStep == ASSUME ManagerInv, Start PROVE ManagerInv'
<1>1. /\ enabled' \in BOOLEAN
      /\ UNCHANGED <<unsaved, forcing, calls, cancelling, idleWaiting, inCall, adds, troubles>>
  BY DEF Start, callVars, bounds
<1>2. CASE enabled
  <2>1. /\ UNCHANGED rows /\ MaybeStartJobs
        /\ timer' \in {"none", "tick", "pause"} /\ starting' \in {"no", "marking", "reading", "ticking"}
    BY <1>2 DEF Start, StartMaybeStartsJobs, ManagerInv, TypeOK
  <2>2. TypeOK'
    <3>1. reading' \subseteq SUBSET NextJob
      BY <2>1, ReadingTyped DEF ManagerInv, TypeOK
    <3> QED
      BY <1>1, <2>1, <3>1 DEF ManagerInv, TypeOK
  <2>3. Marked'
    BY <1>1, <1>2, <2>1 DEF ManagerInv, Quiet, Marked
  <2> QED
    BY <1>1, <2>1, <2>2, <2>3, OtherSteps DEF ManagerInv, TypeOK
<1>3. CASE ~enabled
  <2>1. /\ rows' = [j \in Jobs |->
             IF rows[j] # None THEN [rows[j] EXCEPT !.active = FALSE, !.parked = FALSE] ELSE None]
        /\ starting' = "marking" /\ UNCHANGED <<timer, reading>>
    BY <1>3 DEF Start
  <2>2. /\ rows' \in [Jobs -> Row \cup {None}]
        /\ \A j \in Jobs : rows'[j] # None => rows'[j].active = FALSE
    <3>1. \A row \in Row : /\ [row EXCEPT !.active = FALSE, !.parked = FALSE] \in Row
                           /\ [row EXCEPT !.active = FALSE, !.parked = FALSE].active = FALSE
      BY DEF Row
    <3> QED
      BY <2>1, <3>1 DEF ManagerInv, TypeOK
  <2>3. TypeOK'
    BY <1>1, <2>1, <2>2 DEF ManagerInv, TypeOK
  <2>4. Marked'
    BY <2>2 DEF Marked
  <2> QED
    BY <1>1, <2>1, <2>3, <2>4, OtherSteps DEF ManagerInv, TypeOK
<1> QED
  BY <1>2, <1>3

\* Steps of start, of stop and of the timer, which leave rows and calls alone.
LEMMA TimeStep == ASSUME ManagerInv, StartMarked \/ StartTick \/ Stop \/ Tick PROVE ManagerInv'
<1>1. /\ timer' \in {"none", "tick", "pause"} /\ starting' \in {"no", "marking", "reading", "ticking"}
      /\ troubles' \in 0..MaxTroubles
      /\ UNCHANGED <<rows, unsaved, forcing, calls, cancelling, idleWaiting, inCall, adds>>
  BY ManagerAssumption DEF StartMarked, StartMaybeStartsJobs, StartTick, Stop, Tick, Trouble,
     tableVars, callVars, bounds, ManagerInv, TypeOK
<1>2. enabled' \in BOOLEAN /\ (UNCHANGED reading \/ MaybeStartJobs)
  <2>1. CASE Stop
    BY <2>1, Zenon DEF Stop
  <2>2. CASE Tick
    BY <2>2, Zenon DEF Tick
  <2>3. CASE StartMarked \/ StartTick
    <3>1. UNCHANGED enabled /\ MaybeStartJobs
      BY <2>3 DEF StartMarked, StartMaybeStartsJobs, StartTick
    <3> QED
      BY <3>1, Zenon DEF ManagerInv, TypeOK
  <2> QED
    BY <2>1, <2>2, <2>3
<1>3. TypeOK'
  <2>1. reading' \subseteq SUBSET NextJob
    BY <1>1, <1>2, ReadingTyped DEF ManagerInv, TypeOK
  <2> QED
    BY <1>1, <1>2, <2>1 DEF ManagerInv, TypeOK
<1>4. (Quiet \/ Marked)'
  <2>1. CASE Marked
    BY <1>1, <2>1 DEF Marked
  <2>2. CASE Quiet
    <3>1. Stop
      BY <2>2 DEF StartMarked, StartTick, Tick, Quiet
    <3> QED
      BY <1>1, <2>2, <3>1 DEF Stop, Quiet
  <2> QED
    BY <2>1, <2>2 DEF ManagerInv
<1> QED
  BY <1>1, <1>2, <1>3, <1>4, OtherSteps DEF ManagerInv, TypeOK

LEMMA CancelDoneStep == ASSUME ManagerInv, NEW j \in Jobs, CancelDone(j) PROVE ManagerInv'
<1>1. /\ cancelling' \subseteq Jobs /\ rows' = [rows EXCEPT ![j] = None] /\ calls' = calls
      /\ UNCHANGED <<unsaved, forcing, enabled, timer, starting, reading, idleWaiting, inCall, adds, troubles>>
  BY DEF CancelDone, timeVars, bounds, ManagerInv, TypeOK
<1>2. TypeOK'
  BY <1>1 DEF ManagerInv, TypeOK
<1>3. (Quiet \/ Marked)'
  BY <1>1 DEF ManagerInv, TypeOK, Quiet, Marked
<1> QED
  BY <1>1, <1>2, <1>3, OtherSteps DEF ManagerInv, TypeOK

LEMMA RetryMaturesStep == ASSUME ManagerInv, NEW j \in Jobs, RetryMatures(j) PROVE ManagerInv'
<1>1. /\ rows[j] \in Row /\ rows' = [rows EXCEPT ![j] = [rows[j] EXCEPT !.retryAfter = "past"]]
      /\ UNCHANGED <<unsaved, forcing, timeVars, calls, cancelling, idleWaiting, inCall, adds, troubles>>
  BY DEF RetryMatures, callVars, bounds, ManagerInv, TypeOK
<1>2. /\ [rows[j] EXCEPT !.retryAfter = "past"] \in Row
      /\ [rows[j] EXCEPT !.retryAfter = "past"].active = rows[j].active
      /\ [rows[j] EXCEPT !.retryAfter = "past"].parked = rows[j].parked
  BY <1>1 DEF Row
<1>3. TypeOK'
  BY <1>1, <1>2 DEF ManagerInv, TypeOK, timeVars
<1>4. (Quiet \/ Marked)'
  BY <1>1, <1>2, ManagerAssumption DEF ManagerInv, TypeOK, Quiet, Marked, timeVars
<1> QED
  BY <1>1, <1>3, <1>4, OtherSteps DEF ManagerInv, TypeOK, timeVars

\* Steps of callers, of the user and of nobody.
LEMMA CallerStep ==
  ASSUME ManagerInv, (\E j \in Jobs : Cancel(j)) \/ WaitForIdle \/ UserCall \/ UNCHANGED vars
  PROVE  ManagerInv'
<1>1. /\ UNCHANGED <<rows, unsaved, forcing, enabled, timer, starting, reading, calls, adds>>
      /\ cancelling' \subseteq Jobs /\ troubles' \in 0..MaxTroubles
  BY ManagerAssumption DEF Cancel, WaitForIdle, UserCall, Trouble, vars, tableVars, timeVars, callVars, bounds,
     ManagerInv, TypeOK
<1>2. idleWaiting' \in BOOLEAN /\ inCall' \in BOOLEAN
  BY Zenon DEF Cancel, WaitForIdle, UserCall, vars, ManagerInv, TypeOK
<1>3. TypeOK'
  BY <1>1, <1>2 DEF ManagerInv, TypeOK
<1>4. (Quiet \/ Marked)'
  BY <1>1 DEF ManagerInv, Quiet, Marked
<1> QED
  BY <1>1, <1>3, <1>4, OtherSteps DEF ManagerInv, TypeOK

LEMMA RestartStep == ASSUME ManagerInv, Restart PROVE ManagerInv'
<1>1. /\ unsaved' = {} /\ forcing' = {} /\ timer' = "none" /\ starting' = "no" /\ reading' = {} /\ ~enabled'
      /\ calls' = [j \in Jobs |-> None] /\ cancelling' = {} /\ UNCHANGED <<rows, adds>>
      /\ troubles' \in 0..MaxTroubles
  BY ManagerAssumption DEF Restart, Trouble, ManagerInv, TypeOK
<1>2. enabled' \in BOOLEAN /\ idleWaiting' \in BOOLEAN /\ inCall' \in BOOLEAN
  BY Zenon DEF Restart
<1>3. calls' \in [Jobs -> Call \cup {None}]
  BY <1>1
<1>4. TypeOK'
  BY <1>1, <1>2, <1>3 DEF ManagerInv, TypeOK
<1>5. Quiet'
  BY <1>1 DEF Quiet
<1> QED
  BY <1>1, <1>4, <1>5, OtherSteps DEF ManagerInv, TypeOK

LEMMA ManagerStep == ManagerInv /\ [Next]_vars => ManagerInv'
<1> SUFFICES ASSUME ManagerInv, [Next]_vars PROVE ManagerInv'
  OBVIOUS
<1>1. ASSUME NEW j \in Jobs,
             \/ AddJob(j) \/ ForceStart(j) \/ Finished(j) \/ Retried(j) \/ Threw(j) \/ RateLimited(j)
             \/ Caught(j) \/ Settled(j) \/ Cancel(j) \/ CancelDone(j) \/ RetryMatures(j)
      PROVE  ManagerInv'
  BY <1>1, AddJobStep, ForceStartStep, ResultStep, CaughtStep, SettledStep, CallerStep, CancelDoneStep, RetryMaturesStep
<1>2. CASE NextJobsRead \/ SaveBatch \/ Start
  BY <1>2, NextJobsReadStep, SaveBatchStep, StartStep
<1>3. CASE StartMarked \/ StartTick \/ Stop \/ Tick
  BY <1>3, TimeStep
<1>4. CASE WaitForIdle \/ UserCall \/ UNCHANGED vars
  BY <1>4, CallerStep
<1>5. CASE Restart
  BY <1>5, RestartStep
<1> QED
  BY <1>1, <1>2, <1>3, <1>4, <1>5 DEF Next

-----------------------------------------------------------------------------
\* The jobs that run and were not started out of turn keep to
\* maxConcurrentJobs, however often maybeStartJobs is called while it awaits.
THEOREM LimitHolds == Spec => []ConcurrencyBound
<1>1. ManagerInv => ConcurrencyBound
  BY DEF ManagerInv
<1> QED
  BY <1>1, Initially, ManagerStep, PTL DEF Spec

\* While the manager is enabled, a row that is marked active has a job that
\* runs: no result, stop, cancellation, restart or rejected write parks it, but
\* for one: that of the catch of startJob, which is its last write.
THEOREM ActiveRowsDoRun == Spec => []ActiveRowsRun
<1>1. ManagerInv => ActiveRowsRun
  BY DEF ManagerInv, Quiet, Marked, ActiveRowsRun
<1> QED
  BY <1>1, Initially, ManagerStep, PTL DEF Spec

\* The variables keep their types.
THEOREM ManagerTypeCorrect == Spec => []TypeOK
<1>1. ManagerInv => TypeOK
  BY DEF ManagerInv
<1> QED
  BY <1>1, Initially, ManagerStep, PTL DEF Spec
=============================================================================
