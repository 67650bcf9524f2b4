----------------------------- MODULE ZonedStore -----------------------------
(***************************************************************************)
(* The transactional part of SignalProtocolStore                           *)
(* (ts/SignalProtocolStore.ts): sessions, sender keys and unprocessed      *)
(* messages, in the zones of ZoneLock.                                     *)
(*                                                                         *)
(* A call is an outermost withZone whose body does its work one piece      *)
(* after the other: decryptAndCacheBatch, which decrypts envelope after    *)
(* envelope and adds the unprocessed rows in a zone of its own, or a       *)
(* single operation of a sender in the global zone.  Only the latter       *)
(* commit each store at once.                                              *)
(*                                                                         *)
(* The value of a key is the set of steps that made it what it is; {} is a *)
(* key with no row.  A ratchet step reads a value and stores it with       *)
(* itself added, so that a step that was overwritten is missing from the   *)
(* set.                                                                    *)
(***************************************************************************)
EXTENDS ZoneLock, FiniteSets

CONSTANTS
  Global,         \* GLOBAL_ZONE
  Sessions, SenderKeys, Unprocessed,   \* keys of the three tables
  Work,           \* the pieces of work of a call: <<operation, key>>
  NoValue,        \* a model value: nothing pending for a key
  MayThrow,       \* calls whose body may throw at its end
  MayFail,        \* calls whose cipher operations may fail
  MaxDbFailures,  \* bound: database calls that reject
  MaxCrashes      \* bound: restarts of the application

Keys == Sessions \cup SenderKeys \cup Unprocessed
Operations == {"cipher", "archive", "add", "remove", "purge"}

\* The steps of a call are named by the pieces of work they do.
Steps == UNION {{<<c, n>> : n \in DOMAIN Work[c]} : c \in Calls}
Values == SUBSET Steps

ASSUME StoreAssumption ==
  /\ Global \in Zones
  /\ Work \in [Calls -> Seq(Operations \X Keys)]
  /\ \A v \in Values : NoValue # v
  /\ MaxDbFailures \in Nat /\ MaxCrashes \in Nat

VARIABLES
  phase,      \* what a call is doing, see Phases
  at,         \* the piece of work it is at
  loaded,     \* the value it has read
  turn,       \* the session (sender key) queue of a key; the head runs
  pending,    \* #pendingSessions, #pendingSenderKeys, #pendingUnprocessed
  cache,      \* sessions and senderKeys
  table,      \* the tables
  requests,   \* transactions the database worker has not executed
  answers,    \* executed ones whose answer is not delivered
  written,    \* history: the steps a call has put in pending
  dbFailures, crashes

memory == <<pending, cache>>
database == <<table, requests, answers>>
bounds == <<dbFailures, crashes>>
vars == <<zoneVars, phase, at, loaded, turn, memory, database, written, bounds>>

Phases == {"idle",        \* not called
           "body",        \* called; blocked, or between two pieces of work
           "queued",      \* waits for its turn on the session queue
           "using",       \* its session job runs
           "saving",      \* awaits the commit of its store
           "removing",    \* awaits a delete
           "committing",  \* awaits the commit at the end of the body
           "resolved", "rejected", "lost"}

Batch == [Keys -> Values \cup {NoValue}]
NoBatch == [k \in Keys |-> NoValue]
Only(k, v) == [NoBatch EXCEPT ![k] = v]
Apply(f, b) == [k \in Keys |-> IF b[k] = NoValue THEN f[k] ELSE b[k]]

HasWork(c) == at[c] <= Len(Work[c])
Op(c) == Work[c][at[c]][1]
Key(c) == Work[c][at[c]][2]
Step(c) == <<c, at[c]>>

Init ==
  /\ ZoneInit
  /\ phase = [c \in Calls |-> "idle"]
  /\ at = [c \in Calls |-> 1]
  /\ loaded = [c \in Calls |-> {}]
  /\ turn = [k \in Keys |-> <<>>]
  /\ pending = NoBatch
  /\ cache = [k \in Keys |-> {}]
  /\ table = [k \in Keys |-> {}]
  /\ requests = <<>>
  /\ answers = <<>>
  /\ written = [c \in Calls |-> {}]
  /\ dbFailures = 0
  /\ crashes = 0

To(c, p) == phase' = [phase EXCEPT ![c] = p]
Done(c) == To(c, "body") /\ at' = [at EXCEPT ![c] = @ + 1]
Ask(c, b) == requests' = Append(requests, [call |-> c, batch |-> b])
\* The session job ends, and its PQueue can run the next one.
Release(k) == turn' = [turn EXCEPT ![k] = Tail(@)]

\* Mutant of Visible: loadSession looks only in the main store.
VisibleCache(k) == cache[k]
\* What loadSession and getSenderKey find.
Visible(k) == IF pending[k] = NoValue THEN cache[k] ELSE pending[k]

----------------------------------------------------------------------------
Call(c) ==
  /\ phase[c] = "idle"
  /\ Enter(c)
  /\ To(c, "body")
  /\ UNCHANGED <<at, loaded, turn, memory, database, written, bounds>>

Ready(c, op) ==
  c \in inside /\ phase[c] = "body" /\ HasWork(c) /\ Op(c) = op

\* enqueueSessionJob or enqueueSenderKeyJob.
Queue(c) ==
  /\ Ready(c, "cipher")
  /\ turn' = [turn EXCEPT ![Key(c)] = Append(@, c)]
  /\ To(c, "queued")
  /\ UNCHANGED <<zoneVars, at, loaded, memory, database, written, bounds>>

\* archiveSession looks the entry up before it is queued.
Archive(c) ==
  /\ Ready(c, "archive")
  /\ IF Visible(Key(c)) = {}
     THEN Done(c) /\ UNCHANGED <<loaded, turn>>
     ELSE /\ loaded' = [loaded EXCEPT ![c] = Visible(Key(c))]
          /\ turn' = [turn EXCEPT ![Key(c)] = Append(@, c)]
          /\ To(c, "queued")
          /\ UNCHANGED at
  /\ UNCHANGED <<zoneVars, memory, database, written, bounds>>

\* Mutant of HasTurn: session jobs do not wait for each other.
HasTurnAlways(c) == TRUE
HasTurn(c) == Head(turn[Key(c)]) = c

\* The session job starts; libsignal loads the record.
Start(c) ==
  /\ phase[c] = "queued"
  /\ HasTurn(c)
  /\ To(c, "using")
  /\ IF Op(c) = "cipher"
     THEN loaded' = [loaded EXCEPT ![c] = Visible(Key(c))] /\ UNCHANGED cache
     ELSE \* archiveCurrentState changes the cached record itself.
          /\ cache' = IF cache[Key(c)] = loaded[c]
                      THEN [cache EXCEPT ![Key(c)] = @ \cup {Step(c)}] ELSE cache
          /\ UNCHANGED loaded
  /\ UNCHANGED <<zoneVars, at, turn, pending, database, written, bounds>>

\* storeSession, saveSenderKey, addMultipleUnprocessed: in a zone that
\* supports it the value stays pending, else everything pending is committed.
Save(c, v) ==
  LET b == [pending EXCEPT ![Key(c)] = v]
  IN /\ written' = [written EXCEPT ![c] = @ \cup {at[c]}]
     /\ IF ZoneOf[c] = Global
        THEN /\ pending' = NoBatch
             /\ Ask(c, b)
             /\ To(c, "saving")
             /\ UNCHANGED at
        ELSE /\ pending' = b
             /\ Done(c)
             /\ UNCHANGED requests

Store(c) ==
  /\ phase[c] = "using"
  /\ Save(c, loaded[c] \cup {Step(c)})
  /\ IF ZoneOf[c] = Global THEN UNCHANGED turn ELSE Release(Key(c))
  /\ UNCHANGED <<zoneVars, loaded, cache, table, answers, bounds>>

Add(c) ==
  /\ Ready(c, "add")
  /\ Save(c, {Step(c)})
  /\ UNCHANGED <<zoneVars, loaded, turn, cache, table, answers, bounds>>

\* removeSession deletes the row first ...
Remove(c) ==
  /\ Ready(c, "remove")
  /\ Ask(c, Only(Key(c), {}))
  /\ To(c, "removing")
  /\ UNCHANGED <<zoneVars, at, loaded, turn, memory, table, answers, written,
                 bounds>>

\* ... removeSessionsByServiceId, removeSessionsByConversation and
\* clearSessionStore delete it last.
Purge(c) ==
  /\ Ready(c, "purge")
  /\ cache' = [cache EXCEPT ![Key(c)] = {}]
  /\ pending' = [pending EXCEPT ![Key(c)] = NoValue]
  /\ Ask(c, Only(Key(c), {}))
  /\ To(c, "removing")
  /\ UNCHANGED <<zoneVars, at, loaded, turn, table, answers, written, bounds>>

----------------------------------------------------------------------------
(***************************************************************************)
(* The end of a body.                                                      *)
(***************************************************************************)
\* The body throws: #revertZoneChanges if it is the last call inside.
Reject(c) ==
  /\ pending' = IF inside = {c} THEN NoBatch ELSE pending
  /\ Leave(c)
  /\ To(c, "rejected")
  /\ UNCHANGED at

\* The cipher operation fails before it stores.  decryptAndCacheBatch goes on
\* with the next envelope, a sender's call rejects; a session that has no
\* current state is not archived.
CipherFails(c) ==
  /\ phase[c] = "using"
  /\ c \in MayFail
  /\ Release(Key(c))
  /\ IF ZoneOf[c] # Global \/ Op(c) = "archive"
     THEN Done(c) /\ UNCHANGED <<zoneVars, pending>>
     ELSE Reject(c)
  /\ UNCHANGED <<loaded, cache, database, written, bounds>>

BodyEnded(c) == c \in inside /\ phase[c] = "body" /\ ~HasWork(c)

BodyThrows(c) ==
  /\ BodyEnded(c)
  /\ c \in MayThrow
  /\ Reject(c)
  /\ UNCHANGED <<loaded, turn, cache, database, written, bounds>>

\* #commitZoneChanges of the last call inside.
Commit(c) ==
  /\ BodyEnded(c)
  /\ inside = {c}
  /\ pending # NoBatch
  /\ pending' = NoBatch
  /\ Ask(c, pending)
  /\ To(c, "committing")
  /\ UNCHANGED <<zoneVars, at, loaded, turn, cache, table, answers, written,
                 bounds>>

End(c) ==
  /\ BodyEnded(c)
  /\ inside # {c} \/ pending = NoBatch
  /\ Leave(c)
  /\ To(c, "resolved")
  /\ UNCHANGED <<at, loaded, turn, memory, database, written, bounds>>

----------------------------------------------------------------------------
(***************************************************************************)
(* The database worker executes transactions, and answers, in order.       *)
(***************************************************************************)
Reply(ok) ==
  /\ requests' = Tail(requests)
  /\ answers' = Append(answers, [call |-> Head(requests).call,
                                 batch |-> Head(requests).batch, ok |-> ok])

\* Mutant of DbExecute: the rows are written without a transaction, and the
\* first of several may be all that is written.
DbExecutePiecemeal ==
  /\ requests # <<>>
  /\ LET b == Head(requests).batch
     IN \E k \in Keys :
          /\ b[k] # NoValue
          /\ table' = Apply(table, Only(k, b[k]))
  /\ Reply(FALSE)
  /\ UNCHANGED <<zoneVars, phase, at, loaded, turn, memory, written, bounds>>
DbExecute ==
  /\ requests # <<>>
  /\ table' = Apply(table, Head(requests).batch)
  /\ Reply(TRUE)
  /\ UNCHANGED <<zoneVars, phase, at, loaded, turn, memory, written, bounds>>

DbFails ==
  /\ requests # <<>>
  /\ dbFailures < MaxDbFailures
  /\ dbFailures' = dbFailures + 1
  /\ Reply(FALSE)
  /\ UNCHANGED <<zoneVars, phase, at, loaded, turn, memory, table, written,
                 crashes>>

\* Mutants of Cached: the changes are applied whether or not they were
\* written; they are not applied.
CachedAlways(a) == cache' = Apply(cache, a.batch)
CachedNever(a) == UNCHANGED cache
\* "Apply changes to in-memory storage after successful DB write."
Cached(a) == cache' = IF a.ok THEN Apply(cache, a.batch) ELSE cache

\* The end of the commit inside storeSession, saveSenderKey (which swallows
\* the error) or addMultipleUnprocessed.
Saved(c) ==
  /\ phase[c] = "saving"
  /\ LET a == Head(answers)
     IN /\ Cached(a)
        /\ IF Op(c) = "add" THEN UNCHANGED turn ELSE Release(Key(c))
        /\ IF a.ok \/ (Key(c) \in SenderKeys)
           THEN Done(c) /\ UNCHANGED <<zoneVars, pending>>
           ELSE Reject(c)

\* The end of removeSession (which swallows the error) or of a purge.
Removed(c) ==
  /\ phase[c] = "removing"
  /\ LET a == Head(answers)
     IN IF Op(c) = "remove"
        THEN /\ Cached(a)
             /\ pending' = IF a.ok THEN [pending EXCEPT ![Key(c)] = NoValue]
                                   ELSE pending
             /\ Done(c)
             /\ UNCHANGED <<zoneVars, turn>>
        ELSE /\ UNCHANGED <<cache, turn>>
             /\ IF a.ok THEN Done(c) /\ UNCHANGED <<zoneVars, pending>>
                        ELSE Reject(c)

\* The end of the commit at the end of the body.  When it rejects, withZone
\* does too, before it comes to #leaveZone.
Committed(c) ==
  /\ phase[c] = "committing"
  /\ LET a == Head(answers)
     IN /\ Cached(a)
        /\ IF a.ok THEN Leave(c) /\ To(c, "resolved")
                   ELSE UNCHANGED zoneVars /\ To(c, "rejected")
  /\ UNCHANGED <<at, turn, pending>>

Answer ==
  /\ answers # <<>>
  /\ answers' = Tail(answers)
  /\ LET c == Head(answers).call IN Saved(c) \/ Removed(c) \/ Committed(c)
  /\ UNCHANGED <<loaded, table, requests, written, bounds>>

\* The process dies; the next one fills its caches from the tables.
Restart ==
  /\ crashes < MaxCrashes
  /\ crashes' = crashes + 1
  /\ zone' = NoZone /\ inside' = {} /\ blocked' = <<>>
  /\ phase' = [c \in Calls |-> IF phase[c] \in {"idle", "resolved", "rejected"}
                               THEN phase[c] ELSE "lost"]
  /\ turn' = [k \in Keys |-> <<>>]
  /\ pending' = NoBatch
  /\ cache' = table
  /\ requests' = <<>> /\ answers' = <<>>
  /\ UNCHANGED <<at, loaded, table, written, dbFailures>>

Next ==
  \/ \E c \in Calls :
       \/ Call(c)
       \/ Queue(c) \/ Archive(c) \/ Start(c) \/ Store(c) \/ CipherFails(c)
       \/ Add(c) \/ Remove(c) \/ Purge(c)
       \/ BodyThrows(c) \/ Commit(c) \/ End(c)
  \/ DbExecute \/ DbFails \/ Answer
  \/ Restart

Spec == Init /\ [][Next]_vars

\* The event loop, the database worker and libsignal get round to what is
\* pending.
Fairness ==
  /\ \A c \in Calls :
       WF_vars(Queue(c) \/ Archive(c) \/ Start(c) \/ Store(c) \/ Add(c)
               \/ Remove(c) \/ Purge(c) \/ Commit(c) \/ End(c))
  /\ WF_vars(DbExecute) /\ WF_vars(Answer)

FairSpec == Spec /\ Fairness

----------------------------------------------------------------------------
(***************************************************************************)
(* Properties.                                                             *)
(***************************************************************************)
Request == [call : Calls, batch : Batch]
Response == [call : Calls, batch : Batch, ok : BOOLEAN]

TypeOK ==
  /\ ZoneTypeOK
  /\ phase \in [Calls -> Phases]
  /\ at \in [Calls -> Nat \ {0}]
  /\ \A c \in Calls : at[c] <= Len(Work[c]) + 1
  /\ loaded \in [Calls -> Values]
  /\ turn \in [Keys -> Seq(Calls)]
  /\ pending \in Batch
  /\ cache \in [Keys -> Values] /\ table \in [Keys -> Values]
  /\ requests \in Seq(Request) /\ answers \in Seq(Response)
  /\ written \in [Calls -> SUBSET Nat]
  /\ dbFailures \in Nat /\ crashes \in Nat

InZone(c) == ZoneOf[c] # Global
KeyAt(c, n) == Work[c][n][2]
Ratchets == Sessions \cup SenderKeys
Stored(c, n) == <<c, n>> \in table[KeyAt(c, n)]

\* The calls of which the data properties are proved.  Every piece of work is
\* a ratchet step or adds the row of a new envelope, which a new UUID names;
\* decryptAndCacheBatch makes a zone for each batch; a call in the global zone
\* is one encryption with a session, and nothing comes after its store.  What
\* replaces or deletes a row (archive, remove, purge, an envelope retried from
\* the cache) is left out, and so is saveSenderKey in the global zone, which
\* swallows the error of its commit.
SendersAndBatches ==
  /\ Unprocessed \cap Ratchets = {}
  /\ \A c \in Calls : \A n \in DOMAIN Work[c] :
       \/ Work[c][n][1] = "cipher" /\ KeyAt(c, n) \in Ratchets
       \/ Work[c][n][1] = "add" /\ KeyAt(c, n) \in Unprocessed
  /\ \A c, d \in Calls : \A m \in DOMAIN Work[c], n \in DOMAIN Work[d] :
       KeyAt(c, m) \in Unprocessed /\ KeyAt(c, m) = KeyAt(d, n)
         => c = d /\ m = n
  /\ \A c, d \in Calls : InZone(c) /\ ZoneOf[c] = ZoneOf[d] => c = d
  /\ \A c \in Calls : ~InZone(c) =>
       /\ c \notin MayThrow
       /\ Len(Work[c]) = 1 /\ KeyAt(c, 1) \notin SenderKeys

\* "successfully: pending session stores are batched into the database; with
\* an error: pending session stores are reverted" (ts/SignalProtocolStore.ts,
\* withZone): when a transaction, or a single store in the global zone, has
\* ended, all it wrote is in the tables or nothing is.
AllOrNothing ==
  \A c \in Calls : \A n \in written[c] :
    /\ phase[c] = "resolved" => Stored(c, n)
    /\ phase[c] = "rejected" => ~Stored(c, n)

\* A crash keeps the session and the message it decrypted together.
StepsWithMessage ==
  \A c \in Calls : InZone(c) =>
    \/ \A n \in written[c] : Stored(c, n)
    \/ \A n \in written[c] : ~Stored(c, n)

\* No ratchet step is undone: a row that is written again builds on what it
\* was, whichever zones its readers and writers are in.
NoLostUpdate == [][\A k \in Keys : table[k] \subseteq table'[k]]_vars

\* "Apply changes to in-memory storage after successful DB write"
\* (ts/SignalProtocolStore.ts, #commitZoneChanges): the caches never show a
\* step that a crash would undo.  (An archive, which changes its record in the
\* cache first, breaks this.)
CacheIsCommitted ==
  \A k \in Sessions \cup SenderKeys : cache[k] \subseteq table[k]

\* With nothing under way the caches are what the tables hold.  (A purge during
\* a commit breaks this.)
CacheMatchesTable ==
  requests = <<>> /\ answers = <<>>
    => \A k \in Sessions \cup SenderKeys : cache[k] = table[k]

\* No two senders that succeeded started from the same state of a ratchet: one
\* of them saw the other's step.  (A batch whose one envelope could not be
\* decrypted ends well too, without a step.)
StateUsedOnce ==
  \A c, d \in Calls :
    (c # d /\ phase[c] = "resolved" /\ phase[d] = "resolved"
       /\ Work[c] = Work[d] /\ Len(Work[c]) = 1 /\ Work[c][1][1] = "cipher"
       /\ 1 \in written[c] /\ 1 \in written[d])
      => <<c, 1>> \in loaded[d] \/ <<d, 1>> \in loaded[c]

\* "Leave the zone and yield to another one only if there are no active zone
\* users anymore" (ts/SignalProtocolStore.ts, #leaveZone).
ZoneYields ==
  \A c \in inside : phase[c] \notin {"idle", "resolved", "rejected", "lost"}

\* Every call of withZone settles.
CallsSettle ==
  \A c \in Calls : phase[c] # "idle" ~> phase[c] \in {"resolved", "rejected"}
=============================================================================
