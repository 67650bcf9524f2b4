---------------------------- MODULE EnvelopeCache ----------------------------
(***************************************************************************)
(* The message receiver (ts/textsecure/MessageReceiver.ts) from the        *)
(* websocket request to the removal of the row: the batch that decrypts,   *)
(* stores and acknowledges, the queues behind it, the unprocessed table,   *)
(* its re-reading, and restarts.                                           *)
(*                                                                         *)
(* An envelope is delivered again, with another id, on every connection    *)
(* until it is acknowledged; it decrypts once.  What ZonedStore shows of a *)
(* batch is used here: ratchet steps and rows are written together or not  *)
(* at all.                                                                 *)
(***************************************************************************)
EXTENDS Naturals, FiniteSets, SequencesExt

CONSTANTS
  Messages,      \* what the server holds for us
  None,
  MaxDeliveries, \* bound: of one message
  MaxAttempts,   \* MAX_UNPROCESSED_ATTEMPTS
  MaxTroubles,   \* bound: failures of a decryption, a handler or a batch
  MaxEnds        \* bound: crashes, reconnections and stops

Ids == Messages \X (1..MaxDeliveries)
MessageOf(id) == id[1]

ASSUME EnvelopeAssumption ==
  /\ IsFiniteSet(Messages)
  /\ None \notin [encrypted : BOOLEAN, attempts : Nat] /\ \A ids \in SUBSET Ids : ids # None
  /\ MaxAttempts \in Nat \ {0}
  /\ {MaxDeliveries, MaxTroubles, MaxEnds} \subseteq Nat

VARIABLES
  \* The server.
  acked,          \* messages it may forget
  live,           \* ids of the current connection that have no answer yet
  deliveries,     \* how often a message has been delivered
  emptySent,      \* has it said on this connection that its queue is empty?
  \* On disk.
  unprocessed,    \* the table, by id: a row or None
  used,           \* messages whose ratchet step is stored
  \* The process.
  phase,          \* isAppReadyForProcessing: before, while and after it is set
  stopping,       \* stoppingProcessing
  isEmptied,
  retryTimer,     \* is retryCachedTimeout set?
  reading,        \* the ids getAllFromCache has read, or None
  pipe,           \* the queues and the list of decryptAndCacheBatcher
  batch,          \* its running batch
  errors,         \* ids whose decryption error is being handled
  removing,       \* the list of cacheRemoveBatcher
  \* What happened.
  handled, reported, dropped, expired,  \* messages
  tried,          \* ids that this process has been through with
  doubled,        \* messages whose encrypted row was read while it was in hand, or of which a
                  \* failing batch had decrypted one envelope and failed another
  troubles, ends

server == <<acked, live, deliveries, emptySent>>
disk == <<unprocessed, used>>
flags == <<phase, stopping, isEmptied, retryTimer>>
outcome == <<handled, reported, dropped, expired>>
bounds == <<troubles, ends>>
vars == <<server, disk, flags, reading, pipe, batch, errors, removing, outcome, tried, doubled, bounds>>

(* A row that is written between its two reads is read once more.          *)
Item == [id : Ids, attempts : 0..MaxAttempts + 1]
Row == [encrypted : BOOLEAN, attempts : 0..MaxAttempts + 1]
NoBatch == [at |-> "idle", items |-> <<>>, plain |-> <<>>, failed |-> {}]

(* The tasks of the queues.  "before" is what the server had sent when it  *)
(* said that its queue was empty.                                          *)
Request(id) == [task |-> "request", id |-> id]
ReadCache == [task |-> "read"]
Empty(before) == [task |-> "empty", before |-> before]
Drain(before) == [task |-> "drain", before |-> before]
Decryption(item) == [task |-> "decrypt", item |-> item]
Handling(id, last) == [task |-> "handle", id |-> id, last |-> last]

(* incomingQueue, the batcher's list, encryptedQueue, decryptedQueue and   *)
(* appQueue; "emptying" has the calls of onEmpty that await the batcher.   *)
NoTasks == [incoming |-> <<>>, items |-> <<>>, encrypted |-> <<>>, decrypted |-> <<>>, app |-> <<>>, emptying |-> {}]

ProcessInit ==
  /\ phase = "starting" /\ stopping = FALSE /\ isEmptied = FALSE /\ retryTimer = FALSE
  /\ reading = None /\ pipe = NoTasks /\ batch = NoBatch
  /\ errors = {} /\ removing = {} /\ tried = {}

Init ==
  /\ acked = {} /\ live = {} /\ deliveries = [m \in Messages |-> 0] /\ emptySent = FALSE
  /\ unprocessed = [id \in Ids |-> None] /\ used = {}
  /\ ProcessInit
  /\ handled = {} /\ reported = {} /\ dropped = {} /\ expired = {} /\ doubled = {}
  /\ troubles = 0 /\ ends = 0

Enqueue(task) == pipe' = [pipe EXCEPT !.incoming = Append(@, task)]

(* A task that only hands something over is over as soon as its turn       *)
(* comes, before anything else happens: the requests, onEmpty and its      *)
(* drains, and on encryptedQueue the task of a decrypted row.              *)
Turn(tasks, kinds) == tasks # <<>> /\ Head(tasks).task \in kinds

IncomingDue(kind) == reading = None /\ Turn(pipe.incoming, {kind})
EncryptedDue == Turn(pipe.encrypted, {"handle", "drain"})
DecryptedDue == Turn(pipe.decrypted, {"drain"})
HandOverDue ==
  EncryptedDue \/ DecryptedDue \/ \E kind \in {"request", "empty", "drain"} : IncomingDue(kind)

TakeRequest ==
  /\ IncomingDue("request")
  /\ pipe' = [pipe EXCEPT !.incoming = Tail(@),
                          !.items = Append(@, [id |-> Head(pipe.incoming).id, attempts |-> 0])]

HandOver ==
  /\ \/ TakeRequest
     \/ /\ IncomingDue("empty")
        /\ pipe' = [pipe EXCEPT !.incoming = Tail(@), !.emptying = @ \cup {Head(pipe.incoming).before}]
     \/ /\ IncomingDue("drain")
        /\ pipe' = [pipe EXCEPT !.incoming = Tail(@), !.encrypted = Append(@, Head(pipe.incoming))]
     \/ /\ EncryptedDue
        /\ pipe' = [pipe EXCEPT !.encrypted = Tail(@), !.decrypted = Append(@, Head(pipe.encrypted))]
     \/ /\ DecryptedDue
        /\ pipe' = [pipe EXCEPT !.decrypted = Tail(@), !.app = Append(@, Head(pipe.decrypted))]
  /\ UNCHANGED <<server, disk, flags, reading, batch, errors, removing, outcome, tried, doubled, bounds>>

Trouble == troubles < MaxTroubles /\ troubles' = troubles + 1

-----------------------------------------------------------------------------
(* The server.                                                             *)

Deliver(m) ==
  /\ phase = "ready"
  /\ m \notin acked /\ \A id \in live : MessageOf(id) # m
  /\ deliveries[m] < MaxDeliveries
  /\ deliveries' = [deliveries EXCEPT ![m] = @ + 1]
  /\ live' = live \cup {<<m, deliveries'[m]>>}
  /\ Enqueue(Request(<<m, deliveries'[m]>>))
  /\ UNCHANGED <<acked, emptySent, disk, flags, reading, batch, errors, removing, outcome, tried, doubled, bounds>>

Delivered == {id \in Ids : id[2] <= deliveries[id[1]]}

ServerEmpty ==
  /\ phase = "ready" /\ ~emptySent /\ emptySent' = TRUE
  /\ Enqueue(Empty(Delivered))
  /\ UNCHANGED <<acked, live, deliveries, disk, flags, reading, batch, errors, removing, outcome, tried, doubled, bounds>>

-----------------------------------------------------------------------------
(* Reading the table.                                                      *)

(* getAllUnprocessedIds deletes what has been tried too often.             *)
Worn == {id \in Ids : unprocessed[id] # None /\ unprocessed[id].attempts >= MaxAttempts}

ReadIds ==
  /\ IncomingDue("read")
  /\ IF stopping
     THEN UNCHANGED <<reading, unprocessed, expired>>
     ELSE /\ unprocessed' = [id \in Ids |-> IF id \in Worn THEN None ELSE unprocessed[id]]
          /\ expired' = expired \cup {MessageOf(id) : id \in Worn}
          /\ reading' = {id \in Ids : unprocessed'[id] # None}
  /\ pipe' = [pipe EXCEPT !.incoming = Tail(@)]
  /\ UNCHANGED <<server, used, flags, batch, errors, removing, handled, reported, dropped, tried, doubled, bounds>>

InBatcher(id) == \E item \in ToSet(pipe.items) \cup ToSet(batch.items) : item.id = id

(* getUnprocessedByIdsAndIncrementAttempts, and queueCached of each row.   *)
(* In which order does not matter here.                                    *)
FetchRows ==
  /\ reading # None /\ reading' = None
  /\ LET present == {id \in reading : unprocessed[id] # None}
         closed == {id \in present : unprocessed[id].encrypted}
         toBatcher == SetToSeq(closed)
         toQueue == SetToSeq(present \ closed)
     IN /\ unprocessed' = [id \in Ids |->
             IF id \in present THEN [unprocessed[id] EXCEPT !.attempts = @ + 1] ELSE unprocessed[id]]
        /\ doubled' = doubled \cup {MessageOf(id) : id \in {i \in closed : InBatcher(i)}}
        /\ pipe' =
             [pipe EXCEPT
                !.items = @ \o [i \in DOMAIN toBatcher |->
                                  [id |-> toBatcher[i], attempts |-> unprocessed'[toBatcher[i]].attempts]],
                !.encrypted = @ \o [i \in DOMAIN toQueue |-> Handling(toQueue[i], FALSE)]]
  /\ UNCHANGED <<server, used, flags, batch, errors, removing, outcome, tried, bounds>>

(* Mutant of WaitForBatcher: onEmpty does not wait.                        *)
WaitForNothing(before) ==
  /\ before \in pipe.emptying
  /\ pipe' = [pipe EXCEPT !.emptying = @ \ {before}, !.incoming = Append(@, Drain(before))]
  /\ UNCHANGED <<server, disk, flags, reading, batch, errors, removing, outcome, tried, doubled, bounds>>

(* onEmpty awaits the batcher, and then passes through the queues.         *)
BatcherIdle == pipe.items = <<>> /\ batch = NoBatch

WaitForBatcher(before) ==
  /\ before \in pipe.emptying /\ BatcherIdle
  /\ pipe' = [pipe EXCEPT !.emptying = @ \ {before}, !.incoming = Append(@, Drain(before))]
  /\ UNCHANGED <<server, disk, flags, reading, batch, errors, removing, outcome, tried, doubled, bounds>>

-----------------------------------------------------------------------------
(* The batches.                                                            *)

(* The timer of the batcher, maxSize or a flush; then decryptAndCacheBatch *)
(* up to the first decryption.  A batch is kicked off when the one before  *)
(* it is done, with what was there at some time before.                    *)
StartBatch ==
  /\ batch = NoBatch
  /\ \E n \in 1..Len(pipe.items) :
       LET taken == SubSeq(pipe.items, 1, n)
       IN /\ batch' = [NoBatch EXCEPT !.at = "decrypting", !.items = taken]
          /\ pipe' = [pipe EXCEPT !.items = SubSeq(@, n + 1, Len(@)),
                                  !.encrypted = @ \o [i \in 1..n |-> Decryption(taken[i])]]
  /\ UNCHANGED <<server, disk, flags, reading, errors, removing, outcome, tried, doubled, bounds>>

Stepped == {MessageOf(item.id) : item \in ToSet(batch.plain)}

Fail(item) == batch' = [batch EXCEPT !.failed = @ \cup {item}]

(* A task of encryptedQueue: unsealEnvelope and decryptEnvelope.           *)
Stopped(item) ==
  /\ stopping
  /\ Fail(item)
  /\ UNCHANGED <<removing, errors, dropped, troubles>>

OldCounter(item) ==
  /\ ~stopping /\ MessageOf(item.id) \in used \cup Stepped
  /\ Fail(item)
  /\ removing' = removing \cup {item.id}
  /\ UNCHANGED <<errors, dropped, troubles>>

Opened(item) ==
  /\ ~stopping /\ MessageOf(item.id) \notin used \cup Stepped
  /\ batch' = [batch EXCEPT !.plain = Append(@, item)]
  /\ UNCHANGED <<removing, errors, dropped, troubles>>

DecryptionError(item) ==
  /\ ~stopping /\ Trouble
  /\ Fail(item)
  /\ errors' = errors \cup {item.id}
  /\ UNCHANGED <<removing, dropped>>

(* A job that timed out, a sealed sender that is not trusted, a sender who *)
(* is blocked or who writes to the PNI: failed, and removed.               *)
Refused(item) ==
  /\ ~stopping /\ Trouble
  /\ Fail(item)
  /\ removing' = removing \cup {item.id}
  /\ dropped' = dropped \cup {MessageOf(item.id)}
  /\ UNCHANGED errors

DroppedEarly(item) ==
  /\ ~stopping /\ Trouble
  /\ UNCHANGED batch
  /\ dropped' = dropped \cup {MessageOf(item.id)}
  /\ UNCHANGED <<removing, errors>>

Decrypt ==
  /\ Turn(pipe.encrypted, {"decrypt"})
  /\ pipe' = [pipe EXCEPT !.encrypted = Tail(@)]
  /\ LET item == Head(pipe.encrypted).item
     IN \/ Stopped(item) \/ OldCounter(item) \/ Opened(item)
        \/ DecryptionError(item) \/ Refused(item) \/ DroppedEarly(item)
  /\ UNCHANGED <<server, disk, flags, reading, handled, reported, expired, tried, doubled, ends>>

(* Some envelope of the batch still waits for its turn.                    *)
Decrypting == \E task \in ToSet(pipe.encrypted) : task.task = "decrypt"

(* The zone commits, or the batch throws.  The failed envelopes are stored *)
(* after the decrypted ones: INSERT OR REPLACE.                            *)
RowOf(id, stored) == CHOOSE item \in stored : item.id = id

(* Mutant of Stored: what failed is not kept.                              *)
StoredPlain ==
  LET plain == {item.id : item \in ToSet(batch.plain)}
  IN [id \in Ids |->
        IF id \in plain THEN [encrypted |-> FALSE, attempts |-> RowOf(id, ToSet(batch.plain)).attempts]
        ELSE unprocessed[id]]

Stored ==
  LET failed == {item.id : item \in batch.failed}
      plain == {item.id : item \in ToSet(batch.plain)}
  IN [id \in Ids |->
        IF id \in failed THEN [encrypted |-> TRUE, attempts |-> RowOf(id, batch.failed).attempts]
        ELSE IF id \in plain THEN [encrypted |-> FALSE, attempts |-> RowOf(id, ToSet(batch.plain)).attempts]
        ELSE unprocessed[id]]

Commit ==
  /\ batch.at = "decrypting" /\ ~Decrypting
  /\ batch' = [batch EXCEPT !.at = "committed"]
  /\ unprocessed' = Stored
  /\ used' = used \cup Stepped
  /\ UNCHANGED <<server, flags, reading, pipe, errors, removing, outcome, tried, doubled, bounds>>

BatchIds == {item.id : item \in ToSet(batch.items)}

(* respond(200) of each, and queueAllDecryptedEnvelopes.                   *)
Acknowledge ==
  /\ batch.at = "committed"
  /\ acked' = acked \cup {MessageOf(id) : id \in BatchIds \cap live}
  /\ live' = live \ BatchIds
  /\ pipe' = [pipe EXCEPT !.decrypted =
       @ \o [i \in DOMAIN batch.plain |-> Handling(batch.plain[i].id, i = Len(batch.plain))]]
  /\ tried' = tried \cup (BatchIds \ {item.id : item \in ToSet(batch.plain)})
  /\ retryTimer' = (retryTimer \/ (batch.plain = <<>> /\ isEmptied))
  /\ batch' = NoBatch
  /\ UNCHANGED <<deliveries, emptySent, disk, phase, stopping, isEmptied, reading, errors, removing, outcome, doubled, bounds>>

(* Messages of which the batch has decrypted one envelope and failed with  *)
(* another, an old counter to it.                                          *)
Undone == Stepped \cap {MessageOf(item.id) : item \in batch.failed}

(* Mutant of BatchFails: the zone is not reverted.                         *)
BatchFailsCommitted ==
  /\ batch.at = "decrypting" /\ ~Decrypting
  /\ Trouble
  /\ live' = live \ BatchIds
  /\ tried' = tried \cup BatchIds
  /\ batch' = NoBatch
  /\ doubled' = doubled \cup Undone
  /\ used' = used \cup Stepped
  /\ UNCHANGED <<acked, deliveries, emptySent, unprocessed, flags, reading, pipe, errors, removing, outcome, ends>>

(* respond(500) of each: the server keeps what it has.                     *)
BatchFails ==
  /\ batch.at = "decrypting" /\ ~Decrypting
  /\ Trouble
  /\ live' = live \ BatchIds
  /\ tried' = tried \cup BatchIds
  /\ batch' = NoBatch
  /\ doubled' = doubled \cup Undone
  /\ UNCHANGED <<acked, deliveries, emptySent, disk, flags, reading, pipe, errors, removing, outcome, ends>>

-----------------------------------------------------------------------------
(* What comes behind the batches.                                          *)

(* handleDecryptedEnvelope: the event goes to appQueue.  Behind the last   *)
(* envelope of a batch the retry is scheduled.                             *)
HandleDecrypted ==
  /\ Turn(pipe.decrypted, {"handle"})
  /\ LET task == Head(pipe.decrypted)
     IN /\ tried' = IF stopping THEN tried \cup {task.id} ELSE tried
        /\ retryTimer' = (retryTimer \/ (task.last /\ isEmptied))
        /\ pipe' = [pipe EXCEPT !.decrypted = Tail(@),
                                         !.app = IF stopping THEN @ ELSE Append(@, task)]
  /\ UNCHANGED <<server, disk, phase, stopping, isEmptied, reading, batch, errors, removing, outcome, doubled, bounds>>

(* A handler of the app saves what it has been told and confirms, or       *)
(* fails.                                                                  *)
AppHandles ==
  /\ Turn(pipe.app, {"handle"})
  /\ pipe' = [pipe EXCEPT !.app = Tail(@)]
  /\ LET id == Head(pipe.app).id
     IN /\ \/ /\ handled' = handled \cup {MessageOf(id)}
              /\ removing' = removing \cup {id}
              /\ UNCHANGED troubles
           \/ Trouble /\ UNCHANGED <<handled, removing>>
        /\ tried' = tried \cup {id}
  /\ UNCHANGED <<server, disk, flags, reading, batch, errors, reported, dropped, expired, doubled, ends>>

(* Mutant of EmitEmpty: the retry is not scheduled.                        *)
EmitEmptyAlone ==
  /\ Turn(pipe.app, {"drain"})
  /\ BatcherIdle /\ removing = {}
  /\ pipe' = [pipe EXCEPT !.app = Tail(@)]
  /\ isEmptied' = TRUE /\ UNCHANGED retryTimer
  /\ UNCHANGED <<server, disk, phase, stopping, reading, batch, errors, removing, outcome, tried, doubled, bounds>>

(* emitEmpty, once both batchers are flushed.                              *)
EmitEmpty ==
  /\ Turn(pipe.app, {"drain"})
  /\ BatcherIdle /\ removing = {}
  /\ pipe' = [pipe EXCEPT !.app = Tail(@)]
  /\ isEmptied' = TRUE /\ retryTimer' = TRUE
  /\ UNCHANGED <<server, disk, phase, stopping, reading, batch, errors, removing, outcome, tried, doubled, bounds>>

(* The handler of a decryption error asks for the message again or shows   *)
(* the error, and confirms.                                                *)
ErrorHandled(id) ==
  /\ id \in errors /\ errors' = errors \ {id}
  /\ reported' = reported \cup {MessageOf(id)}
  /\ removing' = removing \cup {id}
  /\ UNCHANGED <<server, disk, flags, reading, pipe, batch, handled, dropped, expired, tried, doubled, bounds>>

(* cacheRemoveBatch                                                        *)
RemoveBatch ==
  /\ removing # {} /\ removing' = {}
  /\ unprocessed' = [id \in Ids |-> IF id \in removing THEN None ELSE unprocessed[id]]
  /\ UNCHANGED <<server, used, flags, reading, pipe, batch, errors, outcome, tried, doubled, bounds>>

RetryTimerFires ==
  /\ retryTimer /\ retryTimer' = FALSE
  /\ Enqueue(ReadCache)
  /\ UNCHANGED <<server, disk, phase, stopping, isEmptied, reading, batch, errors, removing, outcome, tried, doubled, bounds>>

-----------------------------------------------------------------------------
(* The process.                                                            *)

(* reset.  It leaves the timer as it is.                                   *)
Reset ==
  /\ isEmptied' = FALSE /\ stopping' = FALSE
  /\ UNCHANGED <<retryTimer, reading>>
  /\ IF phase' = "ready" THEN Enqueue(ReadCache) ELSE UNCHANGED pipe

AppReady ==
  /\ phase = "starting" /\ phase' = "ready"
  /\ Reset
  /\ UNCHANGED <<server, disk, batch, errors, removing, outcome, tried, doubled, bounds>>

End == ends < MaxEnds /\ ends' = ends + 1

(* The connection is lost, and there is a new one: the event "online".     *)
Online ==
  /\ phase # "starting" /\ End
  /\ live' = {} /\ emptySent' = FALSE /\ UNCHANGED phase
  /\ Reset
  /\ UNCHANGED <<acked, deliveries, disk, batch, errors, removing, outcome, tried, doubled, troubles>>

(* stopProcessing, as the process is about to end: requests are not        *)
(* handled any more.                                                       *)
StopProcessing ==
  /\ phase = "ready" /\ End
  /\ phase' = "stopped" /\ stopping' = TRUE
  /\ UNCHANGED <<server, disk, isEmptied, retryTimer, reading, pipe, batch, errors, removing, outcome, tried,
                 doubled, troubles>>

Restart ==
  /\ \/ phase = "stopped" /\ UNCHANGED ends
     \/ phase = "ready" /\ End
  /\ phase' = "starting" /\ stopping' = FALSE /\ isEmptied' = FALSE /\ retryTimer' = FALSE
  /\ reading' = None /\ pipe' = NoTasks /\ batch' = NoBatch
  /\ errors' = {} /\ removing' = {} /\ tried' = Delivered
  /\ live' = {} /\ emptySent' = FALSE
  /\ UNCHANGED <<acked, deliveries, disk, outcome, doubled, troubles>>

ServerStep == ServerEmpty \/ \E m \in Messages : Deliver(m)

ReadStep == ReadIds \/ FetchRows
BatchStep == StartBatch \/ Commit \/ Acknowledge \/ BatchFails
AppStep == AppHandles \/ EmitEmpty
OtherStep ==
  \/ RemoveBatch \/ RetryTimerFires \/ AppReady
  \/ \E before \in pipe.emptying : WaitForBatcher(before)
  \/ \E id \in errors : ErrorHandled(id)

Next ==
  \/ HandOver
  \/ /\ ~HandOverDue
     /\ \/ ServerStep \/ ReadStep \/ BatchStep \/ HandleDecrypted \/ AppStep \/ OtherStep
        \/ Decrypt
        \/ Online \/ StopProcessing \/ Restart

Spec == Init /\ [][Next]_vars

-----------------------------------------------------------------------------
(* Every variable has its type; a batch never holds more than it was given.*)
TypeOK ==
  /\ {acked, used, handled, reported, dropped, expired, doubled} \subseteq SUBSET Messages
  /\ {live, errors, removing, tried} \subseteq SUBSET Ids
  /\ deliveries \in [Messages -> 0..MaxDeliveries]
  /\ unprocessed \in [Ids -> Row \cup {None}]
  /\ phase \in {"starting", "ready", "stopped"}
  /\ {emptySent, stopping, isEmptied, retryTimer} \subseteq BOOLEAN
  /\ reading \in (SUBSET Ids) \cup {None}
  /\ pipe.items \in Seq(Item)
  /\ troubles \in 0..MaxTroubles /\ ends \in 0..MaxEnds

Settled == handled \cup reported \cup dropped \cup expired

HasRow(m, closed) ==
  \E id \in Ids : MessageOf(id) = m /\ unprocessed[id] # None /\ unprocessed[id].encrypted \in closed

(* What the server may forget is on disk until it is settled...            *)
NoneLost == \A m \in acked \ (Settled \cup doubled) : HasRow(m, BOOLEAN)

(* ... and what can not be decrypted again is there in plain text.         *)
PlainKept == \A m \in used \ (Settled \cup doubled) : HasRow(m, {FALSE})

(* When "empty" is emitted, all the server had before has been through the *)
(* queues.                                                                 *)
EmptyIsEarned ==
  pipe.app # <<>> /\ Head(pipe.app).task = "drain" => Head(pipe.app).before \subseteq tried

(* A row that nobody holds is going to be read again: by the timer, by a   *)
(* read that is queued or under way, by the timer that the last envelope   *)
(* of a batch sets, behind the "empty" that the server has still to say or *)
(* that is on its way through the queues, or by the next process.  A row   *)
(* that has been read before is excepted once "empty" is out: if its       *)
(* handler fails again, nobody schedules a retry.                          *)
Tasks == ToSet(pipe.incoming) \cup ToSet(pipe.encrypted) \cup ToSet(pipe.decrypted) \cup ToSet(pipe.app)

InHand(id) ==
  \/ id \in errors \cup removing \/ InBatcher(id)
  \/ \E task \in Tasks : task.task \in {"request", "handle"} /\ task.id = id

EmptyToCome ==
  ~emptySent \/ pipe.emptying # {} \/ \E task \in Tasks : task.task \in {"empty", "drain"}

ReadToCome(id) ==
  \/ retryTimer \/ phase # "ready" \/ ReadCache \in Tasks
  \/ reading # None /\ id \in reading
  \/ \E task \in ToSet(pipe.decrypted) : task.task = "handle" /\ task.last

RowIsWatched ==
  \A id \in Ids :
    unprocessed[id] # None /\ (unprocessed[id].attempts = 0 \/ ~isEmptied)
      => InHand(id) \/ ReadToCome(id) \/ EmptyToCome
=============================================================================
