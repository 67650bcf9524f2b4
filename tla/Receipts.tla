------------------------------ MODULE Receipts ------------------------------
(***************************************************************************)
(* Delivery, read and view receipts (ts/messageModifiers/MessageReceipts)  *)
(* and the message they are about, which is sent from here or comes as a   *)
(* transcript from another device of ours.  A receipt is a row of          *)
(* syncTasks, an entry of cachedReceipts and an item of                    *)
(* processReceiptBatcher; the batch looks for its message in the database, *)
(* and handling a transcript looks for receipts that came before it.       *)
(*                                                                         *)
(* One message, neither edited nor deleted, whose model stays in           *)
(* MessageCache while somebody holds it.  The database executes in order:  *)
(* a write takes effect where it is asked for.                             *)
(***************************************************************************)
EXTENDS SendState, FiniteSets

CONSTANTS
  Recipients, None,
  Receipts,
  RecipientOf,   \* sourceConversationId
  ActionOf,      \* what the type of the receipt does
  Unwanted,      \* receipts that the settings have shouldDropReceipt drop
  SentTo,        \* the recipients of the transcript; its updates may add others
  MaxRestarts    \* bound

ASSUME ReceiptsAssumption ==
  /\ RecipientOf \in [Receipts -> Recipients]
  /\ ActionOf \in [Receipts -> ReceiptAction]
  /\ Unwanted \subseteq Receipts
  /\ SentTo \subseteq Recipients
  /\ None \notin SendStatus /\ None \notin [Recipients -> SendStatus \cup {None}]
  /\ None \notin [at : {"found", "saved"}, receipts : SUBSET Receipts]
  /\ MaxRestarts \in Nat

VARIABLES
  arrived,
  rows,        \* syncTasks
  unqueued,    \* saved by the handler of the event, which has not queued them yet
  cached,      \* cachedReceipts
  waiting,     \* items of processReceiptBatcher
  batch,       \* the batch it processes, or None
  message,     \* the model in MessageCache, or None
  stored,      \* the row of the message, or None
  handling,    \* how far the transcript is
  taken,       \* what forMessage took and the database does not show yet
  sending,     \* has the message a send job?
  forgone,     \* receipts without an effect: unwanted, of nobody we sent to, taken when it ended
  started,     \* has runAllSyncTasks run?
  restarts

receiptVars == <<rows, unqueued, cached, waiting>>
messageVars == <<message, stored>>
handlingVars == <<handling, taken, forgone>>
vars == <<arrived, receiptVars, batch, messageVars, handlingVars, sending, started, restarts>>

SendStates == [Recipients -> SendStatus \cup {None}]
Batch == [at : {"found", "saved"}, receipts : SUBSET Receipts]

Init ==
  /\ arrived = {} /\ rows = {} /\ unqueued = {} /\ cached = {} /\ waiting = {}
  /\ batch = None /\ message = None /\ stored = None
  /\ handling = "none" /\ taken = {} /\ forgone = {}
  /\ sending = FALSE /\ started = TRUE /\ restarts = 0

(* getMessageById: the cache, then the database.                           *)
Model == IF message = None THEN stored ELSE message

HasRecipient(sendState, r) == sendState[RecipientOf[r]] # None

(* The receipts that have an effect, one after the other.  The reducer     *)
(* keeps the highest status, so that for each recipient one of them tells. *)
From(c, receipts) == {r \in receipts : RecipientOf[r] = c}

Highest(receipts) ==
  CHOOSE r \in receipts : \A other \in receipts :
    AtLeast(STATE_TRANSITIONS[ActionOf[r]], STATE_TRANSITIONS[ActionOf[other]])

WithReceipts(sendState, receipts) ==
  [c \in Recipients |->
     IF sendState[c] = None \/ From(c, receipts) = {} THEN sendState[c]
     ELSE sendStateReducer(sendState[c], ActionOf[Highest(From(c, receipts))])]

-----------------------------------------------------------------------------
(* A receipt: its handler saves it and confirms, then queues it.           *)

Arrive(r) ==
  /\ r \notin arrived /\ arrived' = arrived \cup {r}
  /\ rows' = rows \cup {r} /\ unqueued' = unqueued \cup {r}
  /\ UNCHANGED <<cached, waiting, batch, messageVars, handlingVars, sending, started, restarts>>

onReceipt(r) ==
  /\ r \in unqueued /\ unqueued' = unqueued \ {r}
  /\ cached' = cached \cup {r} /\ waiting' = waiting \cup {r}
  /\ UNCHANGED <<arrived, rows, batch, messageVars, handlingVars, sending, started, restarts>>

(* processBatch reads the messages of the time...                          *)
IsTarget(r) ==
  /\ stored # None
  /\ HasRecipient(stored, r) /\ stored[RecipientOf[r]] \notin UNDELIVERED_SEND_STATUSES

BatchReads ==
  LET targets == {r \in waiting : IsTarget(r)}
  IN /\ batch = None /\ waiting # {} /\ waiting' = {}
     /\ IF targets = {} THEN UNCHANGED <<batch, message>>
        ELSE batch' = [at |-> "found", receipts |-> targets] /\ message' = Model
     /\ UNCHANGED <<arrived, rows, unqueued, cached, stored, handlingVars, sending, started, restarts>>

(* ... updates the model and saves it...                                   *)
Valid == (batch.receipts \ Unwanted) \cap cached

(* Mutant of BatchApplies: the message is not saved.                       *)
BatchAppliesUnsaved ==
  /\ batch # None /\ batch.at = "found"
  /\ message' = WithReceipts(Model, Valid)
  /\ batch' = [at |-> "saved", receipts |-> Valid]
  /\ UNCHANGED <<arrived, receiptVars, stored, handlingVars, sending, started, restarts>>

BatchApplies ==
  /\ batch # None /\ batch.at = "found"
  /\ message' = WithReceipts(Model, Valid) /\ stored' = message'
  /\ batch' = [at |-> "saved", receipts |-> Valid]
  /\ UNCHANGED <<arrived, receiptVars, handlingVars, sending, started, restarts>>

(* ... and removes the receipts, one by one.                               *)
BatchRemoves(r) ==
  /\ batch # None /\ batch.at = "saved"
  /\ r \in batch.receipts /\ batch' = [batch EXCEPT !.receipts = @ \ {r}]
  /\ cached' = cached \ {r} /\ rows' = rows \ {r}
  /\ UNCHANGED <<arrived, unqueued, waiting, messageVars, handlingVars, sending, started, restarts>>

BatchEnds ==
  /\ batch # None /\ batch.at = "saved" /\ batch.receipts = {}
  /\ batch' = None
  /\ UNCHANGED <<arrived, receiptVars, messageVars, handlingVars, sending, started, restarts>>

-----------------------------------------------------------------------------
(* A message that is sent from here.  No receipt is older than it is.      *)

enqueueMessageForSend ==
  /\ handling = "none" /\ stored = None /\ arrived = {}
  /\ handling' = "here" /\ sending' = TRUE
  /\ message' = [c \in Recipients |-> "Pending"] /\ stored' = message'
  /\ UNCHANGED <<arrived, receiptVars, batch, taken, forgone, started, restarts>>

(* send, when the promise has settled.  The job may try again.             *)
SendSettles(successful, failed, again) ==
  /\ sending /\ Model # None /\ sending' = again
  /\ successful \cap failed = {}
  /\ \A c \in successful \cup failed : Model[c] # None /\ ~isSent(Model[c])
  /\ message' = [c \in Recipients |->
       IF c \in successful THEN sendStateReducer(Model[c], "Sent")
       ELSE IF c \in failed THEN sendStateReducer(Model[c], "Failed")
       ELSE Model[c]]
  /\ stored' = message'
  /\ UNCHANGED <<arrived, receiptVars, batch, handlingVars, started, restarts>>

retryMessageSend ==
  /\ handling = "here" /\ ~sending /\ sending' = TRUE
  /\ \E c \in Recipients : ~isSent(Model[c])
  /\ message' = [c \in Recipients |->
       IF isSent(Model[c]) THEN Model[c] ELSE sendStateReducer(Model[c], "ManuallyRetried")]
  /\ stored' = message'
  /\ UNCHANGED <<arrived, receiptVars, batch, handlingVars, started, restarts>>

-----------------------------------------------------------------------------
(* A transcript.                                                           *)

(* forMessage takes all receipts of the time, and removes their rows.      *)
forMessage ==
  /\ taken' = cached /\ cached' = {}
  /\ rows' = rows \ cached

(* What forMessage has returned, put into the model.                       *)
Ineffective == {r \in taken : r \in Unwanted \/ ~HasRecipient(message, r)}

ApplyTaken ==
  /\ message' = WithReceipts(message, taken \ Ineffective)
  /\ forgone' = forgone \cup Ineffective

(* handleDataMessage, with the first call of modifyTargetMessage.          *)
handleDataMessage ==
  /\ handling \in {"none", "unprocessed"} /\ stored = None
  /\ handling' = "first"
  /\ message' = [c \in Recipients |-> IF c \in SentTo THEN "Sent" ELSE None]
  /\ forMessage
  /\ UNCHANGED <<arrived, unqueued, waiting, batch, stored, forgone, sending, started, restarts>>

FirstRunEnds ==
  /\ handling = "first" /\ handling' = "unsaved"
  /\ ApplyTaken
  /\ UNCHANGED <<arrived, receiptVars, batch, stored, taken, sending, started, restarts>>

(* saveAndNotify: saveNewMessageBatcher saves what the cache has then...   *)
SaveNewMessage ==
  /\ handling = "unsaved" /\ handling' = "saved"
  /\ stored' = message /\ taken' = {}
  /\ UNCHANGED <<arrived, receiptVars, batch, message, forgone, sending, started, restarts>>

(* ... and modifyTargetMessage runs again, "as a cleanup for any missed    *)
(* out-of-order events".                                                   *)

(* Mutant of SecondRun: there is none.                                     *)
NoSecondRun ==
  /\ handling = "saved" /\ handling' = "handled"
  /\ UNCHANGED <<arrived, receiptVars, batch, messageVars, taken, forgone, sending, started, restarts>>

SecondRun ==
  /\ handling = "saved" /\ handling' = "second"
  /\ forMessage
  /\ UNCHANGED <<arrived, unqueued, waiting, batch, messageVars, forgone, sending, started, restarts>>

SecondRunEnds ==
  /\ handling = "second" /\ handling' = "handled"
  /\ ApplyTaken /\ stored' = message' /\ taken' = {}
  /\ UNCHANGED <<arrived, receiptVars, batch, sending, started, restarts>>

(* An update of the transcript, in the queue of the conversation; it may   *)
(* name recipients that the transcript did.                                *)
Updated(sendState, c) ==
  [sendState EXCEPT ![c] = IF @ = None THEN "Sent" ELSE sendStateReducer(@, "Sent")]

(* Mutant of RecipientUpdate: the update tells the status.                 *)
RecipientOverwritten(c) ==
  /\ handling \in {"unsaved", "saved", "second", "handled"} /\ Model # None
  /\ message' = [Model EXCEPT ![c] = "Sent"]
  /\ stored' = IF stored = None THEN None ELSE message'
  /\ UNCHANGED <<arrived, receiptVars, batch, handlingVars, sending, started, restarts>>

RecipientUpdate(c) ==
  /\ handling \in {"unsaved", "saved", "second", "handled"} /\ Model # None
  /\ message' = Updated(Model, c)
  /\ stored' = IF stored = None THEN None ELSE message'
  /\ UNCHANGED <<arrived, receiptVars, batch, handlingVars, sending, started, restarts>>

-----------------------------------------------------------------------------
(* The process ends.  A transcript that is not stored is still among the   *)
(* unprocessed envelopes; one that is stored is a duplicate then.          *)
Restart ==
  /\ restarts < MaxRestarts /\ restarts' = restarts + 1
  /\ unqueued' = {} /\ cached' = {} /\ waiting' = {} /\ batch' = None
  /\ message' = None
  /\ taken' = {} /\ forgone' = forgone \cup taken
  /\ handling' = CASE handling \in {"first", "unsaved"} -> "unprocessed"
                   [] handling \in {"saved", "second"} -> "handled"
                   [] OTHER -> handling
  /\ started' = FALSE
  /\ UNCHANGED <<arrived, rows, stored, sending>>

runAllSyncTasks ==
  /\ ~started /\ started' = TRUE
  /\ cached' = cached \cup rows /\ waiting' = waiting \cup rows
  /\ UNCHANGED <<arrived, rows, unqueued, batch, messageVars, handlingVars, sending, restarts>>

Next ==
  \/ \E r \in Receipts : Arrive(r) \/ onReceipt(r) \/ BatchRemoves(r)
  \/ BatchReads \/ BatchApplies \/ BatchEnds
  \/ enqueueMessageForSend \/ retryMessageSend
  \/ \E successful, failed \in SUBSET Recipients, again \in BOOLEAN : SendSettles(successful, failed, again)
  \/ handleDataMessage \/ FirstRunEnds \/ SaveNewMessage \/ SecondRun \/ SecondRunEnds
  \/ \E c \in Recipients : RecipientUpdate(c)
  \/ Restart \/ runAllSyncTasks

Spec == Init /\ [][Next]_vars

(* What is queued runs, and the next process handles what is unprocessed.  *)
Fairness ==
  /\ \A r \in Receipts : WF_vars(onReceipt(r)) /\ WF_vars(BatchRemoves(r))
  /\ WF_vars(BatchReads) /\ WF_vars(BatchApplies) /\ WF_vars(BatchEnds)
  /\ WF_vars(handling = "unprocessed" /\ handleDataMessage)
  /\ WF_vars(FirstRunEnds) /\ WF_vars(SaveNewMessage) /\ WF_vars(SecondRun) /\ WF_vars(SecondRunEnds)
  /\ WF_vars(runAllSyncTasks)

FairSpec == Spec /\ Fairness

-----------------------------------------------------------------------------
(* Every variable has its type.                                            *)
TypeOK ==
  /\ rows \subseteq arrived /\ arrived \subseteq Receipts
  /\ unqueued \subseteq Receipts /\ cached \subseteq Receipts /\ waiting \subseteq Receipts
  /\ batch \in Batch \cup {None}
  /\ message \in SendStates \cup {None} /\ stored \in SendStates \cup {None}
  /\ handling \in {"none", "here", "unprocessed", "first", "unsaved", "saved", "second", "handled"}
  /\ taken \subseteq Receipts /\ forgone \subseteq Receipts
  /\ sending \in BOOLEAN /\ started \in BOOLEAN /\ restarts \in 0..MaxRestarts

Shows(sendState, r) ==
  /\ sendState # None /\ HasRecipient(sendState, r)
  /\ AtLeast(sendState[RecipientOf[r]], STATE_TRANSITIONS[ActionOf[r]])

(* "We should never go backwards" (MessageSendState.ts): no interleaving   *)
(* of receipts, sends, retries, transcripts and restarts takes back what   *)
(* the database says of a recipient, but for a send that fails.            *)
Backwards(old, new) ==
  /\ old # None
  /\ new = None \/ (~AtLeast(new, old) /\ ~(old = "Pending" /\ new = "Failed"))

NeverBackwards ==
  [][stored # None => stored' # None /\ \A c \in Recipients : ~Backwards(stored[c], stored'[c])]_vars

(* A receipt leaves the table when the stored message shows it, or when    *)
(* forMessage has it in hand, and not without an effect otherwise.         *)
NoneForgotten ==
  \A r \in arrived : r \in rows \cup taken \cup forgone \/ Shows(stored, r)

(* Whatever the order of receipts, of the two runs and of restarts: once a *)
(* transcript is there, its receipts end up in the stored message, and     *)
(* those of a message sent from here do that find their recipient sent to. *)
Due(r) ==
  \/ /\ r \in arrived /\ handling \notin {"none", "here"}
     /\ RecipientOf[r] \in SentTo
  \/ r \in unqueued /\ IsTarget(r)

ReceiptsApplied ==
  \A r \in Receipts \ Unwanted : Due(r) ~> (r \in forgone \/ Shows(stored, r))
=============================================================================
