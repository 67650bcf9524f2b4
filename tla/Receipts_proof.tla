--------------------------- MODULE Receipts_proof ---------------------------
(***************************************************************************)
(* No receipt is forgotten and no status goes backwards, for any           *)
(* recipients, receipts, settings and number of restarts; and the order in *)
(* which receipts are applied makes no difference.                         *)
(***************************************************************************)
EXTENDS Receipts, TLAPS

-----------------------------------------------------------------------------
(* The reducer.                                                            *)

LEMMA NoneIsNoStatus == None \notin SendStatus /\ None \notin SendStates /\ None \notin Batch
BY ReceiptsAssumption DEF SendStates, Batch

LEMMA NumbersAreNumbers == \A s \in SendStatus : STATUS_NUMBERS[s] \in 0..6
BY DEF STATUS_NUMBERS, SendStatus

LEMMA NumbersDiffer ==
  \A s, t \in SendStatus : STATUS_NUMBERS[s] = STATUS_NUMBERS[t] => s = t
BY DEF STATUS_NUMBERS, SendStatus

LEMMA TransitionsAreStatuses == \A a \in SendActionType : STATE_TRANSITIONS[a] \in SendStatus
BY DEF STATE_TRANSITIONS, SendActionType, SendStatus

LEMMA ReceiptActions ==
  \A a \in ReceiptAction :
    /\ a \in SendActionType /\ a # "Failed"
    /\ STATE_TRANSITIONS[a] \in SendStatus
    /\ AtLeast(STATE_TRANSITIONS[a], "Delivered")
BY DEF ReceiptAction, SendActionType, STATE_TRANSITIONS, SendStatus, AtLeast, STATUS_NUMBERS

\* The reducer of MessageSendState.ts takes a status back in one case only.
LEMMA ReducerOnward ==
  ASSUME NEW s \in SendStatus, NEW a \in SendActionType
  PROVE  /\ sendStateReducer(s, a) \in SendStatus
         /\ ~Backwards(s, sendStateReducer(s, a))
<1>1. STATE_TRANSITIONS[a] \in SendStatus
  BY TransitionsAreStatuses
<1>2. "Failed" \in SendStatus
  BY DEF SendStatus
<1> QED
  BY <1>1, <1>2, NoneIsNoStatus, NumbersAreNumbers DEF sendStateReducer, maxStatus, Backwards, AtLeast

LEMMA ReducerReaches ==
  ASSUME NEW s \in SendStatus, NEW a \in SendActionType, a # "Failed"
  PROVE  AtLeast(sendStateReducer(s, a), STATE_TRANSITIONS[a])
<1>1. STATE_TRANSITIONS[a] \in SendStatus
  BY TransitionsAreStatuses
<1> QED
  BY <1>1, NumbersAreNumbers DEF sendStateReducer, maxStatus, AtLeast

\* Whatever the order in which two receipts of a recipient are applied
\* (updateMessageWithReceipts, modifyTargetMessage), the status is the same.
THEOREM ReceiptsCommute ==
  ASSUME NEW s \in SendStatus, NEW a \in ReceiptAction, NEW b \in ReceiptAction
  PROVE  sendStateReducer(sendStateReducer(s, a), b) = sendStateReducer(sendStateReducer(s, b), a)
<1>1. /\ STATE_TRANSITIONS[a] \in SendStatus /\ STATE_TRANSITIONS[b] \in SendStatus
      /\ a # "Failed" /\ b # "Failed"
  BY ReceiptActions
<1> QED
  BY <1>1, NumbersAreNumbers, NumbersDiffer DEF sendStateReducer, maxStatus

\* A receipt of a lower or the same kind adds nothing to another one: this is
\* what the operator WithReceipts of the model takes for granted.
THEOREM HighestTells ==
  ASSUME NEW s \in SendStatus, NEW a \in ReceiptAction, NEW b \in ReceiptAction,
         AtLeast(STATE_TRANSITIONS[a], STATE_TRANSITIONS[b])
  PROVE  /\ sendStateReducer(sendStateReducer(s, b), a) = sendStateReducer(s, a)
         /\ sendStateReducer(sendStateReducer(s, a), b) = sendStateReducer(s, a)
<1>1. /\ STATE_TRANSITIONS[a] \in SendStatus /\ STATE_TRANSITIONS[b] \in SendStatus
      /\ a # "Failed" /\ b # "Failed"
  BY ReceiptActions
<1> QED
  BY <1>1, NumbersAreNumbers, NumbersDiffer DEF sendStateReducer, maxStatus, AtLeast

-----------------------------------------------------------------------------
(* The send states of a message.                                           *)

Onward(old, new) == \A c \in Recipients : ~Backwards(old[c], new[c])

LEMMA OnwardKeeps ==
  ASSUME NEW old \in SendStates, NEW new \in SendStates, Onward(old, new), NEW r \in Receipts
  PROVE  /\ HasRecipient(old, r) => HasRecipient(new, r)
         /\ Shows(old, r) => Shows(new, r)
<1>1. /\ RecipientOf[r] \in Recipients /\ ActionOf[r] \in ReceiptAction
      /\ STATE_TRANSITIONS[ActionOf[r]] \in SendStatus
      /\ AtLeast(STATE_TRANSITIONS[ActionOf[r]], "Delivered")
  BY ReceiptsAssumption, ReceiptActions
<1>2. HasRecipient(old, r) => HasRecipient(new, r)
  BY <1>1 DEF Onward, Backwards, HasRecipient
<1>3. ASSUME Shows(old, r) PROVE Shows(new, r)
  <2>1. /\ HasRecipient(new, r)
        /\ old[RecipientOf[r]] \in SendStatus /\ new[RecipientOf[r]] \in SendStatus
        /\ AtLeast(old[RecipientOf[r]], STATE_TRANSITIONS[ActionOf[r]])
    BY <1>1, <1>2, <1>3 DEF Shows, HasRecipient, SendStates
  <2>2. STATUS_NUMBERS["Pending"] = 1 /\ STATUS_NUMBERS["Delivered"] = 3 /\ "Delivered" \in SendStatus
    BY DEF STATUS_NUMBERS, SendStatus
  <2>3. old[RecipientOf[r]] # "Pending"
    BY <1>1, <2>1, <2>2, NumbersAreNumbers DEF AtLeast
  <2>4. AtLeast(new[RecipientOf[r]], old[RecipientOf[r]])
    BY <1>1, <2>1, <2>3, NoneIsNoStatus DEF Onward, Backwards
  <2>5. AtLeast(new[RecipientOf[r]], STATE_TRANSITIONS[ActionOf[r]])
    BY <1>1, <2>1, <2>4, NumbersAreNumbers DEF AtLeast
  <2> QED
    BY <2>1, <2>5, NoneIsNoStatus DEF Shows
<1> QED
  BY <1>2, <1>3

\* Among the receipts of a recipient one is as high as any.
LEMMA HighestExists ==
  ASSUME NEW R \in SUBSET Receipts, R # {}
  PROVE  /\ Highest(R) \in R
         /\ \A r \in R : AtLeast(STATE_TRANSITIONS[ActionOf[Highest(R)]], STATE_TRANSITIONS[ActionOf[r]])
<1> DEFINE T(r) == STATE_TRANSITIONS[ActionOf[r]]
<1>1. \A r \in R : ActionOf[r] \in ReceiptAction
  BY ReceiptsAssumption
<1>2. \A r \in R : T(r) \in {"Delivered", "Read", "Viewed"}
  BY <1>1 DEF ReceiptAction, STATE_TRANSITIONS
<1>3. /\ AtLeast("Viewed", "Viewed") /\ AtLeast("Viewed", "Read") /\ AtLeast("Viewed", "Delivered")
      /\ AtLeast("Read", "Read") /\ AtLeast("Read", "Delivered") /\ AtLeast("Delivered", "Delivered")
  BY DEF AtLeast, STATUS_NUMBERS
<1> HIDE DEF T
<1>4. \E r \in R : \A other \in R : AtLeast(T(r), T(other))
  <2>1. CASE \E r \in R : T(r) = "Viewed"
    BY <2>1, <1>2, <1>3
  <2>2. CASE (\E r \in R : T(r) = "Read") /\ ~\E r \in R : T(r) = "Viewed"
    BY <2>2, <1>2, <1>3
  <2>3. CASE (~\E r \in R : T(r) = "Read") /\ ~\E r \in R : T(r) = "Viewed"
    BY <2>3, <1>2, <1>3
  <2> QED
    BY <2>1, <2>2, <2>3
<1> QED
  BY <1>4 DEF Highest, T

\* Applying receipts keeps what there is, and shows those of recipients.
LEMMA WithReceiptsOnward ==
  ASSUME NEW s \in SendStates, NEW R \in SUBSET Receipts
  PROVE  /\ WithReceipts(s, R) \in SendStates
         /\ Onward(s, WithReceipts(s, R))
         /\ \A r \in R : HasRecipient(s, r) => Shows(WithReceipts(s, R), r)
<1> DEFINE new == WithReceipts(s, R)
           h(c) == Highest(From(c, R))
<1>1. ASSUME NEW c \in Recipients, s[c] # None, From(c, R) # {}
      PROVE  /\ s[c] \in SendStatus /\ new[c] = sendStateReducer(s[c], ActionOf[h(c)])
             /\ ActionOf[h(c)] \in ReceiptAction
             /\ \A r \in From(c, R) :
                  AtLeast(STATE_TRANSITIONS[ActionOf[h(c)]], STATE_TRANSITIONS[ActionOf[r]])
  <2>1. From(c, R) \in SUBSET Receipts
    BY DEF From
  <2>2. h(c) \in Receipts
    BY <1>1, <2>1, HighestExists
  <2> QED
    BY <1>1, <2>1, <2>2, HighestExists, ReceiptsAssumption DEF WithReceipts, SendStates
<1>2. ASSUME NEW c \in Recipients, s[c] = None \/ From(c, R) = {}
      PROVE  new[c] = s[c]
  BY <1>2 DEF WithReceipts
<1>3. ASSUME NEW c \in Recipients
      PROVE  new[c] \in SendStatus \cup {None} /\ ~Backwards(s[c], new[c])
  <2>1. CASE s[c] = None \/ From(c, R) = {}
    <3>1. new[c] = s[c] /\ s[c] \in SendStatus \cup {None}
      BY <2>1, <1>2 DEF SendStates
    <3>2. s[c] \in SendStatus => AtLeast(s[c], s[c])
      BY NumbersAreNumbers DEF AtLeast
    <3> QED
      BY <3>1, <3>2 DEF Backwards
  <2>2. CASE s[c] # None /\ From(c, R) # {}
    BY <2>2, <1>1, ReducerOnward, ReceiptActions, NoneIsNoStatus
  <2> QED
    BY <2>1, <2>2
<1>4. new \in SendStates
  BY <1>3 DEF WithReceipts, SendStates
<1>5. ASSUME NEW r \in R, HasRecipient(s, r) PROVE Shows(new, r)
  <2> DEFINE c == RecipientOf[r]
  <2>1. c \in Recipients /\ ActionOf[r] \in ReceiptAction /\ r \in From(c, R) /\ s[c] # None
    BY <1>5, ReceiptsAssumption DEF From, HasRecipient
  <2>2. /\ s[c] \in SendStatus /\ new[c] = sendStateReducer(s[c], ActionOf[h(c)])
        /\ ActionOf[h(c)] \in ReceiptAction
        /\ AtLeast(STATE_TRANSITIONS[ActionOf[h(c)]], STATE_TRANSITIONS[ActionOf[r]])
    BY <2>1, <1>1
  <2>3. new[c] \in SendStatus /\ AtLeast(new[c], STATE_TRANSITIONS[ActionOf[h(c)]])
    BY <2>2, ReducerReaches, ReducerOnward, ReceiptActions
  <2>4. AtLeast(new[c], STATE_TRANSITIONS[ActionOf[r]])
    BY <2>1, <2>2, <2>3, ReceiptActions, NumbersAreNumbers DEF AtLeast
  <2> QED
    BY <2>3, <2>4, <1>4, NoneIsNoStatus DEF Shows, HasRecipient
<1> QED
  BY <1>3, <1>4, <1>5 DEF Onward

-----------------------------------------------------------------------------
(* The inductive invariant.                                                *)

\* The model and the row of a message agree, where there are both.
InStep == message # None /\ stored # None => message = stored

\* How far the transcript is, and what there is of its message.
Progress ==
  /\ handling \in {"none", "unprocessed"} => message = None /\ stored = None
  /\ handling \in {"first", "unsaved"} => message # None /\ stored = None
  /\ handling \in {"saved", "second"} => message # None
  /\ handling \in {"here", "saved", "second", "handled"} => stored # None
  /\ handling = "here" => \A c \in Recipients : stored[c] # None
  /\ sending => handling = "here"
  /\ batch # None => stored # None
  /\ handling \notin {"first", "unsaved", "second"} => taken = {}

\* What the batch has found has a recipient, what it removes shows, and so
\* does what forMessage has put into a message that is not saved yet.
InHandShown ==
  /\ batch # None => \A r \in batch.receipts :
       IF batch.at = "found" THEN HasRecipient(stored, r) ELSE Shows(stored, r)
  /\ handling = "unsaved" => \A r \in taken : r \in forgone \/ Shows(message, r)

ReceiptsInv == TypeOK /\ InStep /\ Progress /\ InHandShown /\ NoneForgotten

KeepsStatus == stored # None => stored' # None /\ \A c \in Recipients : ~Backwards(stored[c], stored'[c])

LEMMA ReceiptsInitially == Init => ReceiptsInv
<1> SUFFICES ASSUME Init PROVE ReceiptsInv
  OBVIOUS
<1>1. restarts \in 0..MaxRestarts
  BY ReceiptsAssumption DEF Init
<1>2. TypeOK
  <2>1. sending \in BOOLEAN /\ started \in BOOLEAN
    BY Zenon DEF Init
  <2> QED
    BY <1>1, <2>1 DEF Init, TypeOK
<1>3. InStep /\ Progress /\ InHandShown /\ NoneForgotten
  BY DEF Init, InStep, Progress, InHandShown, NoneForgotten
<1> QED
  BY <1>2, <1>3 DEF ReceiptsInv

\* What is so of the statuses when nothing of them changes.
LEMMA Standing == ASSUME NEW s \in SendStates PROVE Onward(s, s)
BY NumbersAreNumbers DEF Onward, Backwards, SendStates, AtLeast

LEMMA SameStored == ReceiptsInv /\ UNCHANGED stored => KeepsStatus
BY Standing DEF ReceiptsInv, TypeOK, KeepsStatus, Onward

\* Who takes the model of a stored message and puts an onward one into the
\* cache and the table.  The batch stays, or has found its receipts shown.
LEMMA StoredOnward ==
  ASSUME ReceiptsInv, stored # None,
         message' \in SendStates, Onward(Model, message'), stored' = message',
         UNCHANGED <<arrived, receiptVars, handlingVars, started, restarts>>,
         sending' \in BOOLEAN, sending' => handling = "here",
         \/ UNCHANGED batch
         \/ batch' \in Batch /\ batch'.at = "saved" /\ \A r \in batch'.receipts : Shows(message', r)
  PROVE  ReceiptsInv' /\ KeepsStatus
<1>1. /\ Model = stored /\ stored \in SendStates
      /\ \A r \in Receipts : /\ HasRecipient(stored, r) => HasRecipient(stored', r)
                             /\ Shows(stored, r) => Shows(stored', r)
  BY OnwardKeeps DEF ReceiptsInv, TypeOK, InStep, Model
<1>2. /\ stored' # None /\ message' # None
      /\ \A c \in Recipients : ~Backwards(stored[c], stored'[c])
  BY <1>1, NoneIsNoStatus DEF Onward
<1>3. TypeOK' /\ InStep'
  BY DEF ReceiptsInv, TypeOK, InStep, receiptVars, handlingVars
<1>4. Progress'
  <2>1. handling = "here" => \A c \in Recipients : stored'[c] # None
    BY <1>2 DEF ReceiptsInv, Progress, Backwards
  <2> QED
    BY <1>2, <2>1 DEF ReceiptsInv, Progress, handlingVars
<1>5. InHandShown'
  <2>1. batch' # None => \A r \in batch'.receipts :
          IF batch'.at = "found" THEN HasRecipient(stored', r) ELSE Shows(stored', r)
    BY <1>1 DEF ReceiptsInv, TypeOK, InHandShown, Batch
  <2>2. handling # "unsaved"
    BY DEF ReceiptsInv, Progress
  <2> QED
    BY <2>1, <2>2 DEF InHandShown, handlingVars
<1>6. NoneForgotten'
  BY <1>1 DEF ReceiptsInv, TypeOK, NoneForgotten, receiptVars, handlingVars
<1> QED
  BY <1>2, <1>3, <1>4, <1>5, <1>6 DEF ReceiptsInv, KeepsStatus

-----------------------------------------------------------------------------
(* The actions.                                                            *)

LEMMA ReceiptStep ==
  ASSUME ReceiptsInv, NEW r \in Receipts, Arrive(r) \/ onReceipt(r) \/ BatchRemoves(r)
  PROVE  ReceiptsInv' /\ KeepsStatus
<1> USE DEF ReceiptsInv, messageVars, handlingVars
<1>0. UNCHANGED <<messageVars, handlingVars, sending, restarts>>
  BY DEF Arrive, onReceipt, BatchRemoves
<1>1. CASE Arrive(r) \/ onReceipt(r)
  <2>1. UNCHANGED batch /\ arrived' \subseteq Receipts
    BY <1>1 DEF Arrive, onReceipt, TypeOK
  <2>2. TypeOK'
    BY <1>1, <1>0 DEF Arrive, onReceipt, TypeOK
  <2>3. InStep' /\ Progress' /\ InHandShown'
    BY <1>0, <2>1 DEF InStep, Progress, InHandShown
  <2>4. NoneForgotten'
    BY <1>1, <1>0 DEF Arrive, onReceipt, NoneForgotten
  <2> QED
    BY <1>0, <2>2, <2>3, <2>4, SameStored
<1>2. CASE BatchRemoves(r)
  <2>1. /\ batch \in Batch /\ batch.at = "saved" /\ r \in batch.receipts
        /\ batch' = [batch EXCEPT !.receipts = @ \ {r}]
        /\ batch' \in Batch /\ batch'.at = "saved" /\ batch'.receipts \subseteq batch.receipts
    BY <1>2 DEF BatchRemoves, TypeOK, Batch
  <2>2. Shows(stored, r)
    BY <2>1, NoneIsNoStatus DEF InHandShown
  <2>3. TypeOK'
    BY <1>2, <1>0, <2>1 DEF BatchRemoves, TypeOK
  <2>4. InStep' /\ Progress' /\ InHandShown'
    BY <1>0, <2>1, NoneIsNoStatus DEF InStep, Progress, InHandShown
  <2>5. NoneForgotten'
    BY <1>2, <1>0, <2>2 DEF BatchRemoves, NoneForgotten
  <2> QED
    BY <1>0, <2>3, <2>4, <2>5, SameStored
<1> QED
  BY <1>1, <1>2

LEMMA BatchReadsStep == ASSUME ReceiptsInv, BatchReads PROVE ReceiptsInv' /\ KeepsStatus
<1> USE DEF ReceiptsInv, BatchReads, handlingVars
<1>1. batch = None /\ UNCHANGED <<arrived, rows, unqueued, cached, stored, handlingVars, sending, started, restarts>>
      /\ waiting' = {}
  OBVIOUS
<1>2. CASE UNCHANGED <<batch, message>>
  BY <1>1, <1>2, SameStored DEF TypeOK, InStep, Progress, InHandShown, NoneForgotten
<1>3. CASE /\ \E r \in waiting : IsTarget(r)
           /\ batch' = [at |-> "found", receipts |-> {r \in waiting : IsTarget(r)}] /\ message' = Model
  <2>1. /\ stored # None /\ Model = stored
        /\ batch' \in Batch /\ batch'.at = "found"
        /\ \A r \in batch'.receipts : HasRecipient(stored, r)
    BY <1>3 DEF IsTarget, Model, InStep, TypeOK, Batch
  <2>2. TypeOK' /\ InStep' /\ Progress'
    BY <1>1, <1>3, <2>1 DEF TypeOK, InStep, Progress
  <2>3. InHandShown' /\ NoneForgotten'
    BY <1>1, <2>1 DEF InHandShown, Progress, NoneForgotten
  <2> QED
    BY <1>1, <2>2, <2>3, SameStored
<1> QED
  BY <1>2, <1>3

LEMMA BatchAppliesStep == ASSUME ReceiptsInv, BatchApplies PROVE ReceiptsInv' /\ KeepsStatus
<1>1. /\ batch \in Batch /\ batch.at = "found" /\ stored # None
      /\ \A r \in batch.receipts : HasRecipient(stored, r)
  BY DEF ReceiptsInv, TypeOK, Progress, InHandShown, BatchApplies
<1>2. Model = stored /\ Model \in SendStates
  BY <1>1 DEF ReceiptsInv, TypeOK, InStep, Model
<1>3. Valid \subseteq batch.receipts /\ Valid \in SUBSET Receipts
  BY <1>1 DEF Valid, Batch
<1>4. /\ message' \in SendStates /\ Onward(Model, message')
      /\ \A r \in Valid : Shows(message', r)
  BY <1>1, <1>2, <1>3, WithReceiptsOnward DEF BatchApplies
<1>5. /\ batch' \in Batch /\ batch'.at = "saved" /\ \A r \in batch'.receipts : Shows(message', r)
  BY <1>3, <1>4 DEF BatchApplies, Batch
<1>6. /\ stored' = message' /\ UNCHANGED <<arrived, receiptVars, handlingVars, started, restarts>>
      /\ sending' \in BOOLEAN /\ (sending' => handling = "here")
  BY DEF BatchApplies, ReceiptsInv, TypeOK, Progress
<1> QED
  BY <1>1, <1>4, <1>5, <1>6, StoredOnward

LEMMA BatchEndsStep == ASSUME ReceiptsInv, BatchEnds PROVE ReceiptsInv' /\ KeepsStatus
BY SameStored DEF BatchEnds, ReceiptsInv, TypeOK, InStep, Progress, InHandShown, NoneForgotten,
   receiptVars, messageVars, handlingVars

LEMMA EnqueueStep == ASSUME ReceiptsInv, enqueueMessageForSend PROVE ReceiptsInv' /\ KeepsStatus
<1>1. message' \in SendStates /\ \A c \in Recipients : message'[c] # None
  BY NoneIsNoStatus DEF enqueueMessageForSend, SendStates, SendStatus
<1>2. message' # None /\ stored' = message' /\ stored = None
  BY <1>1, NoneIsNoStatus DEF enqueueMessageForSend
<1> QED
  BY <1>1, <1>2 DEF enqueueMessageForSend, ReceiptsInv, TypeOK, InStep, Progress, InHandShown,
     NoneForgotten, KeepsStatus, receiptVars

LEMMA SendSettlesStep ==
  ASSUME ReceiptsInv, NEW successful \in SUBSET Recipients, NEW failed \in SUBSET Recipients,
         NEW again \in BOOLEAN, SendSettles(successful, failed, again)
  PROVE  ReceiptsInv' /\ KeepsStatus
<1>1. stored # None /\ Model = stored /\ Model \in SendStates /\ handling = "here"
  BY DEF SendSettles, ReceiptsInv, TypeOK, InStep, Progress, Model
<1>2. ASSUME NEW c \in Recipients
      PROVE  message'[c] \in SendStatus \cup {None} /\ ~Backwards(Model[c], message'[c])
  <2>1. "Sent" \in SendActionType /\ "Failed" \in SendActionType
    BY DEF SendActionType
  <2>2. c \in successful \cup failed => Model[c] \in SendStatus
    BY <1>1, <1>2 DEF SendSettles, SendStates
  <2>3. CASE c \in successful
    BY <1>2, <2>1, <2>2, <2>3, ReducerOnward DEF SendSettles
  <2>4. CASE c \notin successful /\ c \in failed
    BY <1>2, <2>1, <2>2, <2>4, ReducerOnward DEF SendSettles
  <2>5. CASE c \notin successful /\ c \notin failed
    <3>1. message'[c] = Model[c]
      BY <1>2, <2>5 DEF SendSettles
    <3> QED
      BY <1>1, <1>2, <3>1, Standing DEF Onward, SendStates
  <2> QED
    BY <2>3, <2>4, <2>5
<1>3. message' \in SendStates /\ Onward(Model, message')
  BY <1>2 DEF SendSettles, SendStates, Onward
<1>4. /\ stored' = message' /\ UNCHANGED <<arrived, receiptVars, batch, handlingVars, started, restarts>>
      /\ sending' \in BOOLEAN
  BY DEF SendSettles
<1> QED
  BY <1>1, <1>3, <1>4, StoredOnward

LEMMA RetryStep == ASSUME ReceiptsInv, retryMessageSend PROVE ReceiptsInv' /\ KeepsStatus
<1>1. /\ stored # None /\ Model = stored /\ Model \in SendStates /\ handling = "here"
      /\ \A c \in Recipients : Model[c] \in SendStatus
  BY DEF retryMessageSend, ReceiptsInv, TypeOK, InStep, Progress, Model, SendStates
<1>2. ASSUME NEW c \in Recipients
      PROVE  message'[c] \in SendStatus /\ ~Backwards(Model[c], message'[c])
  <2>1. "ManuallyRetried" \in SendActionType
    BY DEF SendActionType
  <2>2. CASE isSent(Model[c])
    <3>1. message'[c] = Model[c]
      BY <1>2, <2>2 DEF retryMessageSend
    <3> QED
      BY <1>1, <1>2, <3>1, Standing DEF Onward
  <2>3. CASE ~isSent(Model[c])
    BY <1>1, <1>2, <2>1, <2>3, ReducerOnward DEF retryMessageSend
  <2> QED
    BY <2>2, <2>3
<1>3. message' \in SendStates /\ Onward(Model, message')
  BY <1>2 DEF retryMessageSend, SendStates, Onward
<1>4. /\ stored' = message' /\ UNCHANGED <<arrived, receiptVars, batch, handlingVars, started, restarts>>
      /\ sending' \in BOOLEAN
  BY DEF retryMessageSend
<1> QED
  BY <1>1, <1>3, <1>4, StoredOnward

\* A transcript: what forMessage takes is in hand, and its rows are gone.
LEMMA TakeStep ==
  ASSUME ReceiptsInv, handleDataMessage \/ SecondRun
  PROVE  ReceiptsInv' /\ KeepsStatus
<1>0. /\ taken = {} /\ taken' = cached /\ cached' = {} /\ rows' = rows \ cached
      /\ UNCHANGED <<arrived, unqueued, waiting, batch, stored, forgone, sending, started, restarts>>
  BY DEF ReceiptsInv, Progress, handleDataMessage, SecondRun, forMessage, messageVars
<1>1. /\ message' \in SendStates /\ InStep' /\ Progress' /\ handling' \in {"first", "second"}
  <2>1. CASE handleDataMessage
    <3>1. message' \in SendStates /\ stored = None /\ handling' = "first"
      BY <2>1 DEF handleDataMessage, SendStates, SendStatus
    <3> QED
      BY <1>0, <2>1, <3>1, NoneIsNoStatus DEF handleDataMessage, ReceiptsInv, InStep, Progress
  <2>2. CASE SecondRun
    BY <1>0, <2>2 DEF SecondRun, messageVars, ReceiptsInv, TypeOK, InStep, Progress
  <2> QED
    BY <2>1, <2>2
<1>2. TypeOK'
  BY <1>0, <1>1 DEF ReceiptsInv, TypeOK
<1>3. InHandShown' /\ NoneForgotten'
  BY <1>0, <1>1 DEF ReceiptsInv, InHandShown, NoneForgotten
<1> QED
  BY <1>0, <1>1, <1>2, <1>3, SameStored DEF ReceiptsInv

\* What ApplyTaken does to the model of the message.
LEMMA Applied ==
  ASSUME ReceiptsInv, message # None, ApplyTaken
  PROVE  /\ message' \in SendStates /\ message' # None /\ Onward(message, message')
         /\ forgone \subseteq forgone' /\ forgone' \subseteq Receipts
         /\ \A r \in taken : r \in forgone' \/ Shows(message', r)
<1>1. message \in SendStates /\ taken \ Ineffective \in SUBSET Receipts
  BY DEF ReceiptsInv, TypeOK
<1>2. \A r \in taken \ Ineffective : HasRecipient(message, r)
  BY DEF Ineffective
<1> QED
  BY <1>1, <1>2, WithReceiptsOnward, NoneIsNoStatus DEF ApplyTaken, Ineffective, ReceiptsInv, TypeOK

LEMMA FirstRunEndsStep == ASSUME ReceiptsInv, FirstRunEnds PROVE ReceiptsInv' /\ KeepsStatus
<1>1. message # None /\ stored = None /\ batch = None
  BY DEF ReceiptsInv, Progress, FirstRunEnds
<1>2. /\ message' \in SendStates /\ message' # None
      /\ forgone \subseteq forgone' /\ forgone' \subseteq Receipts
      /\ \A r \in taken : r \in forgone' \/ Shows(message', r)
  BY <1>1, Applied DEF FirstRunEnds
<1> QED
  BY <1>1, <1>2 DEF FirstRunEnds, ReceiptsInv, TypeOK, InStep, Progress, InHandShown, NoneForgotten,
     KeepsStatus, receiptVars

LEMMA SaveNewMessageStep == ASSUME ReceiptsInv, SaveNewMessage PROVE ReceiptsInv' /\ KeepsStatus
<1>1. /\ message # None /\ stored = None /\ batch = None /\ stored' = message /\ taken' = {}
      /\ handling' = "saved" /\ UNCHANGED <<arrived, receiptVars, batch, message, forgone, sending, started, restarts>>
      /\ \A r \in taken : r \in forgone \/ Shows(message, r)
      /\ ~sending
  BY DEF ReceiptsInv, Progress, InHandShown, SaveNewMessage
<1>2. NoneForgotten'
  BY <1>1 DEF ReceiptsInv, NoneForgotten, receiptVars, Shows
<1> QED
  BY <1>1, <1>2 DEF ReceiptsInv, TypeOK, InStep, Progress, InHandShown, KeepsStatus, receiptVars

LEMMA SecondRunEndsStep == ASSUME ReceiptsInv, SecondRunEnds PROVE ReceiptsInv' /\ KeepsStatus
<1>1. message # None /\ stored = message /\ stored \in SendStates /\ ~sending
  BY DEF ReceiptsInv, Progress, InStep, TypeOK, SecondRunEnds
<1>2. /\ message' \in SendStates /\ message' # None /\ Onward(stored, message')
      /\ forgone \subseteq forgone' /\ forgone' \subseteq Receipts
      /\ \A r \in taken : r \in forgone' \/ Shows(message', r)
  BY <1>1, Applied DEF SecondRunEnds
<1>3. /\ stored' = message' /\ taken' = {} /\ handling' = "handled"
      /\ UNCHANGED <<arrived, receiptVars, batch, sending, started, restarts>>
  BY DEF SecondRunEnds
<1>4. \A r \in Receipts : /\ HasRecipient(stored, r) => HasRecipient(stored', r)
                          /\ Shows(stored, r) => Shows(stored', r)
  BY <1>1, <1>2, <1>3, OnwardKeeps
<1>5. TypeOK' /\ InStep' /\ Progress'
  BY <1>1, <1>2, <1>3 DEF ReceiptsInv, TypeOK, InStep, Progress, receiptVars
<1>6. InHandShown'
  BY <1>3, <1>4 DEF ReceiptsInv, TypeOK, InHandShown, Batch
<1>7. NoneForgotten'
  BY <1>2, <1>3, <1>4 DEF ReceiptsInv, TypeOK, NoneForgotten, receiptVars
<1>8. KeepsStatus
  BY <1>2, <1>3 DEF KeepsStatus, Onward
<1> QED
  BY <1>5, <1>6, <1>7, <1>8 DEF ReceiptsInv

LEMMA RecipientUpdateStep ==
  ASSUME ReceiptsInv, NEW c \in Recipients, RecipientUpdate(c)
  PROVE  ReceiptsInv' /\ KeepsStatus
<1>1. Model \in SendStates /\ message' = Updated(Model, c)
      /\ UNCHANGED <<arrived, receiptVars, batch, handlingVars, sending, started, restarts>>
  BY DEF ReceiptsInv, TypeOK, RecipientUpdate, Model
<1>2. message' \in SendStates /\ Onward(Model, message')
  <2>1. message' = [Model EXCEPT ![c] = IF @ = None THEN "Sent" ELSE sendStateReducer(@, "Sent")]
    BY <1>1 DEF Updated
  <2>2. "Sent" \in SendStatus /\ "Sent" \in SendActionType
    BY DEF SendStatus, SendActionType
  <2>3. message'[c] \in SendStatus /\ ~Backwards(Model[c], message'[c])
    <3>1. CASE Model[c] = None
      BY <1>1, <2>1, <2>2, <3>1 DEF SendStates, Backwards
    <3>2. CASE Model[c] # None
      BY <1>1, <2>1, <2>2, <3>2, ReducerOnward DEF SendStates
    <3> QED
      BY <3>1, <3>2
  <2>4. \A d \in Recipients \ {c} : message'[d] = Model[d]
    BY <1>1, <2>1 DEF SendStates
  <2> QED
    BY <1>1, <2>1, <2>3, <2>4, Standing DEF SendStates, Onward
<1>3. CASE stored # None
  <2>1. stored' = message' /\ sending' \in BOOLEAN /\ (sending' => handling = "here")
    BY <1>1, <1>3 DEF RecipientUpdate, ReceiptsInv, TypeOK, Progress
  <2> QED
    BY <1>1, <1>2, <1>3, <2>1, StoredOnward
<1>4. CASE stored = None
  <2>1. stored' = None /\ batch = None /\ message # None /\ Model = message
    BY <1>4 DEF RecipientUpdate, ReceiptsInv, Progress, Model
  <2>2. \A r \in taken : Shows(message, r) => Shows(message', r)
    BY <1>1, <1>2, <2>1, OnwardKeeps DEF ReceiptsInv, TypeOK
  <2>3. message' # None
    BY <1>2, NoneIsNoStatus
  <2>4. TypeOK' /\ InStep' /\ KeepsStatus
    BY <1>1, <1>2, <1>4, <2>1 DEF ReceiptsInv, TypeOK, InStep, KeepsStatus, receiptVars, handlingVars
  <2>5. Progress' /\ NoneForgotten'
    BY <1>1, <1>4, <2>1, <2>3 DEF ReceiptsInv, Progress, NoneForgotten, RecipientUpdate, receiptVars, handlingVars
  <2>6. InHandShown'
    BY <1>1, <1>4, <2>1, <2>2 DEF ReceiptsInv, InHandShown, handlingVars
  <2> QED
    BY <2>4, <2>5, <2>6 DEF ReceiptsInv
<1> QED
  BY <1>3, <1>4

LEMMA RestartStep == ASSUME ReceiptsInv, Restart PROVE ReceiptsInv' /\ KeepsStatus
<1>1. /\ batch' = None /\ message' = None /\ taken' = {} /\ forgone' = forgone \cup taken
      /\ UNCHANGED <<arrived, rows, stored, sending>>
  BY DEF Restart
<1>2. TypeOK' /\ InStep' /\ InHandShown' /\ NoneForgotten'
  <2>1. restarts' \in 0..MaxRestarts
    BY ReceiptsAssumption DEF Restart, ReceiptsInv, TypeOK
  <2>2. handling' \in {"none", "here", "unprocessed", "handled"}
    BY DEF Restart, ReceiptsInv, TypeOK
  <2> QED
    BY <1>1, <2>1, <2>2 DEF Restart, ReceiptsInv, TypeOK, InStep, InHandShown, NoneForgotten
<1>3. Progress'
  BY <1>1 DEF Restart, ReceiptsInv, TypeOK, Progress
<1> QED
  BY <1>1, <1>2, <1>3, SameStored DEF ReceiptsInv

LEMMA RunAllStep == ASSUME ReceiptsInv, runAllSyncTasks PROVE ReceiptsInv' /\ KeepsStatus
BY SameStored DEF runAllSyncTasks, ReceiptsInv, TypeOK, InStep, Progress, InHandShown, NoneForgotten,
   messageVars, handlingVars

LEMMA ReceiptsStep == ReceiptsInv /\ [Next]_vars => ReceiptsInv' /\ (KeepsStatus \/ UNCHANGED vars)
<1> SUFFICES ASSUME ReceiptsInv, [Next]_vars
             PROVE  ReceiptsInv' /\ (KeepsStatus \/ UNCHANGED vars)
  OBVIOUS
<1>1. CASE UNCHANGED vars
  BY <1>1 DEF vars, receiptVars, messageVars, handlingVars, ReceiptsInv, TypeOK, InStep, Progress,
     InHandShown, NoneForgotten
<1>2. CASE \E r \in Receipts : Arrive(r) \/ onReceipt(r) \/ BatchRemoves(r)
  BY <1>2, ReceiptStep
<1>3. CASE \E successful, failed \in SUBSET Recipients, again \in BOOLEAN : SendSettles(successful, failed, again)
  BY <1>3, SendSettlesStep
<1>4. CASE \E c \in Recipients : RecipientUpdate(c)
  BY <1>4, RecipientUpdateStep
<1>5. CASE BatchReads \/ BatchApplies \/ BatchEnds \/ enqueueMessageForSend \/ retryMessageSend
  BY <1>5, BatchReadsStep, BatchAppliesStep, BatchEndsStep, EnqueueStep, RetryStep
<1>6. CASE handleDataMessage \/ FirstRunEnds \/ SaveNewMessage \/ SecondRun \/ SecondRunEnds
  BY <1>6, TakeStep, FirstRunEndsStep, SaveNewMessageStep, SecondRunEndsStep
<1>7. CASE Restart \/ runAllSyncTasks
  BY <1>7, RestartStep, RunAllStep
<1> QED
  BY <1>1, <1>2, <1>3, <1>4, <1>5, <1>6, <1>7 DEF Next

-----------------------------------------------------------------------------
\* A receipt leaves syncTasks when the stored message shows it, or when
\* forMessage has taken it, and never else.
THEOREM ReceiptsNoneForgotten == Spec => []NoneForgotten
<1>1. ReceiptsInv /\ UNCHANGED vars => ReceiptsInv'
  BY ReceiptsStep
<1>2. ReceiptsInv => NoneForgotten
  BY DEF ReceiptsInv
<1> QED
  BY <1>2, ReceiptsInitially, ReceiptsStep, PTL DEF Spec

\* What the database says of the delivery to a recipient never goes
\* backwards, whoever writes it.
THEOREM ReceiptsNeverBackwards == Spec => NeverBackwards
<1>1. ReceiptsInv /\ [Next]_vars =>
        [stored # None => stored' # None /\ \A c \in Recipients : ~Backwards(stored[c], stored'[c])]_vars
  BY ReceiptsStep DEF KeepsStatus
<1>2. ReceiptsInv /\ [Next]_vars => ReceiptsInv'
  BY ReceiptsStep
<1> QED
  BY <1>1, <1>2, ReceiptsInitially, PTL DEF Spec, NeverBackwards

\* The variables keep their types.
THEOREM ReceiptsTypeCorrect == Spec => []TypeOK
<1>1. ReceiptsInv => TypeOK
  BY DEF ReceiptsInv
<1> QED
  BY <1>1, ReceiptsInitially, ReceiptsStep, PTL DEF Spec
=============================================================================
