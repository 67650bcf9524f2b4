------------------------------ MODULE SendState ------------------------------
(***************************************************************************)
(* What a message knows of its delivery to one recipient                   *)
(* (ts/messages/MessageSendState.ts).                                      *)
(***************************************************************************)
EXTENDS Naturals

STATUS_NUMBERS ==
  [Failed |-> 0, Pending |-> 1, Sent |-> 2, Delivered |-> 3, Read |-> 4, Viewed |-> 5, Skipped |-> 6]

SendStatus == {"Failed", "Pending", "Sent", "Delivered", "Read", "Viewed", "Skipped"}

UNDELIVERED_SEND_STATUSES == {"Pending", "Failed"}

STATE_TRANSITIONS ==
  [Failed |-> "Failed", ManuallyRetried |-> "Pending", Sent |-> "Sent",
   GotDeliveryReceipt |-> "Delivered", GotReadReceipt |-> "Read", GotViewedReceipt |-> "Viewed"]

SendActionType ==
  {"Failed", "ManuallyRetried", "Sent", "GotDeliveryReceipt", "GotReadReceipt", "GotViewedReceipt"}

ReceiptAction == {"GotDeliveryReceipt", "GotReadReceipt", "GotViewedReceipt"}

AtLeast(a, b) == STATUS_NUMBERS[a] >= STATUS_NUMBERS[b]

isSent(status) == AtLeast(status, "Sent")

maxStatus(a, b) == IF STATUS_NUMBERS[a] > STATUS_NUMBERS[b] THEN a ELSE b

sendStateReducer(status, action) ==
  IF status = "Pending" /\ action = "Failed" THEN "Failed"
  ELSE maxStatus(status, STATE_TRANSITIONS[action])
=============================================================================
