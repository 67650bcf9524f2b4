----------------------------- MODULE MCReceipts -----------------------------
(* Instances of Receipts.                                                  *)
EXTENDS Receipts, FiniteSetsExt

CONSTANTS a, b, delivery, read, late

MCRecipients == {a, b}
MCReceipts == {delivery, read, late}
MCRecipientOf == [r \in MCReceipts |-> IF r = late THEN b ELSE a]
MCActionOf ==
  [r \in MCReceipts |-> IF r = read THEN "GotReadReceipt" ELSE "GotDeliveryReceipt"]
MCUnwanted == {}
MCSentTo == {a}

(* WithReceipts is what applying the receipts one by one gives, in the     *)
(* order in which FoldSet takes them.                                      *)
ASSUME OneByOne ==
  \A status \in SendStatus, receipts \in SUBSET From(a, MCReceipts) :
    WithReceipts([c \in Recipients |-> status], receipts)[a]
      = FoldSet(LAMBDA r, s : sendStateReducer(s, ActionOf[r]), status, receipts)
=============================================================================
