CONSTANTS
  a = a
  b = b
  delivery = delivery
  read = read
  late = late
  None = None
  Recipients <- MCRecipients
  Receipts <- MCReceipts
  RecipientOf <- MCRecipientOf
  ActionOf <- MCActionOf
  Unwanted <- MCUnwanted
  SentTo <- MCSentTo
  MaxRestarts = 1
SPECIFICATION FairSpec
INVARIANT NoneForgotten
PROPERTIES NeverBackwards ReceiptsApplied
CHECK_DEADLOCK FALSE
