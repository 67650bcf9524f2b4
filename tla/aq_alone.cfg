SPECIFICATION FairSpec
CONSTANTS
  Values = {x, y}
  MaxAdds = 5
  AddsWhileEnding = FALSE
INVARIANTS
  InOrder
PROPERTIES
  EveryValueIsConsumed
CHECK_DEADLOCK FALSE
