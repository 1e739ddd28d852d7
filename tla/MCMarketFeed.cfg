SPECIFICATION Spec
CONSTANTS
  Card = {k1, k2}
  NoBook = NoBook
  MaxChanges = 2
  MaxLoads = 2
  MaxErrors = 1
  MaxDrops = 1
INVARIANTS
  OrderBookIsRealTime
CHECK_DEADLOCK FALSE
