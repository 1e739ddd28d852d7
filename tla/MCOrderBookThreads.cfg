SPECIFICATION FairSpec
CONSTANTS
  Price <- MCPrice
  OrderId = {o1, o2}
  Thread = {t1, t2, t3}
  None = None
  NoOrder = NoOrder
  NoId = NoId
  MaxQuantity = 2
  Requests <- MCFewRequests
INVARIANTS
  SnapshotNotCrossed
PROPERTIES
  LockIsReleased
