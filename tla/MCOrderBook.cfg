SPECIFICATION Spec
CONSTANTS
  Price <- MCPrice
  OrderId = {o1, o2, o3}
  Thread = {t1, t2}
  None = None
  NoOrder = NoOrder
  NoId = NoId
  MaxQuantity = 2
  Requests <- MCRequests
SYMMETRY ThreadAndOrderSymmetry
INVARIANTS
  TypeOK
  NotCrossed
  OnlyOpenOrdersRest
  FillsAreTrades
PROPERTIES
  CancelIsFinal
  ImplementsEngine
