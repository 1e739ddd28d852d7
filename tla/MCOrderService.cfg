SPECIFICATION Spec
CONSTANTS
  User = {u1, u2}
  Price <- MCPrice
  OrderId <- MCOrderId
  Scale = 4
  Cent = 2
  TradeXp = 0
  Threshold <- MCThreshold
  FallsShort <- MCFallsShort
  Opening <- MCOpening
  Requests <- MCRequests
  MarketPrices = {0, 4}
  NoOrder = NoOrder
  Prices = {4, 5}
  Quantities = {1, 2}
  Wealth = 2
  MaxOrders = 3
  MaxFaults = 1
  MaxCrashes = 1
SYMMETRY UserSymmetry
INVARIANTS
  LimitsAreHonoured
  ClosedOrdersDoNotRest
  TimePriority
  RepliesAreSettled
  NeverOfferedTwice
  CostWithinValidation
PROPERTIES
  CancelIsFinal
CHECK_DEADLOCK FALSE
