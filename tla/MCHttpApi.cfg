SPECIFICATION Spec
CONSTANTS
  Requests <- AllRequests
  Ids = {"17", "orders", "cards", "price", "trades"}
  Quantities <- SomeQuantities
  Prices <- SomePrices
  NoPrice = NoPrice
  NoRequest = NoRequest
  Width = 4096
  MaxQuantity = 1000
  MaxRequests = 2
INVARIANTS
  RoutesAreUnambiguous
  
CHECK_DEADLOCK FALSE
