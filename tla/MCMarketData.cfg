SPECIFICATION MarketSpec
CONSTANTS
  Period <- MCPeriod
  Price = {0, 1, 2}
  Quantity = {2}
  Batches <- MCBatches
  Day = 2
  Window = 3
  MaxClock = 4
  MaxTrades = 3
  MaxFaults = 1
  MaxRestarts = 1
INVARIANTS
  BuffersAreExact
  RowsAreExact
  EveryTradeIsCharted
  VwapWithinCandles
  WindowIsContiguous
  MeasuresAreDefined
PROPERTIES
  ClosedCandlesAreFinal
CHECK_DEADLOCK FALSE
