SPECIFICATION Spec
CONSTANTS
  User = {u1, u2, u3}
  Scale = 2
  TradeXp = 1
  Threshold <- MCThreshold
  FallsShort <- MCFallsShort
  Opening <- MCOpening
  Batches <- MCBatches
  Prices = {3, 4}
  MaxBatch = 2
  MaxTrades = 3
  MarketPrices = {0, 3}
SYMMETRY UserSymmetry
INVARIANTS
  NoOverdraft
  TradesExplainBalances
  LevelFollowsXp
  ReportsAgree
PROPERTIES
  SettlesAtomically
CHECK_DEADLOCK FALSE
