SPECIFICATION Spec
CONSTANTS
  Books <- TwoBooks
  TradePrices <- Prices
  TradeQuantities <- Sizes
  MaxTrades = 1
  Steps = {1, 2}
  MaxClock = 6
  Specs <- BothSpecs
  Policies <- AllPolicies
INVARIANTS NeverRaises PendingFitsPosition LedgerBalances TripIsConsistent StrategySoonFree
CHECK_DEADLOCK FALSE
