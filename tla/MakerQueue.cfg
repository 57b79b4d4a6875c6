SPECIFICATION QueueSpec
CONSTANTS
  Books <- TwoBooks
  OrderQuantities <- Sizes
  QueueFractions <- Fractions
  TradePrices <- Prices
  TradeQuantities <- Volumes
  MaxAge = 1
  MaxClock = 3
  MaxTrades = 2
INVARIANTS IncrementalIsOneShot FillsAreClosedForms
CHECK_DEADLOCK FALSE
