SPECIFICATION Spec
CONSTANTS
  Coins = {PURR, PONS}
  Days = {1, 2}
  Prices <- TwoPrices
  Quantities <- Sizes
  Fees <- OneFee
  Starting <- Ten
  MaxFills = 3
INVARIANTS AverageIsFairPrice MoneyIsAccountedFor
PROPERTIES PeakIsHighWater
SYMMETRY CoinSymmetry
