SPECIFICATION Spec
CONSTANTS
  Coins = {"PURR", "PONS", "LIT"}
  Supported = {"PURR", "PONS"}
  FallbackCoins = {"PURR"}
  Windows <- TwoWindows
  MaxEpoch = 3
  MaxStarts = 3
  ScoreWeight = 7
  PersistenceWeight = 30
  EntryRank = 1
  RetentionRank = 2
  TradingRank = 1
  MinCollectionAge = 1
INVARIANTS CollectedSinceStated TradedWasValidated StreamsTheCollection
PROPERTIES PlansAreStable
CHECK_DEADLOCK FALSE
