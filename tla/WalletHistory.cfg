SPECIFICATION WalletSpec
CONSTANTS
  MaxFillsPerRequest = 2
  MaxAvailableFills = 4
  Starts = {1, 2}
  Ends = {2}
  Sizes <- SomeSizes
  Profit <- PowersOfTwo
  MaxTime = 3
  MaxLedger = 5
  MaxBatches = 2
VIEW Downloaded
INVARIANT MergedHistory
INVARIANT EpisodesAreTrips
CHECK_DEADLOCK FALSE
