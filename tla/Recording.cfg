SPECIFICATION RecordingSpec
CONSTANTS
    DumpEvery = 1
    Late = {0, 2}
    MaxTime = 7
    MaxTrades = 1
    MaxMishaps = 1
    MaxSnapshotAge = 1
    ReturnLags = {1}
    PriceWindow = 2
    FlowWindow = 1
    Mid <- MidAt
    Lags = {1, 2}
    MaxGap = 1
    Keep = 3
    Entries = 2
INVARIANT LoadedIsCaptured
INVARIANT ContextMatchesHistory
CHECK_DEADLOCK FALSE
