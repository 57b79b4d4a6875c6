SPECIFICATION FairSessionSpec
CONSTANTS
    MaxQueue = 2
    BatchSize = 2
    MaxRecords = 5
    DiskMayFail = TRUE
    Stop = Stop
    MaxCancels = 2
INVARIANTS RecordsKeepOrder AtRiskBounded
INVARIANTS SessionDrains CancelStops
PROPERTIES WriteAnswers SessionEnds
CHECK_DEADLOCK FALSE
