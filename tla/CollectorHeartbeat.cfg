SPECIFICATION SessionSpec
CONSTANTS
    MaxQueue = 2
    BatchSize = 2
    MaxRecords = 4
    DiskMayFail = FALSE
    Stop = Stop
    MaxCancels = 0
INVARIANT DrainsBeforeReconnecting
CHECK_DEADLOCK FALSE
