SPECIFICATION Spec
CONSTANTS
    c1 = c1
    c2 = c2
    Coins = {c1, c2}
    MaxGap = 1
    Recent = 1
    Baseline = 4
    History = 4
    DayLength = 4
    HistoryFiles = 2
    Steps <- ClockSteps
    VolumeAt <- VolumeOf
    MaxSnapshots = 5
INVARIANT FeedsOnceInOrder
INVARIANT ActivityMatchesHistory
SYMMETRY Alike
