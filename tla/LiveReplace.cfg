SPECIFICATION FairLiveSpec
CONSTANTS
    o1 = o1
    o2 = o2
    o3 = o3
    f1 = f1
    f2 = f2
    f3 = f3
    c1 = c1
    NoTrace = NoTrace
    NoId = NoId
    NoOrder = NoOrder
    NoInstruction = NoInstruction
    Coins = {c1}
    Quantities = {1}
    Orders = {o1, o2}
    ExchangeIds = {o1, o2}
    FillIds = {f1, f2}
    Traces = {}
    Instructions <- BuyAndClose
    Amounts = {2}
    MaxOpenOrders = 1
INVARIANT WaitingIsReplaceable
INVARIANT StatusMatchesFills
INVARIANT ReplacementFollowsCancel
INVARIANT PositionIsSumOfFills
PROPERTY AccountMovesWithOrders
PROPERTY TerminalIsFinal
PROPERTY ReplacesAtomically
PROPERTY ReplacementResolves
CHECK_DEADLOCK FALSE
