SPECIFICATION LiveSpec
CONSTANTS
    o1 = o1
    o2 = o2
    o3 = o3
    f1 = f1
    f2 = f2
    f3 = f3
    c1 = c1
    NoTrace = NoTrace
    NoId = NoId
    NoOrder = NoOrder
    NoInstruction = NoInstruction
    Coins = {c1}
    Quantities = {1}
    Orders = {o1, o2, o3}
    ExchangeIds = {o1, o2, o3}
    FillIds = {f1}
    Traces = {t1}
    Instructions <- OnlySell
    Amounts = {1}
    MaxOpenOrders = 2
SYMMETRY Symmetry
INVARIANT OpenOrderCap
INVARIANT StagesInOrder
CHECK_DEADLOCK FALSE
