CONSTANTS
    Calls = {c1, c2}
    l1 = l1
    l2 = l2
    k1 = k1
    k2 = k2
    k3 = k3
    Part = part
    Locations <- MCLocations
    Keys <- MCKeys
    Requests <- LiveRequests
    InitialItems <- LiveInitialItems
    InitialStock <- LiveInitialStock
    InitialPart = 1
    MaxAttempts = 2
    NoEntry = NoEntry
    Failed = Failed
    None = None
SPECIFICATION FairSpec
PROPERTY EveryCallAnswered
