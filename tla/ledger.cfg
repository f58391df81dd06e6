CONSTANTS
    Calls = {c1, c2, c3}
    l1 = l1
    l2 = l2
    k1 = k1
    k2 = k2
    k3 = k3
    Part = part
    Locations <- MCLocations
    Keys <- MCKeys
    Requests <- MCRequests
    InitialItems <- MCInitialItems
    InitialStock <- MCInitialStock
    InitialPart = 2
    MaxAttempts = 2
    NoEntry = NoEntry
    Failed = Failed
    None = None
SPECIFICATION Spec
SYMMETRY Symmetry
INVARIANTS TypeOK PartMovesWithStock HistoryExplainsStock BookingsExplainHistory SameKeySameAnswer
PROPERTIES RecordsAreTrue IsStockLedger
