CONSTANTS
    w1 = w1
    s1 = s1
    s2 = s2
    Calls = {c1}
    WorkOrders <- MCWorkOrders
    Stocks <- MCStocks
    Requests <- MCRequests
    PartCost = 2
    NoCost = NoCost
    InitialOnHand <- MCInitialOnHand
    InitialLines <- MCInitialLines
    Stepdowns = TRUE
    None = None
    Missing = {s2}
    Buyers = {b1, b2}
    Asked <- MCAsked
    NewOrders <- MCNewOrders
    MaxFaults = 1
    MaxInFlight = 2
SPECIFICATION Spec
SYMMETRY Symmetry
CHECK_DEADLOCK FALSE
INVARIANTS TypeOK ReservedIsOnLines MovementsExplainStock OrderNeverAhead
PROPERTIES NoReceiptAfterEnd
