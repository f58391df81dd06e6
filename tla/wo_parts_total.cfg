CONSTANTS
    Calls = {c1, c2}
    w1 = w1
    w2 = w2
    s1 = s1
    s2 = s2
    WorkOrders <- MCWorkOrders
    Stocks <- MCStocks
    Requests <- MCRequests
    PartCost = 2
    NoCost = NoCost
    InitialOnHand <- MCInitialOnHand
    InitialLines <- MCInitialLines
    None = None
    Stepdowns = FALSE
SPECIFICATION Spec
INVARIANT TotalIsSumOfLines
