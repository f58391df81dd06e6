CONSTANTS
    Tasks <- MCTasks
    Plan <- MCPlan
    Rules = {r1}
    Limit = 1
    Value <- MCValue
    Never = Never
    Runners = {w1, w2}
    Deliveries = {d1}
    MaxClock = 2
    MaxInterval = 2
    MaxFaults = 1
    Batches <- MCBatches
    MaxInFlight = 2
    NoEntry = NoEntry
SPECIFICATION Spec
SYMMETRY Symmetry
INVARIANTS TypeOK MarksHaveOrders RecordedDateIsFinal OpenOrderHoldsReadings DatesKeepUp CronFindsNext
