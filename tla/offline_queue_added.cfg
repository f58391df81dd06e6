CONSTANTS
    Flushes = {f1}
    Items = {x1, x2, x3}
    MaxRetries = 2
    StorageMayFail = FALSE
    MaxLosses = 2
SPECIFICATION Spec
INVARIANT AddedIsKept
