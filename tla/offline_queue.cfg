CONSTANTS
    Flushes = {f1, f2}
    Items = {x1, x2, x3}
    MaxRetries = 2
    StorageMayFail = TRUE
    MaxLosses = 2
SPECIFICATION Spec
SYMMETRY Symmetry
INVARIANTS TypeOK UnsentIsStored AppliedOncePerAnswer
