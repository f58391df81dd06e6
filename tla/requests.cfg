CONSTANTS
    Calls = {c1, c2, c3}
    NoOrder = NoOrder
    NoDoc = NoDoc
    Failed = Failed
SPECIFICATION Spec
SYMMETRY Symmetry
INVARIANTS TypeOK LinkedOrderExists RetryFindsTheOrder
PROPERTY LinkAndDeletionStay
