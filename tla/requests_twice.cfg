CONSTANTS
    Calls = {c1, c2}
    NoOrder = NoOrder
    NoDoc = NoDoc
    Failed = Failed
SPECIFICATION Spec
INVARIANT AtMostOneOrder
