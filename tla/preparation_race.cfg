SPECIFICATION Spec
CONSTANTS
    NoCall = NoCall
    Calls = {c1, c2}
    MaxVersion = 2
    References = {a, b}
SYMMETRY Symmetric
CHECK_DEADLOCK FALSE
INVARIANTS
    RowsKeepTheirKeys
