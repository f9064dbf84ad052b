SPECIFICATION BufferSpec
CONSTANTS
    Events = {e1, e2, e3, e4}
    MaxRows = 2
    NoLimit = NoLimit
    MaxDbSize = NoLimit
    Delays = {1}
    MaxAttempts = 1
SYMMETRY EventSymmetry
CHECK_DEADLOCK FALSE
INVARIANTS
    BufferTypeOK
    RowLimit
PROPERTIES
    OldestFirst
    InsertKeepsItsRow
