SPECIFICATION BufferSpec
CONSTANTS
    Events = {e1, e2, e3, e4, e5}
    MaxRows = 3
    NoLimit = NoLimit
    MaxDbSize = 2
    Delays = {1}
    MaxAttempts = 1
SYMMETRY EventSymmetry
CHECK_DEADLOCK FALSE
PROPERTIES
    InsertKeepsItsRow
