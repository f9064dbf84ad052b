SPECIFICATION Spec
CONSTANTS
    Events = {e1, e2, e3}
    MaxRows = 1
    NoLimit = NoLimit
    MaxDbSize = 1
    MaxFaults = 2
    BatchSize = 2
    BaseBackoff = 1
    MaxBackoff = 1
    RejectDelay = 1
    FloatMaxExp = 1
SYMMETRY EventSymmetry
INVARIANTS
    IInv
    BatchFresh
