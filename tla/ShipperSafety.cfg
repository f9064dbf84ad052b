SPECIFICATION Spec
CONSTANTS
    Events = {e1, e2, e3}
    MaxRows = 2
    NoLimit = NoLimit
    MaxDbSize = NoLimit
    MaxFaults = 3
    BatchSize = 2
    BaseBackoff = 1
    MaxBackoff = 2
    RejectDelay = 2
    FloatMaxExp = 1
SYMMETRY EventSymmetry
INVARIANTS
    TypeOK
    NoSilentLoss
    DeliveredMeansStored
    ExactlyOnceWithoutFaults
    NoUseAfterClose
    RowLimit
PROPERTIES
    ImplementsOutbox
