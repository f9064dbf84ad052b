SPECIFICATION FairSpec
CONSTANTS
    Events = {e1, e2, e3}
    MaxRows = 2
    NoLimit = NoLimit
    MaxDbSize = NoLimit
    MaxFaults = 2
    BatchSize = 1
    BaseBackoff = 1
    MaxBackoff = 2
    RejectDelay = 2
    FloatMaxExp = 0
INVARIANTS
    InOrderWithoutFaults
PROPERTIES
    EventuallySettled
    StopTerminates
