\* Three threads, three calls, a ring and a map that are one slot too small.
SPECIFICATION Spec
CONSTANTS
    t1 = t1
    t2 = t2
    t3 = t3
    a1 = a1
    a2 = a2
    Nothing = Nothing
    Threads <- MCThreads
    Process <- MCProcess
    Cpus = {cpu1}
    Addresses = {a1, a2}
    Sockaddrs <- MCSockaddrs
    Files = {file1}
    RingSlots = 2
    MaxPending = 2
    MaxCalls = 3
SYMMETRY Symmetry
CHECK_DEADLOCK FALSE
INVARIANTS
    SensorsTypeOK
    EventsAreTrue
    PendingExact
    DueCallsReported
