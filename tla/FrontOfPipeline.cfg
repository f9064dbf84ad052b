\* Two free pids, two programs, two forks and three records.
SPECIFICATION Spec
CONSTANTS
    agent = agent
    shell = shell
    c1 = c1
    c2 = c2
    Pids <- MCPids
    Agent = agent
    Reaper = shell
    python = python
    sh = sh
    Programs <- MCPrograms
    Nothing = Nothing
    Unknown = Unknown
    EnableHashCache = TRUE
    RingSlots = 2
    MaxForks = 2
    MaxCalls = 3
SYMMETRY Symmetry
CHECK_DEADLOCK FALSE
INVARIANTS
    FrontTypeOK
    SelfFilterSound
    SelfFilterComplete
    EnrichmentTrue
    KernelValuesKept
    HashCacheSound
