SPECIFICATION Spec
CONSTANTS
    shell_inline = shell_inline
    external_url = external_url
    outbound_http = outbound_http
    tmp_exec = tmp_exec
    p1 = p1
    p2 = p2
    c1 = c1
    c2 = c2
    ip1 = ip1
    ip2 = ip2
    NoIp = NoIp
    NoNode = NoNode
    NoCommand = NoCommand
    NoCorrelation = NoCorrelation
    NoDocument = NoDocument
    Alerts <- Connections
    Unencodable <- NoAlerts
    CorrelationRules <- NoRules
    DedupWindow = 3
    IncludeDestinationIp = FALSE
    MaxGroups = 2
    MaxBurst = 3
    Mode = "drop"
    IgnoreDuplicates = FALSE
    CorrelationWindow = 0
    MaxEventsPerScope = 1
INVARIANTS
    GroupsAreTheLatest
    GroupLimit
    CountsOneBurst
PROPERTY
    EveryAlertHasItsGroup
