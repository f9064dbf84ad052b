SPECIFICATION Spec
CONSTANTS
    shell_inline = shell_inline
    external_url = external_url
    outbound_http = outbound_http
    tmp_exec = tmp_exec
    p1 = p1
    p2 = p2
    c1 = c1
    c2 = c2
    ip1 = ip1
    ip2 = ip2
    NoIp = NoIp
    NoNode = NoNode
    NoCommand = NoCommand
    NoCorrelation = NoCorrelation
    NoDocument = NoDocument
    Alerts <- ScenarioAlerts
    Unencodable <- OddAlerts
    CorrelationRules <- ScenarioRules
    DedupWindow = 2
    IncludeDestinationIp = FALSE
    MaxGroups = 3
    MaxBurst = 2
    Mode = "mark"
    IgnoreDuplicates = TRUE
    CorrelationWindow = 2
    MaxEventsPerScope = 2
INVARIANT
    FollowedByInOrder
