------------------------------- MODULE EcsAlerts -------------------------------
(***************************************************************************)
(* The Sigma alerts that reach the alerting stage of the pipeline, reduced *)
(* to the fields the deduplicator and the correlator tell them apart by.   *)
(***************************************************************************)
CONSTANTS
    Alerts,     \* alerts: [rule, pid, command_line, ip]
    NoIp        \* the destination.ip of an alert without one

ASSUME AlertsAssumption ==
    \A a \in Alerts : DOMAIN a = {"rule", "pid", "command_line", "ip"}
=============================================================================
