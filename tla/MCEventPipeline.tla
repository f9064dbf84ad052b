---------------------------- MODULE MCEventPipeline ----------------------------
(***************************************************************************)
(* Instances of EventPipeline: a shell, the curl it runs and the connection*)
(* curl makes, with the rules of alerting/correlation_rules.py on them.    *)
(***************************************************************************)
EXTENDS EventPipeline

CONSTANTS shell_inline, external_url, outbound_http, tmp_exec, p1, p2, c1, c2, ip1, ip2

Alert(rule, pid, command_line, ip) ==
    [rule |-> rule, pid |-> pid, command_line |-> command_line, ip |-> ip]

Shell == Alert(shell_inline, p1, c1, NoIp)
Curl == Alert(external_url, p1, c2, NoIp)
Connection == Alert(outbound_http, p2, c2, ip1)
Tmp == Alert(tmp_exec, p1, NoCommand, NoIp)

ScenarioAlerts == {Shell, Curl, Connection, Tmp}
OddAlerts == {Tmp}
NoAlerts == {}
NoRules == <<>>

(* "high" is rank 3, "critical" rank 4.                                    *)
ScenarioRules ==
    <<[rank |-> 3, required_rule_ids |-> {external_url, outbound_http}],
      [rank |-> 3, required_rule_ids |-> {shell_inline, external_url}],
      [rank |-> 4, required_rule_ids |-> {shell_inline, external_url, outbound_http}]>>

(* The connections of three processes, one of which makes two.             *)
Connections ==
    {Connection, Alert(outbound_http, p2, c2, ip2),
     Alert(outbound_http, p1, c1, ip1), Alert(outbound_http, p1, c2, NoIp)}

(* "External Transfer Followed By Outbound HTTP": the alert for the        *)
(* transfer is not newer than the one for the connection.                  *)
FollowedByInOrder ==
    (Correlated /\ emitted.correlation.rule = 1) =>
        \E t, h \in emitted.correlation.related :
            /\ t.alert.rule = external_url
            /\ h.alert.rule = outbound_http
            /\ t.age >= h.age
=============================================================================
