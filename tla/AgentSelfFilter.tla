--------------------------- MODULE AgentSelfFilter ---------------------------
(***************************************************************************)
(* AgentSelfFilter of user_space/filters: events of the agent, and of the  *)
(* processes it learns to be children of what it already knows, are        *)
(* dropped.  A pid it has learnt is never forgotten.                       *)
(***************************************************************************)
EXTENDS KernelEvents

VARIABLE agent_related_pids

\* The bug of counting the process that started the agent as its own.
InitSelfFilterWithParent == agent_related_pids = {Agent, Reaper}

InitSelfFilter == agent_related_pids = {Agent}

IsAgentRelated(event) ==
    \/ event.pid = Agent
    \/ event.pid \in agent_related_pids
    \/ event.ppid \in agent_related_pids

\* _evaluate_connect_event: a connection to an endpoint of the telemetry.
EvaluateConnectEvent(event, to_endpoint) == to_endpoint /\ IsAgentRelated(event)

SelfFilterDrops(event, to_endpoint) ==
    \/ event.pid \in agent_related_pids
    \/ event.ppid \in agent_related_pids
    \/ event.type = "CONNECT" /\ EvaluateConnectEvent(event, to_endpoint)

\* The bug of dropping a child's event without learning its pid.
LearnNothing(event, to_endpoint) == UNCHANGED agent_related_pids

Learn(event, to_endpoint) ==
    agent_related_pids' = IF SelfFilterDrops(event, to_endpoint)
                          THEN agent_related_pids \cup {event.pid}
                          ELSE agent_related_pids
=============================================================================
