------------------------------ MODULE MCSensors ------------------------------
(***************************************************************************)
(* Two threads of one process and a thread of another, two CPUs, and the   *)
(* socket addresses the programs tell apart.                               *)
(***************************************************************************)
EXTENDS Sensors, TLC

CONSTANTS t1, t2, t3, a1, a2

MCThreads == {t1, t2, t3}
MCProcess == t1 :> 10 @@ t2 :> 10 @@ t3 :> 20

IPv4(a) == [family |-> "AF_INET", addrlen |-> 16, addr |-> a]
MCSockaddrs == {IPv4(a1), IPv4(a2), [family |-> "AF_INET6", addrlen |-> 28, addr |-> Nothing],
                [family |-> "AF_INET", addrlen |-> 8, addr |-> Nothing]}

\* The process does not tell t1 from t2, nor a program one address from another.
Symmetry == Permutations({t1, t2}) \cup Permutations({a1, a2})
=============================================================================
