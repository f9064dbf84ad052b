----------------------------- MODULE EventReceiver -----------------------------
(***************************************************************************)
(* The ingest server of tools/event_receiver_server.py and the connection  *)
(* to it: at most one request of the agent is waiting for its answer, and  *)
(* requests the agent no longer waits for may still reach the server.  It  *)
(* runs one thread per connection and appends each event to a file, so a   *)
(* batch may be stored in part and an abandoned batch may be stored late.  *)
(***************************************************************************)
EXTENDS EcsEvents, Integers, FiniteSets

CONSTANT
    MaxFaults   \* bound: the faults a behaviour has (network, crashes, SQLite)

ASSUME ReceiverAssumption == MaxFaults \in Nat

VARIABLES
    request,  \* the request in flight: its events and how much was stored
    late,     \* abandoned requests that the server has not handled yet
    copies,   \* how often the server's file has each event, 2 for more
    faults    \* history: how many faults occurred

receiverVars == <<request, late, copies, faults>>

NoRequest == [events |-> {}, stored |-> "no"]

Requests == [events : SUBSET Events, stored : {"no", "part", "all"}]

(* An abandoned request, told from the others by its fault's number.       *)
LateRequests == [events : SUBSET Events, no : Nat]

ReceiverTypeOK ==
    /\ request \in Requests
    /\ late \subseteq LateRequests
    /\ copies \in [Events -> 0..2]
    /\ faults \in 0..MaxFaults

InitReceiver ==
    /\ request = NoRequest
    /\ late = {}
    /\ copies = [e \in Events |-> 0]
    /\ faults = 0

Received == {e \in Events : copies[e] > 0}

Store(S) ==
    copies' = [e \in Events |->
                  IF e \in S /\ copies[e] < 2 THEN copies[e] + 1 ELSE copies[e]]

Fault == faults < MaxFaults /\ faults' = faults + 1

(* The request that the agent stops waiting for.                           *)
Abandoned ==
    IF request.stored = "no" /\ request.events # {}
      THEN {[events |-> request.events, no |-> faults']} ELSE {}

----------------------------------------------------------------------------
(* do_POST: every event of the body is appended, then 200 is sent.         *)
DoPost ==
    /\ request.events # {} /\ request.stored = "no"
    /\ Store(request.events)
    /\ request' = [request EXCEPT !.stored = "all"]
    /\ UNCHANGED <<late, faults>>

(* do_POST raises, or the server dies, after some of the appends: the      *)
(* connection is closed with no answer.                                    *)
DoPostBreaks ==
    /\ request.events # {} /\ request.stored = "no"
    /\ Fault
    /\ \E S \in SUBSET request.events : Store(S)
    /\ request' = [request EXCEPT !.stored = "part"]
    /\ UNCHANGED late

(* do_POST of a request whose sender has given up waiting.                 *)
DoPostLate ==
    \E r \in late :
        /\ Store(r.events)
        /\ late' = late \ {r}
        /\ UNCHANGED <<request, faults>>
=============================================================================
