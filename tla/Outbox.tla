-------------------------------- MODULE Outbox --------------------------------
(***************************************************************************)
(* What the output path promises: an at-least-once outbox.  An event it    *)
(* accepted stays pending until the receiver has it or it is discarded for *)
(* lack of room; the receiver may see it more than once and in any order,  *)
(* also after it was discarded.                                            *)
(***************************************************************************)
EXTENDS EcsEvents

VARIABLES accepted, pending, received, discarded

outboxVars == <<accepted, pending, received, discarded>>

OutboxInit ==
    accepted = {} /\ pending = {} /\ received = {} /\ discarded = {}

Accept(e) ==
    /\ e \notin accepted
    /\ accepted' = accepted \cup {e}
    /\ pending' = pending \cup {e}
    /\ UNCHANGED <<received, discarded>>

Receive(S) ==
    /\ received' = received \cup S
    /\ UNCHANGED <<accepted, pending, discarded>>

Acknowledge(S) ==
    /\ pending' = pending \ S
    /\ UNCHANGED <<accepted, received, discarded>>

Discard(S) ==
    /\ pending' = pending \ S
    /\ discarded' = discarded \cup S
    /\ UNCHANGED <<accepted, received>>

OutboxNext ==
    \/ \E e \in Events : Accept(e)
    \/ \E S \in SUBSET accepted : Receive(S)
    \/ \E S \in SUBSET (pending \cap received) : Acknowledge(S)
    \/ \E S \in SUBSET pending : Discard(S)

OutboxSpec == OutboxInit /\ [][OutboxNext]_outboxVars
=============================================================================
