----------------------------- MODULE BrokerBusMC -----------------------------
(* One client with three listeners. *)
EXTENDS BrokerBus

CONSTANTS p1, l1, l2, l3

MCClientOf == [l \in Listener |-> p1]

=============================================================================
