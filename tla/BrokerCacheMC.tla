---------------------------- MODULE BrokerCacheMC ----------------------------
(* Process p1 makes up to three calls of get(), p2 only invalidates. *)
EXTENDS BrokerCache, TLC

CONSTANTS p1, p2, g1, g2, g3

MCProcessOf == [g \in Get |-> p1]

\* Calls of one process are interchangeable.
Symmetry == Permutations(Get)

=============================================================================
