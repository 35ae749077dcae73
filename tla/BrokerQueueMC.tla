---------------------------- MODULE BrokerQueueMC ----------------------------
(* Client p consumes up to twice and may have a second connection to reconnect *)
(* with, client q consumes once; messages m1 and m2 have the same hash.        *)
EXTENDS BrokerQueue

CONSTANTS p, q, k1, k2, k3, c1, c2, c3, m1, m2, m3, h

MCHashOf == [m \in Message |-> IF m = m3 THEN Nothing ELSE h]
MCClientOf == [k \in Sub |-> IF k = k3 THEN q ELSE p]
MCConnectionsOf == [x \in Client |-> IF x = q THEN {c3} ELSE {c1, c2} \cap Connection]

=============================================================================
