----------------------------- MODULE BrokerLockMC -----------------------------
(* Two processes with one lock item each; the first may reconnect once. *)
EXTENDS BrokerLock, TLC

CONSTANTS a, b, a1, a2, b1, ca, ca2, cb

MCItemOf == (a1 :> a) @@ (a2 :> a) @@ (b1 :> b)
MCConnsOf == (a :> {ca, ca2}) @@ (b :> {cb})

\* The same process, with one connection and no reconnect.
MCConnsOfOne == (a :> {ca}) @@ (b :> {cb})

=============================================================================
