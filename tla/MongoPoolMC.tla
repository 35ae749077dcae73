----------------------------- MODULE MongoPoolMC -----------------------------
(* Two plain users and one that works in transactions. *)
EXTENDS MongoPool, TLC

CONSTANTS u1, u2, t1, c1, c2, c3

=============================================================================
