---------------------------- MODULE ProcessLockMC ----------------------------
(* Four ProcessLock objects, three of them of one id. *)
EXTENDS ProcessLockRefinement, TLC

CONSTANTS l1, l2, l3, l4, a, b

MCIdOf == (l1 :> a) @@ (l2 :> a) @@ (l3 :> a) @@ (l4 :> b)

=============================================================================
