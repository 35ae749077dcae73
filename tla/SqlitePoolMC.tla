---------------------------- MODULE SqlitePoolMC ----------------------------
\* A plain query, and two transactions with one query at a time each.
EXTENDS SqlitePool

CONSTANTS p1, a1, b1, t1, t2

MCTxOf == [q \in Query |-> IF q = a1 THEN t1 ELSE IF q = b1 THEN t2 ELSE None]

=============================================================================
