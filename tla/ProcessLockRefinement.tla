------------------------ MODULE ProcessLockRefinement ------------------------
(***************************************************************************)
(* How ProcessLock implements FifoLock: the owner of an id is the object   *)
(* that holds it, and the line is the queue of its entry.                  *)
(***************************************************************************)
EXTENDS ProcessLock

CONSTANT Nobody

ASSUME NobodyAssumption == Nobody \notin Lock

\* The object that holds id i, as told by their holding fields.
OwnerIn(held, i) ==
    IF \E l \in Lock : IdOf[l] = i /\ held[l]
    THEN CHOOSE l \in Lock : IdOf[l] = i /\ held[l]
    ELSE Nobody

Fifo == INSTANCE FifoLock WITH
          owner <- [i \in Id |-> OwnerIn(holding, i)],
          line  <- queue

\* Every behaviour of the lock is one of the abstract lock: acquire() takes or
\* queues, unlock() and the ttl timer release to the first in line, a timeout
\* gives a place up, everything else is invisible.
ImplementsFifoLock == Fifo!Spec

=============================================================================
