------------------------------ MODULE FifoLock ------------------------------
(***************************************************************************)
(* What packages/core/src/process-locker.ts promises: for each id an owner *)
(* and a line of waiters served in order, with nothing about entries,      *)
(* timers or promises.                                                     *)
(***************************************************************************)
EXTENDS Naturals, Sequences

CONSTANTS Lock, Id, IdOf, Nobody

VARIABLES
    owner,  \* the holder of each id, or Nobody
    line    \* who waits for it, in order

vars == <<owner, line>>

Init == owner = [i \in Id |-> Nobody] /\ line = [i \in Id |-> <<>>]

InLine(l) == \E k \in DOMAIN line[IdOf[l]] : line[IdOf[l]][k] = l

Take(l) ==
    /\ owner[IdOf[l]] = Nobody
    /\ owner' = [owner EXCEPT ![IdOf[l]] = l]
    /\ UNCHANGED line

Queue(l) ==
    /\ owner[IdOf[l]] \notin {l, Nobody}
    /\ ~InLine(l)
    /\ line' = [line EXCEPT ![IdOf[l]] = Append(@, l)]
    /\ UNCHANGED owner

Release(l) ==
    /\ owner[IdOf[l]] = l
    /\ \/ /\ line[IdOf[l]] = <<>>
          /\ owner' = [owner EXCEPT ![IdOf[l]] = Nobody]
          /\ UNCHANGED line
       \/ /\ line[IdOf[l]] # <<>>
          /\ owner' = [owner EXCEPT ![IdOf[l]] = Head(line[IdOf[l]])]
          /\ line' = [line EXCEPT ![IdOf[l]] = Tail(@)]

\* Some position of the line is given up; the rest keeps its order.
GiveUp(l) ==
    \E k \in DOMAIN line[IdOf[l]] :
        /\ line[IdOf[l]][k] = l
        /\ line' = [line EXCEPT ![IdOf[l]] =
                      [ j \in 1 .. (Len(@) - 1) |-> IF j < k THEN @[j] ELSE @[j + 1] ]]
        /\ UNCHANGED owner

Next == \E l \in Lock : Take(l) \/ Queue(l) \/ Release(l) \/ GiveUp(l)

Spec == Init /\ [][Next]_vars

=============================================================================
