-------------------------- MODULE DatabaseSessionMC --------------------------
\* Two entities of one type, and two of which the second references the first.
EXTENDS DatabaseSession, TLC

CONSTANTS a, b

MCShapes ==
  {[type |-> [i \in Item |-> 1], refs |-> [i \in Item |-> {}]],
   [type |-> [i \in Item |-> IF i = a THEN 1 ELSE 2],
    refs |-> [i \in Item |-> IF i = a THEN {} ELSE {a}]]}

Symmetry == Permutations(Version)
=============================================================================
