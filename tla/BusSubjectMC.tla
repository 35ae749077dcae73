---- MODULE BusSubjectMC ----
(* Two subjects of one path on at most two handles. *)
EXTENDS BusSubject

CONSTANTS s1, s2, h1, h2

=============================
