-------------------------- MODULE MCLocusRegistry --------------------------
(* Calls with the same key are alike, and so are the keys: which calls ask  *)
(* for which key matters only up to renaming: all for one key, or two for   *)
(* one and one for another.                                                 *)
EXTENDS LocusRegistry

CONSTANTS c1, c2, c3, k1, k2

MCCall == {c1, c2, c3}
MCAsked == {[c \in MCCall |-> k1], [c \in MCCall |-> IF c = c3 THEN k2 ELSE k1]}
=============================================================================
