--------------------------- MODULE MCEventStream ---------------------------
(* Small instances of the event pipeline for TLC. *)
EXTENDS EventStream, TLC

CONSTANTS m1, m2, e1, e2, s1

Symmetry == Permutations(Members) \cup Permutations(Emitters)
=============================================================================
