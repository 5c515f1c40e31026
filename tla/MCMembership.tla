---------------------------- MODULE MCMembership ----------------------------
(* Small instances of session membership for TLC. *)
EXTENDS Membership, TLC

CONSTANTS a1, a2, r1, r2, m1, m2

Symmetry == Permutations(Agents) \cup Permutations(Requests) \cup Permutations(Messages)
=============================================================================
