---------------------------- MODULE MCLifecycle ----------------------------
(* A small instance of the session life cycle for TLC. *)
EXTENDS Lifecycle, TLC

CONSTANTS r1, r2

Symmetry == Permutations(Requests)

(* Bound: two handlers are at work together only while no CloseSession and  *)
(* no sweep is; one of them may meet all of these at any step.              *)
HandlersTogether ==
  (\A r \in Requests : pc[r] # "idle") => spc = "rest" /\ ~Closing
=============================================================================
