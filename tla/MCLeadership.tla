---------------------------- MODULE MCLeadership ----------------------------
(* Small instances of membership and leadership for TLC. *)
EXTENDS Leadership

CONSTANTS a1, a2, r1, r2
=============================================================================
