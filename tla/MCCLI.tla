------------------------------- MODULE MCCLI -------------------------------
(* Small instances of the event pipeline and the command line client for TLC. *)
EXTENDS CLI

CONSTANTS m1, m2, e1, e2, s1
=============================================================================
