----------------------------- MODULE MCPersist -----------------------------
(* Small instances of persistence for TLC. *)
EXTENDS Persist
=============================================================================
