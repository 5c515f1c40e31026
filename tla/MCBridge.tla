------------------------------ MODULE MCBridge ------------------------------
(* Small instances of the bridge for TLC. *)
EXTENDS Bridge
=============================================================================
