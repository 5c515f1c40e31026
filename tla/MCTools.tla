------------------------------ MODULE MCTools ------------------------------
(* Small instances of the tool calls for TLC. *)
EXTENDS Tools

CONSTANTS r1, r2

OneChatEach == [r \in Requests |-> IF r = r1 THEN "chat1" ELSE "chat2"]
=============================================================================
