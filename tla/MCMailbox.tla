----------------------------- MODULE MCMailbox -----------------------------
(* Small instances of the mailbox store for TLC. *)
EXTENDS Mailbox

CONSTANTS k1, w1, r1, r2

OneSession == {Keys}
From(s)    == [from |-> s, type |-> NoFilter]
OwnFilter  == [p \in Readers |-> IF p = r1 THEN {From("s1")} ELSE {From("s2")}]
=============================================================================
