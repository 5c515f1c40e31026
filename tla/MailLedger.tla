----------------------------- MODULE MailLedger -----------------------------
(***************************************************************************)
(* What the mailbox store promises for each message, whatever goroutines   *)
(* do: a message is accepted, then queued for its recipient, and leaves    *)
(* the queue at most once, handed to one reader, pushed out by newer mail, *)
(* or thrown away with its mailbox.  A message thrown away may still be    *)
(* handed to a reader that had already opened the mailbox.                 *)
(***************************************************************************)
EXTENDS Naturals

CONSTANT Messages
VARIABLE status

Stages == {"new", "queued", "dropped", "read", "evicted"}

LedgerInit == status = [m \in Messages |-> "new"]

(* A message enters a mailbox that is in use or one that was thrown away; *)
(* the messages in E make room for it.                                    *)
Accept(m, E, s) ==
  /\ status[m] = "new" /\ s \in {"queued", "dropped"}
  /\ \A e \in E : e = m \/ status[e] = s
  /\ status' = [i \in Messages |-> IF i \in E THEN "evicted"
                                   ELSE IF i = m THEN s ELSE status[i]]

(* One reader takes the messages in M. *)
Read(M) ==
  /\ M # {} /\ \A m \in M : status[m] \in {"queued", "dropped"}
  /\ status' = [i \in Messages |-> IF i \in M THEN "read" ELSE status[i]]

(* A mailbox is deleted with the messages in M. *)
Drop(M) ==
  /\ M # {} /\ \A m \in M : status[m] = "queued"
  /\ status' = [i \in Messages |-> IF i \in M THEN "dropped" ELSE status[i]]

LedgerNext ==
  \/ \E m \in Messages, E \in SUBSET Messages, s \in {"queued", "dropped"} : Accept(m, E, s)
  \/ \E M \in SUBSET Messages : Read(M) \/ Drop(M)

LedgerSpec == LedgerInit /\ [][LedgerNext]_status
=============================================================================
