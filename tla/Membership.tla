----------------------------- MODULE Membership -----------------------------
(***************************************************************************)
(* Who is a member of a session, what the watch stream says about it and   *)
(* what becomes of a member's mail: Hub.Register, RefreshPresence,         *)
(* SendMessage, Broadcast, the drains and the forget hook of hub.go, over  *)
(* the presence tracker (Presence).                                        *)
(*                                                                         *)
(* A mailbox is the set of its messages; module Mailbox shows that its     *)
(* deliveries and drains take effect at one instant.  An announcement is   *)
(* one step here; module EventStream takes it apart.  Expiry callbacks     *)
(* change leadership only: they are in module Leadership.                  *)
(***************************************************************************)
EXTENDS Presence, FiniteSets

CONSTANTS
  Requests,     \* HTTP handler goroutines
  Messages,     \* messages, each sent at most once
  NoAgent, NoMessage,
  HandlerMax,   \* the ticks that a handler may take
  MaxLives      \* bound: presence records created for one agent

ASSUME MembershipAssumption ==
  /\ NoAgent \notin Agents /\ NoMessage \notin Messages
  /\ HandlerMax \in Nat /\ HandlerMax < Horizon   \* nothing waits for 24 hours
  /\ MaxLives \in Nat \ {0}

VARIABLES
  inbox,      \* messages in the mailbox of each agent
  pc, who, wasKnown, lapsed, isNew, msg, todo, age,   \* locals of each handler
  forgotten,  \* sweeper: departed agents whose onForget has not started
  leaving,    \* sweeper: the agent whose agent_left is out, mailbox not yet deleted
  roster,     \* agents that the announcements so far show as members
  lives,      \* history: presence records created for each agent
  joins,      \* history: agent_joined events for each agent
  owed,       \* history: unread messages delivered to each agent since it is known
  silent,     \* history: known agents whose record an unannounced request created
  overtaken,  \* history: agents that came back before their onForget had finished
  sent        \* history: messages sent

locals  == <<pc, who, wasKnown, lapsed, isNew, msg, todo>>
sweeper == <<forgotten, leaving>>
mail    == <<inbox, owed, sent>>
news    == <<roster, joins>>
history == <<lives, silent, overtaken>>
vars    == <<presence, mail, locals, age, sweeper, news, history>>

Registering == {"is", "touch", "again", "join"}

TypeOK ==
  /\ PresenceTypeOK
  /\ inbox \in [Agents -> SUBSET Messages]
  /\ pc \in [Requests -> Registering \cup {"idle", "authed", "drain", "deliver"}]
  /\ who \in [Requests -> Agents \cup {NoAgent}]
  /\ \A r \in Requests : pc[r] # "idle" => who[r] \in Agents
  /\ wasKnown \in [Requests -> BOOLEAN] /\ lapsed \in [Requests -> BOOLEAN]
  /\ isNew \in [Requests -> BOOLEAN]
  /\ msg \in [Requests -> Messages \cup {NoMessage}]
  /\ todo \in [Requests -> SUBSET Agents]
  /\ age \in [Requests -> 0..HandlerMax]
  /\ forgotten \subseteq Agents /\ leaving \in Agents \cup {NoAgent}
  /\ roster \subseteq Agents /\ silent \subseteq Agents /\ overtaken \subseteq Agents
  /\ lives \in [Agents -> 0..MaxLives] /\ joins \in [Agents -> 0..MaxLives]
  /\ owed \in [Agents -> SUBSET Messages] /\ sent \subseteq Messages

Init ==
  /\ PresenceInit
  /\ inbox = [a \in Agents |-> {}]
  /\ pc = [r \in Requests |-> "idle"]
  /\ who = [r \in Requests |-> NoAgent]
  /\ wasKnown = [r \in Requests |-> FALSE] /\ lapsed = [r \in Requests |-> FALSE]
  /\ isNew = [r \in Requests |-> FALSE]
  /\ msg = [r \in Requests |-> NoMessage]
  /\ todo = [r \in Requests |-> {}]
  /\ age = [r \in Requests |-> 0]
  /\ forgotten = {} /\ leaving = NoAgent
  /\ roster = {} /\ silent = {} /\ overtaken = {} /\ sent = {}
  /\ lives = [a \in Agents |-> 0] /\ joins = [a \in Agents |-> 0]
  /\ owed = [a \in Agents |-> {}]

-----------------------------------------------------------------------------
Goto(r, label) == pc' = [pc EXCEPT ![r] = label]

Return(r) ==
  /\ Goto(r, "idle")
  /\ who' = [who EXCEPT ![r] = NoAgent]
  /\ wasKnown' = [wasKnown EXCEPT ![r] = FALSE]
  /\ lapsed' = [lapsed EXCEPT ![r] = FALSE]
  /\ isNew' = [isNew EXCEPT ![r] = FALSE]
  /\ msg' = [msg EXCEPT ![r] = NoMessage]
  /\ todo' = [todo EXCEPT ![r] = {}]
  /\ age' = [age EXCEPT ![r] = 0]

(* Tracker.Touch with its history: the record of an unknown agent is new. *)
TouchAgent(a, announced) ==
  /\ Touch(a)
  /\ IF a \in known
     THEN UNCHANGED history
     ELSE /\ lives' = [lives EXCEPT ![a] = @ + 1]
          /\ silent' = IF announced THEN silent ELSE silent \cup {a}
          /\ overtaken' = IF a \in forgotten \cup {leaving} THEN overtaken \cup {a}
                                                            ELSE overtaken

-----------------------------------------------------------------------------
(* Hub.Register reads the tracker twice before it touches it. *)

RegisterWasPresent(r, a) ==
  /\ pc[r] = "idle"
  /\ who' = [who EXCEPT ![r] = a]
  /\ wasKnown' = [wasKnown EXCEPT ![r] = WasPresent(a)]
  /\ Goto(r, "is")
  /\ UNCHANGED <<presence, mail, lapsed, isNew, msg, todo, age, sweeper, news, history>>

RegisterIsPresent(r) ==
  /\ pc[r] = "is"
  /\ lapsed' = [lapsed EXCEPT ![r] = wasKnown[r] /\ ~IsPresent(who[r])]
  /\ wasKnown' = [wasKnown EXCEPT ![r] = FALSE]   \* not used again
  /\ Goto(r, "touch")
  /\ UNCHANGED <<presence, mail, who, isNew, msg, todo, age, sweeper, news, history>>

(* Mutant: Touch reports the record of an expired agent as new. *)
FreshOrExpired(r) == who[r] \notin known \ expired

(* What Touch returns: the record did not exist. *)
FreshRecord(r) == who[r] \notin known

RegisterTouch(r) ==
  /\ pc[r] = "touch"
  /\ TouchAgent(who[r], TRUE)
  /\ \/ /\ lapsed[r]
        /\ isNew' = [isNew EXCEPT ![r] = FreshRecord(r)]
        /\ lapsed' = [lapsed EXCEPT ![r] = FALSE]      \* not used again
        /\ Goto(r, "again")
        /\ UNCHANGED <<who, wasKnown, msg, todo, age>>
     \/ /\ ~lapsed[r]
        /\ FreshRecord(r)
        /\ isNew' = [isNew EXCEPT ![r] = TRUE]
        /\ Goto(r, "join")
        /\ UNCHANGED <<who, wasKnown, lapsed, msg, todo, age>>
     \/ /\ ~lapsed[r]
        /\ ~FreshRecord(r)
        /\ Return(r)
  /\ UNCHANGED <<mail, sweeper, news>>

(* agent_reconnected, then, if the record is new, agent_joined. *)
RegisterReannounce(r) ==
  /\ pc[r] = "again"
  /\ roster' = roster \cup {who[r]}
  /\ silent' = silent \ {who[r]}
  /\ IF isNew[r]
     THEN Goto(r, "join") /\ UNCHANGED <<who, wasKnown, lapsed, isNew, msg, todo, age>>
     ELSE Return(r)
  /\ UNCHANGED <<presence, mail, sweeper, joins, lives, overtaken>>

RegisterAnnounce(r) ==
  /\ pc[r] = "join"
  /\ roster' = roster \cup {who[r]}
  /\ silent' = silent \ {who[r]}
  /\ joins' = [joins EXCEPT ![who[r]] = @ + 1]
  /\ Return(r)
  /\ UNCHANGED <<presence, mail, sweeper, lives, overtaken>>

-----------------------------------------------------------------------------
(* Any other authenticated request: RefreshPresence in the middleware, then *)
(* the handler.                                                             *)

RefreshPresence(r, a) ==
  /\ pc[r] = "idle"
  /\ TouchAgent(a, FALSE)
  /\ who' = [who EXCEPT ![r] = a]
  /\ Goto(r, "authed")
  /\ UNCHANGED <<mail, wasKnown, lapsed, isNew, msg, todo, age, sweeper, news>>

(* A mailbox handler touches once more; PeekMailbox then reads without     *)
(* taking anything, like a drain of the empty set.                         *)
MailboxTouch(r) ==
  /\ pc[r] = "authed"
  /\ TouchAgent(who[r], FALSE)
  /\ Goto(r, "drain")
  /\ UNCHANGED <<mail, who, wasKnown, lapsed, isNew, msg, todo, age, sweeper, news>>

(* Drain, or DrainMatching with the filter that takes the messages S. *)
DrainMailbox(r, S) ==
  /\ pc[r] = "drain"
  /\ inbox' = [inbox EXCEPT ![who[r]] = @ \ S]
  /\ owed' = [owed EXCEPT ![who[r]] = @ \ S]
  /\ Return(r)
  /\ UNCHANGED <<presence, sent, sweeper, news, history>>

(* The recipients in T are to get message m; without any the call returns. *)
Dispatch(r, T, m) ==
  /\ sent' = sent \cup {m}
  /\ IF T = {} THEN Return(r)
     ELSE /\ msg' = [msg EXCEPT ![r] = m] /\ todo' = [todo EXCEPT ![r] = T]
          /\ Goto(r, "deliver")
          /\ UNCHANGED <<who, wasKnown, lapsed, isNew, age>>

(* SendMessage refuses an unknown recipient, and no other. *)
SendMessage(r, to, m) ==
  /\ pc[r] = "authed" /\ m \notin sent
  /\ IF to \in known THEN Dispatch(r, {to}, m) ELSE Return(r) /\ UNCHANGED sent
  /\ UNCHANGED <<presence, inbox, owed, sweeper, news, history>>

(* Broadcast, and emitSystemEvent: to every known agent but the sender. *)
Broadcast(r, m) ==
  /\ pc[r] = "authed" /\ m \notin sent
  /\ Dispatch(r, known \ {who[r]}, m)
  /\ UNCHANGED <<presence, inbox, owed, sweeper, news, history>>

(* The mailbox has room: what a full one pushes out is in module Mailbox. *)
DeliverToAgentMailbox(r, to) ==
  /\ pc[r] = "deliver" /\ to \in todo[r]
  /\ inbox' = [inbox EXCEPT ![to] = @ \cup {msg[r]}]
  /\ owed' = IF to \in known THEN [owed EXCEPT ![to] = @ \cup {msg[r]}] ELSE owed
  /\ IF todo[r] = {to} THEN Return(r)
     ELSE /\ todo' = [todo EXCEPT ![r] = @ \ {to}]
          /\ UNCHANGED <<pc, who, wasKnown, lapsed, isNew, msg, age>>
  /\ UNCHANGED <<presence, sent, sweeper, news, history>>

AuthedReturn(r) ==
  /\ pc[r] = "authed"
  /\ Return(r)
  /\ UNCHANGED <<presence, mail, sweeper, news, history>>

-----------------------------------------------------------------------------
(* The sweeper: sweep under Tracker.mu; then, without it, onForget for each *)
(* departed agent: agent_left, and after it DeleteBox.                      *)

Sweep ==
  /\ forgotten = {} /\ leaving = NoAgent
  /\ Expiring \cup Forgetting # {}
  /\ SweepPresence
  /\ forgotten' = Forgetting
  /\ owed' = [a \in Agents |-> IF a \in Forgetting THEN {} ELSE owed[a]]
  /\ silent' = silent \ Forgetting
  /\ overtaken' = overtaken \ Forgetting
  /\ UNCHANGED <<inbox, sent, locals, age, leaving, news, lives>>

(* Mutant: a departure is not announced. *)
ForgetSilently(a) ==
  /\ leaving = NoAgent /\ a \in forgotten
  /\ forgotten' = forgotten \ {a}
  /\ leaving' = a
  /\ UNCHANGED <<presence, mail, locals, age, news, history>>

ForgetAnnounce(a) ==
  /\ leaving = NoAgent /\ a \in forgotten
  /\ forgotten' = forgotten \ {a}
  /\ leaving' = a
  /\ roster' = roster \ {a}
  /\ UNCHANGED <<presence, mail, locals, age, joins, history>>

(* Mutant: the mailboxes of the whole session go. *)
ForgetDeletesAll ==
  /\ leaving # NoAgent
  /\ inbox' = [a \in Agents |-> {}]
  /\ leaving' = NoAgent
  /\ UNCHANGED <<presence, owed, sent, locals, age, forgotten, news, history>>

ForgetDeleteBox ==
  /\ leaving # NoAgent
  /\ inbox' = [inbox EXCEPT ![leaving] = {}]
  /\ leaving' = NoAgent
  /\ UNCHANGED <<presence, owed, sent, locals, age, forgotten, news, history>>

(* Time passes.  A handler lasts HandlerMax ticks at most; MaxLives bounds *)
(* how often an agent may be forgotten.                                    *)
Tick ==
  /\ PassTime
  /\ \A r \in Requests : pc[r] # "idle" => age[r] < HandlerMax
  /\ \A a \in known : since[a] + 1 >= ForgetAfter => lives[a] < MaxLives
  /\ age' = [r \in Requests |-> IF pc[r] = "idle" THEN 0 ELSE age[r] + 1]
  /\ UNCHANGED <<mail, locals, sweeper, news, history>>

Register(r) ==
  \/ \E a \in Agents : RegisterWasPresent(r, a)
  \/ RegisterIsPresent(r) \/ RegisterTouch(r)
  \/ RegisterReannounce(r) \/ RegisterAnnounce(r)

Authed(r) ==
  \/ \E a \in Agents : RefreshPresence(r, a)
  \/ MailboxTouch(r) \/ AuthedReturn(r)
  \/ pc[r] = "drain" /\ \E S \in SUBSET inbox[who[r]] : DrainMailbox(r, S)
  \/ \E a \in Agents, m \in Messages : SendMessage(r, a, m)
  \/ \E m \in Messages : Broadcast(r, m)
  \/ \E a \in Agents : DeliverToAgentMailbox(r, a)

Next ==
  \/ Tick \/ Sweep \/ ForgetDeleteBox
  \/ \E a \in Agents : ForgetAnnounce(a)
  \/ \E r \in Requests : Register(r) \/ Authed(r)

Spec == Init /\ [][Next]_vars

-----------------------------------------------------------------------------
(* Concurrent first heartbeats of an agent announce one join: each record   *)
(* created by Touch accounts for one agent_joined at most, already emitted  *)
(* or about to be.                                                          *)
JoinedOnce ==
  \A a \in Agents :
    joins[a] + Cardinality({r \in Requests : who[r] = a /\ isNew[r]}) <= lives[a]

(* Going offline costs no mail: what was delivered to an agent and not read *)
(* is in its mailbox for as long as the agent is known, unless the agent    *)
(* came back while its own onForget was still running.                      *)
OfflineMailKept ==
  \A a \in Agents \ overtaken : owed[a] \subseteq inbox[a]

(* With nothing about agent a under way, the announcements agree with the   *)
(* tracker: it was announced and not since announced as gone exactly if it  *)
(* is known.  Two things defeat it: a request that creates the record       *)
(* without announcing, and a return during onForget.                        *)
Settled(a) ==
  /\ a \notin forgotten \cup {leaving}
  /\ \A r \in Requests : who[r] = a => pc[r] \notin Registering

RosterAgrees ==
  \A a \in Agents : Settled(a) /\ a \notin silent \cup overtaken => (a \in roster <=> a \in known)

-----------------------------------------------------------------------------
(* What a comment says, and an interleaving refutes. *)

(* hub.go, onAgentWentOffline: "messages sent while it is offline must      *)
(* still be there when it returns"; the forget hook: "True departure".  An  *)
(* agent that returns while the hook runs loses what it is sent then.       *)
MemberMailKept == \A a \in Agents : owed[a] \subseteq inbox[a]
=============================================================================
