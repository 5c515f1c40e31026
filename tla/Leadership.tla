----------------------------- MODULE Leadership -----------------------------
(***************************************************************************)
(* Leadership of one session: Hub.Register, Hub.RefreshPresence,           *)
(* Hub.LeaderTransfer and onAgentWentOffline of hub.go, over the presence  *)
(* tracker (Presence) and the leader tracker (leader.go).                  *)
(*                                                                         *)
(* HTTP handlers run concurrently with each other and with the one sweeper *)
(* goroutine; each tracker locks itself only, so what a handler read from  *)
(* one of them may be stale when it acts.  One step is one locked section. *)
(* What these handlers announce of the roster and do to mailboxes is in    *)
(* module Membership, how events are numbered and fanned out in module     *)
(* EventStream.                                                            *)
(***************************************************************************)
EXTENDS Presence

CONSTANTS
  Requests,     \* HTTP handler goroutines
  NoAgent       \* the empty agent ID

ASSUME NoAgentAssumption == NoAgent \notin Agents

VARIABLES
  leader,       \* leader.Tracker.leaders[session], NoAgent when absent
  pc, who, heir,                  \* locals of each handler
  spc, expiring, lapsed, choice,  \* locals of the sweeper
  late          \* history: leadership was last given to an agent that the
                \* sweeper had already declared offline

handlers == <<pc, who, heir>>
sweeper  == <<spc, expiring, lapsed, choice>>
vars == <<presence, leader, handlers, sweeper, late>>

TypeOK ==
  /\ PresenceTypeOK
  /\ leader \in Agents \cup {NoAgent}
  /\ pc \in [Requests -> {"idle", "touch", "ask", "set", "authed", "target", "transfer"}]
  /\ who \in [Requests -> Agents \cup {NoAgent}]
  /\ \A r \in Requests : pc[r] # "idle" => who[r] \in Agents
  /\ heir \in [Requests -> Agents \cup {NoAgent}]
  /\ \A r \in Requests : pc[r] \in {"target", "transfer"} => heir[r] \in Agents
  /\ spc \in {"rest", "expire", "pick", "hand", "clear"}
  /\ expiring \subseteq Agents
  /\ lapsed \in Agents \cup {NoAgent}
  /\ choice \in Agents \cup {NoAgent}
  /\ spc \in {"pick", "hand", "clear"} => lapsed \in Agents
  /\ spc = "hand" => choice \in Agents
  /\ late \in BOOLEAN

Init ==
  /\ PresenceInit
  /\ leader = NoAgent
  /\ pc = [r \in Requests |-> "idle"]
  /\ who = [r \in Requests |-> NoAgent]
  /\ heir = [r \in Requests |-> NoAgent]
  /\ spc = "rest" /\ expiring = {}
  /\ lapsed = NoAgent /\ choice = NoAgent
  /\ late = FALSE

-----------------------------------------------------------------------------
Goto(r, label) == pc' = [pc EXCEPT ![r] = label]

Return(r) ==
  /\ Goto(r, "idle")
  /\ who' = [who EXCEPT ![r] = NoAgent]
  /\ heir' = [heir EXCEPT ![r] = NoAgent]

(* leader.Tracker: unconditional write, and compare-and-set. *)
Appoint(a) ==
  /\ leader' = a
  /\ late' = (a \notin known \ expired)

Transfer(from, to) ==
  IF leader = from THEN Appoint(to) ELSE UNCHANGED <<leader, late>>

-----------------------------------------------------------------------------
(* POST /sessions/{id}/register, the heartbeat: Hub.Register.  Only a new *)
(* agent looks at the leader.                                             *)

RegisterCall(r, a) ==
  /\ pc[r] = "idle"
  /\ who' = [who EXCEPT ![r] = a]
  /\ Goto(r, "touch")
  /\ UNCHANGED <<presence, leader, heir, sweeper, late>>

RegisterTouch(r) ==
  /\ pc[r] = "touch"
  /\ Touch(who[r])
  /\ IF who[r] \notin known THEN Goto(r, "ask") /\ UNCHANGED <<who, heir>>
                           ELSE Return(r)
  /\ UNCHANGED <<leader, sweeper, late>>

RegisterGetLeader(r) ==
  /\ pc[r] = "ask"
  /\ IF leader = NoAgent THEN Goto(r, "set") /\ UNCHANGED <<who, heir>>
                         ELSE Return(r)
  /\ UNCHANGED <<presence, leader, sweeper, late>>

(* An unconditional write: another newcomer may have become leader since. *)
RegisterSetInitialLeader(r) ==
  /\ pc[r] = "set"
  /\ Appoint(who[r])
  /\ Return(r)
  /\ UNCHANGED <<presence, sweeper>>

-----------------------------------------------------------------------------
(* Any other authenticated request: the middleware's RefreshPresence, then *)
(* the handler.  Mailbox handlers touch presence a second time.            *)

AuthedCall(r, a) ==
  /\ pc[r] = "idle"
  /\ Touch(a)
  /\ who' = [who EXCEPT ![r] = a]
  /\ Goto(r, "authed")
  /\ UNCHANGED <<leader, heir, sweeper, late>>

MailboxTouch(r) ==
  /\ pc[r] = "authed"
  /\ Touch(who[r])
  /\ Return(r)
  /\ UNCHANGED <<leader, sweeper, late>>

AuthedReturn(r) ==
  /\ pc[r] = "authed"
  /\ Return(r)
  /\ UNCHANGED <<presence, leader, sweeper, late>>

(* Hub.LeaderTransfer: three checks, each on state that may have moved on *)
(* by the next, the last of them the compare-and-set.  The leader_info    *)
(* event that follows is an event of module EventStream.                  *)
TransferCall(r, b) ==
  /\ pc[r] = "authed"
  /\ leader = who[r]
  /\ heir' = [heir EXCEPT ![r] = b]
  /\ Goto(r, "target")
  /\ UNCHANGED <<presence, leader, who, sweeper, late>>

TransferIsPresent(r) ==
  /\ pc[r] = "target"
  /\ IF IsPresent(heir[r])
     THEN Goto(r, "transfer") /\ UNCHANGED <<who, heir>>
     ELSE Return(r)
  /\ UNCHANGED <<presence, leader, sweeper, late>>

TransferLeader(r) ==
  /\ pc[r] = "transfer"
  /\ Transfer(who[r], heir[r])
  /\ Return(r)
  /\ UNCHANGED <<presence, sweeper>>

-----------------------------------------------------------------------------
(* The sweeper goroutine: Tracker.sweep under the lock, then the callbacks, *)
(* without it.  The onForget callbacks that follow leave leadership alone.  *)

Sweep ==
  /\ spc = "rest"
  /\ Expiring \cup Forgetting # {}
  /\ SweepPresence
  /\ expiring' = Expiring
  /\ spc' = "expire"
  /\ UNCHANGED <<leader, handlers, lapsed, choice, late>>

(* onAgentWentOffline(a): is it the leader? *)
ExpireGetLeader(a) ==
  /\ spc = "expire" /\ a \in expiring
  /\ expiring' = expiring \ {a}
  /\ IF leader = a THEN spc' = "pick" /\ lapsed' = a
                   ELSE UNCHANGED <<spc, lapsed>>
  /\ UNCHANGED <<presence, leader, handlers, choice, late>>

(* The first online agent in GetAgents, whose order is that of a Go map. *)
ExpirePick(b) ==
  /\ spc = "pick" /\ IsPresent(b)
  /\ choice' = b /\ spc' = "hand"
  /\ UNCHANGED <<presence, leader, handlers, expiring, lapsed, late>>

(* Mutant: with nobody online the leader is left as it is. *)
ExpireKeepsLeader ==
  /\ spc = "pick" /\ \A b \in Agents : ~IsPresent(b)
  /\ spc' = "expire" /\ lapsed' = NoAgent
  /\ UNCHANGED <<presence, leader, handlers, expiring, choice, late>>

ExpireNoneOnline ==
  /\ spc = "pick" /\ \A b \in Agents : ~IsPresent(b)
  /\ spc' = "clear"
  /\ UNCHANGED <<presence, leader, handlers, expiring, lapsed, choice, late>>

(* Mutant: the arguments of Transfer are swapped. *)
ExpireTransferSwapped ==
  /\ spc = "hand"
  /\ Transfer(choice, lapsed)
  /\ spc' = "expire" /\ lapsed' = NoAgent /\ choice' = NoAgent
  /\ UNCHANGED <<presence, handlers, expiring>>

(* The compare-and-set, whose result is not looked at. *)
ExpireTransfer ==
  /\ spc = "hand"
  /\ Transfer(lapsed, choice)
  /\ spc' = "expire" /\ lapsed' = NoAgent /\ choice' = NoAgent
  /\ UNCHANGED <<presence, handlers, expiring>>

ExpireClear ==
  /\ spc = "clear"
  /\ leader' = NoAgent /\ late' = FALSE
  /\ spc' = "expire" /\ lapsed' = NoAgent
  /\ UNCHANGED <<presence, handlers, expiring, choice>>

SweepDone ==
  /\ spc = "expire" /\ expiring = {}
  /\ spc' = "rest"
  /\ UNCHANGED <<presence, leader, handlers, expiring, lapsed, choice, late>>

-----------------------------------------------------------------------------
Tick ==
  /\ PassTime
  /\ UNCHANGED <<leader, handlers, sweeper, late>>

(* A restart with persistence: mailboxes survive, presence and leadership *)
(* do not.                                                                *)
Restart ==
  /\ known # {} \/ leader # NoAgent
  /\ known' = {} /\ since' = [a \in Agents |-> 0] /\ expired' = {}
  /\ leader' = NoAgent
  /\ pc' = [r \in Requests |-> "idle"]
  /\ who' = [r \in Requests |-> NoAgent]
  /\ heir' = [r \in Requests |-> NoAgent]
  /\ spc' = "rest" /\ expiring' = {} /\ lapsed' = NoAgent /\ choice' = NoAgent
  /\ late' = FALSE

Register(r) ==
  \/ \E a \in Agents : RegisterCall(r, a)
  \/ RegisterTouch(r) \/ RegisterGetLeader(r) \/ RegisterSetInitialLeader(r)

Authed(r) ==
  \/ \E a \in Agents : AuthedCall(r, a)
  \/ AuthedReturn(r)
  \/ MailboxTouch(r)
  \/ \E b \in Agents : TransferCall(r, b)
  \/ TransferIsPresent(r) \/ TransferLeader(r)

SweepStep ==
  \/ Sweep
  \/ \E a \in Agents : ExpireGetLeader(a)
  \/ \E b \in Agents : ExpirePick(b)
  \/ ExpireNoneOnline \/ ExpireTransfer \/ ExpireClear
  \/ SweepDone

Next == Tick \/ Restart \/ SweepStep \/ \E r \in Requests : Register(r) \/ Authed(r)

(* The sweeper's ticker keeps firing; agents owe the server nothing. *)
Spec == Init /\ [][Next]_vars /\ WF_vars(SweepStep)

-----------------------------------------------------------------------------
(* The sweeper has declared agent a offline, or forgotten it. *)
Gone(a) == a \notin known \/ a \in expired

(* The hand-over of a's leadership is still to come in this sweep. *)
HandOverPending(a) ==
  \/ spc = "expire" /\ a \in expiring
  \/ spc \in {"pick", "hand", "clear"} /\ (lapsed = a \/ a \in expiring)

(* "The expiry callback fires exactly once per lapse" rests on this: the    *)
(* Expired flag marks only agents past the TTL, so whoever comes back is    *)
(* unmarked and can expire again.                                           *)
ExpiredIsOffline == \A a \in expired : ~IsPresent(a)

(* A leader that the sweeper declared offline, or forgot, is about to be    *)
(* replaced, however sweeps, heartbeats, transfers and restarts interleave. *)
(* The one exception is leadership given after that declaration, by a       *)
(* handler that had checked the agent before it.                            *)
OfflineLeaderReplaced ==
  leader # NoAgent /\ Gone(leader) /\ ~late => HandOverPending(leader)

(* The sweeper itself never makes that mistake: the agent it elected is     *)
(* not declared offline before it is appointed, since only the sweeper      *)
(* declares agents offline.                                                 *)
AutoHeirOnline == spc = "hand" => ~Gone(choice)

(* ... and the sweeper gets there: an offline leader ceases to lead, or     *)
(* comes back online.                                                       *)
LeaderRecovers ==
  \A a \in Agents :
    (leader = a /\ Gone(a) /\ ~late) ~> (leader # a \/ ~Gone(a) \/ late)
=============================================================================
