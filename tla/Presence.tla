------------------------------ MODULE Presence ------------------------------
(***************************************************************************)
(* The presence tracker of one session, internal/presence/presence.go.     *)
(* Each operator is one section under Tracker.mu.  LastSeen is kept as the *)
(* time that has passed since, in ticks, which saturates at Horizon: past  *)
(* it no comparison of the code changes any more.                          *)
(***************************************************************************)
EXTENDS Naturals

CONSTANTS
  Agents,       \* agent identifiers
  TTL,          \* Tracker.ttl, in ticks
  ForgetAfter   \* Tracker.forgetAfter, in ticks

ASSUME PresenceAssumption ==
  TTL \in Nat \ {0} /\ ForgetAfter \in Nat

VARIABLES
  known,     \* the agents that have an AgentState
  since,     \* time.Since(state.LastSeen), 0 for an unknown agent
  expired    \* the known agents whose Expired flag is set

presence == <<known, since, expired>>

Horizon == IF TTL > ForgetAfter THEN TTL ELSE ForgetAfter

PresenceTypeOK ==
  /\ known \subseteq Agents
  /\ since \in [Agents -> 0..Horizon]
  /\ expired \subseteq known

PresenceInit ==
  /\ known = {}
  /\ since = [a \in Agents |-> 0]
  /\ expired = {}

(* IsPresent, and the Online flag of GetAgents. *)
IsPresent(a) == a \in known /\ since[a] < TTL
WasPresent(a) == a \in known

(* Mutant: a returning agent keeps its Expired flag. *)
TouchKeepsFlag(a) ==
  /\ known' = known \cup {a}
  /\ since' = [since EXCEPT ![a] = 0]
  /\ UNCHANGED expired

(* Touch: create or revive. *)
Touch(a) ==
  /\ known' = known \cup {a}
  /\ since' = [since EXCEPT ![a] = 0]
  /\ expired' = expired \ {a}

(* Time passes for all agents alike. *)
PassTime ==
  /\ \E a \in known : since[a] < Horizon
  /\ since' = [a \in Agents |-> IF a \in known /\ since[a] < Horizon
                                THEN since[a] + 1 ELSE since[a]]
  /\ UNCHANGED <<known, expired>>

(* sweep: the agents it marks expired, and those it removes.  An agent not *)
(* swept between the TTL and the forget horizon is in both.                *)
Expiring   == {a \in known \ expired : ~IsPresent(a)}
Forgetting == {a \in expired \cup Expiring : since[a] >= ForgetAfter}

(* Mutant: forgotten agents stay marked. *)
SweepKeepsFlags ==
  /\ known' = known \ Forgetting
  /\ since' = [a \in Agents |-> IF a \in Forgetting THEN 0 ELSE since[a]]
  /\ expired' = expired \cup Expiring

SweepPresence ==
  /\ known' = known \ Forgetting
  /\ since' = [a \in Agents |-> IF a \in Forgetting THEN 0 ELSE since[a]]
  /\ expired' = (expired \cup Expiring) \ Forgetting
=============================================================================
