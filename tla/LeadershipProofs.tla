-------------------------- MODULE LeadershipProofs --------------------------
(***************************************************************************)
(* For every set of agents and of concurrent requests, and every TTL and   *)
(* forget horizon: type correctness of module Leadership, and the          *)
(* invariant that an offline leader is about to be replaced.               *)
(***************************************************************************)
EXTENDS Leadership, TLAPS

(* The value at which the age of a presence record saturates is a number. *)
LEMMA HorizonType == Horizon \in Nat /\ 0 \in 0..Horizon
BY PresenceAssumption DEF Horizon

(* Every step of Leadership keeps its variables in their types. *)
LEMMA TypeStep == TypeOK /\ [Next]_vars => TypeOK'
<1> SUFFICES ASSUME TypeOK, [Next]_vars PROVE TypeOK'
  OBVIOUS
<1> USE PresenceAssumption, NoAgentAssumption
    DEF TypeOK, PresenceTypeOK, presence, handlers, sweeper, Goto, Return
<1>1. CASE Tick
  BY <1>1 DEF Tick, PassTime, Horizon
<1>2. CASE Restart
  BY <1>2, HorizonType DEF Restart
<1>3. ASSUME NEW r \in Requests, Register(r) PROVE TypeOK'
  <2>1. ASSUME NEW a \in Agents, RegisterCall(r, a) PROVE TypeOK'
    BY <2>1 DEF RegisterCall
  <2>2. CASE RegisterTouch(r)
    BY <2>2 DEF RegisterTouch, Touch, Horizon
  <2>3. CASE RegisterGetLeader(r)
    BY <2>3 DEF RegisterGetLeader
  <2>4. CASE RegisterSetInitialLeader(r)
    BY <2>4 DEF RegisterSetInitialLeader, Appoint
  <2> QED BY <1>3, <2>1, <2>2, <2>3, <2>4 DEF Register
<1>4. ASSUME NEW r \in Requests, Authed(r) PROVE TypeOK'
  <2>1. ASSUME NEW a \in Agents, AuthedCall(r, a) PROVE TypeOK'
    BY <2>1 DEF AuthedCall, Touch, Horizon
  <2>2. CASE AuthedReturn(r)
    BY <2>2 DEF AuthedReturn
  <2>3. CASE MailboxTouch(r)
    BY <2>3 DEF MailboxTouch, Touch, Horizon
  <2>4. ASSUME NEW b \in Agents, TransferCall(r, b) PROVE TypeOK'
    BY <2>4 DEF TransferCall
  <2>5. CASE TransferIsPresent(r)
    BY <2>5 DEF TransferIsPresent
  <2>6. CASE TransferLeader(r)
    BY <2>6 DEF TransferLeader, Transfer, Appoint
  <2> QED BY <1>4, <2>1, <2>2, <2>3, <2>4, <2>5, <2>6 DEF Authed
<1>5. CASE SweepStep
  <2>1. CASE Sweep
    BY <2>1 DEF Sweep, SweepPresence, Expiring, Forgetting, Horizon
  <2>2. ASSUME NEW a \in Agents, ExpireGetLeader(a) PROVE TypeOK'
    BY <2>2 DEF ExpireGetLeader
  <2>3. ASSUME NEW b \in Agents, ExpirePick(b) PROVE TypeOK'
    BY <2>3 DEF ExpirePick
  <2>4. CASE ExpireNoneOnline
    BY <2>4 DEF ExpireNoneOnline
  <2>5. CASE ExpireTransfer
    BY <2>5 DEF ExpireTransfer, Transfer, Appoint
  <2>6. CASE ExpireClear
    BY <2>6 DEF ExpireClear
  <2>7. CASE SweepDone
    BY <2>7 DEF SweepDone
  <2> QED BY <1>5, <2>1, <2>2, <2>3, <2>4, <2>5, <2>6, <2>7 DEF SweepStep
<1>6. CASE UNCHANGED vars
  BY <1>6 DEF vars
<1> QED BY <1>1, <1>2, <1>3, <1>4, <1>5, <1>6 DEF Next

(* Every reachable state of Leadership is well typed, whatever the numbers *)
(* of agents and concurrent requests and the presence horizons.            *)
THEOREM TypeCorrect == Spec => []TypeOK
<1>1. Init => TypeOK
  BY HorizonType DEF Init, PresenceInit, TypeOK, PresenceTypeOK
<1> QED BY <1>1, TypeStep, PTL DEF Spec

-----------------------------------------------------------------------------
(* The inductive invariant: the three safety properties need each other.    *)
(* Appointing the sweeper's choice is not late because of AutoHeirOnline,   *)
(* and a sweep makes nobody gone that it had flagged before because flagged *)
(* agents are offline.                                                      *)
LeadershipInv == ExpiredIsOffline /\ AutoHeirOnline /\ OfflineLeaderReplaced

(* Tracker.Touch clears the Expired flag of the agent it brings back.       *)
LEMMA TouchFacts ==
  ASSUME TypeOK, ExpiredIsOffline, NEW a \in Agents, Touch(a)
  PROVE  /\ ExpiredIsOffline'
         /\ \A b \in Agents : Gone(b)' => Gone(b)
BY PresenceAssumption DEF TypeOK, PresenceTypeOK, ExpiredIsOffline, Touch, Gone, IsPresent

(* Time alone makes no agent gone, and brings no expired agent back. *)
LEMMA TickFacts ==
  ASSUME TypeOK, ExpiredIsOffline, PassTime
  PROVE  /\ ExpiredIsOffline'
         /\ \A b \in Agents : Gone(b)' => Gone(b)
BY PresenceAssumption, HorizonType
   DEF TypeOK, PresenceTypeOK, ExpiredIsOffline, PassTime, Gone, IsPresent

(* Tracker.sweep makes only those agents gone that it hands to its callbacks, *)
(* and flags only agents past the TTL.                                        *)
LEMMA SweepFacts ==
  ASSUME TypeOK, ExpiredIsOffline, SweepPresence
  PROVE  /\ ExpiredIsOffline'
         /\ \A b \in Agents : Gone(b)' => Gone(b) \/ b \in Expiring
BY PresenceAssumption
   DEF TypeOK, PresenceTypeOK, ExpiredIsOffline, SweepPresence, Expiring, Forgetting,
       Gone, IsPresent

(* Every step preserves the inductive invariant. *)
LEMMA InvStep == TypeOK /\ LeadershipInv /\ [Next]_vars => LeadershipInv'
<1> SUFFICES ASSUME TypeOK, ExpiredIsOffline, AutoHeirOnline, OfflineLeaderReplaced,
                    [Next]_vars
             PROVE  LeadershipInv'
  BY DEF LeadershipInv
<1> USE DEF LeadershipInv, presence, handlers, sweeper
(* A step that leaves leader, late and the sweeper alone only has to leave  *)
(* the gone agents gone.                                                    *)
<1>a. ASSUME UNCHANGED <<leader, late, sweeper>>, ExpiredIsOffline',
             \A b \in Agents : Gone(b)' => Gone(b)
      PROVE  LeadershipInv'
  BY <1>a DEF TypeOK, AutoHeirOnline, OfflineLeaderReplaced, HandOverPending
<1>b. ASSUME UNCHANGED <<leader, late, sweeper, presence>> PROVE LeadershipInv'
  BY <1>b DEF ExpiredIsOffline, AutoHeirOnline, OfflineLeaderReplaced, HandOverPending,
              Gone, IsPresent
(* Appointing an agent records whether it was gone already. *)
<1>c. ASSUME NEW a \in Agents, Appoint(a), UNCHANGED <<sweeper, presence>>
      PROVE  LeadershipInv'
  BY <1>c DEF ExpiredIsOffline, AutoHeirOnline, OfflineLeaderReplaced, Appoint,
              Gone, IsPresent
<1>1. CASE Tick
  BY <1>1, <1>a, TickFacts DEF Tick
<1>2. CASE Restart
  BY <1>2 DEF Restart, ExpiredIsOffline, AutoHeirOnline, OfflineLeaderReplaced
<1>3. ASSUME NEW r \in Requests, Register(r) PROVE LeadershipInv'
  <2>1. ASSUME NEW a \in Agents, RegisterCall(r, a) PROVE LeadershipInv'
    BY <2>1, <1>b DEF RegisterCall
  <2>2. CASE RegisterTouch(r)
    BY <2>2, <1>a, TouchFacts DEF RegisterTouch, TypeOK
  <2>3. CASE RegisterGetLeader(r)
    BY <2>3, <1>b DEF RegisterGetLeader
  <2>4. CASE RegisterSetInitialLeader(r)
    BY <2>4, <1>c DEF RegisterSetInitialLeader, TypeOK
  <2> QED BY <1>3, <2>1, <2>2, <2>3, <2>4 DEF Register
<1>4. ASSUME NEW r \in Requests, Authed(r) PROVE LeadershipInv'
  <2>1. ASSUME NEW a \in Agents, AuthedCall(r, a) PROVE LeadershipInv'
    BY <2>1, <1>a, TouchFacts DEF AuthedCall
  <2>2. CASE AuthedReturn(r)
    BY <2>2, <1>b DEF AuthedReturn
  <2>3. CASE MailboxTouch(r)
    BY <2>3, <1>a, TouchFacts DEF MailboxTouch, TypeOK
  <2>4. ASSUME NEW b \in Agents, TransferCall(r, b) PROVE LeadershipInv'
    BY <2>4, <1>b DEF TransferCall
  <2>5. CASE TransferIsPresent(r)
    BY <2>5, <1>b DEF TransferIsPresent
  <2>6. CASE TransferLeader(r)
    <3>1. CASE leader = who[r]
      BY <2>6, <3>1, <1>c DEF TransferLeader, Transfer, TypeOK
    <3>2. CASE leader # who[r]
      BY <2>6, <3>2, <1>b DEF TransferLeader, Transfer
    <3> QED BY <3>1, <3>2
  <2> QED BY <1>4, <2>1, <2>2, <2>3, <2>4, <2>5, <2>6 DEF Authed
<1>5. CASE SweepStep
  <2>1. CASE Sweep
    BY <2>1, SweepFacts
       DEF Sweep, TypeOK, AutoHeirOnline, OfflineLeaderReplaced, HandOverPending
  <2>2. ASSUME NEW a \in Agents, ExpireGetLeader(a) PROVE LeadershipInv'
    BY <2>2 DEF ExpireGetLeader, ExpiredIsOffline, AutoHeirOnline, OfflineLeaderReplaced,
                HandOverPending, Gone, IsPresent
  <2>3. ASSUME NEW b \in Agents, ExpirePick(b) PROVE LeadershipInv'
    BY <2>3 DEF ExpirePick, ExpiredIsOffline, AutoHeirOnline, OfflineLeaderReplaced,
                HandOverPending, Gone, IsPresent
  <2>4. CASE ExpireNoneOnline
    BY <2>4 DEF ExpireNoneOnline, ExpiredIsOffline, AutoHeirOnline, OfflineLeaderReplaced,
                HandOverPending, Gone, IsPresent
  <2>5. CASE ExpireTransfer
    BY <2>5 DEF ExpireTransfer, Transfer, Appoint, ExpiredIsOffline, AutoHeirOnline,
                OfflineLeaderReplaced, HandOverPending, Gone, IsPresent
  <2>6. CASE ExpireClear
    BY <2>6 DEF ExpireClear, ExpiredIsOffline, AutoHeirOnline, OfflineLeaderReplaced,
                Gone, IsPresent
  <2>7. CASE SweepDone
    BY <2>7 DEF SweepDone, ExpiredIsOffline, AutoHeirOnline, OfflineLeaderReplaced,
                HandOverPending, Gone, IsPresent
  <2> QED BY <1>5, <2>1, <2>2, <2>3, <2>4, <2>5, <2>6, <2>7 DEF SweepStep
<1>6. CASE UNCHANGED vars
  BY <1>6, <1>b DEF vars
<1> QED BY <1>1, <1>2, <1>3, <1>4, <1>5, <1>6 DEF Next

(* The invariant holds when the server starts. *)
LEMMA InvInit == Init => LeadershipInv
BY DEF Init, PresenceInit, LeadershipInv, ExpiredIsOffline, AutoHeirOnline,
       OfflineLeaderReplaced

(* The inductive invariant holds in every reachable state. *)
LEMMA InvCorrect == Spec => []LeadershipInv
BY InvInit, InvStep, TypeCorrect, PTL DEF Spec

(* A leader that onAgentWentOffline has not dealt with yet is on the list of *)
(* the running sweep, for any interleaving of heartbeats, transfers, sweeps  *)
(* and restarts, unless a handler appointed it on a stale check.             *)
THEOREM OfflineLeaderIsReplaced == Spec => []OfflineLeaderReplaced
BY InvCorrect, PTL DEF LeadershipInv

(* The agent that onAgentWentOffline elects is still a live member of the    *)
(* roster when Transfer makes it the leader.                                 *)
THEOREM AutoHeirIsOnline == Spec => []AutoHeirOnline
BY InvCorrect, PTL DEF LeadershipInv
=============================================================================
