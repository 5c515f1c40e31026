------------------------------ MODULE Lifecycle ------------------------------
(***************************************************************************)
(* The life of one session ID: the session store (session.go), the handlers *)
(* that create, use and delete a session (api.go), Hub.CloseSession and the *)
(* janitor (hub.go), and the presence sweeper with its hooks.               *)
(*                                                                          *)
(* A session ID that was deleted may be registered again: each creation is  *)
(* an incarnation.  The session record and the stores of session-scoped     *)
(* data lock themselves one by one, so a request that was authenticated     *)
(* against one incarnation may write after it is gone.  A store's content   *)
(* is the set of incarnations that wrote it; the agents of the session are  *)
(* not told apart, and which of them are new, live, lapsed or forgotten at a *)
(* step is left open.  Modules Membership and Leadership keep the clocks of *)
(* single agents and take the steps of Register and of the hooks apart.     *)
(***************************************************************************)
EXTENDS Naturals, Sequences, FiniteSets

CONSTANTS
  Requests,    \* handlers of register and of authenticated requests
  Deleters,    \* handlers of DELETE /sessions/{id}
  Janitor,     \* the janitor goroutine
  Ops,         \* the kinds of authenticated requests
  Retention,   \* the janitor's retention horizon, in ticks; 0 is no janitor
  Sweeping,    \* bound: whether sweeps of the presence tracker happen
  MaxGens      \* bound: incarnations

ASSUME LifecycleAssumption ==
  /\ Janitor \notin Deleters
  /\ Ops \subseteq {"message", "scratchpad", "file", "poll", "read"}
  /\ Retention \in Nat /\ Sweeping \in BOOLEAN /\ MaxGens \in Nat \ {0}

Gens    == 1..MaxGens
Closers == Deleters \cup {Janitor}

(* The stores that CloseSession clears; "log" is the history with its      *)
(* sequence counter.  The watch tokens are not among them: they expire by  *)
(* themselves, an hour after they were issued (watchtoken.go).             *)
Parts == {"log", "presence", "leader", "scratchpad", "files", "mailboxes"}

(* Mutant: leadership is forgotten. *)
OrderForgets == <<"log", "presence", "scratchpad", "files", "mailboxes">>

(* The stores in the order in which CloseSession clears them. *)
Order == <<"log", "presence", "leader", "scratchpad", "files", "mailboxes">>

(* The stores that an authenticated request writes, in order. *)
Plan == [message    |-> <<"log", "mailboxes">>,
         scratchpad |-> <<"scratchpad", "log", "mailboxes">>,
         file       |-> <<"files">>,
         poll       |-> <<"presence", "mailboxes">>,   \* a second Touch; a long-poll
                                                      \* creates its box
         read       |-> <<>>]

VARIABLES
  gen,     \* the incarnation in Store.sessions, 0 when there is none
  made,    \* incarnations created so far
  idle,    \* time since Session.LastActive, saturating at Retention
  data,    \* Parts -> the incarnations whose data the store holds
  pc, hgen, plan, at,   \* locals of a handler; at = age of its time.Now()
  step,    \* the position in CloseSession of each closer, 0 when outside
  jpc, stale,           \* the janitor's loop and what its Snapshot showed
  used,    \* history: age of the newest activity that was recorded
  spc, sgen, gone,      \* the sweeper's hooks: whose record it took up, and
                        \* whether it has removed it
  saved,   \* history: activity or a creation since the janitor's snapshot
  stray    \* history: a request or a hook of the sweeper was under way when
           \* the session was deleted, or took it up after that

record   == <<gen, made, idle, used, saved>>
handlers == <<pc, hgen, plan, at>>
closing  == <<step, jpc, stale>>
sweeping == <<spc, sgen, gone>>
vars == <<record, data, handlers, closing, sweeping, stray>>

TypeOK ==
  /\ gen \in Gens \cup {0} /\ made \in Gens \cup {0}
  /\ {idle, used} \subseteq 0..Retention /\ saved \in BOOLEAN
  /\ data \in [Parts -> SUBSET Gens]
  /\ pc \in [Requests -> {"idle", "touch", "register", "activity", "write"}]
  /\ hgen \in [Requests -> Gens \cup {0}]
  /\ \A r \in Requests : pc[r] # "idle" => hgen[r] # 0 /\ plan[r] \in Seq(Parts)
  /\ at \in [Requests -> 0..Retention]
  /\ step \in [Closers -> 0..Len(Order)]
  /\ jpc \in {"rest", "scan"} /\ stale \in BOOLEAN
  /\ spc \in {"rest", "offline", "sequence", "deliver", "left", "box"}
  /\ sgen \in Gens \cup {0} /\ (spc # "rest" => sgen # 0)
  /\ gone \in BOOLEAN /\ stray \in BOOLEAN

Init ==
  /\ gen = 0 /\ made = 0 /\ idle = 0
  /\ used = 0 /\ saved = FALSE
  /\ data = [p \in Parts |-> {}]
  /\ pc = [r \in Requests |-> "idle"]
  /\ hgen = [r \in Requests |-> 0]
  /\ plan = [r \in Requests |-> <<>>]
  /\ at = [r \in Requests |-> 0]
  /\ step = [c \in Closers |-> 0]
  /\ jpc = "rest" /\ stale = FALSE
  /\ spc = "rest" /\ sgen = 0 /\ gone = FALSE
  /\ stray = FALSE

-----------------------------------------------------------------------------
Goto(r, label) == pc' = [pc EXCEPT ![r] = label]
InFlight == spc # "rest" \/ \E r \in Requests : pc[r] # "idle"
Closing  == \E c \in Closers : step[c] # 0

(* A new incarnation.  Session.Create sets LastActive; GetOrCreate does not *)
(* and leaves it at the zero time, long ago.                                *)
NewSession(ago) ==
  /\ gen = 0 /\ made < MaxGens
  /\ made' = made + 1 /\ gen' = made + 1 /\ idle' = ago
  /\ used' = ago /\ saved' = (jpc = "scan")

(* POST /sessions: the ID is random, so it was never used before. *)
Create ==
  /\ made = 0
  /\ NewSession(0)
  /\ UNCHANGED <<data, handlers, closing, sweeping, stray>>

(* Mutant: the session just created is not returned. *)
GetOrCreateReturnsOld(r) ==
  /\ pc[r] = "idle"
  /\ IF gen = 0 THEN NewSession(Retention) ELSE UNCHANGED record
  /\ hgen' = [hgen EXCEPT ![r] = gen]
  /\ Goto(r, "register")
  /\ UNCHANGED <<data, plan, at, closing, sweeping, stray>>

(* POST /sessions/{id}/register: GetOrCreate.  A wrong PSK changes nothing. *)
GetOrCreate(r) ==
  /\ pc[r] = "idle"
  /\ IF gen = 0 THEN NewSession(Retention) ELSE UNCHANGED record
  /\ hgen' = [hgen EXCEPT ![r] = gen']
  /\ Goto(r, "register")
  /\ UNCHANGED <<data, plan, at, closing, sweeping, stray>>

(* The other handlers authenticate with ValidatePSK. *)
ValidatePSK(r, op) ==
  /\ pc[r] = "idle" /\ gen # 0
  /\ hgen' = [hgen EXCEPT ![r] = gen]
  /\ plan' = [plan EXCEPT ![r] = Plan[op]]
  /\ Goto(r, "touch")
  /\ UNCHANGED <<record, data, at, closing, sweeping, stray>>

(* The handler returns, or goes on to what it has to write. *)
Return(r) ==
  /\ Goto(r, "idle")
  /\ hgen' = [hgen EXCEPT ![r] = 0]
  /\ at' = [at EXCEPT ![r] = 0]
  /\ plan' = [plan EXCEPT ![r] = <<>>]

GoOn(r, rest) ==
  IF rest = <<>> THEN Return(r)
  ELSE /\ Goto(r, "write") /\ plan' = [plan EXCEPT ![r] = rest]
       /\ at' = [at EXCEPT ![r] = 0] /\ UNCHANGED hgen

TouchPresence(r) == data' = [data EXCEPT !["presence"] = @ \cup {hgen[r]}]

(* RefreshPresence: presence first, LastActive after it. *)
RefreshPresence(r) ==
  /\ pc[r] = "touch"
  /\ TouchPresence(r)
  /\ Goto(r, "activity") /\ at' = [at EXCEPT ![r] = 0]
  /\ UNCHANGED <<record, hgen, plan, closing, sweeping, stray>>

(* Hub.Register: a new agent and one that lapsed past the TTL count as     *)
(* activity and are announced, a steady heartbeat is not.                  *)
Register(r) ==
  /\ pc[r] = "register"
  /\ TouchPresence(r)
  /\ \/ /\ \/ plan' = [plan EXCEPT ![r] = <<"log", "leader">>]     \* isNew
           \/ /\ data["presence"] # {}                            \* known and not live
              /\ plan' = [plan EXCEPT ![r] = <<"log">>]
        /\ Goto(r, "activity") /\ at' = [at EXCEPT ![r] = 0]
        /\ UNCHANGED hgen
     \/ /\ data["presence"] # {}
        /\ Return(r)
  /\ UNCHANGED <<record, closing, sweeping, stray>>

(* What the histories keep of activity at the time that r has read. *)
Recorded(r) ==
  /\ used' = IF gen # 0 /\ at[r] < used THEN at[r] ELSE used
  /\ saved' = (jpc = "scan")

(* Mutant: an older time moves LastActive back. *)
TouchActivityBack(r) ==
  /\ pc[r] = "activity"
  /\ idle' = IF gen # 0 THEN at[r] ELSE idle
  /\ Recorded(r)
  /\ GoOn(r, plan[r])
  /\ UNCHANGED <<gen, made, data, closing, sweeping, stray>>

(* TouchActivity(id, at): whatever incarnation has the ID now, and never *)
(* backwards.                                                            *)
TouchActivity(r) ==
  /\ pc[r] = "activity"
  /\ idle' = IF gen # 0 /\ at[r] < idle THEN at[r] ELSE idle
  /\ Recorded(r)
  /\ GoOn(r, plan[r])
  /\ UNCHANGED <<gen, made, data, closing, sweeping, stray>>

(* The stores are keyed by session ID and create what is missing. *)
Write(r) ==
  /\ pc[r] = "write"
  /\ LET part == Head(plan[r]) IN
     data' = [data EXCEPT ![part] = IF part = "leader" /\ @ # {} THEN @
                                                               ELSE @ \cup {hgen[r]}]
  /\ GoOn(r, Tail(plan[r]))
  /\ UNCHANGED <<record, closing, sweeping, stray>>

-----------------------------------------------------------------------------
(* Mutant: every caller of Delete succeeds. *)
DeleteAlways(c) ==
  /\ step[c] = 0
  /\ gen' = 0 /\ idle' = 0 /\ used' = 0 /\ saved' = FALSE
  /\ step' = [step EXCEPT ![c] = 1]
  /\ stray' = InFlight
  /\ UNCHANGED <<made, data, handlers, sweeping>>

(* Store.Delete succeeds for one caller only; that one goes on to close. *)
Delete(c) ==
  /\ gen # 0 /\ step[c] = 0
  /\ gen' = 0 /\ idle' = 0 /\ used' = 0 /\ saved' = FALSE
  /\ step' = [step EXCEPT ![c] = 1]
  /\ stray' = InFlight
  /\ UNCHANGED <<made, data, handlers, sweeping>>

DeleteSession(c) ==
  /\ Delete(c)
  /\ UNCHANGED <<jpc, stale>>

(* CloseSession: one store after the other. *)
CloseSession(c) ==
  /\ step[c] # 0
  /\ data' = [data EXCEPT ![Order[step[c]]] = {}]
  /\ step' = [step EXCEPT ![c] = IF @ = Len(Order) THEN 0 ELSE @ + 1]
  /\ UNCHANGED <<record, handlers, jpc, stale, sweeping, stray>>

(* reapStaleSessions decides on a copy of the records, then deletes by ID. *)
JanitorSnapshot ==
  /\ Retention > 0 /\ jpc = "rest" /\ step[Janitor] = 0
  /\ gen # 0
  /\ stale' = (idle >= Retention)
  /\ jpc' = "scan"
  /\ UNCHANGED <<record, data, handlers, step, sweeping, stray>>

JanitorDelete ==
  /\ jpc = "scan"
  /\ jpc' = "rest" /\ stale' = FALSE
  /\ IF stale /\ gen # 0
     THEN Delete(Janitor)
     ELSE /\ saved' = FALSE
          /\ UNCHANGED <<gen, made, idle, used, data, handlers, step, sweeping, stray>>

-----------------------------------------------------------------------------
(* Tracker.sweep: under the tracker's lock it marks agents that lapsed and   *)
(* removes those that are past the forget horizon; one agent of the session  *)
(* at a time, others may keep records of the same incarnation.  The hooks    *)
(* run after the unlock.                                                     *)
Sweep ==
  /\ Sweeping /\ spc = "rest"
  /\ \E g \in data["presence"], lapsed \in BOOLEAN, left \in BOOLEAN, others \in {{}, data["presence"]} :
       /\ lapsed \/ left
       /\ sgen' = g /\ gone' = left
       /\ spc' = IF lapsed THEN "offline" ELSE "left"
       /\ data' = IF left THEN [data EXCEPT !["presence"] = (@ \ {g}) \cup others] ELSE data
       /\ stray' = (stray \/ g # gen)
  /\ UNCHANGED <<record, handlers, closing>>

(* A hook goes on, at the end of the list to the agents it has to forget. *)
HookTo(label) ==
  /\ spc' = label
  /\ sgen' = IF label = "rest" THEN 0 ELSE sgen
  /\ gone' = (gone /\ label # "rest")
  /\ UNCHANGED <<record, handlers, closing, stray>>

AfterExpiry == IF gone THEN "left" ELSE "rest"

(* onAgentWentOffline: nothing for an agent that does not lead; Transfer to  *)
(* an agent that is online, which is announced; no leader when there is none *)
(* online.                                                                   *)
WentOffline ==
  /\ spc = "offline"
  /\ \/ HookTo(AfterExpiry) /\ UNCHANGED data
     \/ /\ data["leader"] # {} /\ data["presence"] # {}
        /\ HookTo("sequence") /\ UNCHANGED data
     \/ /\ data["leader"] # {}
        /\ data' = [data EXCEPT !["leader"] = {}]
        /\ HookTo(AfterExpiry)

(* emitSystemEvent: the counter, then the boxes of whoever is present. *)
AnnounceHeir ==
  \/ /\ spc = "sequence" /\ HookTo("deliver")
     /\ data' = [data EXCEPT !["log"] = @ \cup {sgen}]
  \/ /\ spc = "deliver" /\ HookTo(AfterExpiry)
     /\ data' = IF data["presence"] = {} THEN data
                ELSE [data EXCEPT !["mailboxes"] = @ \cup {sgen}]

(* onForget: agent_left takes a sequence number, whether the session exists *)
(* or not, and the agent's box is deleted.                                  *)
Forget ==
  \/ /\ spc = "left" /\ HookTo("box")
     /\ data' = [data EXCEPT !["log"] = @ \cup {sgen}]
  \/ /\ spc = "box" /\ HookTo("rest")
     /\ \E kept \in SUBSET data["mailboxes"] : data' = [data EXCEPT !["mailboxes"] = kept]

Older(t, horizon) == IF t < horizon THEN t + 1 ELSE t

Tick ==
  /\ idle' = IF gen = 0 THEN 0 ELSE Older(idle, Retention)
  /\ used' = IF gen = 0 THEN 0 ELSE Older(used, Retention)
  /\ at' = [r \in Requests |-> IF pc[r] = "activity" THEN Older(at[r], Retention) ELSE at[r]]
  /\ UNCHANGED <<gen, made, saved, data, pc, hgen, plan, closing, sweeping, stray>>

-----------------------------------------------------------------------------
Request(r) ==
  \/ GetOrCreate(r) \/ Register(r)
  \/ \E op \in Ops : ValidatePSK(r, op)
  \/ RefreshPresence(r) \/ TouchActivity(r) \/ Write(r)

SweeperStep == Sweep \/ WentOffline \/ AnnounceHeir \/ Forget

JanitorStep == JanitorSnapshot \/ JanitorDelete \/ CloseSession(Janitor)

Next ==
  \/ Create \/ Tick \/ JanitorStep \/ SweeperStep
  \/ \E r \in Requests : Request(r)
  \/ \E c \in Deleters : DeleteSession(c) \/ CloseSession(c)

Spec == Init /\ [][Next]_vars

-----------------------------------------------------------------------------
(* What is in the stores under an ID is the data of the session that has   *)
(* the ID, once no CloseSession is at work: a deleted session leaves nothing *)
(* in the stores that CloseSession clears, and one that is created under its *)
(* ID inherits nothing, not even if it was created while the old one was     *)
(* being closed, however many deletions and janitor passes race.  The        *)
(* exception is what the code does not order: a request or a hook of the     *)
(* presence sweeper that was under way when the session was deleted, and a   *)
(* sweep that finds a record of it before CloseSession does.  Its late write *)
(* re-creates the store (for the sweeper, the sequence counter).             *)
OwnDataOnly ==
  ~Closing /\ ~stray => \A p \in Parts : data[p] \subseteq {gen}

(* Only one of the callers that delete an incarnation closes it: two        *)
(* closers are at work only if the session was created again meanwhile.     *)
ClosedOnce ==
  Cardinality({c \in Closers : step[c] # 0}) <= made - (IF gen = 0 THEN 0 ELSE 1)

(* The janitor takes only sessions that are idle: the newest activity that  *)
(* any request recorded, in whatever order they read the clock and take the *)
(* lock, is past the retention horizon, unless that activity, or the        *)
(* session itself, is younger than the janitor's snapshot.                  *)
ReapsOnlyIdle ==
  [][JanitorDelete /\ gen # 0 /\ gen' = 0 => used = Retention \/ saved]_vars
=============================================================================
