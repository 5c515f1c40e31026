--------------------------- MODULE LifecycleProofs ---------------------------
(***************************************************************************)
(* For every set of handlers and deleters, every retention horizon and any *)
(* number of incarnations: what the stores hold belongs to the session that *)
(* has the ID, unless a request or a sweep of a deleted one was under way,  *)
(* a session is closed once, and the janitor takes only what is idle.       *)
(***************************************************************************)
EXTENDS Lifecycle, FiniteSetTheorems, TLAPS

(* What the handlers need beyond their types: a plan is a sequence of       *)
(* stores, and one that is being written is not empty.                      *)
PlanOK ==
  /\ plan \in [Requests -> Seq(Parts)]
  /\ \A r \in Requests : pc[r] = "write" => plan[r] # <<>>

Labels == {"idle", "touch", "register", "activity", "write"}

(* The locals of the handlers have their types. *)
HandlersOK ==
  /\ pc \in [Requests -> Labels] /\ hgen \in [Requests -> Gens \cup {0}]
  /\ \A r \in Requests : pc[r] # "idle" => hgen[r] # 0
  /\ at \in [Requests -> 0..Retention] /\ PlanOK

(* The type invariant, regrouped. *)
LEMMA TypeParts ==
  TypeOK /\ PlanOK <=>
    /\ HandlersOK
    /\ gen \in Gens \cup {0} /\ made \in Gens \cup {0}
    /\ {idle, used} \subseteq 0..Retention /\ saved \in BOOLEAN
    /\ data \in [Parts -> SUBSET Gens]
    /\ step \in [Closers -> 0..Len(Order)]
    /\ jpc \in {"rest", "scan"} /\ stale \in BOOLEAN
    /\ spc \in {"rest", "offline", "sequence", "deliver", "left", "box"}
    /\ sgen \in Gens \cup {0} /\ (spc # "rest" => sgen # 0)
    /\ gone \in BOOLEAN /\ stray \in BOOLEAN
BY DEF TypeOK, PlanOK, HandlersOK, Labels

(* A handler that returns, or goes on, keeps the types of the locals. *)
LEMMA GoOnType ==
  ASSUME HandlersOK, NEW r \in Requests, pc[r] # "idle", NEW rest \in Seq(Parts), GoOn(r, rest)
  PROVE  /\ HandlersOK'
         /\ pc' \in {[pc EXCEPT ![r] = "idle"], [pc EXCEPT ![r] = "write"]}
         /\ pc'[r] = "idle" \/ hgen'[r] = hgen[r]
         /\ \A q \in Requests : q # r => pc'[q] = pc[q] /\ hgen'[q] = hgen[q]
<1>0. 0 \in 0..Retention /\ <<>> \in Seq(Parts)
  BY LifecycleAssumption
<1>1. CASE rest = <<>>
  <2>1. /\ pc' = [pc EXCEPT ![r] = "idle"] /\ hgen' = [hgen EXCEPT ![r] = 0]
        /\ at' = [at EXCEPT ![r] = 0] /\ plan' = [plan EXCEPT ![r] = <<>>]
    BY <1>1 DEF GoOn, Return, Goto
  <2> QED BY <1>0, <2>1 DEF HandlersOK, PlanOK, Labels
<1>2. CASE rest # <<>>
  <2>1. /\ pc' = [pc EXCEPT ![r] = "write"] /\ hgen' = hgen
        /\ at' = [at EXCEPT ![r] = 0] /\ plan' = [plan EXCEPT ![r] = rest]
    BY <1>2 DEF GoOn, Goto
  <2> QED BY <1>0, <1>2, <2>1 DEF HandlersOK, PlanOK, Labels
<1> QED BY <1>1, <1>2

(* A handler that has authenticated keeps the types of the locals. *)
LEMMA StartType ==
  ASSUME HandlersOK, NEW r \in Requests, NEW g \in Gens, NEW label \in {"register", "touch"},
         hgen' = [hgen EXCEPT ![r] = g], pc' = [pc EXCEPT ![r] = label], at' = at,
         NEW s \in Seq(Parts), plan' = [plan EXCEPT ![r] = s] \/ plan' = plan
  PROVE  HandlersOK'
<1>1. pc' \in [Requests -> Labels] /\ hgen' \in [Requests -> Gens \cup {0}]
  BY DEF HandlersOK, Labels
<1>2. \A q \in Requests : pc'[q] # "idle" => hgen'[q] # 0
  BY DEF HandlersOK, Gens
<1>3. plan' \in [Requests -> Seq(Parts)] /\ \A q \in Requests : q # r => plan'[q] = plan[q]
  BY DEF HandlersOK, PlanOK
<1>4. \A q \in Requests : pc'[q] = "write" => plan'[q] # <<>>
  BY <1>3 DEF HandlersOK, PlanOK
<1> QED BY <1>1, <1>2, <1>3, <1>4 DEF HandlersOK, PlanOK

(* A store still holds incarnations after one more has written it. *)
LEMMA WriteType ==
  ASSUME data \in [Parts -> SUBSET Gens], NEW p \in Parts, NEW g \in Gens
  PROVE  [data EXCEPT ![p] = @ \cup {g}] \in [Parts -> SUBSET Gens]
OBVIOUS

(* The steps of a handler keep the types. *)
LEMMA RequestType ==
  ASSUME TypeOK, PlanOK, NEW r \in Requests, Request(r) PROVE TypeOK' /\ PlanOK'
<1> USE DEF record, handlers, closing, sweeping
<1>0. 0 \in 0..Retention /\ Retention \in 0..Retention /\ <<>> \in Seq(Parts)
  BY LifecycleAssumption
<1>h. HandlersOK
  BY TypeParts
<1>g. pc[r] # "idle" => hgen[r] \in Gens
  BY DEF TypeOK
<1>1. CASE GetOrCreate(r)
  <2>1. /\ gen' \in Gens /\ made' \in Gens \cup {0} /\ idle' \in 0..Retention
        /\ used' \in 0..Retention /\ saved' \in BOOLEAN 
    <3>1. CASE gen = 0
      <4>1. /\ made < MaxGens /\ made' = made + 1 /\ gen' = made + 1 /\ idle' = Retention
            /\ used' = Retention /\ saved' = (jpc = "scan")
        BY <1>1, <3>1 DEF GetOrCreate, NewSession
      <4>2. made + 1 \in Gens
        BY <4>1, LifecycleAssumption DEF TypeOK, Gens
      <4> QED BY <1>0, <4>1, <4>2 DEF Closing
    <3>2. CASE gen # 0
      BY <1>1, <3>2 DEF GetOrCreate, TypeOK
    <3> QED BY <3>1, <3>2
  <2>2. /\ hgen' = [hgen EXCEPT ![r] = gen'] /\ pc' = [pc EXCEPT ![r] = "register"]
        /\ UNCHANGED <<data, plan, at, step, jpc, stale, spc, sgen, gone, stray>>
    BY <1>1 DEF GetOrCreate, Goto
  <2>3. HandlersOK'
    BY <1>0, <1>h, <2>1, <2>2, StartType
  <2> QED BY <2>1, <2>2, <2>3, TypeParts DEF TypeOK, HandlersOK, PlanOK, Labels
<1>2. ASSUME NEW op \in Ops, ValidatePSK(r, op) PROVE TypeOK' /\ PlanOK'
  <2>1. Plan[op] \in Seq(Parts)
    <3>1. op \in {"message", "scratchpad", "file", "poll", "read"}
      BY LifecycleAssumption
    <3>2. /\ <<"log", "mailboxes">> \in Seq(Parts) /\ <<"scratchpad", "log", "mailboxes">> \in Seq(Parts)
          /\ <<"files">> \in Seq(Parts) /\ <<"presence", "mailboxes">> \in Seq(Parts)
      BY DEF Parts
    <3>3. /\ Plan.message \in Seq(Parts) /\ Plan.scratchpad \in Seq(Parts) /\ Plan.file \in Seq(Parts)
          /\ Plan.poll \in Seq(Parts) /\ Plan.read \in Seq(Parts)
      BY <1>0, <3>2 DEF Plan
    <3> QED BY <3>1, <3>3
  <2>2. /\ gen \in Gens /\ hgen' = [hgen EXCEPT ![r] = gen] /\ plan' = [plan EXCEPT ![r] = Plan[op]]
        /\ pc' = [pc EXCEPT ![r] = "touch"]
        /\ UNCHANGED <<gen, made, idle, used, saved, data, at, step, jpc, stale, spc, sgen, gone, stray>>
    BY <1>2 DEF ValidatePSK, Goto, TypeOK
  <2>3. HandlersOK'
    BY <1>0, <1>h, <2>1, <2>2, StartType
  <2> QED BY <2>2, <2>3 DEF TypeOK, HandlersOK, PlanOK, Labels
<1>3. CASE RefreshPresence(r)
  <2>1. /\ pc' = [pc EXCEPT ![r] = "activity"] /\ at' = [at EXCEPT ![r] = 0]
        /\ data' = [data EXCEPT !["presence"] = @ \cup {hgen[r]}] /\ pc[r] = "touch"
        /\ UNCHANGED <<gen, made, idle, used, saved, hgen, plan, step, jpc, stale, spc, sgen, gone, stray>>
    BY <1>3 DEF RefreshPresence, TouchPresence, Goto
  <2>2. data' \in [Parts -> SUBSET Gens]
    BY <1>g, <2>1, WriteType DEF TypeOK, Parts
  <2>3. HandlersOK'
    BY <1>0, <1>h, <2>1 DEF HandlersOK, PlanOK, Labels
  <2> QED BY <1>0, <2>1, <2>2, <2>3 DEF TypeOK, HandlersOK, PlanOK, Labels
<1>4. CASE Register(r)
  <2>1. /\ data' = [data EXCEPT !["presence"] = @ \cup {hgen[r]}] /\ pc[r] = "register"
        /\ UNCHANGED <<gen, made, idle, used, saved, step, jpc, stale, spc, sgen, gone, stray>>
    BY <1>4 DEF Register, TouchPresence
  <2>2. data' \in [Parts -> SUBSET Gens]
    BY <1>g, <2>1, WriteType DEF TypeOK, Parts
  <2>3. <<"log", "leader">> \in Seq(Parts) /\ <<"log">> \in Seq(Parts)
    BY DEF Parts
  <2>4. CASE Return(r)
    <3>1. GoOn(r, <<>>)
      BY <2>4 DEF GoOn
    <3>2. HandlersOK'
      BY <1>0, <1>h, <2>1, <3>1, GoOnType
    <3> QED BY <1>0, <2>1, <2>2, <3>2 DEF TypeOK, HandlersOK, PlanOK, Labels
  <2>5. CASE ~Return(r)
    <3>1. /\ \E s \in Seq(Parts) : plan' = [plan EXCEPT ![r] = s]
          /\ pc' = [pc EXCEPT ![r] = "activity"] /\ at' = [at EXCEPT ![r] = 0] /\ hgen' = hgen
      BY <1>4, <2>3, <2>5 DEF Register, Goto
    <3>2. HandlersOK'
      BY <1>0, <1>h, <2>1, <3>1 DEF HandlersOK, PlanOK, Labels
    <3> QED BY <1>0, <2>1, <2>2, <3>2 DEF TypeOK, HandlersOK, PlanOK, Labels
  <2> QED BY <2>4, <2>5
<1>5. CASE TouchActivity(r)
  <2>1. /\ pc[r] = "activity" /\ GoOn(r, plan[r])
        /\ idle' = (IF gen # 0 /\ at[r] < idle THEN at[r] ELSE idle)
        /\ used' = (IF gen # 0 /\ at[r] < used THEN at[r] ELSE used)
        /\ saved' = (jpc = "scan")
        /\ UNCHANGED <<gen, made, data, step, jpc, stale, spc, sgen, gone, stray>>
    BY <1>5 DEF TouchActivity, Recorded
  <2>2. HandlersOK'
    BY <1>h, <2>1, GoOnType DEF HandlersOK, PlanOK
  <2>3. {idle, used}' \subseteq 0..Retention
    BY <2>1 DEF TypeOK
  <2> QED BY <2>1, <2>2, <2>3 DEF TypeOK, HandlersOK, PlanOK, Labels
<1>6. CASE Write(r)
  <2>1. /\ pc[r] = "write" /\ GoOn(r, Tail(plan[r]))
        /\ UNCHANGED <<gen, made, idle, used, saved, step, jpc, stale, spc, sgen, gone, stray>>
    BY <1>6 DEF Write
  <2>2. Head(plan[r]) \in Parts /\ Tail(plan[r]) \in Seq(Parts)
    BY <2>1 DEF PlanOK
  <2>3. data' = data \/ data' = [data EXCEPT ![Head(plan[r])] = @ \cup {hgen[r]}]
    BY <1>6, <2>2 DEF Write, TypeOK
  <2>4. data' \in [Parts -> SUBSET Gens]
    <3>1. data \in [Parts -> SUBSET Gens] /\ hgen[r] \in Gens
      BY <1>g, <2>1 DEF TypeOK
    <3> QED BY <2>2, <2>3, <3>1, WriteType
  <2>5. pc[r] # "idle"
    BY <2>1
  <2>6. HandlersOK'
    BY <1>h, <2>1, <2>2, <2>5, GoOnType
  <2> QED BY <2>1, <2>4, <2>6 DEF TypeOK, HandlersOK, PlanOK, Labels
<1> QED BY <1>1, <1>2, <1>3, <1>4, <1>5, <1>6 DEF Request

(* Deleting and closing keep the types. *)
LEMMA DeleteType ==
  ASSUME TypeOK, PlanOK, NEW c \in Closers, Delete(c), jpc' \in {"rest", "scan"}, stale' \in BOOLEAN
  PROVE  TypeOK' /\ PlanOK'
<1>1. /\ gen' = 0 /\ idle' = 0 /\ used' = 0 /\ saved' = FALSE
      /\ step' = [step EXCEPT ![c] = 1] /\ stray' = InFlight
      /\ UNCHANGED <<made, data, pc, hgen, plan, at, spc, sgen, gone>>
  BY DEF Delete, handlers, sweeping
<1>2. 0 \in 0..Retention /\ 1 \in 0..Len(Order) /\ stray' \in BOOLEAN
  BY <1>1, LifecycleAssumption DEF Order, InFlight
<1>3. step' \in [Closers -> 0..Len(Order)]
  BY <1>1, <1>2 DEF TypeOK
<1> QED BY <1>1, <1>2, <1>3 DEF TypeOK, PlanOK

(* A step of CloseSession keeps the types. *)
LEMMA CloseType ==
  ASSUME TypeOK, PlanOK, NEW c \in Closers, CloseSession(c) PROVE TypeOK' /\ PlanOK'
<1>1. /\ step' = [step EXCEPT ![c] = IF @ = Len(Order) THEN 0 ELSE @ + 1] /\ step[c] # 0
      /\ data' = [data EXCEPT ![Order[step[c]]] = {}]
      /\ UNCHANGED <<gen, made, idle, used, saved, pc, hgen, plan, at, jpc, stale, spc, sgen, gone, stray>>
  BY DEF CloseSession, record, handlers, sweeping
<1>2. step[c] \in 0..6 /\ Len(Order) = 6
  BY DEF TypeOK, Order
<1>3. (IF step[c] = Len(Order) THEN 0 ELSE step[c] + 1) \in 0..6
  BY <1>2
<1>4. step' \in [Closers -> 0..Len(Order)]
  BY <1>1, <1>2, <1>3 DEF TypeOK
<1>5. data' \in [Parts -> SUBSET Gens]
  BY <1>1 DEF TypeOK
<1> QED BY <1>1, <1>4, <1>5 DEF TypeOK, PlanOK

(* A step of the sweeper takes up a record and may remove it, or is one of  *)
(* its hooks, which writes for that record only.                            *)
Sweeps ==
  /\ spc = "rest" /\ spc' # "rest" /\ sgen' \in data["presence"]
  /\ stray' = (stray \/ sgen' # gen)
  /\ \A p \in Parts : data'[p] \subseteq data[p]

Hooks ==
  /\ spc # "rest" /\ stray' = stray
  /\ spc' = "rest" \/ sgen' = sgen
  /\ \A p \in Parts : data'[p] \subseteq data[p] \cup {sgen}

(* The steps of the sweeper are these two kinds and leave the rest alone. *)
LEMMA SweeperEffect ==
  ASSUME TypeOK, SweeperStep
  PROVE  /\ UNCHANGED <<gen, made, idle, used, saved, pc, hgen, plan, at, step, jpc, stale>>
         /\ Sweeps \/ Hooks
<1> USE DEF record, handlers, closing
<1>0. /\ data \in [Parts -> SUBSET Gens] /\ {"log", "presence", "leader", "mailboxes"} \subseteq Parts
  BY DEF TypeOK, Parts
<1>1. CASE Sweep
  <2>1. PICK g \in data["presence"], lapsed \in BOOLEAN, left \in BOOLEAN, others \in {{}, data["presence"]} :
          /\ sgen' = g /\ spc' = (IF lapsed THEN "offline" ELSE "left")
          /\ data' = IF left THEN [data EXCEPT !["presence"] = (@ \ {g}) \cup others] ELSE data
          /\ stray' = (stray \/ g # gen)
    BY <1>1 DEF Sweep
  <2>2. \A p \in Parts : data'[p] \subseteq data[p]
    BY <1>0, <2>1
  <2>3. spc' # "rest"
    BY <2>1
  <2>4. Sweeps
    BY <1>1, <2>1, <2>2, <2>3 DEF Sweep, Sweeps
  <2> QED BY <1>1, <2>4 DEF Sweep
<1>2. CASE WentOffline \/ AnnounceHeir \/ Forget
  <2>1. /\ spc # "rest" /\ \E label : HookTo(label)
    BY <1>2 DEF WentOffline, AnnounceHeir, Forget
  <2>2. /\ UNCHANGED <<gen, made, idle, used, saved, pc, hgen, plan, at, step, jpc, stale, stray>>
        /\ spc' = "rest" \/ sgen' = sgen
    BY <2>1 DEF HookTo
  <2>3. \A p \in Parts : data'[p] \subseteq data[p] \cup {sgen}
    <3>1. CASE WentOffline
      BY <1>0, <3>1 DEF WentOffline
    <3>2. CASE AnnounceHeir
      BY <1>0, <3>2 DEF AnnounceHeir
    <3>3. CASE Forget
      BY <1>0, <3>3 DEF Forget
    <3> QED BY <1>2, <3>1, <3>2, <3>3
  <2> QED BY <2>1, <2>2, <2>3 DEF Hooks
<1> QED BY <1>1, <1>2 DEF SweeperStep

(* The steps of the sweeper keep the types. *)
LEMMA SweeperType == ASSUME TypeOK, PlanOK, SweeperStep PROVE TypeOK' /\ PlanOK'
<1> USE DEF record, handlers, closing
<1>0. /\ data \in [Parts -> SUBSET Gens] /\ {"log", "presence", "leader", "mailboxes"} \subseteq Parts
  BY DEF TypeOK, Parts
<1>1. UNCHANGED <<gen, made, idle, used, saved, pc, hgen, plan, at, step, jpc, stale>> /\ (Sweeps \/ Hooks)
  BY SweeperEffect
<1>2. sgen \in Gens \cup {0} /\ (spc # "rest" => sgen \in Gens) /\ stray \in BOOLEAN /\ gone \in BOOLEAN
  BY DEF TypeOK
<1>3. /\ spc' \in {"rest", "offline", "sequence", "deliver", "left", "box"}
      /\ gone' \in BOOLEAN /\ sgen' \in Gens \cup {0} /\ (spc' # "rest" => sgen' # 0)
  <2>1. CASE Sweep
    <3>1. sgen' \in data["presence"] /\ gone' \in BOOLEAN /\ spc' \in {"offline", "left"}
      BY <2>1 DEF Sweep
    <3>2. data["presence"] \subseteq Gens /\ 0 \notin Gens
      BY <1>0 DEF Gens
    <3> QED BY <3>1, <3>2
  <2>2. CASE WentOffline \/ AnnounceHeir \/ Forget
    <3>1. PICK label \in {"rest", "sequence", "deliver", "left", "box"} : HookTo(label)
      BY <2>2 DEF WentOffline, AnnounceHeir, Forget, AfterExpiry
    <3>2. spc # "rest"
      BY <2>2 DEF WentOffline, AnnounceHeir, Forget
    <3>3. spc' = label /\ sgen' = (IF label = "rest" THEN 0 ELSE sgen) /\ gone' = (gone /\ label # "rest")
      BY <3>1 DEF HookTo
    <3>4. sgen \in Gens /\ 0 \notin Gens
      BY <1>2, <3>2 DEF Gens
    <3>5. gone' \in BOOLEAN
      BY <3>3
    <3> QED BY <3>3, <3>4, <3>5
  <2> QED BY <2>1, <2>2 DEF SweeperStep
<1>4. stray' \in BOOLEAN
  BY <1>1, <1>2 DEF Sweeps, Hooks
<1>5. data' \in [Parts -> SUBSET Gens]
  <2>1. CASE Sweep
    BY <1>0, <2>1 DEF Sweep
  <2>2. CASE WentOffline
    BY <1>0, <2>2 DEF WentOffline
  <2>3. CASE AnnounceHeir
    <3>1. sgen \in Gens
      BY <1>2, <2>3 DEF AnnounceHeir
    <3> QED BY <1>0, <2>3, <3>1, WriteType DEF AnnounceHeir
  <2>4. CASE Forget
    <3>1. sgen \in Gens
      BY <1>2, <2>4 DEF Forget
    <3> QED BY <1>0, <2>4, <3>1, WriteType DEF Forget
  <2> QED BY <2>1, <2>2, <2>3, <2>4 DEF SweeperStep
<1> QED BY <1>1, <1>3, <1>4, <1>5 DEF TypeOK, PlanOK

(* Every step of Lifecycle keeps the types. *)
LEMMA TypeStep == ASSUME TypeOK, PlanOK, [Next]_vars PROVE TypeOK' /\ PlanOK'
<1> USE DEF record, handlers, closing, sweeping
<1>0. 0 \in 0..Retention /\ Retention \in Nat
  BY LifecycleAssumption
<1>1. CASE Create
  <2>1. /\ made' = made + 1 /\ gen' = made + 1 /\ made < MaxGens /\ idle' = 0 /\ used' = 0
        /\ saved' = (jpc = "scan")
        /\ UNCHANGED <<data, pc, hgen, plan, at, step, jpc, stale, spc, sgen, gone, stray>>
    BY <1>1 DEF Create, NewSession
  <2>2. made + 1 \in Gens
    BY <2>1, LifecycleAssumption DEF TypeOK, Gens
  <2>3. saved' \in BOOLEAN 
    BY <2>1 DEF Closing
  <2> QED BY <1>0, <2>1, <2>2, <2>3 DEF TypeOK, PlanOK
<1>2. CASE Tick
  <2>1. (\A t \in 0..Retention : Older(t, Retention) \in 0..Retention)
    BY <1>0 DEF Older
  <2>2. idle' \in 0..Retention /\ used' \in 0..Retention
    BY <1>0, <1>2, <2>1 DEF Tick, TypeOK
  <2>3. at' \in [Requests -> 0..Retention]
    BY <1>2, <2>1 DEF Tick, TypeOK
  <2>4. UNCHANGED <<gen, made, saved, data, pc, hgen, plan, step, jpc, stale, spc, sgen, gone, stray>>
    BY <1>2 DEF Tick
  <2> QED BY <2>2, <2>3, <2>4 DEF TypeOK, PlanOK
<1>3. CASE JanitorSnapshot
  <2>1. stale' \in BOOLEAN
    BY <1>3 DEF JanitorSnapshot
  <2> QED BY <1>3, <2>1 DEF JanitorSnapshot, TypeOK, PlanOK
<1>4. CASE JanitorDelete
  <2>1. CASE stale /\ gen # 0
    BY <1>4, <2>1, DeleteType DEF JanitorDelete, Closers
  <2>2. CASE ~(stale /\ gen # 0)
    BY <1>4, <2>2 DEF JanitorDelete, TypeOK, PlanOK
  <2> QED BY <2>1, <2>2
<1>5. ASSUME NEW c \in Closers, CloseSession(c) PROVE TypeOK' /\ PlanOK'
  BY <1>5, CloseType
<1>6. ASSUME NEW c \in Deleters, DeleteSession(c) PROVE TypeOK' /\ PlanOK'
  <2>1. UNCHANGED <<jpc, stale>> /\ Delete(c) /\ c \in Closers
    BY <1>6 DEF DeleteSession, Closers
  <2>2. jpc' \in {"rest", "scan"} /\ stale' \in BOOLEAN
    BY <2>1 DEF TypeOK
  <2> QED BY <2>1, <2>2, DeleteType
<1>7. CASE UNCHANGED vars
  BY <1>7 DEF vars, TypeOK, PlanOK
<1> QED BY <1>1, <1>2, <1>3, <1>4, <1>5, <1>6, <1>7, RequestType, SweeperType DEF Next, JanitorStep, Closers

(* The types and PlanOK are an inductive invariant of Lifecycle. *)
LEMMA TypeAndPlan == Spec => [](TypeOK /\ PlanOK)
<1>1. Init => TypeOK /\ PlanOK
  <2>1. 0 \in 0..Retention /\ 0 \in 0..Len(Order) /\ <<>> \in Seq(Parts)
    BY LifecycleAssumption DEF Order
  <2> SUFFICES ASSUME Init PROVE TypeOK /\ PlanOK
    OBVIOUS
  <2>2. PlanOK
    BY <2>1 DEF Init, PlanOK
  <2>3. step \in [Closers -> 0..Len(Order)] /\ at \in [Requests -> 0..Retention]
    BY <2>1 DEF Init
  <2> QED BY <2>1, <2>2, <2>3 DEF Init, TypeOK
<1>2. TypeOK /\ PlanOK /\ [Next]_vars => (TypeOK /\ PlanOK)'
  BY TypeStep
<1> QED BY <1>1, <1>2, PTL DEF Spec

(* Lifecycle keeps its variables in their types: the session record, the    *)
(* stores, and the locals of handlers, deleters and the janitor.            *)
THEOREM TypeCorrect == Spec => []TypeOK
BY TypeAndPlan, PTL

-----------------------------------------------------------------------------
(* The steps, by what they do to the record and the stores. *)
LEMMA StepCases ==
  ASSUME [Next]_vars
  PROVE  \/ \E r \in Requests : Request(r)
         \/ \E c \in Closers : Delete(c)
         \/ \E c \in Closers : CloseSession(c)
         \/ Create \/ SweeperStep
         \/ UNCHANGED <<gen, made, data, pc, hgen, plan, step, spc, sgen, stray>>
<1> USE DEF record, handlers, closing, sweeping
<1>1. CASE Tick \/ JanitorSnapshot \/ UNCHANGED vars
  BY <1>1 DEF Tick, JanitorSnapshot, vars
<1>2. CASE JanitorDelete
  BY <1>2 DEF JanitorDelete, Closers
<1> QED BY <1>1, <1>2 DEF Next, JanitorStep, DeleteSession, Closers

(* A handler creates the session; or authenticates against the one that is; *)
(* or goes on, with what it may write.                                      *)
Creates(r) ==
  /\ gen = 0 /\ made' = made + 1 /\ gen' = made + 1
  /\ data' = data /\ hgen'[r] = made + 1 /\ pc'[r] = "register"

Enters(r) ==
  /\ gen # 0 /\ UNCHANGED <<gen, made, data>>
  /\ hgen'[r] = gen /\ pc'[r] \in {"register", "touch"}

Goes(r) ==
  /\ pc[r] # "idle" /\ UNCHANGED <<gen, made>>
  /\ \/ pc'[r] = "idle" /\ hgen'[r] = 0
     \/ pc'[r] \in {"activity", "write"} /\ hgen'[r] = hgen[r]
  /\ \A p \in Parts : data'[p] \in {data[p], data[p] \cup {hgen[r]}}

(* A handler's step is one of these three and leaves closers and other *)
(* handlers alone.                                                     *)
LEMMA RequestEffect ==
  ASSUME TypeOK, PlanOK, NEW r \in Requests, Request(r)
  PROVE  /\ UNCHANGED <<step, jpc, stale, spc, sgen, stray>>
         /\ \A q \in Requests : q # r => pc'[q] = pc[q] /\ hgen'[q] = hgen[q]
         /\ Creates(r) \/ Enters(r) \/ Goes(r)
<1> USE DEF record, handlers, closing, sweeping
<1>0. /\ pc \in [Requests -> {"idle", "touch", "register", "activity", "write"}]
      /\ hgen \in [Requests -> Gens \cup {0}] /\ data \in [Parts -> SUBSET Gens]
      /\ "presence" \in Parts
  BY DEF TypeOK, Parts
<1>1. UNCHANGED <<step, jpc, stale, spc, sgen, stray>>
  BY DEF Request, GetOrCreate, ValidatePSK, RefreshPresence, Register, TouchActivity, Write
<1>2. CASE GetOrCreate(r)
  <2>1. hgen' = [hgen EXCEPT ![r] = gen'] /\ pc' = [pc EXCEPT ![r] = "register"] /\ data' = data
    BY <1>2 DEF GetOrCreate, Goto
  <2>2. \/ gen = 0 /\ made' = made + 1 /\ gen' = made + 1
        \/ gen # 0 /\ UNCHANGED <<gen, made>>
    BY <1>2 DEF GetOrCreate, NewSession
  <2>3. hgen'[r] = gen' /\ pc'[r] = "register"
    BY <1>0, <2>1
  <2>4. Creates(r) \/ Enters(r)
    BY <2>1, <2>2, <2>3 DEF Creates, Enters
  <2> QED BY <1>0, <1>1, <2>1, <2>4
<1>3. ASSUME NEW op \in Ops, ValidatePSK(r, op)
      PROVE  /\ \A q \in Requests : q # r => pc'[q] = pc[q] /\ hgen'[q] = hgen[q]
             /\ Enters(r)
  BY <1>0, <1>3 DEF ValidatePSK, Goto, Enters
<1>4. CASE RefreshPresence(r)
  <2>1. /\ pc' = [pc EXCEPT ![r] = "activity"] /\ pc[r] = "touch" /\ hgen' = hgen
        /\ data' = [data EXCEPT !["presence"] = @ \cup {hgen[r]}] /\ UNCHANGED <<gen, made>>
    BY <1>4 DEF RefreshPresence, TouchPresence, Goto
  <2>2. Goes(r)
    BY <1>0, <2>1 DEF Goes
  <2> QED BY <1>0, <1>1, <2>1, <2>2
<1>5. CASE Register(r)
  <2>1. /\ data' = [data EXCEPT !["presence"] = @ \cup {hgen[r]}] /\ pc[r] = "register"
        /\ UNCHANGED <<gen, made>>
    BY <1>5 DEF Register, TouchPresence
  <2>2. \/ pc' = [pc EXCEPT ![r] = "activity"] /\ hgen' = hgen
        \/ pc' = [pc EXCEPT ![r] = "idle"] /\ hgen' = [hgen EXCEPT ![r] = 0]
    BY <1>5 DEF Register, Return, Goto
  <2>3. Goes(r)
    <3>1. \/ pc'[r] = "idle" /\ hgen'[r] = 0
          \/ pc'[r] \in {"activity", "write"} /\ hgen'[r] = hgen[r]
      BY <1>0, <2>2
    <3>2. \A p \in Parts : data'[p] \in {data[p], data[p] \cup {hgen[r]}}
      BY <1>0, <2>1
    <3> QED BY <1>0, <2>1, <3>1, <3>2 DEF Goes
  <2> QED BY <1>0, <1>1, <2>2, <2>3
<1>6. ASSUME NEW rest, GoOn(r, rest)
      PROVE  \/ pc' = [pc EXCEPT ![r] = "write"] /\ hgen' = hgen
             \/ pc' = [pc EXCEPT ![r] = "idle"] /\ hgen' = [hgen EXCEPT ![r] = 0]
  BY <1>6 DEF GoOn, Return, Goto
<1>7. CASE TouchActivity(r)
  <2>1. GoOn(r, plan[r]) /\ pc[r] = "activity" /\ UNCHANGED <<gen, made, data>>
    BY <1>7 DEF TouchActivity
  <2>2. \/ pc' = [pc EXCEPT ![r] = "write"] /\ hgen' = hgen
        \/ pc' = [pc EXCEPT ![r] = "idle"] /\ hgen' = [hgen EXCEPT ![r] = 0]
    BY <1>6, <2>1
  <2>3. Goes(r)
    <3>1. \/ pc'[r] = "idle" /\ hgen'[r] = 0
          \/ pc'[r] \in {"activity", "write"} /\ hgen'[r] = hgen[r]
      BY <1>0, <2>2
    <3>2. \A p \in Parts : data'[p] \in {data[p], data[p] \cup {hgen[r]}}
      BY <1>0, <2>1
    <3> QED BY <1>0, <2>1, <3>1, <3>2 DEF Goes
  <2> QED BY <1>0, <1>1, <2>2, <2>3
<1>8. CASE Write(r)
  <2>1. GoOn(r, Tail(plan[r])) /\ pc[r] = "write" /\ UNCHANGED <<gen, made>>
    BY <1>8 DEF Write
  <2>2. Head(plan[r]) \in Parts
    BY <2>1 DEF PlanOK
  <2>3. data' = data \/ data' = [data EXCEPT ![Head(plan[r])] = @ \cup {hgen[r]}]
    BY <1>0, <1>8, <2>2 DEF Write
  <2>4. \/ pc' = [pc EXCEPT ![r] = "write"] /\ hgen' = hgen
        \/ pc' = [pc EXCEPT ![r] = "idle"] /\ hgen' = [hgen EXCEPT ![r] = 0]
    BY <1>6, <2>1
  <2>5. \A p \in Parts : data'[p] \in {data[p], data[p] \cup {hgen[r]}}
    BY <1>0, <2>2, <2>3
  <2>6. Goes(r)
    <3>1. \/ pc'[r] = "idle" /\ hgen'[r] = 0
          \/ pc'[r] \in {"activity", "write"} /\ hgen'[r] = hgen[r]
      BY <1>0, <2>4
    <3>2. \A p \in Parts : data'[p] \in {data[p], data[p] \cup {hgen[r]}}
      BY <1>0, <2>1, <2>5
    <3> QED BY <1>0, <2>1, <3>1, <3>2 DEF Goes
  <2> QED BY <1>0, <1>1, <2>4, <2>6
<1> QED BY <1>1, <1>2, <1>3, <1>4, <1>5, <1>7, <1>8 DEF Request

(* A closer clears one store and moves on. *)
LEMMA CloseEffect ==
  ASSUME TypeOK, NEW c \in Closers, CloseSession(c)
  PROVE  /\ UNCHANGED <<gen, made, pc, hgen, spc, sgen, stray>>
         /\ step[c] \in 1..6 /\ Order[step[c]] \in Parts
         /\ \A p \in Parts : data'[p] = IF p = Order[step[c]] THEN {} ELSE data[p]
         /\ step'[c] = IF step[c] = 6 THEN 0 ELSE step[c] + 1
         /\ \A d \in Closers : d # c => step'[d] = step[d]
<1>1. /\ step' = [step EXCEPT ![c] = IF @ = Len(Order) THEN 0 ELSE @ + 1] /\ step[c] # 0
      /\ data' = [data EXCEPT ![Order[step[c]]] = {}]
      /\ UNCHANGED <<gen, made, pc, hgen, spc, sgen, stray>>
  BY DEF CloseSession, record, handlers, sweeping
<1>2. step \in [Closers -> 0..6] /\ Len(Order) = 6 /\ data \in [Parts -> SUBSET Gens]
  BY DEF TypeOK, Order
<1>3. step[c] \in 1..6
  BY <1>1, <1>2
<1>4. \A k \in 1..6 : Order[k] \in Parts
  BY DEF Order, Parts
<1>5. \A p \in Parts : data'[p] = IF p = Order[step[c]] THEN {} ELSE data[p]
  BY <1>1, <1>2
<1>6. step'[c] = (IF step[c] = 6 THEN 0 ELSE step[c] + 1) /\ \A d \in Closers : d # c => step'[d] = step[d]
  BY <1>1, <1>2
<1> QED BY <1>1, <1>3, <1>4, <1>5, <1>6

-----------------------------------------------------------------------------
(* The closers at work. *)
Active == {c \in Closers : step[c] # 0}

OnceOK == IsFiniteSet(Active) /\ ClosedOnce

(* Every step keeps ClosedOnce: a deletion spends the incarnation that a    *)
(* creation has paid for.                                                   *)
LEMMA OnceStep == ASSUME TypeOK, PlanOK, OnceOK, [Next]_vars PROVE OnceOK'
<1>0. /\ IsFiniteSet(Active) /\ Cardinality(Active) \in Nat /\ made \in Nat
      /\ Cardinality(Active) <= made - (IF gen = 0 THEN 0 ELSE 1)
  BY FS_CardinalityType DEF OnceOK, ClosedOnce, Active, TypeOK, Gens
<1>1. ASSUME UNCHANGED step, made' - (IF gen' = 0 THEN 0 ELSE 1) = made - (IF gen = 0 THEN 0 ELSE 1)
      PROVE  OnceOK'
  <2>1. Active' = Active
    BY <1>1 DEF Active
  <2> QED BY <1>0, <1>1, <2>1 DEF OnceOK, ClosedOnce, Active
<1>2. ASSUME NEW r \in Requests, Request(r) PROVE OnceOK'
  <2>1. step' = step /\ (Creates(r) \/ Enters(r) \/ Goes(r))
    BY <1>2, RequestEffect
  <2>2. made' - (IF gen' = 0 THEN 0 ELSE 1) = made - (IF gen = 0 THEN 0 ELSE 1)
    BY <1>0, <2>1 DEF Creates, Enters, Goes
  <2> QED BY <1>1, <2>1, <2>2
<1>3. CASE Create
  BY <1>0, <1>1, <1>3 DEF Create, NewSession, closing
<1>4. ASSUME NEW c \in Closers, Delete(c) PROVE OnceOK'
  <2>1. gen # 0 /\ gen' = 0 /\ made' = made /\ step[c] = 0 /\ step' = [step EXCEPT ![c] = 1]
    BY <1>4 DEF Delete
  <2>2. step \in [Closers -> 0..Len(Order)]
    BY DEF TypeOK
  <2>3. Active' = Active \cup {c} /\ c \notin Active
    BY <2>1, <2>2 DEF Active
  <2>4. IsFiniteSet(Active') /\ Cardinality(Active') = Cardinality(Active) + 1
    BY <1>0, <2>3, FS_AddElement
  <2> QED BY <1>0, <2>1, <2>4 DEF OnceOK, ClosedOnce, Active
<1>5. ASSUME NEW c \in Closers, CloseSession(c) PROVE OnceOK'
  <2>1. UNCHANGED <<gen, made>> /\ \A d \in Closers : step'[d] # 0 => step[d] # 0
    BY <1>5, CloseEffect
  <2>2. Active' \subseteq Active
    BY <2>1 DEF Active
  <2>3. IsFiniteSet(Active') /\ Cardinality(Active') <= Cardinality(Active) /\ Cardinality(Active') \in Nat
    BY <1>0, <2>2, FS_Subset, FS_CardinalityType
  <2> QED BY <1>0, <2>1, <2>3 DEF OnceOK, ClosedOnce, Active
<1>6. CASE SweeperStep
  BY <1>1, <1>6, SweeperEffect
<1>7. CASE UNCHANGED <<gen, made, data, pc, hgen, plan, step, spc, sgen, stray>>
  BY <1>1, <1>7
<1> QED BY <1>2, <1>3, <1>4, <1>5, <1>6, <1>7, StepCases

(* Store.Delete lets one caller close an incarnation: as many closers are   *)
(* at work as incarnations were deleted, at most.                           *)
THEOREM SessionClosedOnce == Spec => []ClosedOnce
<1>1. Init => OnceOK
  <2> SUFFICES ASSUME Init PROVE OnceOK
    OBVIOUS
  <2>1. Active = {} /\ made = 0 /\ gen = 0
    BY DEF Init, Active
  <2> QED BY <2>1, FS_EmptySet DEF OnceOK, ClosedOnce, Active
<1>2. TypeOK /\ PlanOK /\ OnceOK /\ [Next]_vars => OnceOK'
  BY OnceStep
<1>3. OnceOK => ClosedOnce
  BY DEF OnceOK
<1> QED BY <1>1, <1>2, <1>3, TypeAndPlan, PTL DEF Spec

-----------------------------------------------------------------------------
(* Why the stores hold the data of the session that exists only: whoever    *)
(* may still write belongs to it, and data of an earlier one has a closer    *)
(* before it.                                                                *)
OwnOK ==
  ~stray =>
    /\ \A r \in Requests : pc[r] # "idle" => hgen[r] = gen
    /\ spc # "rest" => sgen = gen
    /\ \A j \in 1..6 : \A g \in data[Order[j]] : g = gen \/ \E c \in Closers : step[c] \in 1..j

(* Under an ID without a session nothing is in flight. *)
LEMMA NobodyLeft ==
  ASSUME TypeOK, OwnOK, ~stray, gen = 0
  PROVE  (\A r \in Requests : pc[r] = "idle") /\ spc = "rest"
BY DEF OwnOK, TypeOK

(* A new incarnation finds nothing in flight, and nothing in the stores     *)
(* that no closer is about to clear.                                        *)
LEMMA NewInheritsNothing ==
  ASSUME TypeOK, OwnOK, gen = 0, UNCHANGED <<data, step, spc, sgen, stray>>,
         \A r \in Requests : pc'[r] # "idle" => pc[r] # "idle" \/ hgen'[r] = gen'
  PROVE  OwnOK'
<1> SUFFICES ASSUME ~stray PROVE OwnOK'
  BY DEF OwnOK
<1>1. (\A r \in Requests : pc[r] = "idle") /\ spc = "rest"
  BY NobodyLeft
<1>2. \A j \in 1..6 : \A g \in data[Order[j]] : \E c \in Closers : step[c] \in 1..j
  <2>1. \A j \in 1..6 : data[Order[j]] \subseteq Gens
    BY DEF TypeOK, Order, Parts
  <2>2. 0 \notin Gens
    BY DEF Gens
  <2> QED BY <2>1, <2>2 DEF OwnOK
<1> QED BY <1>1, <1>2 DEF OwnOK

(* Every step keeps OwnOK. *)
LEMMA OwnStep == ASSUME TypeOK, PlanOK, OwnOK, [Next]_vars PROVE OwnOK'
<1>0. \A j \in 1..6 : Order[j] \in Parts
  BY DEF Order, Parts
<1>1. ASSUME NEW r \in Requests, Request(r) PROVE OwnOK'
  <2>1. /\ UNCHANGED <<step, spc, sgen, stray>> /\ (Creates(r) \/ Enters(r) \/ Goes(r))
        /\ \A q \in Requests : q # r => pc'[q] = pc[q] /\ hgen'[q] = hgen[q]
    BY <1>1, RequestEffect
  <2>2. CASE Creates(r)
    <3>1. \A q \in Requests : pc'[q] # "idle" => pc[q] # "idle" \/ hgen'[q] = gen'
      BY <2>1, <2>2 DEF Creates
    <3> QED BY <2>1, <2>2, <3>1, NewInheritsNothing DEF Creates
  <2>3. CASE Enters(r)
    BY <2>1, <2>3 DEF Enters, OwnOK
  <2>4. CASE Goes(r)
    <3> SUFFICES ASSUME ~stray PROVE OwnOK'
      BY <2>1 DEF OwnOK
    <3>1. hgen[r] = gen /\ gen' = gen
      BY <2>4 DEF Goes, OwnOK
    <3>2. \A q \in Requests : pc'[q] # "idle" => hgen'[q] = gen'
      BY <2>1, <2>4, <3>1 DEF Goes, OwnOK
    <3>3. \A j \in 1..6 : data'[Order[j]] \subseteq data[Order[j]] \cup {gen}
      BY <1>0, <2>4, <3>1 DEF Goes
    <3> QED BY <2>1, <3>1, <3>2, <3>3 DEF OwnOK
  <2> QED BY <2>1, <2>2, <2>3, <2>4
<1>2. CASE Create
  BY <1>2, NewInheritsNothing DEF Create, NewSession, handlers, closing, sweeping
<1>3. ASSUME NEW c \in Closers, Delete(c) PROVE OwnOK'
  <2> SUFFICES ASSUME ~stray' PROVE OwnOK'
    BY DEF OwnOK
  <2>1. stray' = InFlight /\ pc' = pc /\ spc' = spc /\ step' = [step EXCEPT ![c] = 1]
    BY <1>3 DEF Delete, handlers, sweeping
  <2>2. step'[c] = 1
    BY <2>1 DEF TypeOK
  <2>3. spc' = "rest" /\ \A r \in Requests : pc'[r] = "idle"
    BY <2>1 DEF InFlight
  <2>4. \A j \in 1..6 : step'[c] \in 1..j
    BY <2>2
  <2> QED BY <2>3, <2>4 DEF OwnOK
<1>4. ASSUME NEW c \in Closers, CloseSession(c) PROVE OwnOK'
  <2> SUFFICES ASSUME ~stray' PROVE OwnOK'
    BY DEF OwnOK
  <2>1. /\ UNCHANGED <<gen, pc, hgen, spc, sgen, stray>> /\ step[c] \in 1..6 /\ Order[step[c]] \in Parts
        /\ \A p \in Parts : data'[p] = IF p = Order[step[c]] THEN {} ELSE data[p]
        /\ step'[c] = IF step[c] = 6 THEN 0 ELSE step[c] + 1
        /\ \A d \in Closers : d # c => step'[d] = step[d]
    BY <1>4, CloseEffect
  <2>2. ASSUME NEW j \in 1..6, NEW g \in data'[Order[j]], g # gen PROVE \E d \in Closers : step'[d] \in 1..j
    <3>1. g \in data[Order[j]] /\ j # step[c]
      BY <1>0, <2>1, <2>2
    <3>2. PICK d \in Closers : step[d] \in 1..j
      BY <2>1, <2>2, <3>1 DEF OwnOK
    <3>3. CASE d = c
      <4>1. step'[c] \in 1..j
        BY <2>1, <3>1, <3>2, <3>3
      <4> QED BY <4>1
    <3>4. CASE d # c
      BY <2>1, <3>2, <3>4
    <3> QED BY <3>3, <3>4
  <2>3. /\ \A r \in Requests : pc'[r] # "idle" => hgen'[r] = gen'
        /\ spc' # "rest" => sgen' = gen'
    BY <2>1 DEF OwnOK
  <2> QED BY <2>1, <2>2, <2>3 DEF OwnOK
<1>5. CASE SweeperStep
  <2> SUFFICES ASSUME ~stray' PROVE OwnOK'
    BY DEF OwnOK
  <2>1. UNCHANGED <<gen, pc, hgen, step>> /\ (Sweeps \/ Hooks)
    BY <1>5, SweeperEffect
  <2>2. CASE Sweeps
    <3>1. ~stray /\ sgen' = gen
      BY <2>2 DEF Sweeps
    <3>2. \A j \in 1..6 : data'[Order[j]] \subseteq data[Order[j]]
      BY <1>0, <2>2 DEF Sweeps
    <3> QED BY <2>1, <3>1, <3>2 DEF OwnOK
  <2>3. CASE Hooks
    <3>1. ~stray /\ sgen = gen /\ (spc' # "rest" => sgen' = gen)
      BY <2>3 DEF Hooks, OwnOK
    <3>2. \A j \in 1..6 : data'[Order[j]] \subseteq data[Order[j]] \cup {gen}
      BY <1>0, <2>3, <3>1 DEF Hooks
    <3> QED BY <2>1, <3>1, <3>2 DEF OwnOK
  <2> QED BY <2>1, <2>2, <2>3
<1>6. CASE UNCHANGED <<gen, made, data, pc, hgen, plan, step, spc, sgen, stray>>
  BY <1>6 DEF OwnOK
<1> QED BY <1>1, <1>2, <1>3, <1>4, <1>5, <1>6, StepCases

(* Once no CloseSession is at work, the stores under an ID hold the data of *)
(* the session that has it and no other: a deleted one leaves nothing and   *)
(* its successor inherits nothing, whoever races to delete it, unless a     *)
(* request or a hook of the sweeper outlived it.                            *)
THEOREM StoresFollowTheSession == Spec => []OwnDataOnly
<1>1. Init => OwnOK
  <2>1. \A j \in 1..6 : Order[j] \in Parts
    BY DEF Order, Parts
  <2> QED BY <2>1 DEF Init, OwnOK
<1>2. TypeOK /\ PlanOK /\ OwnOK /\ [Next]_vars => OwnOK'
  BY OwnStep
<1>3. TypeOK /\ OwnOK => OwnDataOnly
  <2> SUFFICES ASSUME TypeOK, OwnOK, ~Closing, ~stray, NEW p \in Parts PROVE data[p] \subseteq {gen}
    BY DEF OwnDataOnly
  <2>1. PICK j \in 1..6 : p = Order[j]
    BY DEF Parts, Order
  <2>2. \A c \in Closers : step[c] \notin 1..j
    BY DEF Closing
  <2> QED BY <2>1, <2>2 DEF OwnOK
<1> QED BY <1>1, <1>2, <1>3, TypeAndPlan, PTL DEF Spec

-----------------------------------------------------------------------------
(* Why the janitor takes only idle sessions: LastActive is the newest        *)
(* activity recorded, whatever the order in which it was, and what the       *)
(* snapshot showed as stale is so still, or was used since.                  *)
IdleOK ==
  /\ idle = used
  /\ jpc = "scan" /\ stale /\ gen # 0 => used = Retention \/ saved

(* Every step keeps IdleOK. *)
LEMMA IdleStep == ASSUME TypeOK, IdleOK, [Next]_vars PROVE IdleOK'
<1> USE DEF record, handlers, closing, sweeping
<1>0. idle \in 0..Retention /\ Retention \in Nat
  BY LifecycleAssumption DEF TypeOK
<1>1. ASSUME NEW r \in Requests, TouchActivity(r) PROVE IdleOK'
  <2>1. idle' = used'
    BY <1>1 DEF TouchActivity, Recorded, IdleOK
  <2>2. saved' = (jpc = "scan") /\ jpc' = jpc
    BY <1>1 DEF TouchActivity, Recorded
  <2> QED BY <2>1, <2>2 DEF IdleOK
<1>2. ASSUME NEW ago, NewSession(ago), UNCHANGED <<jpc, stale>> PROVE IdleOK'
  BY <1>2 DEF NewSession, IdleOK
<1>3. ASSUME NEW r \in Requests, GetOrCreate(r) PROVE IdleOK'
  <2>1. CASE gen = 0
    BY <1>2, <1>3, <2>1 DEF GetOrCreate
  <2>2. CASE gen # 0
    BY <1>3, <2>2 DEF GetOrCreate, IdleOK
  <2> QED BY <2>1, <2>2
<1>4. ASSUME NEW r \in Requests,
             Register(r) \/ (\E op \in Ops : ValidatePSK(r, op)) \/ RefreshPresence(r) \/ Write(r)
      PROVE  IdleOK'
  <2>1. UNCHANGED <<gen, idle, used, saved, jpc, stale>>
    BY <1>4 DEF Register, ValidatePSK, RefreshPresence, Write
  <2> QED BY <2>1 DEF IdleOK
<1>5. CASE Create
  BY <1>2, <1>5 DEF Create
<1>6. CASE Tick
  <2>1. UNCHANGED <<gen, saved, jpc, stale>> /\ idle' = used'
    BY <1>6 DEF Tick, IdleOK
  <2>2. gen # 0 /\ used = Retention => used' = Retention
    BY <1>0, <1>6 DEF Tick, Older
  <2> QED BY <2>1, <2>2 DEF IdleOK
<1>7. CASE JanitorSnapshot
  <2>1. UNCHANGED <<gen, idle, used, saved>> /\ stale' = (idle >= Retention)
    BY <1>7 DEF JanitorSnapshot
  <2>2. idle >= Retention => idle = Retention
    BY <1>0
  <2> QED BY <2>1, <2>2 DEF IdleOK
<1>8. CASE JanitorDelete
  BY <1>8 DEF JanitorDelete, Delete, IdleOK
<1>9. ASSUME NEW c \in Closers, CloseSession(c) PROVE IdleOK'
  BY <1>9 DEF CloseSession, IdleOK
<1>10. ASSUME NEW c \in Deleters, DeleteSession(c) PROVE IdleOK'
  BY <1>10 DEF DeleteSession, Delete, IdleOK
<1>11. CASE UNCHANGED vars
  BY <1>11 DEF vars, IdleOK
<1>12. CASE SweeperStep
  BY <1>12, SweeperEffect DEF IdleOK
<1> QED BY <1>1, <1>3, <1>4, <1>5, <1>6, <1>7, <1>8, <1>9, <1>10, <1>11, <1>12
        DEF Next, Request, JanitorStep, Closers

(* reapStaleSessions decides on a snapshot and deletes by ID; what it       *)
(* deletes was idle past the retention horizon when the snapshot was taken, *)
(* or was used, or created, after it.                                       *)
THEOREM JanitorTakesIdle == Spec => ReapsOnlyIdle
<1>1. Init => IdleOK
  BY DEF Init, IdleOK
<1>2. TypeOK /\ IdleOK /\ [Next]_vars => IdleOK'
  BY IdleStep
<1>3. IdleOK => [JanitorDelete /\ gen # 0 /\ gen' = 0 => used = Retention \/ saved]_vars
  BY DEF IdleOK, JanitorDelete
<1> QED BY <1>1, <1>2, <1>3, TypeCorrect, PTL DEF Spec, ReapsOnlyIdle
=============================================================================
