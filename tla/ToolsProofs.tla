----------------------------- MODULE ToolsProofs -----------------------------
(***************************************************************************)
(* For every set of concurrent tool calls, every assignment of chats and   *)
(* any number of restarts: mail is handed over to one call unless a        *)
(* restart put it back, an announced file is in the store, a trigger goes  *)
(* to the chat that asked for it, and the scratchpad's events end with its *)
(* content or with an overlapping write.                                   *)
(***************************************************************************)
EXTENDS Tools, FiniteSetTheorems, TLAPS

Labels == {"unsent", "start", "trigger", "socket", "init", "register", "request", "reply",
           "write", "done"}

LocalTypes ==
  /\ pc \in [Requests -> Labels] /\ call \in [Requests -> Calls]
  /\ answer \in [Requests -> {"none", "ok", "error"}]
  /\ reply \in [Requests -> {"none", "ok", "denied", "failed", "broken"}]
  /\ cargo \in [Requests -> SUBSET Mail]

(* What the label of a goroutine says of its locals: when it has a reply,   *)
(* an answer, a registration under way, and mail that it drained.           *)
LocalOK(r) ==
  /\ pc[r] # "reply" => reply[r] = "none"
  /\ pc[r] \notin {"write", "done"} => answer[r] = "none"
  /\ pc[r] = "write" => answer[r] # "none"
  /\ pc[r] = "unsent" => call[r] = "none"
  /\ pc[r] \in {"trigger", "socket"} => call[r] = "trigger"
  /\ pc[r] \notin {"reply", "write", "done"} => cargo[r] = {}
  /\ cargo[r] # {} => pc[r] = "done" \/ call[r] = "drain"
  /\ cargo[r] # {} /\ pc[r] = "reply" => reply[r] \in {"ok", "broken"}
  /\ cargo[r] # {} /\ pc[r] \in {"write", "done"} => answer[r] = "ok"

LocalsOK == LocalTypes /\ \A r \in Requests : LocalOK(r)

(* A goroutine's step leaves the others alone. *)
OthersKept(r) ==
  \A q \in Requests : q # r => /\ pc'[q] = pc[q] /\ call'[q] = call[q] /\ answer'[q] = answer[q]
                               /\ reply'[q] = reply[q] /\ cargo'[q] = cargo[q]

(* The steps before a request reaches the server. *)
LEMMA StartLocals ==
  ASSUME LocalsOK, NEW r \in Requests,
         \/ \E c \in Asked : Dispatch(r, c)
         \/ HandleLocal(r) \/ HandleTool(r) \/ Write(r) \/ TriggerRoute(r) \/ TriggerEnds(r)
         \/ EnsureInit(r) \/ Register(r) \/ RegisterFails(r)
  PROVE  LocalTypes' /\ OthersKept(r) /\ LocalOK(r)'
<1> USE DEF goroutine, bridge, server, ghosts, scratch, At
<1>0. LocalTypes /\ LocalOK(r)
  BY DEF LocalsOK
<1>1. ASSUME NEW c \in Asked, Dispatch(r, c) PROVE LocalTypes' /\ OthersKept(r) /\ LocalOK(r)'
  BY <1>0, <1>1 DEF Dispatch, LocalTypes, LocalOK, OthersKept, Labels, Calls
<1>2. CASE HandleLocal(r)
  BY <1>0, <1>2 DEF HandleLocal, Answer, End, LocalTypes, LocalOK, OthersKept, Labels, Calls
<1>3. CASE HandleTool(r)
  <2>1. UNCHANGED <<call, reply, cargo>> /\ pc[r] = "start"
    BY <1>3 DEF HandleTool
  <2>2. \/ answer' = answer /\ pc' = [pc EXCEPT ![r] = IF call[r] = "trigger" THEN "trigger" ELSE "init"]
        \/ answer' = [answer EXCEPT ![r] = "error"] /\ pc' = [pc EXCEPT ![r] = "write"]
    BY <1>3 DEF HandleTool, Answer
  <2> QED BY <1>0, <2>1, <2>2 DEF LocalTypes, LocalOK, OthersKept, Labels
<1>4. CASE Write(r)
  BY <1>0, <1>4 DEF Write, End, LocalTypes, LocalOK, OthersKept, Labels, Calls
<1>5. CASE TriggerRoute(r)
  BY <1>0, <1>5 DEF TriggerRoute, LocalTypes, LocalOK, OthersKept, Labels
<1>6. CASE TriggerEnds(r)
  BY <1>0, <1>6 DEF TriggerEnds, Answer, LocalTypes, LocalOK, OthersKept, Labels
<1>7. CASE EnsureInit(r)
  BY <1>0, <1>7 DEF EnsureInit, LocalTypes, LocalOK, OthersKept, Labels
<1>8. CASE Register(r)
  BY <1>0, <1>8 DEF Register, LocalTypes, LocalOK, OthersKept, Labels
<1>9. CASE RegisterFails(r)
  BY <1>0, <1>9 DEF RegisterFails, Answer, LocalTypes, LocalOK, OthersKept, Labels
<1> QED BY <1>1, <1>2, <1>3, <1>4, <1>5, <1>6, <1>7, <1>8, <1>9

(* The server's handlers. *)
LEMMA ServeLocals ==
  ASSUME LocalsOK, mail \subseteq Mail, NEW r \in Requests, Serve(r)
  PROVE  LocalTypes' /\ OthersKept(r) /\ LocalOK(r)'
<1> USE DEF At, Serving
<1>0. LocalTypes /\ LocalOK(r)
  BY DEF LocalsOK
<1>1. pc[r] = "request" /\ UNCHANGED <<call, answer>> /\ pc' = [pc EXCEPT ![r] = "reply"]
  BY DEF Serve, ServeDenied, ServePlain, ServeShare, ServeDrain, ServeUpload, ServeDownload,
         ServeSet, ServeDelete, PadWrite, Answered
<1>2. \E status \in {"ok", "denied", "failed"} : reply' = [reply EXCEPT ![r] = status]
  BY DEF Serve, ServeDenied, ServePlain, ServeShare, ServeDrain, ServeUpload, ServeDownload,
         ServeSet, ServeDelete, PadWrite, Answered
<1>3. CASE ServeDrain(r)
  BY <1>0, <1>3 DEF ServeDrain, Answered, LocalTypes, LocalOK, OthersKept, Labels
<1>4. CASE ~ServeDrain(r)
  <2>1. cargo' = cargo
    BY <1>4 DEF Serve, ServeDenied, ServePlain, ServeShare, ServeUpload, ServeDownload,
                ServeSet, ServeDelete
  <2> QED BY <1>0, <1>1, <1>2, <2>1 DEF LocalTypes, LocalOK, OthersKept, Labels
<1> QED BY <1>3, <1>4

(* What the bridge makes of the response. *)
LEMMA ReplyLocals ==
  ASSUME LocalsOK, NEW r \in Requests, ReplyOK(r) \/ ReplyError(r) \/ NoReply(r) \/ BodyLost(r)
  PROVE  LocalTypes' /\ OthersKept(r) /\ LocalOK(r)'
<1> USE DEF At, Consume, Answer, LoseCargo
<1>0. LocalTypes /\ LocalOK(r)
  BY DEF LocalsOK
<1>1. CASE ReplyOK(r)
  <2>1. /\ pc[r] = "reply" /\ reply[r] = "ok" /\ reply' = [reply EXCEPT ![r] = "none"] /\ cargo' = cargo
    BY <1>1 DEF ReplyOK
  <2>2. CASE call[r] = "upload"
    <3>1. call' = [call EXCEPT ![r] = "share"] /\ pc' = [pc EXCEPT ![r] = "init"] /\ answer' = answer
      BY <1>1, <2>2 DEF ReplyOK
    <3> QED BY <1>0, <2>1, <2>2, <3>1 DEF LocalTypes, LocalOK, OthersKept, Labels, Calls
  <2>3. CASE call[r] # "upload"
    <3>1. PICK a \in Outcomes(call[r]) : pc' = [pc EXCEPT ![r] = "write"] /\ answer' = [answer EXCEPT ![r] = a]
      BY <1>1, <2>3 DEF ReplyOK
    <3>2. call' = call /\ a \in {"ok", "error"} /\ (call[r] = "drain" => a = "ok")
      BY <1>1, <2>3, <3>1 DEF ReplyOK, Outcomes
    <3> QED BY <1>0, <2>1, <3>1, <3>2 DEF LocalTypes, LocalOK, OthersKept, Labels
  <2> QED BY <2>2, <2>3
<1>2. CASE ReplyError(r)
  BY <1>0, <1>2 DEF ReplyError, LocalTypes, LocalOK, OthersKept, Labels
<1>3. CASE NoReply(r)
  BY <1>0, <1>3 DEF NoReply, LocalTypes, LocalOK, OthersKept, Labels
<1>4. CASE BodyLost(r)
  <2>1. /\ pc[r] = "reply" /\ reply' = [reply EXCEPT ![r] = "none"] /\ cargo' = [cargo EXCEPT ![r] = {}]
    BY <1>4 DEF BodyLost
  <2>2. \/ call' = [call EXCEPT ![r] = "share"] /\ pc' = [pc EXCEPT ![r] = "init"] /\ answer' = answer
        \/ pc' = [pc EXCEPT ![r] = "write"] /\ answer' = [answer EXCEPT ![r] = "error"] /\ call' = call
    BY <1>4 DEF BodyLost
  <2> QED BY <1>0, <2>1, <2>2 DEF LocalTypes, LocalOK, OthersKept, Labels, Calls
<1> QED BY <1>1, <1>2, <1>3, <1>4

(* What the goroutines' steps have to do with the globals: who touches the  *)
(* mail, the scratchpad, the origin and the routes.                         *)
LEMMA HandleEffects ==
  ASSUME NEW r \in Requests, Handle(r) \/ \E c \in Asked : Dispatch(r, c)
  PROVE  /\ UNCHANGED <<arrived, again, restarts, gone>>
         /\ run # "returned" /\ run' = run
         /\ ServeDrain(r) \/ NoReply(r) \/ BodyLost(r) \/ UNCHANGED <<mail, lost, cargo>>
         /\ ServeSet(r) \/ ServeDelete(r) \/ UNCHANGED scratch
         /\ HandleTool(r) \/ UNCHANGED <<lastOrigin, misled, bare>>
         /\ TriggerRoute(r) \/ UNCHANGED routed
         /\ ServeUpload(r) \/ UNCHANGED files
         /\ ServeShare(r) \/ UNCHANGED shared
         /\ BodyLost(r) \/ UNCHANGED nameless
<1> USE DEF goroutine, bridge, server, ghosts, scratch, At, Serving, LoseCargo, PadWrite
<1>1. CASE Serve(r)
  BY <1>1 DEF Serve, ServeDenied, ServePlain, ServeShare, ServeDrain, ServeUpload, ServeDownload,
              ServeSet, ServeDelete
<1>2. CASE ReplyOK(r) \/ ReplyError(r) \/ NoReply(r) \/ BodyLost(r)
  BY <1>2 DEF ReplyOK, ReplyError, NoReply, BodyLost
<1>3. CASE EnsureInit(r) \/ Register(r) \/ RegisterFails(r)
  BY <1>3 DEF EnsureInit, Register, RegisterFails
<1>4. CASE HandleLocal(r) \/ HandleTool(r) \/ Write(r) \/ TriggerRoute(r) \/ TriggerEnds(r)
  BY <1>4 DEF HandleLocal, HandleTool, Write, TriggerRoute, TriggerEnds
<1>5. CASE \E c \in Asked : Dispatch(r, c)
  BY <1>5 DEF Dispatch
<1> QED BY <1>1, <1>2, <1>3, <1>4, <1>5 DEF Handle, Start, Reply

(* The steps of the environment and of the process as a whole that leave    *)
(* every goroutine alone.                                                   *)
Aside ==
  \/ \E r \in Requests : Announce(r)
  \/ EndOfInput \/ WatcherInvalidates \/ Heartbeat
  \/ \E m \in Mail : Arrive(m)
  \/ \E f \in Requests : DeleteFile(f)

Ends == Return \/ GraceOver \/ ScanError

(* The steps by whose they are. *)
LEMMA StepKinds ==
  ASSUME Next
  PROVE  \/ \E r \in Requests : Handle(r) \/ \E c \in Asked : Dispatch(r, c)
         \/ Aside \/ Ends \/ Restart
<1> QED BY DEF Next, Aside, Ends

(* The environment leaves the goroutines alone. *)
LEMMA AsideKeeps == ASSUME Aside PROVE UNCHANGED goroutine
<1> QED BY DEF Aside, Announce, EndOfInput, WatcherInvalidates, Heartbeat, Arrive, DeleteFile

(* A goroutine's step keeps its own locals consistent. *)
LEMMA HandleLocals ==
  ASSUME LocalsOK, mail \subseteq Mail, NEW r \in Requests,
         Handle(r) \/ \E c \in Asked : Dispatch(r, c)
  PROVE  LocalTypes' /\ OthersKept(r) /\ LocalOK(r)'
<1>1. CASE Serve(r)
  BY <1>1, ServeLocals
<1>2. CASE ReplyOK(r) \/ ReplyError(r) \/ NoReply(r) \/ BodyLost(r)
  BY <1>2, ReplyLocals
<1>3. CASE \/ \E c \in Asked : Dispatch(r, c)
           \/ HandleLocal(r) \/ HandleTool(r) \/ Write(r) \/ TriggerRoute(r) \/ TriggerEnds(r)
           \/ EnsureInit(r) \/ Register(r) \/ RegisterFails(r)
  BY <1>3, StartLocals
<1> QED BY <1>1, <1>2, <1>3 DEF Handle, Start, Reply

(* When the process ends, only the goroutines that are through keep theirs. *)
LEMMA EndLocals ==
  ASSUME LocalTypes, Ends
  PROVE  /\ LocalTypes'
         /\ \A r \in Requests : pc[r] = "done" =>
              /\ pc'[r] = pc[r] /\ call'[r] = call[r] /\ answer'[r] = answer[r]
              /\ reply'[r] = reply[r] /\ cargo'[r] = cargo[r]
         /\ \A r \in Requests : pc[r] # "done" =>
              /\ pc'[r] = "unsent" /\ call'[r] = "none" /\ answer'[r] = "none"
              /\ reply'[r] = "none" /\ cargo'[r] = {}
<1>1. ProcessEnds
  BY DEF Ends, Return, GraceOver, ScanError
<1> QED BY <1>1 DEF ProcessEnds, LocalTypes, Labels, Calls

(* A restart of the server breaks the replies under way and no other local. *)
LEMMA RestartLocals ==
  ASSUME LocalTypes, Restart
  PROVE  /\ LocalTypes' /\ UNCHANGED <<pc, call, answer, cargo>>
         /\ \A r \in Requests : reply'[r] = IF pc[r] = "reply" THEN "broken" ELSE reply[r]
<1> QED BY DEF Restart, LocalTypes, Labels

(* Every step keeps the locals consistent. *)
LEMMA LocalsStep ==
  ASSUME LocalsOK, mail \subseteq Mail, Next
  PROVE  LocalsOK'
<1>1. CASE \E r \in Requests : Handle(r) \/ \E c \in Asked : Dispatch(r, c)
  <2>1. PICK r \in Requests : Handle(r) \/ \E c \in Asked : Dispatch(r, c)
    BY <1>1
  <2>2. LocalTypes' /\ OthersKept(r) /\ LocalOK(r)'
    BY <2>1, HandleLocals
  <2>3. ASSUME NEW q \in Requests, q # r PROVE LocalOK(q)'
    BY <2>2, <2>3 DEF LocalsOK, LocalOK, OthersKept
  <2> QED BY <2>2, <2>3 DEF LocalsOK
<1>2. CASE Aside
  BY <1>2, AsideKeeps DEF goroutine, LocalsOK, LocalTypes, LocalOK
<1>3. CASE Ends
  <2>1. ASSUME NEW r \in Requests PROVE LocalOK(r)'
    <3>1. CASE pc[r] = "done"
      BY <1>3, <3>1, EndLocals DEF LocalsOK, LocalOK
    <3>2. CASE pc[r] # "done"
      BY <1>3, <3>2, EndLocals DEF LocalsOK, LocalOK
    <3> QED BY <3>1, <3>2
  <2> QED BY <1>3, <2>1, EndLocals DEF LocalsOK
<1>4. CASE Restart
  <2>1. ASSUME NEW r \in Requests PROVE LocalOK(r)'
    BY <1>4, RestartLocals DEF LocalsOK, LocalOK
  <2> QED BY <1>4, <2>1, RestartLocals DEF LocalsOK
<1> QED BY <1>1, <1>2, <1>3, <1>4, StepKinds

-----------------------------------------------------------------------------
(* The types of the bridge, of the server and of the histories *)

Chats == {ChatOf[r] : r \in Requests} \cup {NoChat}

BridgeTypes ==
  /\ run \in {"reading", "grace", "returned"}
  /\ lastOrigin \in Chats /\ routed \in [Requests -> Chats]
  /\ initialized \in BOOLEAN /\ session \in BOOLEAN /\ peer \in BOOLEAN

(* Bridge.mu is held by the request that registers. *)
LockOK ==
  /\ holder \in Requests \cup {NoRequest}
  /\ \A r \in Requests : pc[r] = "register" => holder = r

StoreTypes ==
  /\ mail \subseteq Mail /\ arrived \subseteq Mail /\ lost \subseteq Mail /\ again \subseteq Mail
  /\ files \subseteq Requests /\ nameless \subseteq Requests /\ shared \subseteq Requests
  /\ gone \subseteq Requests /\ misled \subseteq Requests /\ bare \subseteq Requests
  /\ emitting \subseteq Requests \X Values
  /\ pad \in Values /\ padEvent \in Values
  /\ rivals \subseteq Values /\ stored \subseteq Values
  /\ restarts \in 0..MaxRestarts

TypesOK == LocalsOK /\ BridgeTypes /\ LockOK /\ StoreTypes

(* The initial state is well typed. *)
LEMMA TypesInit == ASSUME Init PROVE TypesOK
<1>1. LocalsOK
  BY DEF Init, LocalsOK, LocalTypes, LocalOK, Labels, Calls
<1>2. BridgeTypes
  BY DEF Init, BridgeTypes, Chats
<1>3. LockOK
  BY DEF Init, LockOK
<1>4. StoreTypes
  <2>1. restarts \in 0..MaxRestarts
    BY ToolsAssumption DEF Init
  <2>2. pad \in Values /\ padEvent \in Values /\ stored \subseteq Values
    BY DEF Init, Values
  <2> QED BY <2>1, <2>2 DEF Init, StoreTypes
<1> QED BY <1>1, <1>2, <1>3, <1>4 DEF TypesOK

(* Every step keeps the bridge's state in its types. *)
LEMMA BridgeTypesStep ==
  ASSUME BridgeTypes, Next
  PROVE  BridgeTypes'
<1> USE DEF goroutine, bridge, server, ghosts, scratch, At, Serving, BridgeTypes
<1>1. ASSUME NEW r \in Requests, Handle(r) \/ \E c \in Asked : Dispatch(r, c)
      PROVE  BridgeTypes'
  <2> HIDE DEF goroutine, bridge, server, ghosts, scratch, At, Serving
  <2>1. run' = run
    BY <1>1, HandleEffects
  <2>2. lastOrigin' \in Chats
    BY <1>1, HandleEffects DEF HandleTool, Capture, Chats
  <2>3. routed' \in [Requests -> Chats]
    BY <1>1, HandleEffects DEF TriggerRoute
  <2>4. initialized' \in BOOLEAN /\ session' \in BOOLEAN /\ peer' \in BOOLEAN
    <3> USE DEF bridge, server
    <3>1. CASE Serve(r)
      BY <1>1, <3>1 DEF Serve, ServeDenied, ServePlain, ServeShare, ServeDrain, ServeUpload,
                        ServeDownload, ServeSet, ServeDelete
    <3>2. CASE ReplyOK(r) \/ ReplyError(r) \/ NoReply(r) \/ BodyLost(r)
      BY <1>1, <3>2 DEF ReplyOK, ReplyError, NoReply, BodyLost, Invalidate
    <3>3. CASE EnsureInit(r) \/ Register(r) \/ RegisterFails(r)
      BY <1>1, <3>3 DEF EnsureInit, Register, RegisterFails
    <3>4. CASE HandleLocal(r) \/ HandleTool(r) \/ Write(r) \/ TriggerRoute(r) \/ TriggerEnds(r)
      BY <1>1, <3>4 DEF HandleLocal, HandleTool, Write, TriggerRoute, TriggerEnds
    <3>5. CASE \E c \in Asked : Dispatch(r, c)
      BY <1>1, <3>5 DEF Dispatch
    <3> QED BY <1>1, <3>1, <3>2, <3>3, <3>4, <3>5 DEF Handle, Start, Reply
  <2> QED BY <2>1, <2>2, <2>3, <2>4
<1>2. CASE Aside
  BY <1>2 DEF Aside, Announce, EndOfInput, WatcherInvalidates, Heartbeat, Arrive, DeleteFile
<1>3. CASE Ends
  BY <1>3 DEF Ends, Return, GraceOver, ScanError, ProcessEnds, Chats
<1>4. CASE Restart
  BY <1>4 DEF Restart
<1> QED BY <1>1, <1>2, <1>3, <1>4, StepKinds

(* Whoever registers goes on holding Bridge.mu until it is through. *)
LEMMA LockStep ==
  ASSUME TypesOK, Next
  PROVE  LockOK'
<1> USE DEF bridge, server
<1>0. LockOK /\ LocalsOK /\ LocalTypes
  BY DEF TypesOK, LocalsOK
<1>1. ASSUME NEW r \in Requests, Handle(r) \/ \E c \in Asked : Dispatch(r, c)
      PROVE  LockOK'
  <2>0. OthersKept(r) /\ LocalTypes'
    BY <1>0, <1>1, HandleLocals DEF TypesOK, StoreTypes
  <2>1. CASE EnsureInit(r) \/ Register(r) \/ RegisterFails(r)
    <3>1. /\ holder' = NoRequest \/ (holder' = r /\ holder = NoRequest)
          /\ holder \in {NoRequest, r}
          /\ pc'[r] = "register" => holder' = r
      BY <1>0, <2>0, <2>1 DEF EnsureInit, Register, RegisterFails, At, LockOK, Answer, LocalTypes
    <3> QED BY <1>0, <2>0, <3>1, ToolsAssumption DEF LockOK, OthersKept
  <2>2. CASE ~(EnsureInit(r) \/ Register(r) \/ RegisterFails(r))
    <3>1. holder' = holder /\ pc'[r] # "register"
      <4> USE <1>0 DEF LocalTypes
      <4>1. CASE Serve(r)
        BY <4>1 DEF Serve, ServeDenied, ServePlain, ServeShare, ServeDrain, ServeUpload,
                    ServeDownload, ServeSet, ServeDelete, Answered, PadWrite
      <4>2. CASE ReplyOK(r) \/ ReplyError(r) \/ NoReply(r) \/ BodyLost(r)
        BY <4>2 DEF ReplyOK, ReplyError, NoReply, BodyLost, Answer
      <4>3. CASE HandleLocal(r) \/ HandleTool(r) \/ Write(r) \/ TriggerRoute(r) \/ TriggerEnds(r)
        BY <4>3 DEF HandleLocal, HandleTool, Write, End, TriggerRoute, TriggerEnds, Answer
      <4>4. CASE \E c \in Asked : Dispatch(r, c)
        BY <4>4 DEF Dispatch
      <4> QED BY <1>1, <2>2, <4>1, <4>2, <4>3, <4>4 DEF Handle, Start, Reply
    <3> QED BY <1>0, <2>0, <3>1 DEF LockOK, OthersKept
  <2> QED BY <2>1, <2>2
<1>2. CASE Aside
  <2>1. holder' = holder
    BY <1>2 DEF Aside, Announce, EndOfInput, WatcherInvalidates, Heartbeat, Arrive, DeleteFile
  <2> QED BY <1>0, <1>2, <2>1, AsideKeeps DEF goroutine, LockOK
<1>3. CASE Ends
  <2>1. holder' = NoRequest
    BY <1>3 DEF Ends, Return, GraceOver, ScanError, ProcessEnds
  <2> QED BY <1>0, <1>3, <2>1, EndLocals DEF LockOK
<1>4. CASE Restart
  BY <1>0, <1>4 DEF Restart, LockOK
<1> QED BY <1>1, <1>2, <1>3, <1>4, StepKinds

(* Every step keeps the server's state in its types. *)
LEMMA StoreTypesStep ==
  ASSUME TypesOK, Next
  PROVE  StoreTypes'
<1>0. StoreTypes /\ LocalTypes
  BY DEF TypesOK, LocalsOK
<1>1. ASSUME NEW r \in Requests, Handle(r) \/ \E c \in Asked : Dispatch(r, c)
      PROVE  StoreTypes'
  <2>1. mail' \subseteq Mail /\ lost' \subseteq Mail
    BY <1>0, <1>1, HandleEffects DEF ServeDrain, NoReply, BodyLost, LoseCargo, server, ghosts,
                                     StoreTypes, LocalTypes
  <2>2. /\ emitting' \subseteq Requests \X Values
        /\ pad' \in Values /\ padEvent' \in Values
        /\ rivals' \subseteq Values /\ stored' \subseteq Values
    <3>1. CASE UNCHANGED scratch
      BY <1>0, <3>1 DEF scratch, StoreTypes
    <3>2. ASSUME NEW v \in Values, PadWrite(r, v)
          PROVE  /\ emitting' \subseteq Requests \X Values
                 /\ pad' \in Values /\ padEvent' \in Values
                 /\ rivals' \subseteq Values /\ stored' \subseteq Values
      BY <1>0, <3>2 DEF PadWrite, StoreTypes
    <3>3. UNCHANGED scratch \/ \E v \in Values : PadWrite(r, v)
      BY <1>1, HandleEffects DEF ServeSet, ServeDelete, Values
    <3> QED BY <3>1, <3>2, <3>3
  <2>3. /\ files' \subseteq Requests /\ nameless' \subseteq Requests /\ shared' \subseteq Requests
        /\ misled' \subseteq Requests /\ bare' \subseteq Requests
    BY <1>0, <1>1, HandleEffects DEF ServeUpload, StoreFile, ServeShare, BodyLost, HandleTool, Capture,
                                     StoreTypes
  <2> QED BY <1>0, <1>1, <2>1, <2>2, <2>3, HandleEffects DEF StoreTypes
<1>2. CASE Aside
  BY <1>0, <1>2 DEF Aside, Announce, EndOfInput, WatcherInvalidates, Heartbeat, Arrive, DeleteFile,
                    RemoveFile, StoreTypes, goroutine, server, scratch, ghosts
<1>3. CASE Ends
  BY <1>0, <1>3 DEF Ends, Return, GraceOver, ScanError, ProcessEnds, StoreTypes, LocalTypes, server,
                    scratch
<1>4. CASE Restart
  <2>1. restarts' \in 0..MaxRestarts
    BY <1>0, <1>4, ToolsAssumption DEF Restart, StoreTypes
  <2>2. mail' \subseteq Mail /\ lost' \subseteq Mail /\ again' \subseteq Mail /\ pad' \in Values
    BY <1>0, <1>4 DEF Restart, StoreTypes
  <2>3. rivals' \subseteq Values
    BY <1>0, <1>4 DEF Restart, StoreTypes
  <2> QED BY <1>0, <1>4, <2>1, <2>2, <2>3 DEF Restart, StoreTypes
<1> QED BY <1>1, <1>2, <1>3, <1>4, StepKinds

(* Every step, or none, keeps all types. *)
LEMMA TypesStep == ASSUME TypesOK, [Next]_vars PROVE TypesOK'
<1>1. CASE Next
  <2>1. mail \subseteq Mail
    BY DEF TypesOK, StoreTypes
  <2> QED BY <1>1, <2>1, LocalsStep, BridgeTypesStep, LockStep, StoreTypesStep DEF TypesOK
<1>2. CASE UNCHANGED vars
  BY <1>2 DEF vars, goroutine, bridge, server, scratch, ghosts, TypesOK, LocalsOK, LocalTypes, LocalOK,
              BridgeTypes, LockOK, StoreTypes
<1> QED BY <1>1, <1>2

(* Every variable has its type, whoever registers holds Bridge.mu, and      *)
(* nothing is written before there is an answer.                            *)
THEOREM TypeCorrect == Spec => []ToolsTypeOK
<1>1. Init => TypesOK
  BY TypesInit
<1>2. TypesOK /\ [Next]_vars => TypesOK'
  BY TypesStep
<1>3. TypesOK => ToolsTypeOK
  <2> SUFFICES ASSUME TypesOK PROVE ToolsTypeOK
    OBVIOUS
  <2>1. {lastOrigin} \cup {routed[r] : r \in Requests} \subseteq {ChatOf[r] : r \in Requests} \cup {NoChat}
    BY DEF TypesOK, BridgeTypes, Chats
  <2> QED BY <2>1 DEF ToolsTypeOK, TypesOK, LocalsOK, LocalTypes, LocalOK, Labels, BridgeTypes, LockOK,
                      StoreTypes
<1> QED BY <1>1, <1>2, <1>3, PTL DEF Spec

-----------------------------------------------------------------------------
(* Mail *)

(* The mailbox, what is lost and what each call has drained share nothing    *)
(* but what a restart has put back, and together they hold what has arrived, *)
(* and no more.  The last part keeps a new message apart from the old ones.  *)
MailApart ==
  /\ \A m \in mail : m \notin lost \/ m \in again
  /\ \A r \in Requests : \A m \in cargo[r] : (m \notin mail /\ m \notin lost) \/ m \in again
  /\ \A q, r \in Requests : \A m \in cargo[q] : m \in cargo[r] => q = r \/ m \in again
  /\ \A m \in arrived : m \in mail \/ m \in lost \/ \E r \in Requests : m \in cargo[r]
  /\ mail \subseteq arrived /\ lost \subseteq arrived /\ \A r \in Requests : cargo[r] \subseteq arrived

(* Every step moves mail from one place to one other. *)
LEMMA MailStep ==
  ASSUME TypesOK, MailApart, Next
  PROVE  MailApart'
<1>0. LocalsOK /\ LocalTypes /\ mail \subseteq Mail
  BY DEF TypesOK, LocalsOK, StoreTypes
<1>1. ASSUME NEW r \in Requests, Handle(r) \/ \E c \in Asked : Dispatch(r, c)
      PROVE  MailApart'
  <2>1. arrived' = arrived /\ again' = again
    BY <1>1, HandleEffects
  <2>2. CASE UNCHANGED <<mail, lost, cargo>>
    BY <2>1, <2>2 DEF MailApart
  <2>3. CASE ServeDrain(r)
    <3>1. /\ cargo[r] = {} /\ mail' = {} /\ lost' = lost
          /\ cargo'[r] = mail /\ \A q \in Requests : q # r => cargo'[q] = cargo[q]
      BY <1>0, <2>3 DEF ServeDrain, Serving, At, LocalsOK, LocalTypes, LocalOK, ghosts
    <3> QED BY <2>1, <3>1 DEF MailApart
  <2>4. CASE NoReply(r) \/ BodyLost(r)
    <3>1. /\ mail' = mail /\ lost' = lost \cup cargo[r]
          /\ cargo'[r] = {} /\ \A q \in Requests : q # r => cargo'[q] = cargo[q]
      BY <1>0, <2>4 DEF NoReply, BodyLost, LoseCargo, LocalTypes, server
    <3> QED BY <2>1, <3>1 DEF MailApart
  <2> QED BY <1>1, <2>2, <2>3, <2>4, HandleEffects
<1>2. CASE Aside
  <2>1. cargo' = cargo
    BY <1>2, AsideKeeps DEF goroutine
  <2>2. ASSUME NEW m \in Mail, Arrive(m) PROVE MailApart'
    <3>1. /\ m \notin arrived /\ arrived' = arrived \cup {m} /\ mail' = mail \cup {m}
          /\ UNCHANGED <<lost, again>>
      BY <2>2 DEF Arrive
    <3> QED BY <2>1, <3>1 DEF MailApart
  <2>3. CASE ~\E m \in Mail : Arrive(m)
    <3>1. UNCHANGED <<mail, lost, again, arrived>>
      BY <1>2, <2>3 DEF Aside, Announce, EndOfInput, WatcherInvalidates, Heartbeat, DeleteFile, server,
                        ghosts
    <3> QED BY <2>1, <3>1 DEF MailApart
  <2> QED BY <2>2, <2>3
<1>3. CASE Ends
  <2>1. /\ UNCHANGED <<mail, arrived, again>>
        /\ lost' = lost \cup UNION {cargo[r] : r \in {q \in Requests : pc[q] # "done"}}
    BY <1>3 DEF Ends, Return, GraceOver, ScanError, ProcessEnds, server
  <2>2. \A r \in Requests : /\ pc[r] = "done" => cargo'[r] = cargo[r]
                            /\ pc[r] # "done" => cargo'[r] = {} /\ cargo[r] \subseteq lost'
    BY <1>0, <1>3, <2>1, EndLocals
  <2>3. \A m \in lost' : m \in lost \/ \E r \in Requests : pc[r] # "done" /\ m \in cargo[r]
    BY <2>1
  <2>4. lost \subseteq lost'
    BY <2>1
  <2> HIDE <2>1
  <2>5. UNCHANGED <<mail, arrived, again>>
    BY <2>1
  <2>6. \A m \in mail' : m \notin lost' \/ m \in again'
    BY <2>3, <2>5 DEF MailApart
  <2>7. \A r \in Requests : \A m \in cargo'[r] : (m \notin mail' /\ m \notin lost') \/ m \in again'
    BY <2>2, <2>3, <2>5 DEF MailApart
  <2>8. \A q, r \in Requests : \A m \in cargo'[q] : m \in cargo'[r] => q = r \/ m \in again'
    BY <2>2, <2>5 DEF MailApart
  <2>9. \A m \in arrived' : m \in mail' \/ m \in lost' \/ \E r \in Requests : m \in cargo'[r]
    BY <2>2, <2>4, <2>5 DEF MailApart
  <2> QED BY <2>2, <2>3, <2>5, <2>6, <2>7, <2>8, <2>9 DEF MailApart
<1>4. CASE Restart
  <2>0. UNCHANGED <<cargo, arrived>>
    BY <1>4 DEF Restart
  <2>1. PICK queued \in SUBSET arrived :
          /\ mail' = queued /\ lost' = (lost \cup mail) \ queued
          /\ again' = again \cup {m \in queued : \E r \in Requests : m \in cargo[r]}
    BY <1>4 DEF Restart
  <2>2. \A m \in mail' : m \notin lost' \/ m \in again'
    BY <2>0, <2>1
  <2>3. \A r \in Requests : \A m \in cargo'[r] : (m \notin mail' /\ m \notin lost') \/ m \in again'
    BY <2>0, <2>1 DEF MailApart
  <2>4. \A q, r \in Requests : \A m \in cargo'[q] : m \in cargo'[r] => q = r \/ m \in again'
    BY <2>0, <2>1 DEF MailApart
  <2>5. \A m \in arrived' : m \in mail' \/ m \in lost' \/ \E r \in Requests : m \in cargo'[r]
    BY <2>0, <2>1 DEF MailApart
  <2>6. /\ mail' \subseteq arrived' /\ lost' \subseteq arrived'
        /\ \A r \in Requests : cargo'[r] \subseteq arrived'
    BY <2>0, <2>1 DEF MailApart
  <2> QED BY <2>2, <2>3, <2>4, <2>5, <2>6 DEF MailApart
<1> QED BY <1>1, <1>2, <1>3, <1>4, StepKinds

(* Disjoint places that hold everything hold each message once. *)
LEMMA MailCounted ==
  ASSUME TypesOK, MailApart
  PROVE  MailHandedOver
<1>1. ASSUME NEW m \in arrived, m \notin again
      PROVE  Cardinality({r \in Requests : m \in cargo[r]})
               + (IF m \in mail THEN 1 ELSE 0) + (IF m \in lost THEN 1 ELSE 0) = 1
  <2> DEFINE Drained == {r \in Requests : m \in cargo[r]}
  <2> SUFFICES Cardinality(Drained) + (IF m \in mail THEN 1 ELSE 0) + (IF m \in lost THEN 1 ELSE 0) = 1
    OBVIOUS
  <2>1. CASE \E r \in Requests : m \in cargo[r]
    <3>1. PICK r \in Requests : m \in cargo[r]
      BY <2>1
    <3>2. Drained = {r} /\ m \notin mail /\ m \notin lost
      BY <1>1, <3>1 DEF MailApart
    <3>3. Cardinality(Drained) = 1
      BY <3>2, FS_Singleton
    <3> HIDE DEF Drained
    <3> QED BY <3>2, <3>3
  <2>2. CASE ~\E r \in Requests : m \in cargo[r]
    <3>1. Drained = {} /\ (m \in mail \/ m \in lost) /\ ~(m \in mail /\ m \in lost)
      BY <1>1, <2>2 DEF MailApart
    <3>2. Cardinality(Drained) = 0
      BY <3>1, FS_EmptySet
    <3> HIDE DEF Drained
    <3> QED BY <3>1, <3>2
  <2> QED BY <2>1, <2>2
<1>2. \A r \in Requests : cargo[r] # {} /\ pc[r] \in {"write", "done"} => answer[r] = "ok"
  BY DEF TypesOK, LocalsOK, LocalOK
<1>3. ASSUME NEW m \in arrived PROVE m \in mail \cup lost \/ {r \in Requests : m \in cargo[r]} # {}
  BY DEF MailApart
<1> QED BY <1>1, <1>2, <1>3 DEF MailHandedOver

(* receive_messages: no message is handed to two calls unless a restart put  *)
(* it back, and none vanishes between the mailbox and the answer unless a    *)
(* response, the server's memory or the bridge's process was lost.           *)
THEOREM MailGoesToOneCall == Spec => []MailHandedOver
<1>1. Init => TypesOK /\ MailApart
  <2>1. Init => MailApart
    BY DEF Init, MailApart
  <2> QED BY <2>1, TypesInit
<1>2. TypesOK /\ MailApart /\ [Next]_vars => (TypesOK /\ MailApart)'
  <2> SUFFICES ASSUME TypesOK, MailApart, [Next]_vars PROVE (TypesOK /\ MailApart)'
    OBVIOUS
  <2>1. CASE UNCHANGED vars
    BY <2>1, TypesStep DEF vars, goroutine, server, ghosts, MailApart
  <2> QED BY <2>1, TypesStep, MailStep
<1>3. TypesOK /\ MailApart => MailHandedOver
  BY MailCounted
<1> QED BY <1>1, <1>2, <1>3, PTL DEF Spec

-----------------------------------------------------------------------------
(* Files *)

(* How far send_file has got.  A response that names a file means that the  *)
(* file was stored, the second call of send_file that it still is or was    *)
(* deleted, a success of the second call that it was announced; and only a  *)
(* call of send_file stores one.                                            *)
FileOK(r) ==
  /\ call[r] = "upload" /\ reply[r] = "ok" => r \in files \cup gone
  /\ call[r] = "share" /\ r \notin nameless => r \in files \cup gone
  /\ call[r] = "share" /\ reply[r] = "ok" => r \in shared \cup nameless
  /\ r \in files => call[r] \in {"upload", "share"} \/ pc[r] = "done" \/ run = "returned"
  /\ r \in shared => r \in files \cup gone
  /\ call[r] \in {"upload", "share"} /\ answer[r] = "ok" => r \in shared \cup nameless
  /\ r \in files \ shared => answer[r] # "ok" \/ r \in nameless

FilesOK == \A r \in Requests : FileOK(r)

(* Another call's step. *)
LEMMA OthersFiles ==
  ASSUME NEW r \in Requests, NEW q \in Requests, q # r, FileOK(q), OthersKept(r),
         Handle(r) \/ \E c \in Asked : Dispatch(r, c)
  PROVE  FileOK(q)'
<1>1. /\ q \in files' <=> q \in files
      /\ q \in shared' <=> q \in shared
      /\ q \in nameless' <=> q \in nameless
  BY HandleEffects DEF ServeUpload, StoreFile, ServeShare, BodyLost
<1> QED BY <1>1, HandleEffects DEF FileOK, OthersKept

(* A call's own step. *)
LEMMA OwnFiles ==
  ASSUME TypesOK, FilesOK, NEW r \in Requests,
         Handle(r) \/ \E c \in Asked : Dispatch(r, c)
  PROVE  FileOK(r)'
<1>0. LocalTypes /\ LocalOK(r) /\ FileOK(r)
  BY DEF TypesOK, LocalsOK, FilesOK
<1>1. UNCHANGED gone /\ run # "returned" /\ run' = run
  BY HandleEffects
<1>2. CASE Serve(r)
  <2>1. CASE ServeUpload(r)
    BY <1>0, <1>1, <2>1 DEF ServeUpload, StoreFile, Answered, Serving, At, ghosts, LocalTypes, LocalOK,
                            FileOK
  <2>2. CASE ServeShare(r)
    BY <1>0, <1>1, <2>2 DEF ServeShare, Answered, Serving, At, server, LocalTypes, LocalOK, FileOK
  <2>3. CASE ~ServeUpload(r) /\ ~ServeShare(r)
    <3>1. /\ UNCHANGED <<call, answer, files, shared, nameless>> /\ pc'[r] # "done" /\ pc[r] # "done"
          /\ reply'[r] = "ok" => call[r] \notin {"upload", "share"}
      BY <1>0, <1>2, <2>3 DEF Serve, ServeDenied, ServePlain, ServeDrain, ServeDownload, ServeSet,
             ServeDelete, PadWrite, Answered, Serving, At, server, ghosts, LocalTypes
    <3> QED BY <1>0, <1>1, <3>1 DEF FileOK
  <2> QED BY <2>1, <2>2, <2>3
<1>3. CASE ReplyOK(r)
  <2>1. /\ UNCHANGED <<files, shared, nameless>> /\ reply'[r] = "none" /\ reply[r] = "ok"
        /\ pc[r] = "reply" /\ answer[r] = "none"
        /\ \/ call[r] = "upload" /\ call'[r] = "share" /\ answer'[r] = answer[r]
           \/ call[r] # "upload" /\ call'[r] = call[r]
    BY <1>0, <1>3 DEF ReplyOK, Consume, At, server, ghosts, LocalTypes, LocalOK
  <2> QED BY <1>0, <1>1, <2>1 DEF FileOK
<1>4. CASE ReplyError(r) \/ NoReply(r)
  <2>1. /\ UNCHANGED <<call, files, shared, nameless>> /\ reply'[r] = "none" /\ answer'[r] = "error"
        /\ pc[r] # "done"
    BY <1>0, <1>4 DEF ReplyError, NoReply, LoseCargo, Answer, Consume, At, server, ghosts, LocalTypes
  <2> QED BY <1>0, <1>1, <2>1 DEF FileOK
<1>5. CASE BodyLost(r)
  <2>1. /\ UNCHANGED <<files, shared>> /\ reply'[r] = "none" /\ pc[r] = "reply" /\ answer[r] = "none"
        /\ \/ call'[r] = "share" /\ r \in nameless' /\ answer'[r] = answer[r] /\ call[r] = "upload"
           \/ call'[r] = call[r] /\ nameless' = nameless /\ answer'[r] = "error"
    BY <1>0, <1>5 DEF BodyLost, LoseCargo, Answer, Consume, At, server, LocalTypes, LocalOK
  <2> QED BY <1>0, <1>1, <2>1 DEF FileOK
<1>6. CASE Write(r)
  <2>1. /\ UNCHANGED <<files, shared, nameless, answer>> /\ call'[r] = "none" /\ pc'[r] = "done"
    BY <1>0, <1>6 DEF Write, End, server, ghosts, LocalTypes
  <2> QED BY <1>0, <1>1, <2>1 DEF FileOK
<1>7. CASE \E c \in Asked : Dispatch(r, c)
  <2>1. /\ UNCHANGED <<files, shared, nameless, answer, reply>> /\ pc[r] = "unsent"
        /\ call'[r] \in Asked
    BY <1>0, <1>7 DEF Dispatch, server, ghosts, LocalTypes
  <2>2. call[r] = "none" /\ reply[r] = "none" /\ answer[r] = "none" /\ call'[r] # "share"
    BY <1>0, <2>1 DEF LocalOK, Asked
  <2> QED BY <1>0, <1>1, <2>1, <2>2 DEF FileOK
<1>8. CASE HandleLocal(r)
  <2>1. /\ UNCHANGED <<files, shared, nameless, reply>> /\ pc[r] = "start" /\ call[r] = "local"
        /\ call'[r] \in {"local", "none"}
    BY <1>0, <1>8 DEF HandleLocal, End, At, server, ghosts, LocalTypes
  <2> QED BY <1>0, <1>1, <2>1 DEF FileOK
<1>9. CASE \/ HandleTool(r) \/ TriggerRoute(r) \/ TriggerEnds(r)
           \/ EnsureInit(r) \/ Register(r) \/ RegisterFails(r)
  <2>1. /\ UNCHANGED <<files, shared, nameless, call, reply>> /\ pc[r] \notin {"done", "reply", "write"}
        /\ answer'[r] = answer[r] \/ answer'[r] = "error" \/ pc[r] = "socket"
    BY <1>0, <1>9 DEF HandleTool, TriggerRoute, TriggerEnds, EnsureInit, Register,
           RegisterFails, Answer, At, server, ghosts, bridge, LocalTypes
  <2> QED BY <1>0, <1>1, <2>1 DEF FileOK, LocalOK
<1> QED BY <1>2, <1>3, <1>4, <1>5, <1>6, <1>7, <1>8, <1>9 DEF Handle, Start, Reply

(* Every step keeps the stages of send_file. *)
LEMMA FilesStep ==
  ASSUME TypesOK, FilesOK, Next
  PROVE  FilesOK'
<1>0. LocalsOK /\ LocalTypes /\ mail \subseteq Mail
  BY DEF TypesOK, LocalsOK, StoreTypes
<1>1. ASSUME NEW r \in Requests, Handle(r) \/ \E c \in Asked : Dispatch(r, c)
      PROVE  FilesOK'
  BY <1>0, <1>1, HandleLocals, OthersFiles, OwnFiles DEF FilesOK
<1>2. CASE Aside
  <2>1. UNCHANGED <<pc, call, reply, answer, nameless>>
    BY <1>2, AsideKeeps DEF goroutine
  <2>2. /\ shared' = shared /\ files' \subseteq files
        /\ \A r \in Requests : r \in files \cup gone => r \in files' \cup gone'
        /\ run = "returned" => run' = "returned"
    BY <1>2 DEF Aside, Announce, EndOfInput, WatcherInvalidates, Heartbeat, Arrive, DeleteFile,
                RemoveFile, server, ghosts
  <2> QED BY <2>1, <2>2 DEF FilesOK, FileOK
<1>3. CASE Ends
  <2>1. /\ UNCHANGED <<files, shared, gone>> /\ run' = "returned"
        /\ nameless' = nameless \ {r \in Requests : pc[r] # "done"}
    BY <1>3 DEF Ends, Return, GraceOver, ScanError, ProcessEnds, server
  <2>2. ASSUME NEW r \in Requests PROVE FileOK(r)'
    <3>1. CASE pc[r] = "done"
      BY <1>0, <1>3, <2>1, <3>1, EndLocals DEF FilesOK, FileOK
    <3>2. CASE pc[r] # "done"
      BY <1>0, <1>3, <2>1, <3>2, EndLocals DEF FilesOK, FileOK
    <3> QED BY <3>1, <3>2
  <2> QED BY <2>2 DEF FilesOK
<1>4. CASE Restart
  <2>1. /\ UNCHANGED <<shared, nameless, run>> /\ files' = {} /\ gone' = gone \cup files
    BY <1>4 DEF Restart
  <2>2. UNCHANGED <<pc, call, answer>> /\ \A r \in Requests : reply'[r] = "ok" => reply[r] = "ok"
    BY <1>0, <1>4, RestartLocals
  <2> QED BY <2>1, <2>2 DEF FilesOK, FileOK
<1> QED BY <1>1, <1>2, <1>3, <1>4, StepKinds

(* send_file: an announced file is in the store unless it was deleted or    *)
(* lost in a restart, and success means that the file was announced.        *)
THEOREM AnnouncedFilesExist == Spec => []FileShared
<1>1. Init => TypesOK /\ FilesOK
  <2>1. Init => FilesOK
    BY DEF Init, FilesOK, FileOK
  <2> QED BY <2>1, TypesInit
<1>2. TypesOK /\ FilesOK /\ [Next]_vars => (TypesOK /\ FilesOK)'
  <2> SUFFICES ASSUME TypesOK, FilesOK, [Next]_vars PROVE (TypesOK /\ FilesOK)'
    OBVIOUS
  <2>1. CASE UNCHANGED vars
    BY <2>1, TypesStep DEF vars, goroutine, server, ghosts, FilesOK, FileOK
  <2> QED BY <2>1, TypesStep, FilesStep
<1>3. FilesOK => FileShared
  BY DEF FilesOK, FileOK, FileShared
<1> QED BY <1>1, <1>2, <1>3, PTL DEF Spec

-----------------------------------------------------------------------------
(* Triggers *)

(* A trigger that has yet to look finds the origin of its own chat, unless  *)
(* a call of another chat has been counted against it or it came without an *)
(* origin.                                                                  *)
OriginOK(r) ==
  /\ pc[r] = "trigger" => lastOrigin = ChatOf[r] \/ r \in misled \cup bare
  /\ routed[r] \in {NoChat, ChatOf[r]} \/ r \in misled \cup bare

OriginsOK == \A r \in Requests : OriginOK(r)

(* Every step keeps the origins of pending triggers, or counts against *)
(* them.                                                               *)
LEMMA OriginsStep ==
  ASSUME TypesOK, OriginsOK, Next
  PROVE  OriginsOK'
<1>0. LocalsOK /\ LocalTypes /\ BridgeTypes /\ mail \subseteq Mail
  BY DEF TypesOK, LocalsOK, StoreTypes
<1>1. ASSUME NEW r \in Requests, Handle(r) \/ \E c \in Asked : Dispatch(r, c)
      PROVE  OriginsOK'
  <2>0. OthersKept(r) /\ LocalTypes'
    BY <1>0, <1>1, HandleLocals
  <2>1. CASE HandleTool(r)
    <3>1. routed' = routed /\ pc[r] = "start"
      BY <2>1 DEF HandleTool, At
    <3>2. pc'[r] = "trigger" => call[r] = "trigger"
      BY <1>0, <2>1 DEF HandleTool, Answer, LocalTypes
    <3>3. CASE /\ lastOrigin' = ChatOf[r] /\ bare' = bare
               /\ misled' = misled \cup {q \in Requests : pc[q] = "trigger" /\ ChatOf[q] # ChatOf[r]}
      BY <2>0, <3>1, <3>3 DEF OriginsOK, OriginOK, OthersKept
    <3>4. CASE /\ bare' = bare \cup {q \in {r} : call[q] = "trigger"}
               /\ UNCHANGED <<lastOrigin, misled>>
      <4>1. pc'[r] = "trigger" => r \in bare'
        BY <3>4, <3>2
      <4>2. bare \subseteq bare' /\ lastOrigin' = lastOrigin /\ misled' = misled
        BY <3>4
      <4> QED BY <2>0, <3>1, <4>1, <4>2 DEF OriginsOK, OriginOK, OthersKept
    <3>5. CASE UNCHANGED <<lastOrigin, misled, bare>> /\ pc'[r] = "write"
      BY <2>0, <3>1, <3>5 DEF OriginsOK, OriginOK, OthersKept
    <3>6. Capture(r) \/ (UNCHANGED <<lastOrigin, misled, bare>> /\ pc'[r] = "write")
      BY <1>0, <2>1 DEF HandleTool, Answer, LocalTypes
    <3> QED BY <3>3, <3>4, <3>5, <3>6 DEF Capture
  <2>2. CASE TriggerRoute(r)
    <3>1. /\ pc[r] = "trigger" /\ pc'[r] = "socket" /\ UNCHANGED <<lastOrigin, misled, bare>>
          /\ routed'[r] = lastOrigin /\ \A q \in Requests : q # r => routed'[q] = routed[q]
      BY <1>0, <2>2 DEF TriggerRoute, At, ghosts, LocalTypes, BridgeTypes
    <3> QED BY <2>0, <3>1 DEF OriginsOK, OriginOK, OthersKept
  <2>3. CASE ~HandleTool(r) /\ ~TriggerRoute(r)
    <3>1. UNCHANGED <<lastOrigin, misled, bare, routed>>
      BY <1>1, <2>3, HandleEffects
    <3>2. pc'[r] # "trigger"
      <4> USE <1>0 DEF LocalTypes
      <4>1. CASE Serve(r)
        BY <4>1 DEF Serve, ServeDenied, ServePlain, ServeShare, ServeDrain, ServeUpload,
                    ServeDownload, ServeSet, ServeDelete, Answered, PadWrite
      <4>2. CASE ReplyOK(r) \/ ReplyError(r) \/ NoReply(r) \/ BodyLost(r)
        BY <4>2 DEF ReplyOK, ReplyError, NoReply, BodyLost, Answer
      <4>3. CASE EnsureInit(r) \/ Register(r) \/ RegisterFails(r)
        BY <4>3 DEF EnsureInit, Register, RegisterFails, Answer
      <4>4. CASE HandleLocal(r) \/ Write(r) \/ TriggerEnds(r)
        BY <4>4 DEF HandleLocal, Write, End, TriggerEnds, Answer
      <4>5. CASE \E c \in Asked : Dispatch(r, c)
        BY <4>5 DEF Dispatch
      <4> QED BY <1>1, <2>3, <4>1, <4>2, <4>3, <4>4, <4>5 DEF Handle, Start, Reply
    <3> QED BY <2>0, <3>1, <3>2 DEF OriginsOK, OriginOK, OthersKept
  <2> QED BY <2>1, <2>2, <2>3
<1>2. CASE Aside
  <2>1. UNCHANGED <<lastOrigin, routed, misled, bare>>
    BY <1>2 DEF Aside, Announce, EndOfInput, WatcherInvalidates, Heartbeat, Arrive, DeleteFile, bridge,
                ghosts
  <2> QED BY <1>2, <2>1, AsideKeeps DEF goroutine, OriginsOK, OriginOK
<1>3. CASE Ends
  <2>1. UNCHANGED <<misled, bare>> /\ \A r \in Requests : routed'[r] \in {routed[r], NoChat}
    BY <1>3 DEF Ends, Return, GraceOver, ScanError, ProcessEnds
  <2>2. \A r \in Requests : pc'[r] # "trigger"
    BY <1>0, <1>3, EndLocals
  <2> QED BY <2>1, <2>2 DEF OriginsOK, OriginOK
<1>4. CASE Restart
  BY <1>4 DEF Restart, bridge, OriginsOK, OriginOK
<1> QED BY <1>1, <1>2, <1>3, <1>4, StepKinds

(* trigger_agent goes to the chat that asked for it, unless a call from     *)
(* another chat was captured between its capture and its look, or its call  *)
(* named none.                                                              *)
THEOREM TriggersReachTheirChat == Spec => []TriggerRouted
<1>1. Init => TypesOK /\ OriginsOK
  <2>1. Init => OriginsOK
    BY DEF Init, OriginsOK, OriginOK
  <2> QED BY <2>1, TypesInit
<1>2. TypesOK /\ OriginsOK /\ [Next]_vars => (TypesOK /\ OriginsOK)'
  <2> SUFFICES ASSUME TypesOK, OriginsOK, [Next]_vars PROVE (TypesOK /\ OriginsOK)'
    OBVIOUS
  <2>1. CASE UNCHANGED vars
    BY <2>1, TypesStep DEF vars, goroutine, bridge, ghosts, OriginsOK, OriginOK
  <2> QED BY <2>1, TypesStep, OriginsStep
<1>3. OriginsOK => TriggerRouted
  BY DEF OriginsOK, OriginOK, TriggerRouted
<1> QED BY <1>1, <1>2, <1>3, PTL DEF Spec

-----------------------------------------------------------------------------
(* The scratchpad *)

(* Whatever is still to be announced is the value in the store or one that   *)
(* may come after it; and once nothing is, so is what was announced last.    *)
PadOK ==
  /\ \A r \in Requests, v \in Values : <<r, v>> \in emitting => v \in {pad} \cup rivals
  /\ emitting = {} => padEvent \in {pad} \cup rivals

(* Every step keeps the announcement of the scratchpad's value pending or *)
(* done.                                                                  *)
LEMMA PadStep ==
  ASSUME PadOK, Next
  PROVE  PadOK'
<1>1. ASSUME NEW r \in Requests, Handle(r) \/ \E c \in Asked : Dispatch(r, c)
      PROVE  PadOK'
  <2>1. ASSUME NEW v, PadWrite(r, v) PROVE PadOK'
    <3>1. rivals' = {e[2] : e \in emitting} /\ emitting' = emitting \cup {<<r, pad'>>}
      BY <2>1 DEF PadWrite
    <3>2. ASSUME NEW q \in Requests, NEW w \in Values, <<q, w>> \in emitting' PROVE w \in {pad'} \cup rivals'
      <4>1. <<q, w>>[2] = w
        OBVIOUS
      <4> QED BY <3>1, <3>2, <4>1
    <3> QED BY <3>1, <3>2 DEF PadOK
  <2>2. CASE UNCHANGED scratch
    BY <2>2 DEF scratch, PadOK
  <2>3. UNCHANGED scratch \/ PadWrite(r, r) \/ PadWrite(r, NoRequest)
    BY <1>1, HandleEffects DEF ServeSet, ServeDelete
  <2> QED BY <2>1, <2>2, <2>3
<1>2. CASE Aside
  <2>1. ASSUME NEW r \in Requests, Announce(r) PROVE PadOK'
    <3>1. PICK v \in Values :
            <<r, v>> \in emitting /\ padEvent' = v /\ emitting' = emitting \ {<<r, v>>}
      BY <2>1 DEF Announce
    <3>2. UNCHANGED <<pad, rivals>>
      BY <2>1 DEF Announce
    <3> QED BY <3>1, <3>2 DEF PadOK
  <2>2. CASE ~\E r \in Requests : Announce(r)
    <3>1. UNCHANGED scratch
      BY <1>2, <2>2 DEF Aside, EndOfInput, WatcherInvalidates, Heartbeat, Arrive, DeleteFile, server
    <3> QED BY <3>1 DEF scratch, PadOK
  <2> QED BY <2>1, <2>2
<1>3. CASE Ends
  <2>1. UNCHANGED scratch
    BY <1>3 DEF Ends, Return, GraceOver, ScanError, ProcessEnds, server
  <2> QED BY <2>1 DEF scratch, PadOK
<1>4. CASE Restart
  <2>1. /\ emitting' = {} /\ padEvent' = padEvent
        /\ (emitting = {} /\ pad' = pad /\ rivals' = rivals) \/ rivals' = rivals \cup {padEvent}
    BY <1>4 DEF Restart
  <2> QED BY <2>1 DEF PadOK
<1> QED BY <1>1, <1>2, <1>3, <1>4, StepKinds

(* scratchpad_set and scratchpad_delete: once every handler is through, the  *)
(* last announced value is the one in the store or that of a write that      *)
(* overlapped with the last one, unless a restart came since.                *)
THEOREM EventsFollowTheStore == Spec => []PadAnnounced
<1>1. Init => PadOK
  BY DEF Init, PadOK
<1>2. PadOK /\ [Next]_vars => PadOK'
  <2> SUFFICES ASSUME PadOK, [Next]_vars PROVE PadOK'
    OBVIOUS
  <2>1. CASE UNCHANGED vars
    BY <2>1 DEF vars, server, scratch, PadOK
  <2> QED BY <2>1, PadStep
<1>3. PadOK => PadAnnounced
  BY DEF PadOK, PadAnnounced
<1> QED BY <1>1, <1>2, <1>3, PTL DEF Spec
=============================================================================
