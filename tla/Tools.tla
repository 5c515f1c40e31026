-------------------------------- MODULE Tools --------------------------------
(***************************************************************************)
(* Tool calls through the MCP bridge: the stdio server that runs each      *)
(* request in a goroutine of its own (internal/mcp/server.go), the tool    *)
(* handlers and their HTTP requests (cmd/agentchat-mcp-bridge/main.go),    *)
(* and what the server's handlers do with them (api.go, filestore,         *)
(* scratchpad).                                                            *)
(*                                                                         *)
(* A request is identified with the JSON-RPC id, and with the file that it *)
(* uploads and the value that it stores.  Requests interleave at every     *)
(* lock, round trip and write.  A round trip may fail before the server    *)
(* has seen it or after the server has acted; the server may restart, with *)
(* or without its state; the host may close the input at any time.         *)
(***************************************************************************)
EXTENDS Naturals, FiniteSets

CONSTANTS
  Requests,     \* JSON-RPC requests, each sent once
  ChatOf,       \* the _meta origin that the host stamps on each tools/call
  Mail,         \* messages for the bridge's agent
  NoRequest, NoChat,
  MaxRestarts   \* bound: restarts of the server

ASSUME ToolsAssumption ==
  /\ NoRequest \notin Requests
  /\ NoChat \notin {ChatOf[r] : r \in Requests}
  /\ MaxRestarts \in Nat

(* What a request asks for.  "local" is answered by the stdio server, the   *)
(* others are tools.  send_file makes two HTTP calls, upload and share; the *)
(* others make one.  "plain" is a tool whose one call has its effect in     *)
(* other modules, or none: send_message, broadcast, task_*, list_agents,    *)
(* get_leader, transfer_leadership, scratchpad_get, scratchpad_list,        *)
(* request_history.  The files go straight through the http.Client, the     *)
(* rest through doJSON.                                                     *)
Asked == {"local", "trigger", "upload", "download", "plain", "set", "delete", "drain"}
JSON  == {"share", "plain", "set", "delete", "drain"}
Calls == Asked \cup {"share", "none"}

VARIABLES
  run,          \* RunWith: "reading", "grace" after the end of input, "returned"
  pc, call, answer, reply, cargo,  \* locals of each request's goroutine
  nameless,     \* the send_file calls that got no file ID from the upload
  lastOrigin,   \* the global origin of the latest tools/call
  routed,       \* the chat a trigger_agent signal was sent to
  holder,       \* who holds Bridge.mu across the register round trip
  initialized,  \* Bridge.initialized
  session,      \* whether the server knows the session
  peer,         \* whether it knows the recipient
  mail,         \* the agent's mailbox
  files,        \* the session's files
  pad, padEvent,  \* the value of a scratchpad key, and the value last announced
  emitting,       \* the handlers between the two, each with its value
  restarts,
  arrived, lost,   \* history: mail accepted; mail lost with a response, the
                   \* server's memory or the bridge's process
  stored,          \* history: the values that the key has had
  again,           \* history: mail that a call had drained and a restart put back
  shared, gone,    \* history: files announced; files deleted, or lost in a restart
  misled,          \* history: triggers whose origin another chat has overwritten
  bare,            \* history: triggers that came without an origin
  rivals           \* history: the values that may have been announced last although
                   \* the store has another: see PadWrite and Restart

goroutine == <<pc, call, answer, reply, cargo, nameless>>
bridge    == <<lastOrigin, routed, holder, initialized>>
scratch   == <<pad, padEvent, emitting, rivals, stored>>
server    == <<session, peer, mail, files, scratch, restarts>>
ghosts    == <<arrived, lost, again, shared, gone, misled, bare>>
vars == <<run, goroutine, bridge, server, ghosts>>

Values == Requests \cup {NoRequest}

ToolsTypeOK ==
  /\ run \in {"reading", "grace", "returned"}
  /\ pc \in [Requests -> {"unsent", "start", "trigger", "socket", "init", "register",
                          "request", "reply", "write", "done"}]
  /\ call \in [Requests -> Calls]
  /\ answer \in [Requests -> {"none", "ok", "error"}]
  /\ reply \in [Requests -> {"none", "ok", "denied", "failed", "broken"}]
  /\ cargo \in [Requests -> SUBSET Mail]
  /\ {lastOrigin} \cup {routed[r] : r \in Requests}
       \subseteq {ChatOf[r] : r \in Requests} \cup {NoChat}
  /\ holder \in Requests \cup {NoRequest}
  /\ \A r \in Requests : pc[r] = "register" => holder = r
  /\ \A r \in Requests : pc[r] = "write" => answer[r] # "none"
  /\ initialized \in BOOLEAN /\ session \in BOOLEAN /\ peer \in BOOLEAN
  /\ mail \subseteq Mail /\ arrived \subseteq Mail /\ lost \subseteq Mail /\ again \subseteq Mail
  /\ files \cup nameless \cup shared \cup gone \cup misled \cup bare \subseteq Requests
  /\ emitting \subseteq Requests \X Values
  /\ {pad, padEvent} \cup rivals \cup stored \subseteq Values
  /\ restarts \in 0..MaxRestarts

Init ==
  /\ run = "reading"
  /\ pc = [r \in Requests |-> "unsent"]
  /\ call = [r \in Requests |-> "none"]
  /\ answer = [r \in Requests |-> "none"]
  /\ reply = [r \in Requests |-> "none"]
  /\ cargo = [r \in Requests |-> {}] /\ nameless = {}
  /\ lastOrigin = NoChat /\ routed = [r \in Requests |-> NoChat]
  /\ holder = NoRequest /\ initialized = FALSE
  /\ session = TRUE /\ peer = TRUE
  /\ mail = {} /\ files = {}
  /\ pad = NoRequest /\ padEvent = NoRequest /\ emitting = {} /\ rivals = {} /\ stored = {NoRequest}
  /\ restarts = 0
  /\ arrived = {} /\ lost = {} /\ again = {}
  /\ shared = {} /\ gone = {} /\ misled = {} /\ bare = {}

-----------------------------------------------------------------------------
(* The stdio server *)

At(r, label) == run # "returned" /\ pc[r] = label

(* A line with an id: handleRequest starts in a goroutine. *)
Dispatch(r, c) ==
  /\ run = "reading" /\ pc[r] = "unsent"
  /\ pc' = [pc EXCEPT ![r] = "start"]
  /\ call' = [call EXCEPT ![r] = c]
  /\ UNCHANGED <<run, answer, reply, cargo, nameless, bridge, server, ghosts>>

(* The response a is ready to be written. *)
Answer(r, a) ==
  /\ pc' = [pc EXCEPT ![r] = "write"]
  /\ answer' = [answer EXCEPT ![r] = a]

(* The goroutine ends. *)
End(r) ==
  /\ pc' = [pc EXCEPT ![r] = "done"]
  /\ call' = [call EXCEPT ![r] = "none"]
  /\ UNCHANGED answer

(* initialize, ping, tools/list: answered at once.  So is a method that     *)
(* does not exist, with an error.  notifications/initialized gets no        *)
(* response, even if it has an id.                                          *)
HandleLocal(r) ==
  /\ At(r, "start") /\ call[r] = "local"
  /\ (Answer(r, "ok") /\ UNCHANGED call) \/ End(r)
  /\ UNCHANGED <<run, reply, cargo, nameless, bridge, server, ghosts>>

(* Mutant: the first origin is kept. *)
CaptureOnce(r) ==
  /\ lastOrigin' = IF lastOrigin = NoChat THEN ChatOf[r] ELSE lastOrigin
  /\ UNCHANGED <<misled, bare>>

(* The origin of a tools/call replaces that of the previous one, also when  *)
(* a trigger_agent of another chat has yet to look at it.  A call without   *)
(* _meta leaves it in place.                                                *)
Capture(r) ==
  \/ /\ lastOrigin' = ChatOf[r]
     /\ misled' = misled \cup {q \in Requests : pc[q] = "trigger" /\ ChatOf[q] # ChatOf[r]}
     /\ UNCHANGED bare
  \/ /\ bare' = bare \cup {q \in {r} : call[q] = "trigger"}
     /\ UNCHANGED <<lastOrigin, misled>>

(* tools/call, as far as the handler's checks of its arguments.  Params     *)
(* that do not parse are refused before the origin is looked at.            *)
HandleTool(r) ==
  /\ At(r, "start") /\ call[r] # "local"
  /\ \/ /\ Capture(r)
        /\ pc' = [pc EXCEPT ![r] = IF call[r] = "trigger" THEN "trigger" ELSE "init"]
        /\ UNCHANGED answer
     \/ Capture(r) /\ Answer(r, "error")
     \/ Answer(r, "error") /\ UNCHANGED <<lastOrigin, misled, bare>>
  /\ UNCHANGED <<run, call, reply, cargo, nameless, routed, holder, initialized,
                 server, arrived, again, lost, shared, gone>>

(* Server.write, under Server.mu. *)
Write(r) ==
  /\ At(r, "write")
  /\ End(r)
  /\ UNCHANGED <<run, reply, cargo, nameless, bridge, server, ghosts>>

(* End of input: RunWith waits for the handlers, for shutdownGrace at most. *)
EndOfInput ==
  /\ run = "reading" /\ run' = "grace"
  /\ UNCHANGED <<goroutine, bridge, server, ghosts>>

AllAnswered == \A r \in Requests : pc[r] \in {"unsent", "done"}

(* RunWith and main return, and the process ends: the goroutines that are   *)
(* still running vanish, with what they have drained.                       *)
ProcessEnds ==
  LET cut == {r \in Requests : pc[r] # "done"}
      without(f, none) == [r \in Requests |-> IF r \in cut THEN none ELSE f[r]] IN
  /\ run' = "returned"
  /\ pc' = without(pc, "unsent") /\ call' = without(call, "none")
  /\ answer' = without(answer, "none") /\ reply' = without(reply, "none")
  /\ cargo' = without(cargo, {}) /\ nameless' = nameless \ cut
  /\ lastOrigin' = NoChat /\ routed' = without(routed, NoChat)
  /\ holder' = NoRequest /\ initialized' = FALSE
  /\ lost' = lost \cup UNION {cargo[r] : r \in cut}
  /\ UNCHANGED <<server, arrived, again, shared, gone, misled, bare>>

Return == run = "grace" /\ AllAnswered /\ ProcessEnds

GraceOver == run = "grace" /\ ~AllAnswered /\ ProcessEnds

(* A line above one megabyte, or a failing read: RunWith returns at once. *)
ScanError == run = "reading" /\ ProcessEnds

-----------------------------------------------------------------------------
(* trigger_agent without a target of its own *)

TriggerRoute(r) ==
  /\ At(r, "trigger")
  /\ routed' = [routed EXCEPT ![r] = lastOrigin]
  /\ pc' = [pc EXCEPT ![r] = "socket"]
  /\ UNCHANGED <<run, call, answer, reply, cargo, nameless, lastOrigin, holder,
                 initialized, server, ghosts>>

(* SendToSocket: every step of it has a deadline. *)
TriggerEnds(r) ==
  /\ At(r, "socket")
  /\ \E a \in {"ok", "error"} : Answer(r, a)
  /\ UNCHANGED <<run, call, reply, cargo, nameless, bridge, server, ghosts>>

-----------------------------------------------------------------------------
(* ensureInit, which keeps Bridge.mu over the round trip *)

(* Mutant: Bridge.mu is released before the round trip. *)
EnsureInitUnlocked(r) ==
  /\ At(r, "init") /\ holder = NoRequest
  /\ pc' = [pc EXCEPT ![r] = IF initialized THEN "request" ELSE "register"]
  /\ UNCHANGED <<run, call, answer, reply, cargo, nameless, bridge, server, ghosts>>

EnsureInit(r) ==
  /\ At(r, "init") /\ holder = NoRequest
  /\ pc' = [pc EXCEPT ![r] = IF initialized THEN "request" ELSE "register"]
  /\ holder' = IF initialized THEN NoRequest ELSE r
  /\ UNCHANGED <<run, call, answer, reply, cargo, nameless, lastOrigin, routed,
                 initialized, server, ghosts>>

(* POST /register creates the session if the server does not know it. *)
Register(r) ==
  /\ At(r, "register")
  /\ session' = TRUE
  /\ initialized' = TRUE /\ holder' = NoRequest
  /\ pc' = [pc EXCEPT ![r] = "request"]
  /\ UNCHANGED <<run, call, answer, reply, cargo, nameless, lastOrigin, routed, peer,
                 mail, files, scratch, restarts, ghosts>>

(* Mutant: the error path starts over and takes Bridge.mu once more. *)
RegisterFailsLocked(r) ==
  /\ At(r, "register")
  /\ pc' = [pc EXCEPT ![r] = "init"]
  /\ UNCHANGED <<run, call, answer, reply, cargo, nameless, bridge, server, ghosts>>

(* The call fails; the server may have registered the agent all the same. *)
RegisterFails(r) ==
  /\ At(r, "register")
  /\ session' \in {session, TRUE}
  /\ holder' = NoRequest
  /\ Answer(r, "error")
  /\ UNCHANGED <<run, call, reply, cargo, nameless, lastOrigin, routed, initialized,
                 peer, mail, files, scratch, restarts, ghosts>>

-----------------------------------------------------------------------------
(* The server's side of a request: auth, then the handler *)

Answered(r, status) ==
  /\ pc' = [pc EXCEPT ![r] = "reply"]
  /\ reply' = [reply EXCEPT ![r] = status]

Serving(r, c) == At(r, "request") /\ call[r] = c /\ session
Emitting(r) == \E v \in Values : <<r, v>> \in emitting

(* 401: the session is unknown. *)
ServeDenied(r) ==
  /\ At(r, "request") /\ ~session
  /\ Answered(r, "denied")
  /\ UNCHANGED <<run, call, answer, cargo, nameless, bridge, server, ghosts>>

(* Any other handler, with success or an error of its own. *)
ServePlain(r) ==
  /\ Serving(r, "plain")
  /\ \E status \in {"ok", "failed"} : Answered(r, status)
  /\ UNCHANGED <<run, call, answer, cargo, nameless, bridge, server, ghosts>>

(* sendMessage: 400 for a recipient that is not a member. *)
ServeShare(r) ==
  /\ Serving(r, "share")
  /\ Answered(r, IF peer THEN "ok" ELSE "failed")
  /\ shared' = IF peer THEN shared \cup ({r} \ nameless) ELSE shared
  /\ UNCHANGED <<run, call, answer, cargo, nameless, bridge, server, arrived, again, lost,
                 gone, misled, bare>>

(* Mutant: the entries stay queued. *)
ServeDrainCopies(r) ==
  /\ Serving(r, "drain")
  /\ Answered(r, "ok")
  /\ cargo' = [cargo EXCEPT ![r] = mail]
  /\ UNCHANGED <<run, call, answer, nameless, bridge, server, ghosts>>

(* drainMailbox *)
ServeDrain(r) ==
  /\ Serving(r, "drain")
  /\ Answered(r, "ok")
  /\ cargo' = [cargo EXCEPT ![r] = mail]
  /\ mail' = {}
  /\ UNCHANGED <<run, call, answer, nameless, bridge, session, peer, files, scratch,
                 restarts, ghosts>>

(* The file store: one locked map of the session's files. *)
StoreFile(f)  == files' = files \cup {f}
HasFile(f)    == f \in files
RemoveFile(f) == files' = files \ {f}

(* uploadFile: a new ID, or 413. *)
ServeUpload(r) ==
  /\ Serving(r, "upload")
  /\ \/ Answered(r, "ok") /\ StoreFile(r)
     \/ Answered(r, "failed") /\ UNCHANGED files
  /\ UNCHANGED <<run, call, answer, cargo, nameless, bridge, session, peer, mail,
                 scratch, restarts, ghosts>>

(* downloadFile of any file: 404 if it is not there. *)
ServeDownload(r) ==
  /\ Serving(r, "download")
  /\ \E f \in Requests : Answered(r, IF HasFile(f) THEN "ok" ELSE "failed")
  /\ UNCHANGED <<run, call, answer, cargo, nameless, bridge, server, ghosts>>

(* The store has value v of the key, and request r is to announce it.       *)
(* Writes whose announcement is still to come may be announced after it.    *)
PadWrite(r, v) ==
  /\ Answered(r, "ok")
  /\ pad' = v
  /\ emitting' = emitting \cup {<<r, v>>}
  /\ rivals' = {e[2] : e \in emitting}
  /\ stored' = stored \cup {v}
  /\ UNCHANGED padEvent

(* ScratchpadSet stores the value, ScratchpadDelete removes it, or there is *)
(* none (404) ...                                                           *)
ServeSet(r) ==
  /\ Serving(r, "set")
  /\ PadWrite(r, r)
  /\ UNCHANGED <<run, call, answer, cargo, nameless, bridge, session, peer, mail,
                 files, restarts, ghosts>>

ServeDelete(r) ==
  /\ Serving(r, "delete")
  /\ IF pad # NoRequest THEN PadWrite(r, NoRequest)
                        ELSE Answered(r, "failed") /\ UNCHANGED scratch
  /\ UNCHANGED <<run, call, answer, cargo, nameless, bridge, session, peer, mail,
                 files, restarts, ghosts>>

(* Mutant: only the first value of a key is announced. *)
AnnounceNewKey(r) ==
  /\ \E v \in Values :
       /\ <<r, v>> \in emitting
       /\ padEvent' = IF padEvent = NoRequest THEN v ELSE padEvent
       /\ emitting' = emitting \ {<<r, v>>}
  /\ UNCHANGED <<run, goroutine, bridge, session, peer, mail, files, pad, rivals, stored,
                 restarts, ghosts>>

(* ... and announces it later, in whatever order the handlers get there. *)
Announce(r) ==
  /\ \E v \in Values :
       /\ <<r, v>> \in emitting
       /\ padEvent' = v
       /\ emitting' = emitting \ {<<r, v>>}
  /\ UNCHANGED <<run, goroutine, bridge, session, peer, mail, files, pad, rivals, stored,
                 restarts, ghosts>>

-----------------------------------------------------------------------------
(* The bridge's side of the response *)

Consume(r) == reply' = [reply EXCEPT ![r] = "none"]

(* invalidateRegistration takes Bridge.mu. *)
Invalidate(r) ==
  IF call[r] \in JSON THEN holder = NoRequest /\ initialized' = FALSE
                      ELSE UNCHANGED initialized

(* Mutant: the status of the upload is not looked at. *)
ReplyUnchecked(r) ==
  /\ At(r, "reply") /\ ~Emitting(r)
  /\ reply[r] # "broken"
  /\ IF call[r] = "upload"
     THEN /\ call' = [call EXCEPT ![r] = "share"]
          /\ pc' = [pc EXCEPT ![r] = "init"] /\ UNCHANGED answer
     ELSE Answer(r, "ok") /\ UNCHANGED call
  /\ Consume(r)
  /\ UNCHANGED <<run, cargo, nameless, bridge, server, ghosts>>

(* What a call makes of a 2xx: a download whose digest is not the expected  *)
(* one is an error.                                                         *)
Outcomes(c) == IF c = "download" THEN {"ok", "error"} ELSE {"ok"}

(* 2xx: the result, or the second call of send_file. *)
ReplyOK(r) ==
  /\ At(r, "reply") /\ ~Emitting(r)
  /\ reply[r] = "ok"
  /\ IF call[r] = "upload"
     THEN /\ call' = [call EXCEPT ![r] = "share"]
          /\ pc' = [pc EXCEPT ![r] = "init"] /\ UNCHANGED answer
     ELSE (\E a \in Outcomes(call[r]) : Answer(r, a)) /\ UNCHANGED call
  /\ Consume(r)
  /\ UNCHANGED <<run, cargo, nameless, bridge, server, ghosts>>

(* 4xx.  401 makes doJSON forget the registration; the file calls do not. *)
ReplyError(r) ==
  /\ At(r, "reply") /\ reply[r] \in {"denied", "failed"}
  /\ IF reply[r] = "denied" THEN Invalidate(r) ELSE UNCHANGED initialized
  /\ Answer(r, "error") /\ Consume(r)
  /\ UNCHANGED <<run, call, cargo, nameless, lastOrigin, routed, holder, server, ghosts>>

(* What a drain response carried is lost with it. *)
LoseCargo(r) ==
  /\ lost' = lost \cup cargo[r]
  /\ cargo' = [cargo EXCEPT ![r] = {}]
  /\ UNCHANGED <<arrived, again, shared, gone, misled, bare>>

(* No response: refused, broken or timed out, before or after the server    *)
(* has acted.                                                               *)
NoReply(r) ==
  /\ At(r, "request") \/ At(r, "reply")
  /\ Invalidate(r)
  /\ Answer(r, "error") /\ Consume(r) /\ LoseCargo(r)
  /\ UNCHANGED <<run, call, nameless, lastOrigin, routed, holder, server>>

(* The headers arrive and the body does not.  The registration is kept.     *)
(* send_file does not look at the error: it goes on without a file ID.      *)
BodyLost(r) ==
  /\ At(r, "reply") /\ ~Emitting(r)
  /\ IF call[r] = "upload" /\ reply[r] = "ok"
     THEN /\ nameless' = nameless \cup {r}
          /\ call' = [call EXCEPT ![r] = "share"]
          /\ pc' = [pc EXCEPT ![r] = "init"] /\ UNCHANGED answer
     ELSE Answer(r, "error") /\ UNCHANGED <<call, nameless>>
  /\ Consume(r) /\ LoseCargo(r)
  /\ UNCHANGED <<run, bridge, server>>

-----------------------------------------------------------------------------
(* Environment, until the bridge has ended *)

(* A message for the agent.  The mailbox has room: what a full one pushes   *)
(* out is in module Mailbox.                                                *)
Arrive(m) ==
  /\ run # "returned" /\ session /\ m \notin arrived
  /\ arrived' = arrived \cup {m} /\ mail' = mail \cup {m}
  /\ UNCHANGED <<run, goroutine, bridge, session, peer, files, scratch, restarts,
                 lost, again, shared, gone, misled, bare>>

(* DELETE of a file by any member. *)
DeleteFile(f) ==
  /\ run # "returned" /\ session /\ HasFile(f)
  /\ RemoveFile(f) /\ gone' = gone \cup {f}
  /\ UNCHANGED <<run, goroutine, bridge, session, peer, mail, scratch, restarts,
                 arrived, again, lost, shared, misled, bare>>

(* The server restarts with what it saved last, or with nothing; files and  *)
(* presence are never persisted.  The state file has an earlier content of  *)
(* the mailbox and of the key, each copied at an instant of its own; module *)
(* Persist takes the flush apart.  Requests that were being served get no   *)
(* response.  Nothing is announced: not a value that was stored but not     *)
(* announced, and not that the key has gone back to an earlier one.         *)
Restart ==
  /\ run # "returned"
  /\ restarts < MaxRestarts /\ restarts' = restarts + 1
  /\ \E known \in BOOLEAN, queued \in SUBSET arrived, v \in stored :
       /\ known \/ (queued = {} /\ v = NoRequest)
       /\ session' = known /\ mail' = queued /\ pad' = v
       /\ lost' = (lost \cup mail) \ queued
       /\ again' = again \cup {m \in queued : \E r \in Requests : m \in cargo[r]}
  /\ peer' = FALSE /\ files' = {} /\ gone' = gone \cup files
  /\ emitting' = {}
  /\ rivals' = IF emitting = {} /\ pad' = pad THEN rivals ELSE rivals \cup {padEvent}
  /\ reply' = [r \in Requests |-> IF pc[r] = "reply" THEN "broken" ELSE reply[r]]
  /\ UNCHANGED <<run, pc, call, answer, cargo, nameless, bridge, padEvent, stored,
                 arrived, shared, misled, bare>>

(* The watch loop, or a heartbeat that is refused, forgets the registration. *)
WatcherInvalidates ==
  /\ run # "returned" /\ holder = NoRequest /\ initialized
  /\ initialized' = FALSE
  /\ UNCHANGED <<run, goroutine, lastOrigin, routed, holder, server, ghosts>>

(* A heartbeat of the agent, or of the recipient. *)
Heartbeat ==
  /\ run # "returned" /\ ~(session /\ peer)
  /\ session' = TRUE /\ peer' \in {peer, TRUE}
  /\ UNCHANGED <<run, goroutine, bridge, mail, files, scratch, restarts, ghosts>>

-----------------------------------------------------------------------------
Serve(r) ==
  /\ At(r, "request")
  /\ \/ ServeDenied(r) \/ ServePlain(r) \/ ServeShare(r) \/ ServeDrain(r)
     \/ ServeUpload(r) \/ ServeDownload(r) \/ ServeSet(r) \/ ServeDelete(r)

Reply(r) ==
  \/ At(r, "reply") /\ (ReplyOK(r) \/ ReplyError(r) \/ BodyLost(r))
  \/ NoReply(r)

Start(r) ==
  \/ At(r, "start") /\ (HandleLocal(r) \/ HandleTool(r))
  \/ TriggerRoute(r) \/ TriggerEnds(r)
  \/ EnsureInit(r)
  \/ At(r, "register") /\ (Register(r) \/ RegisterFails(r))

Handle(r) ==
  /\ pc[r] \notin {"unsent", "done"}
  /\ Start(r) \/ Serve(r) \/ Reply(r) \/ Write(r)

Next ==
  \/ \E r \in Requests : \/ \E c \in Asked : Dispatch(r, c)
                         \/ Handle(r) \/ Announce(r)
  \/ EndOfInput \/ Return \/ GraceOver \/ ScanError
  \/ \E m \in Mail : Arrive(m)
  \/ \E f \in Requests : DeleteFile(f)
  \/ Restart
  \/ WatcherInvalidates \/ Heartbeat

(* Goroutines run, and every round trip and socket operation ends within    *)
(* its timeout.  Neither the host nor the server owes the bridge anything.  *)
Spec == Init /\ [][Next]_vars /\ \A r \in Requests : WF_vars(Handle(r))

-----------------------------------------------------------------------------
(* send_file uploads, then announces: an announced file is in the store     *)
(* unless it was deleted or the server restarted, success means that it was *)
(* announced, and a file that nobody was told of belongs to a call that is  *)
(* still running or does not report success.  The exception is an upload    *)
(* whose response body is lost: the message then names no file.             *)
FileShared ==
  \A r \in Requests :
    /\ r \in shared => r \in files \cup gone
    /\ call[r] \in {"upload", "share"} /\ answer[r] = "ok" => r \in shared \cup nameless
    /\ r \in files \ shared => answer[r] # "ok" \/ r \in nameless

(* receive_messages empties the mailbox.  Every message is in the mailbox,  *)
(* or with exactly one call, which is running or has reported it, unless    *)
(* the response or the server's memory was lost, or the process ended while *)
(* the call was running.  A restart from a state file older than the drain  *)
(* puts it back: it may then be handed over again, and is still not lost.   *)
MailHandedOver ==
  /\ \A m \in arrived :
       LET drained == {r \in Requests : m \in cargo[r]} IN
       IF m \in again THEN m \in mail \cup lost \/ drained # {}
       ELSE Cardinality(drained)
              + (IF m \in mail THEN 1 ELSE 0) + (IF m \in lost THEN 1 ELSE 0) = 1
  /\ \A r \in Requests : cargo[r] # {} /\ pc[r] \in {"write", "done"} => answer[r] = "ok"

(* trigger_agent routes "to the session that asked us to trigger", unless a *)
(* call from another chat was captured before it looked, or the host has    *)
(* not said which session that is.                                          *)
TriggerRouted ==
  \A r \in Requests \ bare : routed[r] \in {NoChat, ChatOf[r]} \/ r \in misled

(* Agents that follow scratchpad_update events know what the store holds    *)
(* once every handler is through, or the value of a write that overlapped   *)
(* with the last one: never a value that was overwritten before the last    *)
(* write began.  A restart that takes the key back, or cuts an announcement *)
(* short, leaves them with what they knew until the next write.             *)
PadAnnounced == emitting = {} => padEvent \in {pad} \cup rivals

(* No request waits for ever, for Bridge.mu, for the server or for the      *)
(* socket: a time comes when every one that was sent is through, or the     *)
(* process has ended.                                                       *)
RequestAnswered == []<>(AllAnswered \/ run = "returned")
=============================================================================
