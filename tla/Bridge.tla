------------------------------- MODULE Bridge -------------------------------
(***************************************************************************)
(* How the MCP bridge wakes its agent: the SSE loop, the signal loop and    *)
(* the registration state of cmd/agentchat-mcp-bridge (watcher.go, main.go) *)
(* against a server that sends to the agent's mailbox.                      *)
(*                                                                          *)
(* The server is an environment here: it records, delivers and notifies in  *)
(* the steps that module EventStream takes apart, may restart without       *)
(* persistence, and expires watch tokens.  Only events that handleSSEEvent  *)
(* finds relevant are modelled; the others leave the bridge as it is.       *)
(***************************************************************************)
EXTENDS Naturals, Sequences, FiniteSets, FiniteSetsExt

CONSTANTS
  MaxMessages,   \* bound: messages sent to the agent
  MaxFaults,     \* bound: cut connections, failed requests, restarts, expiries
  HistLimit,     \* the limit of the history request in initLastSeq
  ChanCap        \* capacity of the server's channel for this stream

ASSUME BridgeAssumption ==
  MaxMessages \in Nat /\ MaxFaults \in Nat /\ HistLimit \in Nat \ {0} /\ ChanCap \in Nat

Ids == 1..MaxMessages

VARIABLES
  made, count, seqOf,   \* messages so far, the session's counter, their numbers
  hist, mail,           \* the session's history, the agent's mailbox
  stage,                \* of each message: "none", "recorded", "mailed", "done"
  exists,               \* the server has the session
  sub, wire, alive,     \* the stream: is it subscribed, what is under way, can it be read
  sse,                  \* where sseLoop is
  mark,                 \* lastSeq
  initialized, token,   \* Bridge.initialized; the watch token: "none", "good", "bad"
  recent,               \* lastConnectSignal is less than reconnectSignalMinGap ago
  want, busy,           \* signalCh holds a request; signalLoop is sending
  woken,                \* the host got a signal that its agent has not acted on
  faults,
  missed                \* history: messages whose event never reached the signal loop

messages == <<made, count, seqOf, hist, stage>>
server == <<messages, mail, exists>>
stream == <<sub, wire, alive>>
reg    == <<initialized, token>>
signal == <<want, busy, woken>>
vars   == <<server, stream, sse, mark, reg, recent, signal, faults, missed>>

TypeOK ==
  /\ made \in 0..MaxMessages /\ count \in 0..MaxMessages
  /\ seqOf \in [Ids -> 0..MaxMessages]
  /\ hist \subseteq Ids /\ mail \subseteq Ids
  /\ stage \in [Ids -> {"none", "recorded", "mailed", "done"}]
  /\ exists \in BOOLEAN
  /\ sub \in BOOLEAN /\ wire \in Seq(Ids) /\ Len(wire) <= ChanCap /\ alive \in BOOLEAN
  /\ sse \in {"backoff", "sync", "dial", "greet", "read"}
  /\ sub \/ alive => sse \in {"greet", "read"}
  /\ mark \in 0..MaxMessages
  /\ initialized \in BOOLEAN /\ token \in {"none", "good", "bad"}
  /\ recent \in BOOLEAN /\ want \in BOOLEAN /\ busy \in BOOLEAN /\ woken \in BOOLEAN
  /\ faults \in 0..MaxFaults /\ missed \subseteq Ids

Init ==
  /\ made = 0 /\ count = 0 /\ seqOf = [i \in Ids |-> 0]
  /\ hist = {} /\ mail = {} /\ stage = [i \in Ids |-> "none"] /\ exists = FALSE
  /\ sub = FALSE /\ wire = <<>> /\ alive = FALSE
  /\ sse = "backoff" /\ mark = 0 /\ initialized = FALSE /\ token = "none"
  /\ recent = FALSE /\ want = FALSE /\ busy = FALSE /\ woken = FALSE
  /\ faults = 0 /\ missed = {}

Fault == faults < MaxFaults /\ faults' = faults + 1

-----------------------------------------------------------------------------
(* The server. *)

(* Messages are kept in the history, system events are not.  A mailbox has  *)
(* room: what a full one pushes out is in module Mailbox.                    *)
Record ==
  /\ exists /\ made < MaxMessages
  /\ made' = made + 1 /\ count' = count + 1
  /\ seqOf' = [seqOf EXCEPT ![made + 1] = count + 1]
  /\ hist' \in {hist, hist \cup {made + 1}}
  /\ stage' = [stage EXCEPT ![made + 1] = "recorded"]
  /\ UNCHANGED <<mail, exists, stream, sse, mark, reg, recent, signal, faults, missed>>

Deliver(i) ==
  /\ stage[i] = "recorded"
  /\ stage' = [stage EXCEPT ![i] = "mailed"]
  /\ mail' = mail \cup {i}
  /\ UNCHANGED <<made, count, seqOf, hist, exists, stream, sse, mark, reg, recent, signal,
                 faults, missed>>

(* A non-blocking send to the stream, if it is subscribed. *)
Notify(i) ==
  /\ stage[i] = "mailed"
  /\ stage' = [stage EXCEPT ![i] = "done"]
  /\ IF sub /\ Len(wire) < ChanCap
     THEN wire' = Append(wire, i) /\ UNCHANGED missed
     ELSE missed' = missed \cup {i} /\ UNCHANGED wire
  /\ UNCHANGED <<made, count, seqOf, hist, mail, exists, sub, alive, sse, mark, reg, recent,
                 signal, faults>>

(* handleSSE flushes "connected" first and subscribes after it. *)
Subscribe ==
  /\ alive /\ ~sub
  /\ sub' = TRUE
  /\ UNCHANGED <<server, wire, alive, sse, mark, reg, recent, signal, faults, missed>>

(* The connection is gone, with the events on their way. *)
Cut ==
  /\ sub' = FALSE /\ wire' = <<>> /\ alive' = FALSE
  /\ missed' = missed \cup {wire[n] : n \in 1..Len(wire)}

(* A restart without persistence: the session, its mail and every token go. *)
ServerRestart ==
  /\ Fault
  /\ count' = 0 /\ hist' = {} /\ mail' = {} /\ exists' = FALSE
  /\ stage' = [i \in Ids |-> IF i <= made THEN "done" ELSE "none"]
  /\ Cut
  /\ token' = IF token = "good" THEN "bad" ELSE token
  /\ UNCHANGED <<made, seqOf, sse, mark, initialized, recent, signal>>

TokenExpires ==
  /\ Fault
  /\ token = "good" /\ token' = "bad"
  /\ UNCHANGED <<server, stream, sse, mark, initialized, recent, signal, missed>>

-----------------------------------------------------------------------------
(* Registration. *)

(* ensureInit: register, which creates the session if the server lacks it.  *)
(* If the body of the response is lost, the bridge is registered without a  *)
(* token: a decoding error is ignored.                                      *)
EnsureInit ==
  \/ initialized /\ UNCHANGED <<reg, exists, faults>>
  \/ /\ ~initialized
     /\ initialized' = TRUE /\ exists' = TRUE
     /\ (token' = "good" /\ UNCHANGED faults) \/ (token' = "none" /\ Fault)

InvalidateRegistration == initialized' = FALSE /\ token' = "none"

(* The heartbeat registers again and renews the token, unless the response  *)
(* is lost; it leaves the flag.                                              *)
TouchPresence ==
  /\ token # "good" \/ ~exists
  /\ token' \in {"good", token} /\ exists' = TRUE
  /\ UNCHANGED <<messages, mail, stream, sse, mark, initialized, recent, signal, faults, missed>>

-----------------------------------------------------------------------------
(* sseLoop and watchStream. *)

(* After the backoff: register if there is no token. *)
StartStream ==
  /\ sse = "backoff"
  /\ sse' = "sync"
  /\ IF token = "none" THEN EnsureInit ELSE UNCHANGED <<reg, exists, faults>>
  /\ UNCHANGED <<messages, mail, stream, mark, recent, signal, missed>>

(* The register fails, before or after the server has seen it. *)
StartFails ==
  /\ sse = "backoff" /\ token = "none" /\ ~initialized /\ Fault
  /\ exists' \in {exists, TRUE}
  /\ UNCHANGED <<messages, mail, stream, sse, mark, reg, recent, signal, missed>>

(* The history page has the oldest HistLimit messages. *)
Page == {i \in hist : Cardinality({j \in hist : seqOf[j] < seqOf[i]}) < HistLimit}

(* A session that the server does not know is answered by a 401. *)
InitLastSeq ==
  /\ sse = "sync"
  /\ mark' = IF exists THEN Max({seqOf[i] : i \in Page} \cup {0}) ELSE mark
  /\ sse' = "dial"
  /\ UNCHANGED <<server, stream, reg, recent, signal, faults, missed>>

InitLastSeqFails ==
  /\ sse = "sync" /\ Fault
  /\ sse' = "dial"
  /\ UNCHANGED <<server, stream, mark, reg, recent, signal, missed>>

(* Mutant: a rejected token is kept. *)
ConnectKeepsToken ==
  /\ sse = "dial"
  /\ IF token = "good"
     THEN sse' = "greet" /\ alive' = TRUE
     ELSE sse' = "backoff" /\ UNCHANGED alive
  /\ UNCHANGED <<server, sub, wire, mark, reg, recent, signal, faults, missed>>

(* GET /watch: 200, or 401 with invalidateRegistration. *)
Connect ==
  /\ sse = "dial"
  /\ IF token = "good"
     THEN sse' = "greet" /\ alive' = TRUE /\ UNCHANGED reg
     ELSE sse' = "backoff" /\ InvalidateRegistration /\ UNCHANGED alive
  /\ UNCHANGED <<server, sub, wire, mark, recent, signal, faults, missed>>

ConnectFails ==
  /\ sse = "dial" /\ Fault
  /\ sse' = "backoff"
  /\ UNCHANGED <<server, stream, mark, reg, recent, signal, missed>>

(* requestSignal("connected"), and the time of it. *)
ConnectSignal == want' = TRUE /\ recent' = TRUE /\ missed' = missed \ mail

(* Once connected: within the gap nothing, else maybeWakeOnConnect, which   *)
(* peeks at the mailbox and wakes the agent if there is mail, or if the     *)
(* server no longer knows the session.                                      *)
Greet ==
  /\ sse = "greet"
  /\ sse' = "read"
  /\ \/ recent /\ UNCHANGED <<want, recent, missed, reg, exists, faults>>
     \/ ~recent /\ initialized /\ ~exists /\ InvalidateRegistration /\ ConnectSignal
        /\ UNCHANGED <<exists, faults>>
     \/ /\ ~recent /\ (initialized => exists) /\ EnsureInit
        /\ IF mail # {} THEN ConnectSignal ELSE UNCHANGED <<want, recent, missed>>
  /\ UNCHANGED <<messages, mail, stream, mark, busy, woken>>

(* A peek that fails wakes the agent too; a transport failure drops the    *)
(* registration.                                                           *)
GreetPeekFails ==
  /\ sse = "greet" /\ ~recent /\ Fault
  /\ sse' = "read"
  /\ ConnectSignal
  /\ InvalidateRegistration \/ UNCHANGED reg
  /\ UNCHANGED <<server, stream, mark, busy, woken>>

GapPasses ==
  /\ recent /\ recent' = FALSE
  /\ UNCHANGED <<server, stream, sse, mark, reg, signal, faults, missed>>

(* handleSSEEvent: skip what is not above the watermark, else move it and *)
(* request a signal.                                                      *)
HandleSSEEvent ==
  /\ sse = "read" /\ alive /\ wire # <<>>
  /\ wire' = Tail(wire)
  /\ LET i == Head(wire) IN
     IF seqOf[i] <= mark
     THEN missed' = missed \cup {i} /\ UNCHANGED <<mark, want>>
     ELSE mark' = seqOf[i] /\ want' = TRUE /\ UNCHANGED missed
  /\ UNCHANGED <<server, sub, alive, sse, reg, recent, busy, woken, faults>>

(* The connection is cut, or dies and neither side is told. *)
StreamCut ==
  /\ alive /\ Fault
  /\ Cut
  /\ UNCHANGED <<server, sse, mark, reg, recent, signal>>

StreamDies ==
  /\ alive /\ Fault
  /\ alive' = FALSE
  /\ UNCHANGED <<server, sub, wire, sse, mark, reg, recent, signal, missed>>

(* The read ends with an error, or the watchdog cancels it; the deferred    *)
(* Close ends the connection for the server as well.                        *)
Watchdog ==
  /\ sse = "read" /\ ~alive
  /\ sse' = "backoff"
  /\ Cut
  /\ UNCHANGED <<server, mark, reg, recent, signal, faults>>

-----------------------------------------------------------------------------
(* signalLoop: take a request, send until it succeeds. *)

SignalTake ==
  /\ want /\ ~busy
  /\ want' = FALSE /\ busy' = TRUE
  /\ UNCHANGED <<server, stream, sse, mark, reg, recent, woken, faults, missed>>

SendCheckMessagesSignal ==
  /\ busy
  /\ busy' = FALSE /\ woken' = TRUE
  /\ UNCHANGED <<server, stream, sse, mark, reg, recent, want, faults, missed>>

(* Mutant: a failed send is not repeated. *)
SendGivesUp ==
  /\ busy /\ Fault
  /\ busy' = FALSE
  /\ UNCHANGED <<server, stream, sse, mark, reg, recent, want, woken, missed>>

(* An error after the host has read the signal wakes it all the same. *)
SendFails ==
  /\ busy /\ Fault
  /\ woken' \in {woken, TRUE}
  /\ UNCHANGED <<server, stream, sse, mark, reg, recent, want, busy, missed>>

-----------------------------------------------------------------------------
(* receive_messages, called by an agent that was woken or by chance. *)

DrainAll ==
  /\ initialized => exists
  /\ EnsureInit
  /\ mail' = {} /\ missed' = missed \ mail
  /\ woken' = FALSE
  /\ UNCHANGED <<messages, stream, sse, mark, recent, want, busy>>

WokenTurn  == woken /\ DrainAll
ChanceTurn == ~woken /\ mail # {} /\ DrainAll

(* The tool call fails and the agent will repeat it: the server does not    *)
(* know the session, or the request does not reach it.                      *)
DrainRejected ==
  /\ woken /\ initialized
  /\ (~exists /\ UNCHANGED faults) \/ (exists /\ Fault)
  /\ InvalidateRegistration
  /\ UNCHANGED <<server, stream, sse, mark, recent, signal, missed>>

-----------------------------------------------------------------------------
ServerStep == Record \/ ServerRestart \/ TokenExpires \/ Subscribe
              \/ \E i \in Ids : Deliver(i) \/ Notify(i)

SSELoop == StartStream \/ StartFails \/ InitLastSeq \/ InitLastSeqFails \/ Connect
           \/ ConnectFails \/ Greet \/ GreetPeekFails \/ HandleSSEEvent \/ Watchdog

SignalLoop == SignalTake \/ SendCheckMessagesSignal \/ SendFails

AgentTurn == WokenTurn \/ DrainRejected

Next == ServerStep \/ SSELoop \/ SignalLoop \/ GapPasses \/ TouchPresence
        \/ StreamCut \/ StreamDies \/ AgentTurn \/ ChanceTurn

(* Goroutines of bridge and server that can run do run, time passes, and a  *)
(* host that was signalled gives its agent a turn.  Faults are finitely     *)
(* many.  Nothing is assumed of senders, of heartbeats, or of turns that no *)
(* signal caused.                                                           *)
Spec ==
  /\ Init /\ [][Next]_vars
  /\ WF_vars(SSELoop) /\ WF_vars(SignalLoop) /\ WF_vars(AgentTurn) /\ WF_vars(GapPasses)
  /\ WF_vars(Subscribe) /\ \A i \in Ids : WF_vars(Deliver(i) \/ Notify(i))

-----------------------------------------------------------------------------
(* Coalescing loses no wake-up: for mail in the mailbox whose event was not *)
(* missed, the event is still ahead of the bridge (to be notified, or on    *)
(* the stream), or a request is in signalCh, or signalLoop is sending, or   *)
(* the host has a signal that its agent has not acted on.                   *)
WakeUpPending ==
  \A i \in mail : \/ i \in missed
                  \/ stage[i] = "mailed"
                  \/ \E n \in 1..Len(wire) : wire[n] = i
                  \/ want \/ busy \/ woken

(* Mail wakes the agent, through coalesced requests, failing sends, cut and *)
(* half-open streams and restarts, unless its event is one that the bridge  *)
(* never got or skipped and no later connect found in the mailbox.          *)
WokenUnlessMissed ==
  \A i \in Ids : (i \in mail) ~> (i \notin mail \/ i \in missed)

(* The bridge always gets back to a subscribed stream: dead connections are *)
(* noticed, and a token that the server rejects is replaced.                *)
StreamRestored == []<>(sse = "read" /\ alive /\ sub)

-----------------------------------------------------------------------------
(* What the README says and the code refutes. *)

(* README: "the agent is re-signalled on every stream reconnect, so a       *)
(* missed wake-up is never final".  Mail that arrives between the peek and  *)
(* the subscription stays unannounced until more mail comes.                *)
MissedNeverFinal == (mail # {}) ~> (mail = {})
=============================================================================
