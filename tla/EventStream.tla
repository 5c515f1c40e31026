----------------------------- MODULE EventStream -----------------------------
(***************************************************************************)
(* How the hub numbers, records and fans out the events of one session     *)
(* (recordEnvelope, sequenceEnvelope, emitSystemEvent, emitAmbientEvent,   *)
(* SendMessage, Broadcast in hub.go) and how the SSE handler streams them  *)
(* (handleSSE in api.go, watcher.go).                                      *)
(*                                                                         *)
(* An event is its sequence number.  An emitter assigns it under Hub.mu,   *)
(* then, outside that lock, delivers to one mailbox after the other and    *)
(* sends to one stream's channel after the other.  Emitters interleave at  *)
(* every one of those steps.  The roster is fixed here: how it changes is  *)
(* in modules Leadership and Membership.                                   *)
(***************************************************************************)
EXTENDS Naturals, Sequences, FiniteSets

CONSTANTS
  Members,       \* the agents GetAgents returns
  Emitters,      \* goroutines that send messages or cause events
  Streams,       \* GET /watch connections
  MaxHistory,    \* Hub.maxHistory
  ChanCap,       \* capacity of a subscriber's channel
  MaxWatchers,   \* Handler.maxWatchersPerSession
  PageSize,      \* the limit a client passes to GET /history
  MaxSeq         \* bound: events of the session

ASSUME EventStreamAssumption ==
  /\ MaxHistory \in Nat \ {0} /\ ChanCap \in Nat
  /\ MaxWatchers \in Nat /\ MaxSeq \in Nat /\ PageSize \in Nat \ {0}

Events == 1..MaxSeq

VARIABLES
  seqNum,     \* seqNums[session]
  history,    \* history[session]
  recorded,   \* events that recordEnvelope put into the history
  targets,    \* the mailboxes an event is for
  delivered,  \* events each member's mailbox has received
  epc, event, mailTodo, chanTodo,   \* locals of each emitter
  spc,        \* where each stream's handler is
  chan,       \* the subscriber channel of each stream
  replay,     \* events written as "event: history"
  live,       \* events written as "event: message"
  dropped,    \* events not sent because the channel was full
  mark, got   \* a client of GET /history: its high-water mark, what it has

hub      == <<seqNum, history, recorded, targets>>
emitter  == <<epc, event, mailTodo, chanTodo>>
stream   == <<spc, chan, replay, live, dropped>>
client   == <<mark, got>>
vars == <<hub, delivered, emitter, stream, client>>

(* Whether stream s is in Watcher.subs. *)
Subscribed(s) == spc[s] \in {"subscribed", "live"}

(* A Notify under way has only subscribed streams ahead of it. *)
TypeOK ==
  /\ seqNum \in 0..MaxSeq
  /\ history \in Seq(Events)
  /\ recorded \subseteq Events
  /\ targets \in [Events -> SUBSET Members]
  /\ delivered \in [Members -> SUBSET Events]
  /\ epc \in [Emitters -> {"idle", "deliver", "notify"}]
  /\ event \in [Emitters -> 0..MaxSeq]
  /\ mailTodo \in [Emitters -> SUBSET Members]
  /\ chanTodo \in [Emitters -> SUBSET Streams]
  /\ \A e \in Emitters : chanTodo[e] \subseteq {s \in Streams : Subscribed(s)}
  /\ spc \in [Streams -> {"off", "admitted", "connected", "subscribed", "live"}]
  /\ chan \in [Streams -> Seq(Events)]
  /\ replay \in [Streams -> Seq(Events)]
  /\ live \in [Streams -> Seq(Events)]
  /\ dropped \in [Streams -> SUBSET Events]
  /\ mark \in 0..MaxSeq /\ got \subseteq Events

Init ==
  /\ seqNum = 0 /\ history = <<>> /\ recorded = {}
  /\ targets = [i \in Events |-> {}]
  /\ delivered = [m \in Members |-> {}]
  /\ epc = [e \in Emitters |-> "idle"]
  /\ event = [e \in Emitters |-> 0]
  /\ mailTodo = [e \in Emitters |-> {}]
  /\ chanTodo = [e \in Emitters |-> {}]
  /\ spc = [s \in Streams |-> "off"]
  /\ chan = [s \in Streams |-> <<>>]
  /\ replay = [s \in Streams |-> <<>>]
  /\ live = [s \in Streams |-> <<>>]
  /\ dropped = [s \in Streams |-> {}]
  /\ mark = 0 /\ got = {}

-----------------------------------------------------------------------------
(* Mutant: the trim keeps the oldest entries. *)
FirstN(q, n) == IF Len(q) > n THEN SubSeq(q, 1, n) ELSE q

(* The last n elements of a sequence. *)
LastN(q, n) == IF Len(q) > n THEN SubSeq(q, Len(q) - n + 1, Len(q)) ELSE q

(* sequenceEnvelope: the next number, under Hub.mu; the mailboxes in T are *)
(* to get the event.                                                       *)
Number(e, T) ==
  /\ epc[e] = "idle"
  /\ seqNum < MaxSeq
  /\ seqNum' = seqNum + 1
  /\ targets' = [targets EXCEPT ![seqNum + 1] = T]
  /\ event' = [event EXCEPT ![e] = seqNum + 1]
  /\ mailTodo' = [mailTodo EXCEPT ![e] = T]
  /\ epc' = [epc EXCEPT ![e] = "deliver"]
  /\ UNCHANGED <<delivered, chanTodo, stream, client>>

(* recordEnvelope: number and append to the history, which keeps the last *)
(* MaxHistory, in one section.                                            *)
Record(e, T) ==
  /\ Number(e, T)
  /\ history' = LastN(Append(history, seqNum + 1), MaxHistory)
  /\ recorded' = recorded \cup {seqNum + 1}

Unrecorded(e, T) == Number(e, T) /\ UNCHANGED <<history, recorded>>

SendMessage(e, m)     == Record(e, {m})
Broadcast(e, m)       == Record(e, Members \ {m})
SystemEvent(e, m)     == Unrecorded(e, Members \ {m})  \* scratchpad, LeaderTransfer
AutoTransferEvent(e)  == Unrecorded(e, Members)        \* excludeAgent is ""
AmbientEvent(e)       == Unrecorded(e, {})             \* joined, left, reconnected

(* deliverToAgentMailbox for one of the recipients. *)
Deliver(e, m) ==
  /\ epc[e] = "deliver" /\ m \in mailTodo[e]
  /\ delivered' = [delivered EXCEPT ![m] = @ \cup {event[e]}]
  /\ mailTodo' = [mailTodo EXCEPT ![e] = @ \ {m}]
  /\ UNCHANGED <<hub, epc, event, chanTodo, stream, client>>

(* Mutant: watchers are told before all mailboxes have the event. *)
NotifyEarly(e) ==
  /\ epc[e] = "deliver"
  /\ chanTodo' = [chanTodo EXCEPT ![e] = {s \in Streams : Subscribed(s)}]
  /\ epc' = [epc EXCEPT ![e] = "notify"]
  /\ UNCHANGED <<hub, delivered, event, mailTodo, stream, client>>

(* Watcher.Notify takes its read lock: the set of subscribers is fixed     *)
(* until it has gone through all of them.                                  *)
NotifyStart(e) ==
  /\ epc[e] = "deliver" /\ mailTodo[e] = {}
  /\ chanTodo' = [chanTodo EXCEPT ![e] = {s \in Streams : Subscribed(s)}]
  /\ epc' = [epc EXCEPT ![e] = "notify"]
  /\ UNCHANGED <<hub, delivered, event, mailTodo, stream, client>>

(* The non-blocking send to one subscriber. *)
NotifySend(e, s) ==
  /\ epc[e] = "notify" /\ s \in chanTodo[e]
  /\ chanTodo' = [chanTodo EXCEPT ![e] = @ \ {s}]
  /\ IF Len(chan[s]) < ChanCap
     THEN chan' = [chan EXCEPT ![s] = Append(@, event[e])] /\ UNCHANGED dropped
     ELSE dropped' = [dropped EXCEPT ![s] = @ \cup {event[e]}] /\ UNCHANGED chan
  /\ UNCHANGED <<hub, delivered, epc, event, mailTodo, spc, replay, live, client>>

NotifyEnd(e) ==
  /\ epc[e] = "notify" /\ chanTodo[e] = {}
  /\ epc' = [epc EXCEPT ![e] = "idle"]
  /\ event' = [event EXCEPT ![e] = 0]
  /\ UNCHANGED <<hub, delivered, mailTodo, chanTodo, stream, client>>

-----------------------------------------------------------------------------
(* handleSSE *)

Goto(s, label) == spc' = [spc EXCEPT ![s] = label]
NotifyRunning  == \E e \in Emitters : epc[e] = "notify"
Count          == Cardinality({s \in Streams : Subscribed(s)})

(* Admission: the count is read here, the subscription comes later. *)
Admit(s) ==
  /\ spc[s] = "off" /\ Count < MaxWatchers
  /\ Goto(s, "admitted")
  /\ UNCHANGED <<hub, delivered, emitter, chan, replay, live, dropped, client>>

(* The headers and "event: connected" are flushed. *)
Connected(s) ==
  /\ spc[s] = "admitted"
  /\ Goto(s, "connected")
  /\ UNCHANGED <<hub, delivered, emitter, chan, replay, live, dropped, client>>

Subscribe(s) ==
  /\ spc[s] = "connected" /\ ~NotifyRunning
  /\ Goto(s, "subscribed")
  /\ UNCHANGED <<hub, delivered, emitter, chan, replay, live, dropped, client>>

(* Mutant: the history is read before the stream is subscribed. *)
ReplayFirst(s) ==
  /\ \/ spc[s] = "connected" /\ replay' = [replay EXCEPT ![s] = history] /\ UNCHANGED spc
     \/ spc[s] = "subscribed" /\ Goto(s, "live") /\ UNCHANGED replay
  /\ UNCHANGED <<hub, delivered, emitter, chan, live, dropped, client>>

(* GetHistory, then the replay. *)
Replay(s) ==
  /\ spc[s] = "subscribed"
  /\ replay' = [replay EXCEPT ![s] = history]
  /\ Goto(s, "live")
  /\ UNCHANGED <<hub, delivered, emitter, chan, live, dropped, client>>

Forward(s) ==
  /\ spc[s] = "live" /\ chan[s] # <<>>
  /\ live' = [live EXCEPT ![s] = Append(@, Head(chan[s]))]
  /\ chan' = [chan EXCEPT ![s] = Tail(@)]
  /\ UNCHANGED <<hub, delivered, emitter, spc, replay, dropped, client>>

(* Mutant: Unsubscribe does not take the lock. *)
DisconnectUnlocked(s) ==
  /\ spc[s] = "live"
  /\ Goto(s, "off")
  /\ chan' = [chan EXCEPT ![s] = <<>>]
  /\ replay' = [replay EXCEPT ![s] = <<>>]
  /\ live' = [live EXCEPT ![s] = <<>>]
  /\ dropped' = [dropped EXCEPT ![s] = {}]
  /\ UNCHANGED <<hub, delivered, emitter, client>>

(* The client went away: Unsubscribe, and the stream's buffers are garbage. *)
Disconnect(s) ==
  /\ spc[s] = "live" /\ ~NotifyRunning
  /\ Goto(s, "off")
  /\ chan' = [chan EXCEPT ![s] = <<>>]
  /\ replay' = [replay EXCEPT ![s] = <<>>]
  /\ live' = [live EXCEPT ![s] = <<>>]
  /\ dropped' = [dropped EXCEPT ![s] = {}]
  /\ UNCHANGED <<hub, delivered, emitter, client>>

-----------------------------------------------------------------------------
(* GetHistoryAfter(after, limit): the positions of the first limit entries  *)
(* past the mark, in the order of the history.                              *)
After(after) == {k \in DOMAIN history : history[k] > after}

(* Mutant: the last entries past the mark instead of the first. *)
PageFromEnd(after, limit) ==
  {k \in After(after) : Cardinality({j \in After(after) : j >= k}) <= limit}

Page(after, limit) ==
  {k \in After(after) : Cardinality({j \in After(after) : j <= k}) <= limit}

(* A client catches up: it asks for what follows its mark and moves the     *)
(* mark to the last entry it got.                                           *)
CatchUp ==
  LET page == Page(mark, PageSize) IN
  /\ page # {}
  /\ got' = got \cup {history[k] : k \in page}
  /\ mark' = history[CHOOSE k \in page : \A j \in page : j <= k]
  /\ UNCHANGED <<hub, delivered, emitter, stream>>

-----------------------------------------------------------------------------
Emit(e) ==
  \/ \E m \in Members : SendMessage(e, m) \/ Broadcast(e, m) \/ SystemEvent(e, m)
  \/ AutoTransferEvent(e) \/ AmbientEvent(e)

FanOut(e) ==
  \/ \E m \in Members : Deliver(e, m)
  \/ NotifyStart(e) \/ NotifyEnd(e)
  \/ \E s \in Streams : NotifySend(e, s)

Serve(s) == Connected(s) \/ Subscribe(s) \/ Replay(s) \/ Forward(s)

Next ==
  \/ \E e \in Emitters : Emit(e) \/ FanOut(e)
  \/ \E s \in Streams : Admit(s) \/ Serve(s) \/ Disconnect(s)
  \/ CatchUp

Spec == Init /\ [][Next]_vars

-----------------------------------------------------------------------------
Elements(q) == {q[k] : k \in DOMAIN q}

(* recordEnvelope: "history order always matches sequence order".  The      *)
(* history is strictly increasing, ends at or below the counter, has at     *)
(* most MaxHistory entries and, from its first entry on, misses no message. *)
HistoryOrdered ==
  /\ Len(history) <= MaxHistory
  /\ \A j, k \in DOMAIN history : j < k => history[j] < history[k]
  /\ \A k \in DOMAIN history : history[k] <= seqNum
  /\ \A i \in recorded : i \in Elements(history) \/ \A k \in DOMAIN history : i < history[k]

(* An event on its way to stream s, or on it, or dropped at a full channel. *)
OnItsWay(i, s) ==
  \E e \in Emitters : event[e] = i /\ (epc[e] = "deliver" \/ s \in chanTodo[e])
Reached(i, s) ==
  i \in Elements(replay[s]) \cup Elements(chan[s]) \cup Elements(live[s]) \cup dropped[s]

(* handleSSE subscribes before it reads the history, so between replay and  *)
(* live stream no message is missing: every message at least as recent as   *)
(* the oldest one replayed reaches the stream, or is dropped at a full      *)
(* channel.                                                                 *)
NoGapInStream ==
  \A s \in Streams : spc[s] = "live" =>
    \A i \in recorded :
      \/ Reached(i, s) \/ OnItsWay(i, s)
      \/ replay[s] # <<>> /\ i < replay[s][1]

(* SendMessage and Broadcast deliver before they notify: whoever sees a     *)
(* live event on a stream finds it already in the mailboxes it is for.  The *)
(* bridge's wake-up signals rest on this.                                   *)
MailBeforeNews ==
  \A s \in Streams :
    \A i \in Elements(chan[s]) \cup Elements(live[s]) \cup dropped[s] :
      \A m \in targets[i] : i \in delivered[m]

(* A client that catches up page by page through GetHistoryAfter has every  *)
(* message of the history that its mark has passed.                         *)
CatchUpComplete == \A k \in DOMAIN history : history[k] <= mark => history[k] \in got
=============================================================================
