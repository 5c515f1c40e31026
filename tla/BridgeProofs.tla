---------------------------- MODULE BridgeProofs ----------------------------
(***************************************************************************)
(* For any number of messages and faults, any page and any channel         *)
(* capacity: the bridge's state is well formed, and no wake-up is lost     *)
(* between the mailbox and the host.  Both are inductive once the counter  *)
(* of the session and the numbers of the messages under way are bounded by *)
(* the messages that were sent.                                            *)
(***************************************************************************)
EXTENDS Bridge, WellFoundedInduction, TLAPS

(* The session's counter restarts with the server, the messages do not; and *)
(* only a message that was sent is under way or in the mailbox.             *)
CounterOK ==
  /\ count <= made
  /\ \A i \in Ids : stage[i] # "none" \/ i \in mail => i <= made

BridgeInv == TypeOK /\ CounterOK /\ WakeUpPending

-----------------------------------------------------------------------------
(* A non-empty set of numbers up to n has a maximum, which Max chooses. *)
LEMMA MaxOfBounded ==
  ASSUME NEW n \in Nat, NEW T \in SUBSET (0..n), T # {}
  PROVE  Max(T) \in T
<1> DEFINE M == {n - k : k \in T}
<1>1. M \subseteq Nat /\ M # {}
  <2>1. \A k \in T : n - k \in Nat
    OBVIOUS
  <2> QED BY <2>1
<1>2. \E x \in M : \A y \in M : ~(<<y, x>> \in OpToRel(<, Nat))
  <2> HIDE DEF M
  <2> QED BY <1>1, NatLessThanWellFounded, WFMin
<1>3. PICK x \in M : \A y \in M : ~(y < x)
  BY <1>1, <1>2 DEF OpToRel
<1>4. PICK k \in T : x = n - k
  OBVIOUS
<1>5. \A j \in T : ~(n - j < n - k)
  BY <1>3, <1>4
<1>6. \A j \in T : k >= j
  BY <1>5
<1>7. \E m \in T : \A j \in T : m >= j
  BY <1>6
<1> QED BY <1>7, Zenon DEF Max

(* What initLastSeq makes of a history page is a number in range. *)
LEMMA MarkInRange ==
  ASSUME TypeOK
  PROVE  Max({seqOf[i] : i \in Page} \cup {0}) \in 0..MaxMessages
<1> DEFINE T == {seqOf[i] : i \in Page} \cup {0}
<1>1. MaxMessages \in Nat
  BY BridgeAssumption
<1>2. Page \subseteq Ids
  BY DEF Page, TypeOK
<1>3. \A i \in Ids : seqOf[i] \in 0..MaxMessages
  BY DEF TypeOK
<1>4. T \in SUBSET (0..MaxMessages) /\ T # {}
  BY <1>1, <1>2, <1>3
<1> HIDE DEF T
<1>5. Max(T) \in T
  BY <1>1, <1>4, MaxOfBounded
<1> QED BY <1>4, <1>5 DEF T

-----------------------------------------------------------------------------
(* The types in three parts: the numbers and messages, the stream, and the *)
(* flags of registration and signals.                                      *)
NumbersOK ==
  /\ made \in 0..MaxMessages /\ count \in 0..MaxMessages /\ count <= made
  /\ seqOf \in [Ids -> 0..MaxMessages]
  /\ hist \subseteq Ids /\ mail \subseteq Ids /\ missed \subseteq Ids
  /\ stage \in [Ids -> {"none", "recorded", "mailed", "done"}]
  /\ mark \in 0..MaxMessages /\ faults \in 0..MaxFaults
  /\ \A i \in Ids : stage[i] # "none" \/ i \in mail => i <= made

StreamOK ==
  /\ sub \in BOOLEAN /\ wire \in Seq(Ids) /\ Len(wire) <= ChanCap /\ alive \in BOOLEAN
  /\ sse \in {"backoff", "sync", "dial", "greet", "read"}
  /\ sub \/ alive => sse \in {"greet", "read"}

FlagsOK ==
  /\ exists \in BOOLEAN /\ initialized \in BOOLEAN /\ token \in {"none", "good", "bad"}
  /\ recent \in BOOLEAN /\ want \in BOOLEAN /\ busy \in BOOLEAN /\ woken \in BOOLEAN

(* The parts make up the types. *)
LEMMA TypeParts == TypeOK /\ CounterOK <=> NumbersOK /\ StreamOK /\ FlagsOK
BY DEF TypeOK, CounterOK, NumbersOK, StreamOK, FlagsOK

(* The numbers: a number is given only below the bound, and a mark is taken *)
(* from a number or from a page.                                            *)
LEMMA NumbersStep ==
  ASSUME NumbersOK, StreamOK, TypeOK, [Next]_vars
  PROVE  NumbersOK'
<1> USE BridgeAssumption DEF messages, server, stream, reg, signal, NumbersOK
<1>1. CASE Record
  <2>1. hist' \subseteq hist \cup {made + 1} /\ hist' \subseteq Ids
    BY <1>1 DEF Record, Ids
  <2> QED BY <1>1, <2>1 DEF Record, Ids
<1>2. CASE ServerRestart \/ StreamCut \/ Watchdog
  <2>1. {wire[n] : n \in 1..Len(wire)} \subseteq Ids
    BY DEF StreamOK
  <2>2. missed' \subseteq Ids /\ faults' \in 0..MaxFaults
    BY <1>2, <2>1 DEF ServerRestart, StreamCut, Watchdog, Cut, Fault
  <2>3. \/ UNCHANGED <<made, count, seqOf, hist, mail, stage, mark>>
        \/ /\ UNCHANGED <<made, seqOf, mark>> /\ count' = 0 /\ hist' = {} /\ mail' = {}
           /\ stage' = [j \in Ids |-> IF j <= made THEN "done" ELSE "none"]
    BY <1>2 DEF ServerRestart, StreamCut, Watchdog
  <2> QED BY <2>2, <2>3
<1>3. ASSUME NEW i \in Ids, Deliver(i) \/ Notify(i) PROVE NumbersOK'
  BY <1>3 DEF Deliver, Notify
<1>4. CASE InitLastSeq
  BY <1>4, MarkInRange DEF InitLastSeq
<1>5. CASE HandleSSEEvent
  <2>1. Head(wire) \in Ids
    BY <1>5 DEF HandleSSEEvent, StreamOK
  <2> QED BY <1>5, <2>1 DEF HandleSSEEvent
<1>6. CASE Greet \/ GreetPeekFails
  <2>1. missed' \subseteq missed /\ UNCHANGED <<made, count, seqOf, hist, mail, stage, mark>>
    BY <1>6 DEF Greet, GreetPeekFails, ConnectSignal
  <2>2. faults' \in 0..MaxFaults
    BY <1>6 DEF Greet, GreetPeekFails, EnsureInit, Fault
  <2> QED BY <2>1, <2>2
<1>7. CASE WokenTurn \/ ChanceTurn
  <2>1. missed' \subseteq missed /\ mail' = {} /\ UNCHANGED <<made, count, seqOf, hist, stage, mark>>
    BY <1>7 DEF WokenTurn, ChanceTurn, DrainAll
  <2>2. faults' \in 0..MaxFaults
    BY <1>7 DEF WokenTurn, ChanceTurn, DrainAll, EnsureInit, Fault
  <2> QED BY <2>1, <2>2
<1>8. CASE \/ TokenExpires \/ Subscribe \/ StartStream \/ StartFails \/ InitLastSeqFails
           \/ Connect \/ ConnectFails \/ SignalLoop \/ GapPasses \/ TouchPresence
           \/ StreamDies \/ DrainRejected \/ UNCHANGED vars
  <2>1. UNCHANGED <<made, count, seqOf, hist, mail, missed, stage, mark>>
    BY <1>8 DEF TokenExpires, Subscribe, StartStream, StartFails, InitLastSeqFails, Connect,
                ConnectFails, SignalLoop, SignalTake, SendCheckMessagesSignal, SendFails,
                GapPasses, TouchPresence, StreamDies, DrainRejected, vars
  <2>2. UNCHANGED faults \/ Fault
    BY <1>8 DEF TokenExpires, Subscribe, StartStream, StartFails, InitLastSeqFails, Connect,
                ConnectFails, SignalLoop, SignalTake, SendCheckMessagesSignal, SendFails,
                GapPasses, TouchPresence, StreamDies, DrainRejected, EnsureInit, vars
  <2>3. faults' \in 0..MaxFaults
    BY <2>2 DEF Fault
  <2> QED BY <2>1, <2>3
<1> QED BY <1>1, <1>2, <1>3, <1>4, <1>5, <1>6, <1>7, <1>8
        DEF Next, ServerStep, SSELoop, AgentTurn

(* The stream: it is opened by Connect and gone before the next backoff. *)
LEMMA StreamStep ==
  ASSUME StreamOK, [Next]_vars
  PROVE  StreamOK'
<1> USE BridgeAssumption DEF messages, server, stream, reg, signal
<1>0. Cut => sub' = FALSE /\ alive' = FALSE /\ wire' \in Seq(Ids) /\ Len(wire') <= ChanCap
  BY DEF Cut
<1>1. CASE ServerRestart \/ StreamCut
  BY <1>0, <1>1 DEF ServerRestart, StreamCut, StreamOK
<1>2. CASE Watchdog
  BY <1>0, <1>2 DEF Watchdog, StreamOK
<1>3. CASE Subscribe \/ StreamDies
  BY <1>3 DEF Subscribe, StreamDies, StreamOK
<1>4. ASSUME NEW i \in Ids, Notify(i) PROVE StreamOK'
  <2>1. UNCHANGED <<sub, alive, sse>>
    BY <1>4 DEF Notify
  <2>2. wire' = wire \/ (wire' = Append(wire, i) /\ Len(wire) < ChanCap)
    BY <1>4 DEF Notify
  <2>3. wire' \in Seq(Ids) /\ Len(wire') <= ChanCap
    BY <2>2 DEF StreamOK
  <2> QED BY <2>1, <2>3 DEF StreamOK
<1>5. CASE HandleSSEEvent
  <2>1. UNCHANGED <<sub, alive, sse>> /\ wire # <<>> /\ wire' = Tail(wire)
    BY <1>5 DEF HandleSSEEvent
  <2>2. wire' \in Seq(Ids) /\ Len(wire') <= ChanCap
    BY <2>1 DEF StreamOK
  <2> QED BY <2>1, <2>2 DEF StreamOK
<1>6. CASE StartStream \/ StartFails \/ InitLastSeq \/ InitLastSeqFails \/ Connect \/ ConnectFails
  <2>1. sse \in {"backoff", "sync", "dial"} /\ UNCHANGED <<sub, wire>>
    BY <1>6 DEF StartStream, StartFails, InitLastSeq, InitLastSeqFails, Connect, ConnectFails
  <2>2. \/ UNCHANGED alive /\ sse' \in {"backoff", "sync", "dial"}
        \/ alive' = TRUE /\ sse' = "greet"
    BY <1>6 DEF StartStream, StartFails, InitLastSeq, InitLastSeqFails, Connect, ConnectFails
  <2>3. ~sub /\ ~alive
    BY <2>1 DEF StreamOK
  <2>4. sse' \in {"backoff", "sync", "dial", "greet"} /\ alive' \in BOOLEAN
    BY <2>2 DEF StreamOK
  <2>5. sub' \/ alive' => sse' = "greet"
    BY <2>1, <2>2, <2>3
  <2> QED BY <2>1, <2>4, <2>5 DEF StreamOK
<1>7. CASE Greet \/ GreetPeekFails
  <2>1. UNCHANGED <<sub, alive, wire>> /\ sse' = "read"
    BY <1>7 DEF Greet, GreetPeekFails
  <2> QED BY <2>1 DEF StreamOK
<1>8. CASE \/ Record \/ (\E i \in Ids : Deliver(i)) \/ TokenExpires \/ SignalLoop \/ GapPasses
           \/ TouchPresence \/ WokenTurn \/ ChanceTurn \/ DrainRejected \/ UNCHANGED vars
  <2>1. UNCHANGED <<sub, alive, wire, sse>>
    BY <1>8 DEF Record, Deliver, TokenExpires, SignalLoop, SignalTake, SendCheckMessagesSignal,
                SendFails, GapPasses, TouchPresence, WokenTurn, ChanceTurn, DrainAll,
                DrainRejected, vars
  <2> QED BY <2>1 DEF StreamOK
<1> QED BY <1>1, <1>2, <1>3, <1>4, <1>5, <1>6, <1>7, <1>8
        DEF Next, ServerStep, SSELoop, AgentTurn

(* The flags: a registration sets the flag and assigns the token, empty if  *)
(* the body of the response was lost.                                       *)
LEMMA FlagsStep ==
  ASSUME FlagsOK, [Next]_vars
  PROVE  FlagsOK'
<1> USE DEF messages, server, stream, reg, signal
<1>1. \/ UNCHANGED reg \/ (UNCHANGED initialized /\ token' \in {"good", "bad"})
      \/ (initialized' = TRUE /\ token' \in {"good", "none"}) \/ InvalidateRegistration
  <2>1. CASE ServerStep
    BY <2>1 DEF ServerStep, Record, ServerRestart, TokenExpires, Subscribe, Deliver, Notify
  <2>2. CASE SSELoop
    BY <2>2 DEF SSELoop, StartStream, StartFails, InitLastSeq, InitLastSeqFails, Connect,
                ConnectFails, Greet, GreetPeekFails, HandleSSEEvent, Watchdog, EnsureInit
  <2>3. CASE ~ServerStep /\ ~SSELoop
    BY <2>3 DEF Next, SignalLoop, SignalTake, SendCheckMessagesSignal, SendFails, GapPasses,
                TouchPresence, StreamCut, StreamDies, AgentTurn, WokenTurn, ChanceTurn,
                DrainAll, DrainRejected, EnsureInit, vars
  <2> QED BY <2>1, <2>2, <2>3
<1>2. exists' \in BOOLEAN
  <2>1. UNCHANGED exists \/ exists' = TRUE \/ exists' = FALSE
    <3>1. CASE ServerStep
      BY <3>1 DEF ServerStep, Record, ServerRestart, TokenExpires, Subscribe, Deliver, Notify
    <3>2. CASE SSELoop
      BY <3>2 DEF SSELoop, StartStream, StartFails, InitLastSeq, InitLastSeqFails, Connect,
                  ConnectFails, Greet, GreetPeekFails, HandleSSEEvent, Watchdog, EnsureInit
    <3>3. CASE ~ServerStep /\ ~SSELoop
      BY <3>3 DEF Next, SignalLoop, SignalTake, SendCheckMessagesSignal, SendFails, GapPasses,
                  TouchPresence, StreamCut, StreamDies, AgentTurn, WokenTurn, ChanceTurn,
                  DrainAll, DrainRejected, EnsureInit, vars
    <3> QED BY <3>1, <3>2, <3>3
  <2> QED BY <2>1 DEF FlagsOK
<1>3. recent' \in BOOLEAN /\ want' \in BOOLEAN /\ busy' \in BOOLEAN /\ woken' \in BOOLEAN
  <2>1. CASE ServerStep
    BY <2>1 DEF ServerStep, Record, ServerRestart, TokenExpires, Subscribe, Deliver, Notify, FlagsOK
  <2>2. CASE SSELoop
    BY <2>2 DEF SSELoop, StartStream, StartFails, InitLastSeq, InitLastSeqFails, Connect,
                ConnectFails, Greet, GreetPeekFails, HandleSSEEvent, Watchdog, ConnectSignal,
                FlagsOK
  <2>3. CASE ~ServerStep /\ ~SSELoop
    BY <2>3 DEF Next, SignalLoop, SignalTake, SendCheckMessagesSignal, SendFails, GapPasses,
                TouchPresence, StreamCut, StreamDies, AgentTurn, WokenTurn, ChanceTurn,
                DrainAll, DrainRejected, vars, FlagsOK
  <2> QED BY <2>1, <2>2, <2>3
<1>4. initialized' \in BOOLEAN /\ token' \in {"none", "good", "bad"}
  <2>1. CASE UNCHANGED reg
    BY <2>1 DEF FlagsOK
  <2>2. CASE UNCHANGED initialized /\ token' \in {"good", "bad"}
    BY <2>2 DEF FlagsOK
  <2>3. CASE initialized' = TRUE /\ token' \in {"good", "none"}
    BY <2>3
  <2>4. CASE InvalidateRegistration
    BY <2>4 DEF InvalidateRegistration
  <2> QED BY <1>1, <2>1, <2>2, <2>3, <2>4
<1> QED BY <1>2, <1>3, <1>4 DEF FlagsOK

(* Every step keeps the types. *)
LEMMA TypeStep ==
  ASSUME TypeOK, CounterOK, [Next]_vars
  PROVE  TypeOK' /\ CounterOK'
<1>1. NumbersOK /\ StreamOK /\ FlagsOK
  BY TypeParts
<1>2. NumbersOK' /\ StreamOK' /\ FlagsOK'
  BY <1>1, NumbersStep, StreamStep, FlagsStep
<1>3. (TypeOK /\ CounterOK)' <=> (NumbersOK /\ StreamOK /\ FlagsOK)'
  BY DEF TypeOK, CounterOK, NumbersOK, StreamOK, FlagsOK
<1> QED BY <1>2, <1>3

-----------------------------------------------------------------------------
(* What a wake-up for message i may be waiting in. *)
OnWire(i) == \E n \in 1..Len(wire) : wire[n] = i
Awaited(i) == i \in missed \/ stage[i] = "mailed" \/ OnWire(i) \/ want \/ busy \/ woken

(* The server's steps hand a wake-up on, or record that it is missed. *)
LEMMA ServerWakes ==
  ASSUME TypeOK, CounterOK, WakeUpPending, ServerStep, NEW i \in mail'
  PROVE  Awaited(i)'
<1> USE DEF messages, server, stream, reg, signal
<1>0. i \in mail => Awaited(i)
  BY DEF WakeUpPending, Awaited, OnWire
<1>1. CASE Record
  <2>1. i \in mail /\ i # made + 1
    BY <1>1 DEF Record, TypeOK, CounterOK
  <2> QED BY <1>0, <1>1, <2>1 DEF Record, Awaited, OnWire, TypeOK
<1>2. CASE ServerRestart
  BY <1>2 DEF ServerRestart
<1>3. CASE TokenExpires \/ Subscribe
  BY <1>0, <1>3 DEF TokenExpires, Subscribe, Awaited, OnWire
<1>4. ASSUME NEW j \in Ids, Deliver(j) PROVE Awaited(i)'
  BY <1>0, <1>4 DEF Deliver, Awaited, OnWire, TypeOK
<1>5. ASSUME NEW j \in Ids, Notify(j) PROVE Awaited(i)'
  <2>1. i \in mail /\ Awaited(i)
    BY <1>0, <1>5 DEF Notify
  <2>2. (want \/ busy \/ woken \/ i \in missed) => Awaited(i)'
    BY <1>5 DEF Notify, Awaited
  <2>3. stage[i] = "mailed" /\ i # j => Awaited(i)'
    BY <1>5 DEF Notify, Awaited, TypeOK
  <2>4. OnWire(i) => Awaited(i)'
    <3>1. \/ UNCHANGED wire
          \/ wire' = Append(wire, j)
      BY <1>5 DEF Notify
    <3>2. ASSUME NEW n \in 1..Len(wire), wire[n] = i PROVE n \in 1..Len(wire') /\ wire'[n] = i
      <4>1. wire \in Seq(Ids)
        BY DEF TypeOK
      <4>2. CASE UNCHANGED wire
        BY <3>2, <4>2
      <4>3. CASE wire' = Append(wire, j)
        BY <3>2, <4>1, <4>3
      <4> QED BY <3>1, <4>2, <4>3
    <3>3. OnWire(i) => OnWire(i)'
      BY <3>2 DEF OnWire
    <3> QED BY <3>3 DEF Awaited
  <2>5. i = j => Awaited(i)'
    <3>1. wire' = Append(wire, j) => wire'[Len(wire) + 1] = j /\ Len(wire') = Len(wire) + 1
      BY DEF TypeOK
    <3>2. wire' = Append(wire, j) => OnWire(j)'
      BY <3>1 DEF OnWire, TypeOK
    <3> QED BY <1>5, <3>2 DEF Notify, Awaited
  <2> QED BY <2>1, <2>2, <2>3, <2>4, <2>5 DEF Awaited
<1> QED BY <1>1, <1>2, <1>3, <1>4, <1>5 DEF ServerStep

(* A cut turns what was on the stream into what is missed. *)
LEMMA CutWakes ==
  ASSUME Cut, UNCHANGED <<stage, want, busy, woken>>, NEW i, Awaited(i)
  PROVE  Awaited(i)'
BY DEF Cut, Awaited, OnWire

(* An event that is read requests a signal or is missed. *)
LEMMA ReadWakes ==
  ASSUME TypeOK, HandleSSEEvent, NEW i \in mail, Awaited(i)
  PROVE  Awaited(i)'
<1>1. wire \in Seq(Ids) /\ wire # <<>> /\ wire' = Tail(wire) /\ missed \subseteq missed'
  BY DEF HandleSSEEvent, TypeOK
<1>2. UNCHANGED <<stage, busy, woken>> /\ (want => want')
  BY DEF HandleSSEEvent, server, messages
<1>3. want' \/ Head(wire) \in missed'
  BY DEF HandleSSEEvent
<1>4. OnWire(i) => i = Head(wire) \/ OnWire(i)'
  <2> SUFFICES ASSUME NEW n \in 1..Len(wire), wire[n] = i, n # 1
               PROVE  OnWire(i)'
    BY <1>1 DEF OnWire
  <2>1. n - 1 \in 1..Len(wire') /\ wire'[n - 1] = i
    BY <1>1
  <2> QED BY <2>1 DEF OnWire
<1> QED BY <1>1, <1>2, <1>3, <1>4 DEF Awaited

(* The other steps of sseLoop, the signal loop and the agent. *)
LEMMA WakeStep ==
  ASSUME TypeOK, CounterOK, WakeUpPending, [Next]_vars
  PROVE  WakeUpPending'
<1> USE DEF messages, server, stream, reg, signal
<1> SUFFICES ASSUME NEW i \in mail' PROVE Awaited(i)'
  BY DEF WakeUpPending, Awaited, OnWire
<1>0. i \in mail => Awaited(i)
  BY DEF WakeUpPending, Awaited, OnWire
<1>1. CASE ServerStep
  BY <1>1, ServerWakes
<1>2. CASE HandleSSEEvent
  BY <1>0, <1>2, ReadWakes DEF HandleSSEEvent
<1>3. CASE Watchdog \/ StreamCut
  BY <1>0, <1>3, CutWakes DEF Watchdog, StreamCut
<1>4. CASE Greet \/ GreetPeekFails
  <2>1. UNCHANGED <<mail, stage, wire, busy, woken>>
    BY <1>4 DEF Greet, GreetPeekFails
  <2>2. want' \/ UNCHANGED <<want, missed>>
    BY <1>4 DEF Greet, GreetPeekFails, ConnectSignal
  <2> QED BY <1>0, <2>1, <2>2 DEF Awaited, OnWire
<1>5. CASE WokenTurn \/ ChanceTurn
  BY <1>5 DEF WokenTurn, ChanceTurn, DrainAll
<1>6. CASE SignalLoop
  <2>1. UNCHANGED <<mail, stage, wire, missed>>
    BY <1>6 DEF SignalLoop, SignalTake, SendCheckMessagesSignal, SendFails
  <2>2. (want \/ busy \/ woken) => (want' \/ busy' \/ woken')
    BY <1>6 DEF SignalLoop, SignalTake, SendCheckMessagesSignal, SendFails
  <2> QED BY <1>0, <2>1, <2>2 DEF Awaited, OnWire
<1>7. CASE \/ StartStream \/ StartFails \/ InitLastSeq \/ InitLastSeqFails \/ Connect
           \/ ConnectFails \/ GapPasses \/ TouchPresence \/ StreamDies \/ DrainRejected
           \/ UNCHANGED vars
  <2>1. UNCHANGED <<mail, stage, wire, missed, want, busy, woken>>
    BY <1>7 DEF StartStream, StartFails, InitLastSeq, InitLastSeqFails, Connect, ConnectFails,
                GapPasses, TouchPresence, StreamDies, DrainRejected, vars
  <2> QED BY <1>0, <2>1 DEF Awaited, OnWire
<1> QED BY <1>1, <1>2, <1>3, <1>4, <1>5, <1>6, <1>7 DEF Next, SSELoop, AgentTurn

-----------------------------------------------------------------------------
(* The invariant holds in every reachable state. *)
LEMMA BridgeInvHolds == Spec => []BridgeInv
<1>1. Init => BridgeInv
  <2> SUFFICES ASSUME Init PROVE BridgeInv
    OBVIOUS
  <2>1. wire \in Seq(Ids) /\ Len(wire) <= ChanCap
    BY BridgeAssumption DEF Init
  <2>2. NumbersOK
    BY BridgeAssumption DEF Init, NumbersOK
  <2>3. StreamOK /\ FlagsOK /\ WakeUpPending
    BY <2>1 DEF Init, StreamOK, FlagsOK, WakeUpPending
  <2> QED BY <2>2, <2>3, TypeParts DEF BridgeInv
<1>2. BridgeInv /\ [Next]_vars => BridgeInv'
  BY TypeStep, WakeStep DEF BridgeInv
<1> QED BY <1>1, <1>2, PTL DEF Spec

(* Every reachable state of the bridge is well typed: sequence numbers and *)
(* the watermark stay in range through restarts of the server, the channel *)
(* keeps its capacity, and a stream is open or subscribed only while       *)
(* watchStream is in its connection.                                       *)
THEOREM TypeCorrect == Spec => []TypeOK
<1>1. BridgeInv => TypeOK
  BY DEF BridgeInv
<1> QED BY <1>1, BridgeInvHolds, PTL

(* The capacity-1 signalCh, the retries of signalLoop, cut streams and the *)
(* watermark lose no wake-up except those of missed events.                *)
THEOREM CoalescingLosesNoWakeUp == Spec => []WakeUpPending
<1>1. BridgeInv => WakeUpPending
  BY DEF BridgeInv
<1> QED BY <1>1, BridgeInvHolds, PTL
=============================================================================
