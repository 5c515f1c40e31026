-------------------------- MODULE EventStreamProofs --------------------------
(***************************************************************************)
(* For every set of members, emitters and streams and every capacity of    *)
(* channels, history and pages: the events of a session are recorded in    *)
(* order, streamed without a gap, announced after their mail is delivered  *)
(* and reach a client that pages through the history.  The command line    *)
(* client, composed with that server, loses mail to its mark in five ways  *)
(* and no other.                                                           *)
(***************************************************************************)
EXTENDS CLI, FiniteSetTheorems, SequenceTheorems, WellFoundedInduction, TLAPS

-----------------------------------------------------------------------------
(* Facts about sequences. *)

(* An element is at some position. *)
LEMMA ElementAt ==
  ASSUME NEW q, NEW x PROVE x \in Elements(q) <=> \E k \in DOMAIN q : q[k] = x
BY DEF Elements

(* Appending adds one element. *)
LEMMA ElementsAppend ==
  ASSUME NEW S, NEW q \in Seq(S), NEW x \in S
  PROVE  /\ Append(q, x) \in Seq(S)
         /\ Elements(Append(q, x)) = Elements(q) \cup {x}
<1>1. /\ Append(q, x) \in Seq(S) /\ Len(Append(q, x)) = Len(q) + 1 /\ Len(q) \in Nat
      /\ Append(q, x)[Len(q) + 1] = x
      /\ \A k \in 1..Len(q) : Append(q, x)[k] = q[k]
  OBVIOUS
<1>2. DOMAIN q = 1..Len(q) /\ DOMAIN Append(q, x) = 1..(Len(q) + 1)
  BY <1>1, LenProperties
<1>3. \A k \in 1..(Len(q) + 1) : k \in 1..Len(q) \/ k = Len(q) + 1
  BY <1>1
<1>4. 1..Len(q) \subseteq 1..(Len(q) + 1) /\ Len(q) + 1 \in 1..(Len(q) + 1)
  BY <1>1
<1>5. Elements(Append(q, x)) \subseteq Elements(q) \cup {x}
  BY <1>1, <1>2, <1>3 DEF Elements
<1>6. Elements(q) \cup {x} \subseteq Elements(Append(q, x))
  BY <1>1, <1>2, <1>4 DEF Elements
<1> QED BY <1>1, <1>5, <1>6

(* Removing the head of a queue removes nothing else. *)
LEMMA ElementsTail ==
  ASSUME NEW S, NEW q \in Seq(S), q # <<>>
  PROVE  /\ Head(q) \in S /\ Tail(q) \in Seq(S)
         /\ Elements(q) = Elements(Tail(q)) \cup {Head(q)}
<1>1. /\ Head(q) \in S /\ Tail(q) \in Seq(S) /\ Len(Tail(q)) = Len(q) - 1
      /\ \A k \in 1..Len(Tail(q)) : Tail(q)[k] = q[k + 1]
  BY HeadTailProperties
<1>2. Len(q) \in Nat \ {0} /\ Head(q) = q[1]
  BY EmptySeq
<1>3. DOMAIN q = 1..Len(q) /\ DOMAIN Tail(q) = 1..(Len(q) - 1)
  BY <1>1, LenProperties
<1>4. ASSUME NEW k \in 1..Len(q) PROVE q[k] = Head(q) \/ \E j \in 1..(Len(q) - 1) : Tail(q)[j] = q[k]
  <2>1. CASE k = 1
    BY <2>1, <1>2
  <2>2. CASE k # 1
    <3>1. k - 1 \in 1..(Len(q) - 1) /\ (k - 1) + 1 = k
      BY <2>2, <1>2
    <3> QED BY <3>1, <1>1
  <2> QED BY <2>1, <2>2
<1>5. \A j \in 1..(Len(q) - 1) : j + 1 \in 1..Len(q)
  BY <1>2
<1>6. 1 \in 1..Len(q)
  BY <1>2
<1>7. Elements(q) \subseteq Elements(Tail(q)) \cup {Head(q)}
  BY <1>3, <1>4 DEF Elements
<1>8. Elements(Tail(q)) \cup {Head(q)} \subseteq Elements(q)
  BY <1>1, <1>2, <1>3, <1>5, <1>6 DEF Elements
<1> QED BY <1>1, <1>7, <1>8

(* The empty sequence has no elements. *)
LEMMA ElementsEmpty == ASSUME NEW S PROVE <<>> \in Seq(S) /\ Elements(<<>>) = {}
<1>1. <<>> \in Seq(S) /\ Len(<<>>) = 0
  BY EmptySeq
<1>2. DOMAIN <<>> = 1..Len(<<>>)
  BY <1>1, LenProperties
<1>3. DOMAIN <<>> = {}
  BY <1>1, <1>2
<1> QED BY <1>1, <1>3 DEF Elements

(* The elements of a sequence are of its element set. *)
LEMMA ElementsIn == ASSUME NEW S, NEW q \in Seq(S) PROVE Elements(q) \subseteq S
BY LenProperties, ElementOfSeq DEF Elements

(* Trimming to n entries keeps the last ones, in place. *)
LEMMA LastNShift ==
  ASSUME NEW S, NEW q \in Seq(S), NEW n \in Nat
  PROVE  /\ LastN(q, n) \in Seq(S)
         /\ Len(LastN(q, n)) <= n
         /\ \E d \in Nat : /\ Len(LastN(q, n)) + d = Len(q)
                           /\ d # 0 => Len(LastN(q, n)) = n
                           /\ \A k \in 1..Len(LastN(q, n)) : LastN(q, n)[k] = q[k + d]
<1>0. Len(q) \in Nat
  OBVIOUS
<1>1. CASE Len(q) > n
  <2> DEFINE m == Len(q) - n + 1
             r == SubSeq(q, m, Len(q))
  <2>1. m \in Int /\ m >= 1 /\ Len(q) - m + 1 = n /\ (m <= Len(q) \/ n = 0)
    BY <1>0, <1>1
  <2>2. \A i \in m..Len(q) : i \in 1..Len(q)
    BY <1>0, <2>1
  <2>3. \A i \in m..Len(q) : q[i] \in S
    BY <2>2, ElementOfSeq
  <2> HIDE DEF m
  <2>4. /\ r \in Seq(S)
        /\ Len(r) = IF m <= Len(q) THEN Len(q) - m + 1 ELSE 0
        /\ \A i \in 1..(Len(q) - m + 1) : r[i] = q[m + i - 1]
    BY <1>0, <2>1, <2>3, SubSeqProperties
  <2>5. Len(r) = n
    BY <1>0, <2>1, <2>4
  <2>6. LastN(q, n) = r
    BY <1>1 DEF LastN, m
  <2>7. Len(q) - n \in Nat /\ n + (Len(q) - n) = Len(q)
    BY <1>0, <1>1
  <2>8. \A k \in 1..n : m + k - 1 = k + (Len(q) - n)
    BY <1>0 DEF m
  <2>9. \A k \in 1..n : r[k] = q[k + (Len(q) - n)]
    BY <2>1, <2>4, <2>8
  <2> HIDE DEF r
  <2>10. \E d \in Nat : n + d = Len(q) /\ \A k \in 1..n : r[k] = q[k + d]
    BY <2>7, <2>9
  <2>11. \E d \in Nat : /\ Len(r) + d = Len(q) /\ (d # 0 => Len(r) = n)
                        /\ \A k \in 1..Len(r) : r[k] = q[k + d]
    BY <2>5, <2>10, Zenon
  <2>12. r \in Seq(S) /\ Len(r) <= n
    BY <2>4, <2>5
  <2> QED BY <2>6, <2>11, <2>12, Zenon
<1>2. CASE ~(Len(q) > n)
  <2>1. LastN(q, n) = q
    BY <1>2 DEF LastN
  <2>2. Len(q) <= n /\ \A k \in 1..Len(q) : q[k] = q[k + 0]
    BY <1>0, <1>2
  <2> QED BY <1>0, <2>1, <2>2
<1> QED BY <1>1, <1>2

-----------------------------------------------------------------------------
(* Facts about finite sets of positions. *)

(* A nonempty set of positions has a last one. *)
LEMMA LastPosition ==
  ASSUME NEW n \in Nat, NEW T \in SUBSET (1..n), T # {}
  PROVE  \E k \in T : \A j \in T : j <= k
<1> DEFINE M == {n - k : k \in T}
<1>0. \A k \in T : n - k \in Nat
  OBVIOUS
<1>1. M \subseteq Nat /\ M # {}
  BY <1>0
<1>2. \E x \in M : \A y \in M : ~(<<y, x>> \in OpToRel(<, Nat))
  <2> HIDE DEF M
  <2> QED BY <1>1, NatLessThanWellFounded, WFMin
<1>3. PICK x \in M : \A y \in M : ~(y < x)
  BY <1>1, <1>2 DEF OpToRel
<1>4. PICK k \in T : x = n - k
  OBVIOUS
<1>5. \A j \in T : ~(n - j < n - k)
  BY <1>3, <1>4
<1>6. \A j \in T : j <= k
  BY <1>5
<1> QED BY <1>6

(* Of two sets of positions the smaller has no more members. *)
LEMMA FewerPositions ==
  ASSUME NEW n \in Nat, NEW T \in SUBSET (1..n), NEW U \in SUBSET T
  PROVE  /\ Cardinality(U) \in Nat /\ Cardinality(T) \in Nat
         /\ Cardinality(U) <= Cardinality(T)
<1>1. IsFiniteSet(1..n)
  BY FS_Interval
<1>2. IsFiniteSet(T)
  BY <1>1, FS_Subset
<1> QED BY <1>2, FS_Subset, FS_CardinalityType

-----------------------------------------------------------------------------
(* The invariant.  Only an emitter inside Notify has streams ahead of it, *)
(* and one that is not idle has an event.                                 *)
NotifyOK ==
  \A e \in Emitters : /\ epc[e] # "notify" => chanTodo[e] = {}
                      /\ epc[e] # "idle" => event[e] \in Events

(* The history is in order, and what it holds is numbered already; it is   *)
(* empty only while nothing was recorded.                                  *)
HistoryOK ==
  /\ HistoryOrdered
  /\ \A i \in recorded : i <= seqNum
  /\ recorded # {} => history # <<>>
  /\ mark <= seqNum

(* An event that is being fanned out has a number of its own, each of its  *)
(* mailboxes has it or is about to get it, and none is left at Notify.     *)
FanOutOK ==
  \A e \in Emitters : epc[e] # "idle" =>
    /\ event[e] \in 1..seqNum
    /\ \A m \in targets[event[e]] : m \in mailTodo[e] \/ event[e] \in delivered[m]
    /\ epc[e] = "notify" => mailTodo[e] = {}

(* What is on a stream live has a number. *)
News(s) == Elements(chan[s]) \cup Elements(live[s]) \cup dropped[s]
NewsOK == \A s \in Streams : \A i \in News(s) : i <= seqNum

StreamInv == /\ TypeOK /\ NotifyOK /\ HistoryOK /\ FanOutOK /\ NewsOK
             /\ MailBeforeNews /\ NoGapInStream /\ CatchUpComplete

-----------------------------------------------------------------------------
(* Type correctness. *)

(* Numbering an event keeps the variables in their types. *)
LEMMA NumberType ==
  ASSUME TypeOK, NotifyOK, NEW e \in Emitters, NEW T \in SUBSET Members,
         Record(e, T) \/ Unrecorded(e, T)
  PROVE  TypeOK' /\ NotifyOK'
<1> USE DEF Number, stream, client
<1>0. Number(e, T)
  BY DEF Record, Unrecorded
<1>1. seqNum + 1 \in Events /\ seqNum + 1 \in 0..MaxSeq
  BY <1>0, EventStreamAssumption DEF TypeOK, Events
<1>2. history' \in Seq(Events)
  <2>1. CASE Record(e, T)
    <3>1. Append(history, seqNum + 1) \in Seq(Events)
      BY <1>1, ElementsAppend DEF TypeOK
    <3> QED BY <2>1, <3>1, LastNShift, EventStreamAssumption DEF Record
  <2>2. CASE Unrecorded(e, T)
    BY <2>2 DEF TypeOK, Unrecorded
  <2> QED BY <2>1, <2>2
<1>3. recorded' \subseteq Events
  BY <1>1 DEF TypeOK, Record, Unrecorded
<1>4. targets' \in [Events -> SUBSET Members]
  BY <1>0, <1>1 DEF TypeOK
<1>5. /\ event' \in [Emitters -> 0..MaxSeq]
      /\ mailTodo' \in [Emitters -> SUBSET Members]
      /\ epc' \in [Emitters -> {"idle", "deliver", "notify"}]
  BY <1>0, <1>1 DEF TypeOK
<1>6. NotifyOK'
  BY <1>0, <1>1 DEF TypeOK, NotifyOK
<1>7. UNCHANGED <<delivered, chanTodo, spc, chan, replay, live, dropped, mark, got>>
  BY <1>0
<1> QED BY <1>0, <1>1, <1>2, <1>3, <1>4, <1>5, <1>6, <1>7 DEF TypeOK, Subscribed

(* Every step of EventStream keeps its variables in their types. *)
LEMMA TypeStep == TypeOK /\ NotifyOK /\ [Next]_vars => TypeOK' /\ NotifyOK'
<1> SUFFICES ASSUME TypeOK, NotifyOK, [Next]_vars PROVE TypeOK' /\ NotifyOK'
  OBVIOUS
<1> USE DEF hub, emitter, stream, client, Goto
<1>1. ASSUME NEW e \in Emitters, Emit(e) PROVE TypeOK' /\ NotifyOK'
  <2>1. \E T \in SUBSET Members : Record(e, T) \/ Unrecorded(e, T)
    BY <1>1 DEF Emit, SendMessage, Broadcast, SystemEvent, AutoTransferEvent, AmbientEvent
  <2> QED BY <2>1, NumberType
<1>2. ASSUME NEW e \in Emitters, FanOut(e) PROVE TypeOK' /\ NotifyOK'
  <2>1. ASSUME NEW m \in Members, Deliver(e, m) PROVE TypeOK' /\ NotifyOK'
    <3>1. event[e] \in Events
      BY <2>1 DEF Deliver, NotifyOK
    <3> QED BY <2>1, <3>1 DEF Deliver, TypeOK, NotifyOK, Subscribed
  <2>2. CASE NotifyStart(e)
    BY <2>2 DEF NotifyStart, TypeOK, NotifyOK, Subscribed
  <2>3. CASE NotifyEnd(e)
    BY <2>3, EventStreamAssumption DEF NotifyEnd, TypeOK, NotifyOK, Subscribed
  <2>4. ASSUME NEW s \in Streams, NotifySend(e, s) PROVE TypeOK' /\ NotifyOK'
    <3>1. event[e] \in Events
      BY <2>4 DEF NotifySend, NotifyOK
    <3>2. Append(chan[s], event[e]) \in Seq(Events)
      BY <3>1, ElementsAppend DEF TypeOK
    <3>3. chan' \in [Streams -> Seq(Events)] /\ dropped' \in [Streams -> SUBSET Events]
      <4>1. CASE Len(chan[s]) < ChanCap
        BY <2>4, <3>2, <4>1 DEF NotifySend, TypeOK
      <4>2. CASE ~(Len(chan[s]) < ChanCap)
        <5>1. dropped[s] \cup {event[e]} \in SUBSET Events
          BY <3>1 DEF TypeOK
        <5>2. dropped' = [dropped EXCEPT ![s] = dropped[s] \cup {event[e]}] /\ chan' = chan
          BY <2>4, <4>2 DEF NotifySend
        <5> QED BY <5>1, <5>2 DEF TypeOK
      <4> QED BY <4>1, <4>2
    <3> QED BY <2>4, <3>3 DEF NotifySend, TypeOK, NotifyOK, Subscribed
  <2> QED BY <1>2, <2>1, <2>2, <2>3, <2>4 DEF FanOut
<1>3. ASSUME NEW s \in Streams, Admit(s) \/ Serve(s) \/ Disconnect(s) PROVE TypeOK' /\ NotifyOK'
  <2>1. CASE Admit(s)
    BY <2>1 DEF Admit, TypeOK, NotifyOK, Subscribed
  <2>2. CASE Connected(s)
    BY <2>2 DEF Connected, TypeOK, NotifyOK, Subscribed
  <2>3. CASE Subscribe(s)
    BY <2>3 DEF Subscribe, TypeOK, NotifyOK, Subscribed
  <2>4. CASE Replay(s)
    BY <2>4 DEF Replay, TypeOK, NotifyOK, Subscribed
  <2>5. CASE Forward(s)
    <3>1. Head(chan[s]) \in Events /\ Tail(chan[s]) \in Seq(Events)
      BY <2>5, ElementsTail DEF Forward, TypeOK
    <3>2. Append(live[s], Head(chan[s])) \in Seq(Events)
      BY <3>1, ElementsAppend DEF TypeOK
    <3> QED BY <2>5, <3>1, <3>2 DEF Forward, TypeOK, NotifyOK, Subscribed
  <2>6. CASE Disconnect(s)
    <3>1. <<>> \in Seq(Events)
      BY ElementsEmpty
    <3>2. \A e \in Emitters : chanTodo[e] = {}
      BY <2>6 DEF Disconnect, NotifyRunning, NotifyOK
    <3> QED BY <2>6, <3>1, <3>2 DEF Disconnect, TypeOK, NotifyOK, Subscribed
  <2> QED BY <1>3, <2>1, <2>2, <2>3, <2>4, <2>5, <2>6 DEF Serve
<1>4. CASE CatchUp
  <2> DEFINE page == Page(mark, PageSize)
             last == CHOOSE k \in page : \A j \in page : j <= k
  <2>1. DOMAIN history = 1..Len(history) /\ Len(history) \in Nat
    BY LenProperties DEF TypeOK
  <2>2. page \subseteq DOMAIN history /\ page # {}
    BY <1>4 DEF CatchUp, Page, After
  <2>3. last \in page
    BY <2>1, <2>2, LastPosition
  <2>4. \A k \in page : history[k] \in Events
    BY <2>1, <2>2, ElementOfSeq DEF TypeOK
  <2>5. mark' = history[last] /\ got' = got \cup {history[k] : k \in page}
    BY <1>4 DEF CatchUp
  <2> HIDE DEF page, last
  <2>6. Events \subseteq 0..MaxSeq
    BY EventStreamAssumption DEF Events
  <2>7. mark' \in 0..MaxSeq /\ got' \subseteq Events
    <3>1. mark' \in Events
      BY <2>3, <2>4, <2>5
    <3>2. {history[k] : k \in page} \subseteq Events /\ got \subseteq Events
      BY <2>4 DEF TypeOK
    <3>3. got' \subseteq Events
      BY <2>5, <3>2
    <3> QED BY <2>6, <3>1, <3>3
  <2>8. UNCHANGED <<hub, delivered, emitter, stream>>
    BY <1>4 DEF CatchUp
  <2>9. NotifyOK'
    BY <2>8 DEF NotifyOK
  <2> QED BY <2>7, <2>8, <2>9 DEF TypeOK, Subscribed
<1>5. CASE UNCHANGED vars
  BY <1>5 DEF vars, TypeOK, NotifyOK, Subscribed
<1> QED BY <1>1, <1>2, <1>3, <1>4, <1>5 DEF Next

(* The initial state is well typed. *)
LEMMA TypeInit == Init => TypeOK /\ NotifyOK
<1> SUFFICES ASSUME Init PROVE TypeOK /\ NotifyOK
  OBVIOUS
<1>1. <<>> \in Seq(Events)
  BY ElementsEmpty
<1> QED BY <1>1, EventStreamAssumption DEF Init, TypeOK, NotifyOK

(* Every reachable state of the event stream is well typed; in particular  *)
(* a Notify under way has only subscribed streams ahead of it.             *)
THEOREM TypeCorrect == Spec => []TypeOK
BY TypeInit, TypeStep, PTL DEF Spec

-----------------------------------------------------------------------------
(* The history. *)

(* The history is a sequence of numbers. *)
LEMMA HistoryShape ==
  ASSUME TypeOK
  PROVE  /\ Len(history) \in Nat /\ DOMAIN history = 1..Len(history)
         /\ \A k \in 1..Len(history) : history[k] \in Nat
<1>1. history \in Seq(Events) /\ Events \subseteq Nat
  BY DEF TypeOK, Events
<1> QED BY <1>1, LenProperties, ElementOfSeq

(* recordEnvelope: numbering and appending in one section keeps the order, *)
(* and the trim drops only what is older than all it keeps.                *)
LEMMA RecordHistory ==
  ASSUME TypeOK, HistoryOK, CatchUpComplete,
         NEW e \in Emitters, NEW T \in SUBSET Members, Record(e, T)
  PROVE  HistoryOK' /\ CatchUpComplete'
<1> DEFINE n == seqNum + 1
           L == Len(history)
           h == Append(history, n)
<1>1. /\ seqNum \in Nat /\ n \in Events /\ n \in Nat /\ mark \in Nat
      /\ recorded \subseteq Nat /\ MaxHistory \in Nat \ {0}
  BY EventStreamAssumption DEF TypeOK, Events, Record, Number
<1>2. L \in Nat /\ DOMAIN history = 1..L /\ \A k \in 1..L : history[k] \in Nat
  BY HistoryShape
<1>3. /\ h \in Seq(Events) /\ Len(h) = L + 1 /\ h[L + 1] = n
      /\ \A k \in 1..L : h[k] = history[k]
  BY <1>1 DEF TypeOK
<1>4. PICK d \in Nat : /\ Len(history') + d = L + 1
                       /\ d # 0 => Len(history') = MaxHistory
                       /\ \A k \in 1..Len(history') : history'[k] = h[k + d]
  <2>1. history' = LastN(h, MaxHistory) /\ MaxHistory \in Nat
    BY <1>1 DEF Record
  <2> HIDE DEF h, L
  <2>2. h \in Seq(Events) /\ Len(h) = L + 1
    BY <1>3
  <2>3. \E d \in Nat : /\ Len(LastN(h, MaxHistory)) + d = Len(h)
                       /\ d # 0 => Len(LastN(h, MaxHistory)) = MaxHistory
                       /\ \A k \in 1..Len(LastN(h, MaxHistory)) : LastN(h, MaxHistory)[k] = h[k + d]
    BY <2>1, <2>2, LastNShift
  <2> QED BY <2>1, <2>2, <2>3, Zenon
<1>5. /\ Len(history') \in Nat \ {0} /\ Len(history') <= MaxHistory
      /\ DOMAIN history' = 1..Len(history')
  <2>1. history' \in Seq(Events) /\ Len(history') <= MaxHistory
    BY <1>1, <1>3, LastNShift DEF Record
  <2>2. Len(history') \in Nat /\ DOMAIN history' = 1..Len(history')
    BY <2>1, LenProperties
  <2>3. Len(history') # 0
    <3> DEFINE m == Len(history')
    <3>1. m \in Nat /\ m + d = L + 1 /\ L \in Nat /\ (d # 0 => m = MaxHistory)
      BY <1>2, <1>4, <2>2
    <3>2. MaxHistory \in Nat /\ MaxHistory # 0
      BY EventStreamAssumption
    <3> HIDE DEF L, m
    <3>3. d = 0 => m # 0
      BY <3>1
    <3>4. m # 0
      BY <3>1, <3>2, <3>3
    <3> QED BY <3>4 DEF m
  <2> QED BY <2>1, <2>2, <2>3
<1>6. \A k \in 1..Len(history') : k + d \in 1..(L + 1)
  BY <1>2, <1>4, <1>5
<1>7. \A k \in 1..(L + 1) : k \in 1..L \/ k = L + 1
  BY <1>2
<1> HIDE DEF h, L, n
<1>8. \A k \in 1..L : h[k] \in Nat /\ h[k] <= seqNum
  BY <1>2, <1>3 DEF HistoryOK, HistoryOrdered
<1>9. \A j, k \in 1..(L + 1) : j < k => h[j] < h[k]
  <2> SUFFICES ASSUME NEW j \in 1..(L + 1), NEW k \in 1..(L + 1), j < k PROVE h[j] < h[k]
    OBVIOUS
  <2>1. j \in 1..L
    BY <1>2
  <2>2. CASE k = L + 1
    BY <1>1, <1>3, <1>8, <2>1, <2>2 DEF n
  <2>3. CASE k \in 1..L
    BY <1>2, <1>3, <2>1, <2>3 DEF HistoryOK, HistoryOrdered
  <2> QED BY <1>7, <2>2, <2>3
<1>10. seqNum' = n /\ recorded' = recorded \cup {n} /\ mark' = mark /\ got' = got
  BY DEF Record, Number, client, n
<1>11. \A j, k \in 1..Len(history') : j < k => history'[j] < history'[k]
  BY <1>4, <1>5, <1>6, <1>9
<1>12. \A k \in 1..(L + 1) : h[k] <= n
  BY <1>1, <1>3, <1>7, <1>8 DEF n
<1>13. ASSUME NEW i \in recorded'
       PROVE  i \in Elements(history') \/ \A k \in 1..Len(history') : i < history'[k]
  <2>1. CASE i = n
    <3>1. history'[Len(history')] = h[L + 1] /\ Len(history') \in 1..Len(history')
      BY <1>4, <1>5
    <3> QED BY <1>3, <1>5, <2>1, <3>1 DEF Elements
  <2>2. CASE i \in recorded /\ i \in Elements(history)
    <3>1. PICK j \in 1..L : h[j] = i
      BY <1>2, <1>3, <2>2 DEF Elements
    <3>2. CASE j > d
      <4>1. j - d \in 1..Len(history') /\ (j - d) + d = j
        BY <1>2, <1>4, <1>5, <3>2
      <4>2. history'[j - d] = i
        BY <1>4, <3>1, <4>1
      <4> QED BY <1>5, <4>1, <4>2 DEF Elements
    <3>3. CASE ~(j > d)
      <4>1. \A k \in 1..Len(history') : j < k + d /\ j \in 1..(L + 1)
        BY <1>2, <1>5, <3>3
      <4> QED BY <1>4, <1>6, <1>9, <3>1, <4>1
    <3> QED BY <3>2, <3>3
  <2>3. CASE i \in recorded /\ \A k \in 1..L : i < history[k]
    <3>1. i <= seqNum
      BY <2>3 DEF HistoryOK
    <3>2. i < n
      BY <1>1, <2>3, <3>1 DEF n
    <3>3. \A k \in 1..(L + 1) : i < h[k]
      BY <1>3, <1>7, <2>3, <3>2
    <3> QED BY <1>4, <1>6, <3>3
  <2> QED BY <1>2, <1>10, <2>1, <2>2, <2>3 DEF HistoryOK, HistoryOrdered
<1>14. HistoryOK'
  <2>1. \A k \in 1..Len(history') : history'[k] <= seqNum'
    BY <1>4, <1>6, <1>10, <1>12
  <2>2. HistoryOrdered'
    BY <1>5, <1>11, <1>13, <2>1 DEF HistoryOrdered
  <2>3. \A i \in recorded' : i <= seqNum'
    BY <1>1, <1>10 DEF HistoryOK, n
  <2>4. history' # <<>>
    BY <1>5, EmptySeq
  <2>5. mark' <= seqNum'
    BY <1>1, <1>10 DEF HistoryOK, n
  <2> QED BY <2>2, <2>3, <2>4, <2>5 DEF HistoryOK
<1>15. CatchUpComplete'
  <2> SUFFICES ASSUME NEW k \in 1..Len(history'), history'[k] <= mark PROVE history'[k] \in got
    BY <1>5, <1>10 DEF CatchUpComplete
  <2>1. k + d # L + 1
    <3>1. mark < n
      BY <1>1 DEF HistoryOK, n
    <3> QED BY <1>1, <1>3, <1>4, <3>1
  <2>2. k + d \in 1..L /\ history'[k] = history[k + d]
    BY <1>3, <1>4, <1>6, <1>7, <2>1
  <2> QED BY <1>2, <2>2 DEF CatchUpComplete
<1> QED BY <1>14, <1>15

(* GetHistoryAfter returns the first entries past the mark, without a hole: *)
(* the mark moves over nothing that the client does not get.                *)
LEMMA CatchUpHistory ==
  ASSUME TypeOK, HistoryOK, CatchUpComplete, CatchUp
  PROVE  HistoryOK' /\ CatchUpComplete'
<1> DEFINE L == Len(history)
           page == Page(mark, PageSize)
           last == CHOOSE k \in page : \A j \in page : j <= k
           Upto(k) == {j \in After(mark) : j <= k}
<1>1. L \in Nat /\ DOMAIN history = 1..L /\ \A k \in 1..L : history[k] \in Nat
  BY HistoryShape
<1>2. page \subseteq 1..L /\ page # {} /\ After(mark) \subseteq 1..L
  BY <1>1 DEF CatchUp, Page, After
<1>3. last \in page /\ \A j \in page : j <= last
  BY <1>1, <1>2, LastPosition
<1>4. /\ mark' = history[last] /\ got' = got \cup {history[k] : k \in page}
      /\ UNCHANGED <<history, seqNum, recorded>>
  BY DEF CatchUp, hub
<1>5. \A k : k \in page <=> k \in After(mark) /\ Cardinality(Upto(k)) <= PageSize
  BY DEF Page
<1> HIDE DEF last, page
<1>6. HistoryOK'
  <2>1. history[last] <= seqNum
    BY <1>1, <1>2, <1>3 DEF HistoryOK, HistoryOrdered
  <2>2. HistoryOrdered'
    BY <1>4 DEF HistoryOK, HistoryOrdered, Elements
  <2> QED BY <1>4, <2>1, <2>2 DEF HistoryOK
<1>7. CatchUpComplete'
  <2> SUFFICES ASSUME NEW k \in 1..L, history[k] <= history[last] PROVE history[k] \in got'
    BY <1>1, <1>4 DEF CatchUpComplete
  <2>1. CASE history[k] <= mark
    BY <1>1, <1>4, <2>1 DEF CatchUpComplete
  <2>2. CASE ~(history[k] <= mark)
    <3>1. mark \in Nat /\ PageSize \in Nat
      BY EventStreamAssumption DEF TypeOK
    <3>2. k \in After(mark)
      BY <1>1, <2>2, <3>1 DEF After
    <3>3. last \in 1..L
      BY <1>2, <1>3
    <3>4. k <= last
      <4>1. ~(last < k)
        BY <1>1, <3>3 DEF HistoryOK, HistoryOrdered
      <4> QED BY <1>1, <3>3, <4>1
    <3>5. Upto(k) \subseteq Upto(last) /\ Upto(last) \subseteq 1..L
      BY <1>2, <3>3, <3>4
    <3>6. Cardinality(Upto(last)) <= PageSize
      BY <1>3, <1>5
    <3>7. /\ Cardinality(Upto(k)) \in Nat /\ Cardinality(Upto(last)) \in Nat
          /\ Cardinality(Upto(k)) <= Cardinality(Upto(last))
      <4> HIDE DEF Upto
      <4> QED BY <1>1, <3>5, FewerPositions
    <3>8. k \in page
      <4> HIDE DEF Upto
      <4> QED BY <1>5, <3>1, <3>2, <3>6, <3>7
    <3> QED BY <1>4, <3>8
  <2> QED BY <2>1, <2>2
<1> QED BY <1>6, <1>7

(* Every step keeps the history in order and the paging client complete. *)
LEMMA HistoryStep ==
  TypeOK /\ HistoryOK /\ CatchUpComplete /\ [Next]_vars => HistoryOK' /\ CatchUpComplete'
<1> SUFFICES ASSUME TypeOK, HistoryOK, CatchUpComplete, [Next]_vars
             PROVE  HistoryOK' /\ CatchUpComplete'
  OBVIOUS
<1>1. ASSUME NEW e \in Emitters, NEW T \in SUBSET Members, Record(e, T)
      PROVE  HistoryOK' /\ CatchUpComplete'
  BY <1>1, RecordHistory
<1>2. ASSUME NEW e \in Emitters, NEW T \in SUBSET Members, Unrecorded(e, T)
      PROVE  HistoryOK' /\ CatchUpComplete'
  <2>1. UNCHANGED <<history, recorded, mark, got>> /\ seqNum' = seqNum + 1
    BY <1>2 DEF Unrecorded, Number, client
  <2>2. \A k \in DOMAIN history : history[k] <= seqNum + 1
    <3>1. seqNum \in Nat /\ \A k \in DOMAIN history : history[k] <= seqNum
      BY DEF TypeOK, HistoryOK, HistoryOrdered
    <3>2. \A k \in DOMAIN history : history[k] \in Nat
      BY HistoryShape
    <3> QED BY <3>1, <3>2
  <2>3. (\A i \in recorded : i <= seqNum + 1) /\ mark <= seqNum + 1
    BY DEF TypeOK, HistoryOK, Events
  <2> QED BY <2>1, <2>2, <2>3 DEF HistoryOK, HistoryOrdered, Elements, CatchUpComplete
<1>3. CASE CatchUp
  BY <1>3, CatchUpHistory
<1>4. CASE UNCHANGED <<hub, client>>
  BY <1>4 DEF hub, client, HistoryOK, HistoryOrdered, Elements, CatchUpComplete
<1>5. ASSUME NEW e \in Emitters, Emit(e)
      PROVE  \E T \in SUBSET Members : Record(e, T) \/ Unrecorded(e, T)
  BY <1>5 DEF Emit, SendMessage, Broadcast, SystemEvent, AutoTransferEvent, AmbientEvent
<1>6. ASSUME NEW e \in Emitters, FanOut(e) PROVE UNCHANGED <<hub, client>>
  BY <1>6 DEF FanOut, Deliver, NotifyStart, NotifySend, NotifyEnd
<1>7. ASSUME NEW s \in Streams, Admit(s) \/ Serve(s) \/ Disconnect(s) PROVE UNCHANGED <<hub, client>>
  BY <1>7 DEF Admit, Serve, Connected, Subscribe, Replay, Forward, Disconnect
<1> QED BY <1>1, <1>2, <1>3, <1>4, <1>5, <1>6, <1>7 DEF Next, vars

-----------------------------------------------------------------------------
(* Mail before news. *)

(* What is live on a stream are numbers of events. *)
LEMMA NewsType == ASSUME TypeOK, NEW s \in Streams PROVE News(s) \subseteq Events
<1>1. chan[s] \in Seq(Events) /\ live[s] \in Seq(Events) /\ dropped[s] \subseteq Events
  BY DEF TypeOK
<1> QED BY <1>1, ElementsIn DEF News

(* A stream gets news only by the send of a Notify under way. *)
LEMMA NewsStep ==
  ASSUME TypeOK, NotifyOK, [Next]_vars, NEW s \in Streams, NEW i \in News(s)'
  PROVE  i \in News(s) \/ \E e \in Emitters : epc[e] = "notify" /\ event[e] = i /\ UNCHANGED hub
<1> USE DEF stream
<1>1. CASE UNCHANGED <<chan, live, dropped>>
  BY <1>1 DEF News, Elements
<1>2. ASSUME NEW e \in Emitters, NEW t \in Streams, NotifySend(e, t)
      PROVE  i \in News(s) \cup {event[e]}
  <2>1. UNCHANGED live /\ event[e] \in Events
    BY <1>2 DEF NotifySend, NotifyOK
  <2>2. CASE s # t
    <3>1. chan'[s] = chan[s] /\ dropped'[s] = dropped[s] /\ live'[s] = live[s]
      BY <1>2, <2>2 DEF NotifySend, TypeOK
    <3> QED BY <3>1 DEF News
  <2>3. CASE s = t /\ Len(chan[t]) < ChanCap
    <3>1. chan'[s] = Append(chan[s], event[e]) /\ dropped'[s] = dropped[s] /\ live'[s] = live[s]
      BY <1>2, <2>3 DEF NotifySend, TypeOK
    <3>2. Elements(chan'[s]) = Elements(chan[s]) \cup {event[e]}
      BY <2>1, <3>1, ElementsAppend DEF TypeOK
    <3> QED BY <2>1, <3>1, <3>2 DEF News
  <2>4. CASE s = t /\ ~(Len(chan[t]) < ChanCap)
    <3>1. chan'[s] = chan[s] /\ dropped'[s] = dropped[s] \cup {event[e]} /\ live'[s] = live[s]
      BY <1>2, <2>4 DEF NotifySend, TypeOK
    <3> QED BY <2>1, <3>1 DEF News
  <2> QED BY <2>2, <2>3, <2>4
<1>3. ASSUME NEW t \in Streams, Forward(t) PROVE i \in News(s)
  <2>1. CASE s # t
    <3>1. chan'[s] = chan[s] /\ dropped'[s] = dropped[s] /\ live'[s] = live[s]
      BY <1>3, <2>1 DEF Forward, TypeOK
    <3> QED BY <3>1 DEF News
  <2>2. CASE s = t
    <3>1. /\ chan[s] # <<>> /\ dropped'[s] = dropped[s]
          /\ chan'[s] = Tail(chan[s]) /\ live'[s] = Append(live[s], Head(chan[s]))
      BY <1>3, <2>2 DEF Forward, TypeOK
    <3>2. Head(chan[s]) \in Events /\ Elements(chan[s]) = Elements(chan'[s]) \cup {Head(chan[s])}
      BY <3>1, ElementsTail DEF TypeOK
    <3>3. Elements(live'[s]) = Elements(live[s]) \cup {Head(chan[s])}
      BY <3>1, <3>2, ElementsAppend DEF TypeOK
    <3> QED BY <3>1, <3>2, <3>3 DEF News
  <2> QED BY <2>1, <2>2
<1>4. ASSUME NEW t \in Streams, Disconnect(t) PROVE i \in News(s)
  <2>1. CASE s # t
    <3>1. chan'[s] = chan[s] /\ dropped'[s] = dropped[s] /\ live'[s] = live[s]
      BY <1>4, <2>1 DEF Disconnect, TypeOK
    <3> QED BY <3>1 DEF News
  <2>2. CASE s = t
    <3>1. chan'[s] = <<>> /\ dropped'[s] = {} /\ live'[s] = <<>>
      BY <1>4, <2>2 DEF Disconnect, TypeOK
    <3> QED BY <3>1, ElementsEmpty DEF News
  <2> QED BY <2>1, <2>2
<1>5. ASSUME NEW e \in Emitters, Emit(e) PROVE UNCHANGED <<chan, live, dropped>>
  BY <1>5 DEF Emit, SendMessage, Broadcast, SystemEvent, AutoTransferEvent, AmbientEvent,
              Record, Unrecorded, Number
<1>6. ASSUME NEW e \in Emitters, FanOut(e)
      PROVE  UNCHANGED <<chan, live, dropped>> \/ \E t \in Streams : NotifySend(e, t)
  BY <1>6 DEF FanOut, Deliver, NotifyStart, NotifyEnd
<1>7. ASSUME NEW t \in Streams, Admit(t) \/ Serve(t) \/ Disconnect(t)
      PROVE  UNCHANGED <<chan, live, dropped>> \/ Forward(t) \/ Disconnect(t)
  BY <1>7 DEF Admit, Serve, Connected, Subscribe, Replay
<1>8. CatchUp => UNCHANGED <<chan, live, dropped>>
  BY DEF CatchUp
<1>9. ASSUME NEW e \in Emitters, NEW t \in Streams, NotifySend(e, t)
      PROVE  epc[e] = "notify" /\ UNCHANGED hub
  BY <1>9 DEF NotifySend
<1> QED BY <1>1, <1>2, <1>3, <1>4, <1>5, <1>6, <1>7, <1>8, <1>9 DEF Next, vars

(* Numbering an event leaves the ones under way and their mail alone. *)
LEMMA FanOutStep ==
  ASSUME TypeOK, NotifyOK, FanOutOK, [Next]_vars PROVE FanOutOK'
<1> USE DEF hub, stream, client
<1>1. ASSUME NEW e \in Emitters, NEW T \in SUBSET Members, Number(e, T) PROVE FanOutOK'
  <2>1. seqNum + 1 \in Events /\ seqNum + 1 \in 1..(seqNum + 1)
    BY <1>1, EventStreamAssumption DEF Number, TypeOK, Events
  <2>2. ASSUME NEW f \in Emitters, f # e, epc[f] # "idle"
        PROVE  event[f] \in 1..(seqNum + 1) /\ event[f] \in Events /\ event[f] # seqNum + 1
    BY <2>2 DEF FanOutOK, NotifyOK, TypeOK
  <2>3. \A i \in Events : targets'[i] = IF i = seqNum + 1 THEN T ELSE targets[i]
    BY <1>1 DEF Number, TypeOK
  <2>4. \A f \in Emitters : f # e =>
           epc'[f] = epc[f] /\ event'[f] = event[f] /\ mailTodo'[f] = mailTodo[f]
    BY <1>1 DEF Number, TypeOK
  <2>5. epc'[e] = "deliver" /\ event'[e] = seqNum + 1 /\ mailTodo'[e] = T
    BY <1>1 DEF Number, TypeOK
  <2>6. seqNum' = seqNum + 1 /\ delivered' = delivered
    BY <1>1 DEF Number
  <2> QED BY <2>1, <2>2, <2>3, <2>4, <2>5, <2>6 DEF FanOutOK
<1>2. ASSUME NEW e \in Emitters, NEW m \in Members, Deliver(e, m) PROVE FanOutOK'
  <2>1. \A n \in Members : delivered[n] \subseteq delivered'[n]
    BY <1>2 DEF Deliver, TypeOK
  <2>2. event[e] \in delivered'[m]
    BY <1>2 DEF Deliver, TypeOK
  <2>3. \A f \in Emitters : mailTodo'[f] = IF f = e THEN mailTodo[e] \ {m} ELSE mailTodo[f]
    BY <1>2 DEF Deliver, TypeOK
  <2>4. UNCHANGED <<epc, event, targets, seqNum>>
    BY <1>2 DEF Deliver
  <2>5. \A f \in Emitters : epc[f] # "idle" => targets[event[f]] \subseteq Members
    BY DEF NotifyOK, TypeOK
  <2> QED BY <2>1, <2>2, <2>3, <2>4, <2>5 DEF FanOutOK
<1>3. ASSUME NEW e \in Emitters, NotifyStart(e) PROVE FanOutOK'
  BY <1>3 DEF NotifyStart, TypeOK, FanOutOK
<1>4. ASSUME NEW e \in Emitters, NotifyEnd(e) PROVE FanOutOK'
  BY <1>4 DEF NotifyEnd, TypeOK, FanOutOK
<1>5. CASE UNCHANGED <<hub, delivered, epc, event, mailTodo>>
  BY <1>5 DEF FanOutOK
<1>6. ASSUME NEW e \in Emitters, Emit(e) PROVE \E T \in SUBSET Members : Number(e, T)
  BY <1>6 DEF Emit, SendMessage, Broadcast, SystemEvent, AutoTransferEvent, AmbientEvent,
              Record, Unrecorded
<1>7. ASSUME NEW e \in Emitters, NEW s \in Streams, NotifySend(e, s)
      PROVE  UNCHANGED <<hub, delivered, epc, event, mailTodo>>
  BY <1>7 DEF NotifySend
<1>8. ASSUME NEW s \in Streams, Admit(s) \/ Serve(s) \/ Disconnect(s)
      PROVE  UNCHANGED <<hub, delivered, epc, event, mailTodo>>
  BY <1>8 DEF Admit, Serve, Connected, Subscribe, Replay, Forward, Disconnect, emitter
<1>9. CatchUp => UNCHANGED <<hub, delivered, epc, event, mailTodo>>
  BY DEF CatchUp, emitter
<1> QED BY <1>1, <1>2, <1>3, <1>4, <1>5, <1>6, <1>7, <1>8, <1>9 DEF Next, FanOut, vars, emitter

(* An event that has a number keeps the mailboxes it is for, and what a    *)
(* mailbox has received stays received.                                    *)
LEMMA HubGrows ==
  ASSUME TypeOK, [Next]_vars
  PROVE  /\ seqNum <= seqNum' /\ seqNum' \in Nat
         /\ \A i \in Events : i <= seqNum => targets'[i] = targets[i]
         /\ \A m \in Members : delivered[m] \subseteq delivered'[m]
<1> USE DEF hub
<1>1. ASSUME NEW e \in Emitters, NEW T \in SUBSET Members, Number(e, T)
      PROVE  /\ seqNum <= seqNum' /\ seqNum' \in Nat
             /\ \A i \in Events : i <= seqNum => targets'[i] = targets[i]
             /\ delivered' = delivered
  <2>1. seqNum \in Nat /\ seqNum' = seqNum + 1 /\ targets' = [targets EXCEPT ![seqNum + 1] = T]
    BY <1>1 DEF Number, TypeOK
  <2>2. \A i \in Events : i <= seqNum => i # seqNum + 1
    BY <2>1 DEF Events
  <2> QED BY <1>1, <2>1, <2>2 DEF Number, TypeOK
<1>2. ASSUME NEW e \in Emitters, NEW m \in Members, Deliver(e, m)
      PROVE  UNCHANGED hub /\ \A n \in Members : delivered[n] \subseteq delivered'[n]
  BY <1>2 DEF Deliver, TypeOK
<1>3. seqNum \in Nat /\ seqNum <= seqNum
  BY DEF TypeOK
<1>4. ASSUME NEW e \in Emitters, Emit(e) PROVE \E T \in SUBSET Members : Number(e, T)
  BY <1>4 DEF Emit, SendMessage, Broadcast, SystemEvent, AutoTransferEvent, AmbientEvent,
              Record, Unrecorded
<1>5. ASSUME NEW e \in Emitters, FanOut(e)
      PROVE  UNCHANGED <<hub, delivered>> \/ \E m \in Members : Deliver(e, m)
  BY <1>5 DEF FanOut, NotifyStart, NotifySend, NotifyEnd
<1>6. ASSUME NEW s \in Streams, Admit(s) \/ Serve(s) \/ Disconnect(s)
      PROVE  UNCHANGED <<hub, delivered>>
  BY <1>6 DEF Admit, Serve, Connected, Subscribe, Replay, Forward, Disconnect
<1>7. CatchUp => UNCHANGED <<hub, delivered>>
  BY DEF CatchUp
<1> QED BY <1>1, <1>2, <1>3, <1>4, <1>5, <1>6, <1>7 DEF Next, vars

(* An event goes live on a stream only after its last mailbox has it. *)
LEMMA MailNewsStep ==
  ASSUME TypeOK, NotifyOK, FanOutOK, NewsOK, MailBeforeNews, [Next]_vars
  PROVE  NewsOK' /\ MailBeforeNews'
<1> SUFFICES ASSUME NEW s \in Streams, NEW i \in News(s)'
             PROVE  i <= seqNum' /\ \A m \in targets'[i] : i \in delivered'[m]
  BY DEF NewsOK, MailBeforeNews, News
<1>1. i \in Events /\ i <= seqNum /\ \A m \in targets[i] : i \in delivered[m]
  <2>1. CASE i \in News(s)
    BY <2>1, NewsType DEF NewsOK, MailBeforeNews, News
  <2>2. CASE \E e \in Emitters : epc[e] = "notify" /\ event[e] = i
    <3>1. PICK e \in Emitters : epc[e] = "notify" /\ event[e] = i
      BY <2>2
    <3>2. epc[e] # "idle" /\ mailTodo[e] = {} /\ i \in 1..seqNum
      BY <3>1 DEF FanOutOK
    <3>3. \A m \in targets[i] : i \in delivered[m]
      BY <3>1, <3>2 DEF FanOutOK
    <3> QED BY <3>1, <3>2, <3>3 DEF NotifyOK
  <2> QED BY <2>1, <2>2, NewsStep
<1>2. i \in Nat /\ seqNum \in Nat
  BY <1>1 DEF Events, TypeOK
<1>3. i <= seqNum' /\ targets'[i] = targets[i]
  BY <1>1, <1>2, HubGrows
<1>4. targets[i] \subseteq Members
  BY <1>1 DEF TypeOK
<1> QED BY <1>1, <1>3, <1>4, HubGrows

-----------------------------------------------------------------------------
(* No gap between replay and live stream. *)
Covered(i, s) == Reached(i, s) \/ OnItsWay(i, s) \/ (replay[s] # <<>> /\ i < replay[s][1])

(* The events that reached a stream: replayed ones and news. *)
LEMMA ReachedNews == \A i, s : Reached(i, s) <=> i \in Elements(replay[s]) \/ i \in News(s)
BY DEF Reached, News

(* A step that leaves a stream's buffers alone and takes nothing off its   *)
(* way to the stream keeps it covered.                                     *)
LEMMA QuietCover ==
  ASSUME NEW i, NEW s, Covered(i, s),
         replay'[s] = replay[s], chan'[s] = chan[s], live'[s] = live[s], dropped'[s] = dropped[s],
         OnItsWay(i, s) => OnItsWay(i, s)'
  PROVE  Covered(i, s)'
BY DEF Covered, Reached

(* An event on its way to a stream that was sent, or whose emitter has the *)
(* stream ahead of it, stays covered through every step of that stream and *)
(* of every emitter.                                                       *)
LEMMA CoverStep ==
  ASSUME TypeOK, NotifyOK, [Next]_vars, NEW s \in Streams, spc[s] = "live", spc'[s] = "live",
         NEW i, Covered(i, s)
  PROVE  Covered(i, s)'
<1> USE DEF hub, emitter, stream, client, Goto
<1>1. ASSUME NEW e \in Emitters, Emit(e) PROVE Covered(i, s)'
  <2>1. epc[e] = "idle" /\ UNCHANGED <<chanTodo, stream>>
    BY <1>1 DEF Emit, SendMessage, Broadcast, SystemEvent, AutoTransferEvent, AmbientEvent,
                Record, Unrecorded, Number
  <2>2. \A f \in Emitters : f # e => event'[f] = event[f] /\ epc'[f] = epc[f]
    BY <1>1 DEF Emit, SendMessage, Broadcast, SystemEvent, AutoTransferEvent, AmbientEvent,
                Record, Unrecorded, Number, TypeOK
  <2>3. chanTodo[e] = {}
    BY <2>1 DEF NotifyOK
  <2>4. OnItsWay(i, s) => OnItsWay(i, s)'
    BY <2>1, <2>2, <2>3 DEF OnItsWay
  <2> QED BY <2>1, <2>4, QuietCover
<1>2. ASSUME NEW e \in Emitters, NEW m \in Members, Deliver(e, m) PROVE Covered(i, s)'
  BY <1>2, QuietCover DEF Deliver, OnItsWay
<1>3. ASSUME NEW e \in Emitters, NotifyStart(e) PROVE Covered(i, s)'
  <2>1. \A f \in Emitters : epc'[f] = IF f = e THEN "notify" ELSE epc[f]
    BY <1>3 DEF NotifyStart, TypeOK
  <2>2. \A f \in Emitters : chanTodo'[f] = IF f = e THEN {t \in Streams : Subscribed(t)} ELSE chanTodo[f]
    BY <1>3 DEF NotifyStart, TypeOK
  <2>3. s \in {t \in Streams : Subscribed(t)} /\ UNCHANGED <<event, stream>>
    BY <1>3 DEF NotifyStart, Subscribed
  <2>4. OnItsWay(i, s) => OnItsWay(i, s)'
    BY <2>1, <2>2, <2>3 DEF OnItsWay
  <2> QED BY <2>3, <2>4, QuietCover
<1>4. ASSUME NEW e \in Emitters, NotifyEnd(e) PROVE Covered(i, s)'
  <2>1. epc[e] = "notify" /\ chanTodo[e] = {} /\ UNCHANGED <<chanTodo, stream>>
    BY <1>4 DEF NotifyEnd
  <2>2. \A f \in Emitters : f # e => event'[f] = event[f] /\ epc'[f] = epc[f]
    BY <1>4 DEF NotifyEnd, TypeOK
  <2>3. OnItsWay(i, s) => OnItsWay(i, s)'
    BY <2>1, <2>2 DEF OnItsWay
  <2> QED BY <2>1, <2>3, QuietCover
<1>5. ASSUME NEW e \in Emitters, NEW t \in Streams, NotifySend(e, t) PROVE Covered(i, s)'
  <2>1. \A f \in Emitters : chanTodo'[f] = IF f = e THEN chanTodo[e] \ {t} ELSE chanTodo[f]
    BY <1>5 DEF NotifySend, TypeOK
  <2>2. UNCHANGED <<event, epc, replay, live>> /\ epc[e] = "notify" /\ event[e] \in Events
    BY <1>5 DEF NotifySend, NotifyOK
  <2>3. CASE s # t
    <3>1. chan'[s] = chan[s] /\ dropped'[s] = dropped[s]
      BY <1>5, <2>3 DEF NotifySend, TypeOK
    <3>2. OnItsWay(i, s) => OnItsWay(i, s)'
      BY <2>1, <2>2, <2>3 DEF OnItsWay
    <3> QED BY <2>2, <3>1, <3>2, QuietCover
  <2>4. CASE s = t
    <3>1. News(s)' = News(s) \cup {event[e]}
      <4>1. CASE Len(chan[s]) < ChanCap
        <5>1. chan'[s] = Append(chan[s], event[e]) /\ dropped'[s] = dropped[s]
          BY <1>5, <2>4, <4>1 DEF NotifySend, TypeOK
        <5>2. Elements(chan'[s]) = Elements(chan[s]) \cup {event[e]}
          BY <2>2, <5>1, ElementsAppend DEF TypeOK
        <5> QED BY <2>2, <5>1, <5>2 DEF News
      <4>2. CASE ~(Len(chan[s]) < ChanCap)
        <5>1. chan'[s] = chan[s] /\ dropped'[s] = dropped[s] \cup {event[e]}
          BY <1>5, <2>4, <4>2 DEF NotifySend, TypeOK
        <5> QED BY <2>2, <5>1 DEF News
      <4> QED BY <4>1, <4>2
    <3>2. OnItsWay(i, s) => OnItsWay(i, s)' \/ i = event[e]
      BY <2>1, <2>2 DEF OnItsWay
    <3>3. \A j : Reached(j, s)' <=> j \in Elements(replay[s]) \/ j \in News(s)'
      BY <2>2 DEF Reached, News
    <3> QED BY <2>2, <3>1, <3>2, <3>3, ReachedNews DEF Covered
  <2> QED BY <2>3, <2>4
<1>6. ASSUME NEW t \in Streams, Forward(t) PROVE Covered(i, s)'
  <2>1. UNCHANGED <<emitter, replay, dropped>>
    BY <1>6 DEF Forward
  <2>2. OnItsWay(i, s) => OnItsWay(i, s)'
    BY <2>1 DEF OnItsWay
  <2>3. CASE s # t
    <3>1. chan'[s] = chan[s] /\ live'[s] = live[s]
      BY <1>6, <2>3 DEF Forward, TypeOK
    <3> QED BY <2>1, <2>2, <3>1, QuietCover
  <2>4. CASE s = t
    <3>1. chan[s] # <<>> /\ chan'[s] = Tail(chan[s]) /\ live'[s] = Append(live[s], Head(chan[s]))
      BY <1>6, <2>4 DEF Forward, TypeOK
    <3>2. Head(chan[s]) \in Events /\ Elements(chan[s]) = Elements(chan'[s]) \cup {Head(chan[s])}
      BY <3>1, ElementsTail DEF TypeOK
    <3>3. Elements(live'[s]) = Elements(live[s]) \cup {Head(chan[s])}
      BY <3>1, <3>2, ElementsAppend DEF TypeOK
    <3> QED BY <2>1, <2>2, <3>2, <3>3 DEF Covered, Reached
  <2> QED BY <2>3, <2>4
<1>7. ASSUME NEW t \in Streams, Replay(t) PROVE Covered(i, s)'
  <2>1. s # t
    BY <1>7 DEF Replay
  <2> QED BY <1>7, <2>1, QuietCover DEF Replay, TypeOK, OnItsWay
<1>8. ASSUME NEW t \in Streams, Disconnect(t) PROVE Covered(i, s)'
  <2>1. s # t
    BY <1>8 DEF Disconnect, TypeOK
  <2> QED BY <1>8, <2>1, QuietCover DEF Disconnect, TypeOK, OnItsWay
<1>9. CASE UNCHANGED <<emitter, chan, replay, live, dropped>>
  BY <1>9, QuietCover DEF OnItsWay
<1>10. ASSUME NEW t \in Streams, Admit(t) \/ Connected(t) \/ Subscribe(t)
       PROVE  UNCHANGED <<emitter, chan, replay, live, dropped>>
  BY <1>10 DEF Admit, Connected, Subscribe
<1>11. CatchUp => UNCHANGED <<emitter, chan, replay, live, dropped>>
  BY DEF CatchUp
<1> QED
  BY <1>1, <1>2, <1>3, <1>4, <1>5, <1>6, <1>7, <1>8, <1>9, <1>10, <1>11
     DEF Next, FanOut, Serve, vars

(* A message that is recorded is on its way to every stream, and a stream  *)
(* that goes live has subscribed before it reads the history: what is in   *)
(* the history is replayed, what is not is older than all of it.           *)
LEMMA NoGapStep ==
  ASSUME TypeOK, NotifyOK, HistoryOK, NoGapInStream, [Next]_vars PROVE NoGapInStream'
<1> SUFFICES ASSUME NEW s \in Streams, spc'[s] = "live", NEW i \in recorded' PROVE Covered(i, s)'
  BY DEF NoGapInStream, Covered
<1>1. CASE i \notin recorded
  <2>1. PICK e \in Emitters, T \in SUBSET Members : Record(e, T) /\ i = seqNum + 1
    <3>1. \/ \E e \in Emitters : Emit(e) \/ FanOut(e)
          \/ \E t \in Streams : Admit(t) \/ Serve(t) \/ Disconnect(t)
          \/ CatchUp \/ UNCHANGED vars
      BY DEF Next
    <3>2. ASSUME NEW e \in Emitters, FanOut(e) PROVE recorded' = recorded
      BY <3>2 DEF FanOut, Deliver, NotifyStart, NotifySend, NotifyEnd, hub
    <3>3. ASSUME NEW t \in Streams, Admit(t) \/ Serve(t) \/ Disconnect(t) PROVE recorded' = recorded
      BY <3>3 DEF Admit, Serve, Connected, Subscribe, Replay, Forward, Disconnect, hub
    <3>4. CatchUp \/ UNCHANGED vars => recorded' = recorded
      BY DEF CatchUp, vars, hub
    <3>5. ASSUME NEW e \in Emitters, Emit(e)
          PROVE  \E T \in SUBSET Members : Record(e, T) \/ Unrecorded(e, T)
      BY <3>5 DEF Emit, SendMessage, Broadcast, SystemEvent, AutoTransferEvent, AmbientEvent
    <3>6. ASSUME NEW e \in Emitters, NEW T \in SUBSET Members, Unrecorded(e, T)
          PROVE  recorded' = recorded
      BY <3>6 DEF Unrecorded
    <3>7. ASSUME NEW e \in Emitters, NEW T \in SUBSET Members, Record(e, T) PROVE i = seqNum + 1
      BY <1>1, <3>7 DEF Record
    <3> QED BY <1>1, <3>1, <3>2, <3>3, <3>4, <3>5, <3>6, <3>7
  <2>2. event'[e] = i /\ epc'[e] = "deliver"
    BY <2>1 DEF Record, Number, TypeOK
  <2> QED BY <2>2 DEF Covered, OnItsWay
<1>2. CASE i \in recorded /\ spc[s] = "live"
  <2>1. Covered(i, s)
    BY <1>2 DEF NoGapInStream, Covered
  <2> QED BY <1>2, <2>1, CoverStep
<1>3. CASE i \in recorded /\ spc[s] # "live"
  <2>1. Replay(s)
    <3>1. ASSUME NEW e \in Emitters, Emit(e) \/ FanOut(e) PROVE spc' = spc
      BY <3>1 DEF Emit, SendMessage, Broadcast, SystemEvent, AutoTransferEvent, AmbientEvent,
              Record, Unrecorded, Number, FanOut, Deliver, NotifyStart, NotifySend, NotifyEnd, stream
    <3>2. CatchUp \/ UNCHANGED vars => spc' = spc
      BY DEF CatchUp, vars, stream
    <3>3. ASSUME NEW t \in Streams, Admit(t) \/ Connected(t) \/ Subscribe(t) \/ Disconnect(t)
          PROVE  spc'[s] # "live"
      BY <1>3, <3>3 DEF Admit, Connected, Subscribe, Disconnect, Goto, TypeOK
    <3>4. ASSUME NEW t \in Streams, Forward(t) PROVE spc' = spc
      BY <3>4 DEF Forward
    <3>5. ASSUME NEW t \in Streams, Replay(t) PROVE t = s
      BY <1>3, <3>5 DEF Replay, Goto, TypeOK
    <3> QED BY <1>3, <3>1, <3>2, <3>3, <3>4, <3>5 DEF Next, Serve
  <2>2. replay'[s] = history
    BY <2>1 DEF Replay, TypeOK
  <2>3. history # <<>> /\ 1 \in DOMAIN history
    <3>1. history # <<>> /\ history \in Seq(Events)
      BY <1>3 DEF HistoryOK, TypeOK
    <3>2. Len(history) \in Nat \ {0}
      BY <3>1, EmptySeq
    <3> QED BY <3>1, <3>2, HistoryShape
  <2>4. i \in Elements(history) \/ i < history[1]
    BY <1>3, <2>3 DEF HistoryOK, HistoryOrdered
  <2> QED BY <2>2, <2>3, <2>4 DEF Covered, Reached
<1> QED BY <1>1, <1>2, <1>3

-----------------------------------------------------------------------------
(* The initial state satisfies the invariant: there are no events. *)
LEMMA InvInit == Init => StreamInv
<1> SUFFICES ASSUME Init PROVE StreamInv
  OBVIOUS
<1>1. TypeOK /\ NotifyOK
  BY TypeInit
<1>2. history = <<>> /\ Len(history) = 0 /\ DOMAIN history = {}
  <2>1. history = <<>> /\ Len(history) = 0
    BY ElementsEmpty, EmptySeq DEF Init
  <2> QED BY <1>1, <2>1, HistoryShape
<1>3. HistoryOK /\ CatchUpComplete
  BY <1>2, EventStreamAssumption DEF Init, HistoryOK, HistoryOrdered, CatchUpComplete
<1>4. FanOutOK /\ NoGapInStream
  BY DEF Init, FanOutOK, NoGapInStream
<1>5. \A s \in Streams : News(s) = {}
  BY ElementsEmpty DEF Init, News
<1>6. NewsOK /\ MailBeforeNews
  BY <1>5 DEF NewsOK, MailBeforeNews, News
<1> QED BY <1>1, <1>3, <1>4, <1>6 DEF StreamInv

(* Every step keeps the invariant. *)
LEMMA InvStep == StreamInv /\ [Next]_vars => StreamInv'
BY TypeStep, HistoryStep, FanOutStep, MailNewsStep, NoGapStep DEF StreamInv

(* The invariant holds in every reachable state. *)
LEMMA InvCorrect == Spec => []StreamInv
BY InvInit, InvStep, PTL DEF Spec

(* recordEnvelope's comment "history order always matches sequence order":  *)
(* however emitters interleave, the history is strictly increasing, bounded *)
(* and misses no recorded message from its first entry on.                  *)
THEOREM HistoryInOrder == Spec => []HistoryOrdered
<1>1. StreamInv => HistoryOrdered
  BY DEF StreamInv, HistoryOK
<1> QED BY <1>1, InvCorrect, PTL

(* SendMessage and Broadcast deliver before they notify: whoever sees a    *)
(* live event finds it already in every mailbox it is for.                 *)
THEOREM MailArrivesBeforeNews == Spec => []MailBeforeNews
<1>1. StreamInv => MailBeforeNews
  BY DEF StreamInv
<1> QED BY <1>1, InvCorrect, PTL

(* handleSSE subscribes before it reads the history: between replay and    *)
(* live events no message is missing on any stream, unless its channel was *)
(* full.                                                                   *)
THEOREM StreamsHaveNoGap == Spec => []NoGapInStream
<1>1. StreamInv => NoGapInStream
  BY DEF StreamInv
<1> QED BY <1>1, InvCorrect, PTL

(* GetHistoryAfter: a client that pages through the history, with any page *)
(* size and while the history is appended to and trimmed, skips nothing    *)
(* that is still in it.                                                    *)
THEOREM PagingSkipsNothing == Spec => []CatchUpComplete
<1>1. StreamInv => CatchUpComplete
  BY DEF StreamInv
<1> QED BY <1>1, InvCorrect, PTL
-----------------------------------------------------------------------------
(* The command line client *)

(* Positions of q are in order, except for events that are excused. *)
Increasing(q) == \A j, k \in DOMAIN q : j < k /\ q[k] \notin excused => q[j] <= q[k]

(* Nothing in p comes after an event of q, except for those. *)
Ahead(p, q) == \A i \in Elements(p), j \in Elements(q) : j \notin excused => i <= j

(* A stream has nothing on it before it is subscribed, and nothing was      *)
(* written to it before the replay.                                         *)
QuietOK ==
  \A s \in Streams : /\ spc[s] # "live" => replay[s] = <<>> /\ live[s] = <<>>
                     /\ ~Subscribed(s) => chan[s] = <<>> /\ dropped[s] = {}

(* Of the events being fanned out only the newest is not excused ... *)
FlightOK == \A e \in Emitters : event[e] \in excused \cup {0, seqNum}

(* ... so every stream has its live events in order, behind a replay that   *)
(* is in order.                                                             *)
StreamOrder(s) ==
  /\ Increasing(chan[s]) /\ Increasing(live[s]) /\ Ahead(live[s], chan[s])
  /\ \A j, k \in DOMAIN replay[s] : j < k => replay[s][j] < replay[s][k]
  /\ \A i \in Elements(replay[s]) : i <= seqNum
StreamOK == \A s \in Streams : StreamOrder(s)

(* ... and so has the mailbox, with the response under way before it. *)
MailOK ==
  /\ box \in Seq(Events) /\ response \in Seq(Events)
  /\ Elements(box) \subseteq delivered[Me] /\ Elements(response) \subseteq delivered[Me]
  /\ \A i \in delivered[Me] : i <= seqNum
  /\ \A j, k \in DOMAIN box : j < k /\ box[k] \notin excused => box[j] < box[k]
  /\ \A j, k \in DOMAIN response : j < k /\ response[k] \notin excused => response[j] < response[k]
  /\ \A i \in Elements(response), j \in Elements(box) : j \notin excused => i < j

(* The client drains before it reads any frame, and its mark is 0 or the    *)
(* number of something it has shown.                                        *)
ReaderOK ==
  /\ conn \in Streams \cup {NoStream} /\ frame \in Nat
  /\ draining => frame = 0 /\ conn # NoStream
  /\ ~draining => response = <<>>
  /\ conn = NoStream => frame = 0
  /\ lastSeq \in 0..seqNum /\ (lastSeq # 0 => lastSeq \in shown)

(* The mark covers the frames it has read. *)
ReadOK ==
  conn # NoStream =>
    /\ \A k \in DOMAIN replay[conn] : k < frame => replay[conn][k] <= lastSeq
    /\ \A k \in DOMAIN live[conn] : k + Len(replay[conn]) < frame => live[conn][k] <= lastSeq
    /\ frame <= Len(replay[conn]) + Len(live[conn]) + 1

(* On the client's stream what was dropped is excused.  Past the drain and  *)
(* the replay, mail in the mailbox is in the replay, or comes live and the  *)
(* replay has nothing newer.                                                *)
Expected(i) ==
  \/ i \in excused \/ i \in Elements(replay[conn])
  \/ Covered(i, conn) /\ \A j \in Elements(replay[conn]) : j < i

LiveOK ==
  conn # NoStream =>
    /\ dropped[conn] \subseteq excused
    /\ spc[conn] = "live" /\ (draining \/ frame > 0) => \A i \in Elements(box) : Expected(i)

CLIInv == /\ StreamInv /\ QuietOK /\ FlightOK /\ StreamOK /\ MailOK /\ ReaderOK /\ ReadOK /\ LiveOK
          /\ MailShown

-----------------------------------------------------------------------------
(* What a step of the server does to the client's mailbox and to the excuses. *)
Follow ==
  /\ box' = box \o (IF delivered'[Me] = delivered[Me] THEN <<>>
                    ELSE <<CHOOSE i \in delivered'[Me] : i \notin delivered[Me]>>)
  /\ excused' = excused \cup Overtakable \cup DroppedNow
  /\ UNCHANGED reader

Client == Cut \/ Drain \/ DrainFails \/ DrainDisplay \/ DrainLost \/ Read

(* The steps of the composition: the server's, which the client's mailbox *)
(* and the excuses follow, and the client's.                              *)
LEMMA CLIKinds ==
  ASSUME CLINext
  PROVE  \/ \E e \in Emitters : Follow /\ Emit(e)
         \/ \E e \in Emitters, m \in Members : Follow /\ Deliver(e, m)
         \/ \E e \in Emitters : Follow /\ (NotifyStart(e) \/ NotifyEnd(e))
         \/ \E e \in Emitters, s \in Streams : Follow /\ NotifySend(e, s)
         \/ \E s \in Streams : Follow /\ (Connected(s) \/ Subscribe(s))
         \/ \E s \in Streams : Follow /\ Forward(s)
         \/ \E s \in Streams : ServerReplay(s) \/ ServerDisconnect(s) \/ Watch(s)
         \/ Client
<1>1. ASSUME NEW e \in Emitters, ServerEmit(e) \/ ServerFanOut(e)
      PROVE  \/ Follow /\ Emit(e)
             \/ \E m \in Members : Follow /\ Deliver(e, m)
             \/ Follow /\ (NotifyStart(e) \/ NotifyEnd(e))
             \/ \E s \in Streams : Follow /\ NotifySend(e, s)
  <2>1. CASE ServerEmit(e)
    BY <2>1 DEF ServerEmit, Server, Follow
  <2>2. CASE ServerFanOut(e)
    <3>1. FanOut(e) /\ Follow
      BY <2>2 DEF ServerFanOut, Server, Follow
    <3> QED BY <3>1 DEF FanOut
  <2> QED BY <1>1, <2>1, <2>2
<1>2. ASSUME NEW s \in Streams, ServerStream(s)
      PROVE  \/ Follow /\ (Connected(s) \/ Subscribe(s))
             \/ Follow /\ Forward(s)
             \/ ServerReplay(s)
  <2>1. ((Connected(s) \/ Subscribe(s) \/ Forward(s)) /\ Follow) \/ ServerReplay(s)
    BY <1>2 DEF ServerStream, Server, Follow
  <2> QED BY <2>1
<1> QED BY <1>1, <1>2 DEF CLINext, Client, DrainEnds

(* The client sees the server of EventStream at work. *)
LEMMA ServerNext == ASSUME CLINext PROVE [Next]_vars
<1>1. Client => UNCHANGED vars
  BY DEF Client, Cut, Drain, DrainFails, DrainDisplay, DrainLost, Read
<1>2. \A s \in Streams : ServerReplay(s) \/ ServerDisconnect(s) \/ Watch(s) =>
        Replay(s) \/ Disconnect(s) \/ Admit(s)
  BY DEF ServerReplay, ServerDisconnect, Watch
<1> QED BY <1>1, <1>2, CLIKinds DEF Next, FanOut, Serve

(* No excuse is taken back. *)
LEMMA ExcusesStay == ASSUME CLINext PROVE excused \subseteq excused'
<1>1. Follow => excused \subseteq excused'
  BY DEF Follow
<1>2. \A s \in Streams : ServerReplay(s) \/ ServerDisconnect(s) \/ Watch(s) => excused \subseteq excused'
  BY DEF ServerReplay, ServerDisconnect, Watch
<1>3. Client => excused \subseteq excused'
  BY DEF Client, Cut, Drain, DrainFails, DrainDisplay, DrainLost, Read
<1> QED BY <1>1, <1>2, <1>3, CLIKinds

(* Every event on its way that a newer one may overtake is excused. *)
LEMMA FlightStep ==
  ASSUME TypeOK, FlightOK, CLINext PROVE FlightOK'
<1>0. excused \subseteq excused'
  BY ExcusesStay
<1>1. ASSUME NEW e \in Emitters, Follow, Emit(e) PROVE FlightOK'
  <2>1. PICK T \in SUBSET Members : Number(e, T)
    BY <1>1 DEF Emit, SendMessage, Broadcast, SystemEvent, AutoTransferEvent, AmbientEvent, Record,
                Unrecorded
  <2>2. seqNum' = seqNum + 1 /\ seqNum \in Nat
    BY <2>1 DEF Number, TypeOK
  <2>3. event'[e] = seqNum + 1 /\ \A f \in Emitters : f # e => event'[f] = event[f]
    BY <2>1 DEF Number, TypeOK
  <2>4. \A f \in Emitters : event[f] \in excused' \cup {0}
    BY <1>1, <2>2 DEF Follow, Overtakable
  <2> QED BY <2>2, <2>3, <2>4 DEF FlightOK
<1>2. CASE seqNum' = seqNum /\ \A e \in Emitters : event'[e] \in {event[e], 0}
  BY <1>0, <1>2 DEF FlightOK
<1>3. ASSUME NEW e \in Emitters, \E m \in Members : Deliver(e, m)
      PROVE  seqNum' = seqNum /\ event' = event
  BY <1>3 DEF Deliver, hub
<1>4. ASSUME NEW e \in Emitters, NotifyStart(e) \/ NotifyEnd(e)
      PROVE  seqNum' = seqNum /\ \A f \in Emitters : event'[f] \in {event[f], 0}
  BY <1>4 DEF NotifyStart, NotifyEnd, hub, TypeOK
<1>5. ASSUME NEW e \in Emitters, NEW s \in Streams, NotifySend(e, s)
      PROVE  seqNum' = seqNum /\ event' = event
  BY <1>5 DEF NotifySend, hub
<1>6. ASSUME NEW s \in Streams,
             \/ Connected(s) \/ Subscribe(s) \/ Forward(s)
             \/ ServerReplay(s) \/ ServerDisconnect(s) \/ Watch(s)
      PROVE  seqNum' = seqNum /\ event' = event
  BY <1>6 DEF Connected, Subscribe, Forward, ServerReplay, Replay, ServerDisconnect, Disconnect, Watch,
              Admit, hub, emitter
<1>7. Client => seqNum' = seqNum /\ event' = event
  BY DEF Client, Cut, Drain, DrainFails, DrainDisplay, DrainLost, Read, vars, hub, emitter
<1> QED BY <1>1, <1>2, <1>3, <1>4, <1>5, <1>6, <1>7, CLIKinds

(* Events enter and leave a stream only while it is open. *)
LEMMA QuietStep ==
  ASSUME TypeOK, QuietOK, [Next]_vars PROVE QuietOK'
<1> USE DEF Subscribed
<1>1. CASE UNCHANGED stream
  BY <1>1 DEF stream, QuietOK
<1>2. ASSUME NEW e \in Emitters, NEW s \in Streams, NotifySend(e, s) PROVE QuietOK'
  BY <1>2 DEF NotifySend, TypeOK, QuietOK
<1>3. ASSUME NEW s \in Streams, Admit(s) \/ Connected(s) \/ Subscribe(s) PROVE QuietOK'
  BY <1>3 DEF Admit, Connected, Subscribe, Goto, TypeOK, QuietOK
<1>4. ASSUME NEW s \in Streams, Replay(s) PROVE QuietOK'
  BY <1>4 DEF Replay, Goto, TypeOK, QuietOK
<1>5. ASSUME NEW s \in Streams, Forward(s) PROVE QuietOK'
  BY <1>5 DEF Forward, TypeOK, QuietOK
<1>6. ASSUME NEW s \in Streams, Disconnect(s) PROVE QuietOK'
  BY <1>6 DEF Disconnect, Goto, TypeOK, QuietOK
<1>7. ASSUME NEW e \in Emitters, Emit(e) PROVE UNCHANGED stream
  BY <1>7 DEF Emit, SendMessage, Broadcast, SystemEvent, AutoTransferEvent, AmbientEvent,
              Record, Unrecorded, Number
<1>8. ASSUME NEW e \in Emitters, FanOut(e)
      PROVE  UNCHANGED stream \/ \E s \in Streams : NotifySend(e, s)
  BY <1>8 DEF FanOut, Deliver, NotifyStart, NotifyEnd
<1>9. CatchUp => UNCHANGED stream
  BY DEF CatchUp
<1> QED BY <1>1, <1>2, <1>3, <1>4, <1>5, <1>6, <1>7, <1>8, <1>9 DEF Next, Serve, vars

-----------------------------------------------------------------------------
(* What is on the streams stays in order. *)

(* Appending, by position. *)
LEMMA AppendAt ==
  ASSUME NEW S, NEW q \in Seq(S), NEW x \in S
  PROVE  /\ \A k \in DOMAIN Append(q, x) : \/ k \in DOMAIN q /\ Append(q, x)[k] = q[k]
                                           \/ Append(q, x)[k] = x /\ \A j \in DOMAIN q : j < k
         /\ \A j, k \in DOMAIN Append(q, x) : j < k => j \in DOMAIN q /\ Append(q, x)[j] = q[j]
         /\ DOMAIN Append(q, x) \subseteq Nat
<1>1. /\ Append(q, x) \in Seq(S) /\ Len(Append(q, x)) = Len(q) + 1 /\ Len(q) \in Nat
      /\ Append(q, x)[Len(q) + 1] = x
      /\ \A k \in 1..Len(q) : Append(q, x)[k] = q[k]
  OBVIOUS
<1>2. DOMAIN q = 1..Len(q) /\ DOMAIN Append(q, x) = 1..(Len(q) + 1)
  BY <1>1, LenProperties
<1> QED BY <1>1, <1>2

(* Removing the head, by position. *)
LEMMA TailAt ==
  ASSUME NEW S, NEW q \in Seq(S), q # <<>>
  PROVE  /\ \A k \in DOMAIN Tail(q) : k + 1 \in DOMAIN q /\ Tail(q)[k] = q[k + 1] /\ k \in Nat \ {0}
         /\ 1 \in DOMAIN q /\ Head(q) = q[1]
<1>1. /\ Tail(q) \in Seq(S) /\ Len(Tail(q)) = Len(q) - 1
      /\ \A k \in 1..Len(Tail(q)) : Tail(q)[k] = q[k + 1]
  BY HeadTailProperties
<1>2. Len(q) \in Nat \ {0} /\ Head(q) = q[1]
  BY EmptySeq
<1>3. DOMAIN q = 1..Len(q) /\ DOMAIN Tail(q) = 1..(Len(q) - 1)
  BY <1>1, LenProperties
<1> QED BY <1>1, <1>2, <1>3

(* Events on a stream have numbers up to the counter. *)
LEMMA StreamBound ==
  ASSUME TypeOK, NewsOK, NEW s \in Streams
  PROVE  /\ chan[s] \in Seq(Events) /\ live[s] \in Seq(Events) /\ replay[s] \in Seq(Events)
         /\ \A i \in Elements(chan[s]) : i \in Nat /\ i <= seqNum
         /\ \A i \in Elements(live[s]) : i \in Nat /\ i <= seqNum
         /\ seqNum \in Nat /\ Events \subseteq Nat
<1>1. chan[s] \in Seq(Events) /\ live[s] \in Seq(Events) /\ replay[s] \in Seq(Events) /\ Events \subseteq Nat
  BY DEF TypeOK, Events
<1>2. Elements(chan[s]) \subseteq Events /\ Elements(live[s]) \subseteq Events
  BY <1>1, ElementsIn
<1>3. seqNum \in Nat
  BY DEF TypeOK
<1> QED BY <1>1, <1>2, <1>3 DEF NewsOK, News

(* More excuses do not disturb the order. *)
LEMMA OrderKept ==
  ASSUME TypeOK, NEW s \in Streams, StreamOrder(s), excused \subseteq excused',
         seqNum \in Nat, seqNum' \in Nat, seqNum <= seqNum',
         chan'[s] = chan[s], live'[s] = live[s], replay'[s] = replay[s]
  PROVE  StreamOrder(s)'
<1>1. replay[s] \in Seq(Events) /\ Events \subseteq Nat
  BY DEF TypeOK, Events
<1>2. Elements(replay[s]) \subseteq Nat
  BY <1>1, ElementsIn
<1>3. \A i \in Elements(replay[s]) : i <= seqNum'
  BY <1>2 DEF StreamOrder
<1>4. Increasing(chan[s])' /\ Increasing(live[s])' /\ Ahead(live[s], chan[s])'
  BY DEF StreamOrder, Increasing, Ahead, Elements
<1> QED BY <1>3, <1>4 DEF StreamOrder

(* What can happen to a stream in one step. *)
LEMMA StreamMoves ==
  ASSUME TypeOK, CLINext, NEW s \in Streams
  PROVE  \/ chan'[s] = chan[s] /\ live'[s] = live[s] /\ replay'[s] = replay[s]
         \/ Forward(s) \/ Replay(s) \/ Disconnect(s) \/ \E e \in Emitters : NotifySend(e, s)
<1>1. ASSUME NEW e \in Emitters, Emit(e) PROVE UNCHANGED stream
  BY <1>1 DEF Emit, SendMessage, Broadcast, SystemEvent, AutoTransferEvent, AmbientEvent,
              Record, Unrecorded, Number
<1>2. ASSUME NEW e \in Emitters, NotifyStart(e) \/ NotifyEnd(e) \/ \E m \in Members : Deliver(e, m)
      PROVE  UNCHANGED stream
  BY <1>2 DEF NotifyStart, NotifyEnd, Deliver
<1>3. Client => UNCHANGED stream
  BY DEF Client, Cut, Drain, DrainFails, DrainDisplay, DrainLost, Read, vars
<1>4. ASSUME NEW e \in Emitters, NEW t \in Streams, t # s, NotifySend(e, t)
      PROVE  chan'[s] = chan[s] /\ live'[s] = live[s] /\ replay'[s] = replay[s]
  BY <1>4 DEF NotifySend, TypeOK
<1>5. ASSUME NEW t \in Streams, t # s,
             Forward(t) \/ ServerReplay(t) \/ ServerDisconnect(t)
      PROVE  chan'[s] = chan[s] /\ live'[s] = live[s] /\ replay'[s] = replay[s]
  BY <1>5 DEF Forward, ServerReplay, Replay, ServerDisconnect, Disconnect, TypeOK
<1>6. ASSUME NEW t \in Streams, Connected(t) \/ Subscribe(t) \/ Watch(t)
      PROVE  UNCHANGED <<chan, live, replay>>
  BY <1>6 DEF Connected, Subscribe, Watch, Admit
<1>7. (ServerReplay(s) => Replay(s)) /\ (ServerDisconnect(s) => Disconnect(s))
  BY DEF ServerReplay, ServerDisconnect
<1> QED BY <1>1, <1>2, <1>3, <1>4, <1>5, <1>6, <1>7, CLIKinds DEF stream

(* Every step keeps the streams in order. *)
LEMMA StreamStep ==
  ASSUME StreamInv, QuietOK, FlightOK, StreamOK, CLINext
  PROVE  StreamOK'
<1> SUFFICES ASSUME NEW s \in Streams PROVE StreamOrder(s)'
  BY DEF StreamOK
<1>0. /\ TypeOK /\ NotifyOK /\ HistoryOK /\ NewsOK /\ StreamOrder(s)
      /\ excused \subseteq excused' /\ seqNum \in Nat /\ seqNum' \in Nat /\ seqNum <= seqNum'
  <2>1. TypeOK /\ NotifyOK /\ HistoryOK /\ NewsOK /\ StreamOrder(s)
    BY DEF StreamInv, StreamOK
  <2>2. excused \subseteq excused' /\ [Next]_vars
    BY ExcusesStay, ServerNext
  <2>3. seqNum \in Nat /\ seqNum' \in Nat /\ seqNum <= seqNum'
    BY <2>1, <2>2, HubGrows DEF TypeOK
  <2> QED BY <2>1, <2>2, <2>3
<1>1. CASE chan'[s] = chan[s] /\ live'[s] = live[s] /\ replay'[s] = replay[s]
  BY <1>0, <1>1, OrderKept
<1>2. ASSUME NEW e \in Emitters, NotifySend(e, s) PROVE StreamOrder(s)'
  <2>1. UNCHANGED <<live, replay, seqNum>> /\ event[e] \in Events /\ event[e] \in excused \cup {seqNum}
    <3>1. event[e] \in Events /\ 0 \notin Events
      BY <1>0, <1>2 DEF NotifySend, NotifyOK, Events
    <3> QED BY <1>2, <3>1 DEF NotifySend, FlightOK, hub
  <2>2. CASE Len(chan[s]) < ChanCap
    <3>1. chan'[s] = Append(chan[s], event[e])
      BY <1>0, <1>2, <2>2 DEF NotifySend, TypeOK
    <3>2. /\ chan[s] \in Seq(Events) /\ \A i \in Elements(chan[s]) : i \in Nat /\ i <= seqNum
          /\ \A i \in Elements(live[s]) : i \in Nat /\ i <= seqNum
      BY <1>0, StreamBound
    <3>3. Elements(chan'[s]) = Elements(chan[s]) \cup {event[e]}
      BY <2>1, <3>1, <3>2, ElementsAppend
    <3>4. Increasing(chan[s])'
      <4> SUFFICES ASSUME NEW j \in DOMAIN chan'[s], NEW k \in DOMAIN chan'[s], j < k,
                          chan'[s][k] \notin excused'
                   PROVE  chan'[s][j] <= chan'[s][k]
        BY DEF Increasing
      <4>1. j \in DOMAIN chan[s] /\ chan'[s][j] = chan[s][j]
        BY <2>1, <3>1, <3>2, AppendAt
      <4>2. CASE k \in DOMAIN chan[s] /\ chan'[s][k] = chan[s][k]
        BY <1>0, <4>1, <4>2 DEF StreamOrder, Increasing
      <4>3. CASE chan'[s][k] = event[e]
        BY <1>0, <2>1, <3>2, <4>1, <4>3 DEF Elements
      <4> QED BY <2>1, <3>1, <3>2, <4>2, <4>3, AppendAt
    <3>5. Increasing(live[s])'
      BY <1>0, <2>1 DEF StreamOrder, Increasing
    <3>6. Ahead(live[s], chan[s])'
      <4> SUFFICES ASSUME NEW i \in Elements(live[s]), NEW j \in Elements(chan'[s]), j \notin excused'
                   PROVE  i <= j
        BY <2>1 DEF Ahead
      <4>1. CASE j \in Elements(chan[s])
        BY <1>0, <4>1 DEF StreamOrder, Ahead
      <4>2. CASE j = event[e]
        BY <1>0, <2>1, <3>2, <4>2
      <4> QED BY <3>3, <4>1, <4>2
    <3>7. /\ \A j, k \in DOMAIN replay'[s] : j < k => replay'[s][j] < replay'[s][k]
          /\ \A i \in Elements(replay'[s]) : i <= seqNum'
      BY <1>0, <2>1 DEF StreamOrder
    <3> QED BY <3>4, <3>5, <3>6, <3>7 DEF StreamOrder
  <2>3. CASE ~(Len(chan[s]) < ChanCap)
    <3>1. chan'[s] = chan[s]
      BY <1>2, <2>3 DEF NotifySend
    <3> QED BY <1>1, <2>1, <3>1
  <2> QED BY <2>2, <2>3
<1>3. CASE Forward(s)
  <2>1. /\ chan[s] # <<>> /\ chan'[s] = Tail(chan[s]) /\ live'[s] = Append(live[s], Head(chan[s]))
        /\ UNCHANGED <<replay, seqNum>>
    BY <1>0, <1>3 DEF Forward, TypeOK, hub
  <2>2. /\ chan[s] \in Seq(Events) /\ live[s] \in Seq(Events)
        /\ \A i \in Elements(chan[s]) : i \in Nat /\ i <= seqNum
        /\ \A i \in Elements(live[s]) : i \in Nat /\ i <= seqNum
    BY <1>0, StreamBound
  <2>3. /\ Head(chan[s]) \in Events /\ Elements(chan[s]) = Elements(chan'[s]) \cup {Head(chan[s])}
        /\ Elements(live'[s]) = Elements(live[s]) \cup {Head(chan[s])}
    BY <2>1, <2>2, ElementsTail, ElementsAppend
  <2>4. Increasing(chan[s])'
    <3> SUFFICES ASSUME NEW j \in DOMAIN chan'[s], NEW k \in DOMAIN chan'[s], j < k,
                        chan'[s][k] \notin excused'
                 PROVE  chan'[s][j] <= chan'[s][k]
      BY DEF Increasing
    <3>1. /\ j + 1 \in DOMAIN chan[s] /\ chan'[s][j] = chan[s][j + 1]
          /\ k + 1 \in DOMAIN chan[s] /\ chan'[s][k] = chan[s][k + 1] /\ j + 1 < k + 1
      BY <2>1, <2>2, TailAt
    <3> QED BY <1>0, <3>1 DEF StreamOrder, Increasing
  <2>5. Increasing(live[s])'
    <3> SUFFICES ASSUME NEW j \in DOMAIN live'[s], NEW k \in DOMAIN live'[s], j < k,
                        live'[s][k] \notin excused'
                 PROVE  live'[s][j] <= live'[s][k]
      BY DEF Increasing
    <3>1. j \in DOMAIN live[s] /\ live'[s][j] = live[s][j]
      BY <2>1, <2>2, <2>3, AppendAt
    <3>2. CASE k \in DOMAIN live[s] /\ live'[s][k] = live[s][k]
      BY <1>0, <3>1, <3>2 DEF StreamOrder, Increasing
    <3>3. CASE live'[s][k] = Head(chan[s])
      <4>1. live[s][j] \in Elements(live[s]) /\ Head(chan[s]) \in Elements(chan[s])
        BY <2>3, <3>1 DEF Elements
      <4> QED BY <1>0, <3>1, <3>3, <4>1 DEF StreamOrder, Ahead
    <3> QED BY <2>1, <2>2, <2>3, <3>2, <3>3, AppendAt
  <2>6. Ahead(live[s], chan[s])'
    <3> SUFFICES ASSUME NEW i \in Elements(live'[s]), NEW j \in Elements(chan'[s]), j \notin excused'
                 PROVE  i <= j
      BY DEF Ahead, Elements
    <3>1. CASE i \in Elements(live[s])
      BY <1>0, <2>3, <3>1 DEF StreamOrder, Ahead
    <3>2. CASE i = Head(chan[s])
      <4>1. PICK k \in DOMAIN chan'[s] : j = chan'[s][k]
        BY DEF Elements
      <4>2. /\ k + 1 \in DOMAIN chan[s] /\ j = chan[s][k + 1] /\ 1 \in DOMAIN chan[s] /\ i = chan[s][1]
            /\ 1 < k + 1
        BY <2>1, <2>2, <3>2, <4>1, TailAt
      <4> QED BY <1>0, <4>2 DEF StreamOrder, Increasing
    <3> QED BY <2>3, <3>1, <3>2
  <2>7. /\ \A j, k \in DOMAIN replay'[s] : j < k => replay'[s][j] < replay'[s][k]
        /\ \A i \in Elements(replay'[s]) : i <= seqNum'
    BY <1>0, <2>1 DEF StreamOrder
  <2> QED BY <2>4, <2>5, <2>6, <2>7 DEF StreamOrder
<1>4. CASE Replay(s)
  <2>1. UNCHANGED <<chan, live, seqNum>> /\ replay'[s] = history
    BY <1>0, <1>4 DEF Replay, hub, TypeOK
  <2>2. Increasing(chan[s])' /\ Increasing(live[s])' /\ Ahead(live[s], chan[s])'
    BY <1>0, <2>1 DEF StreamOrder, Increasing, Ahead, Elements
  <2>3. /\ \A j, k \in DOMAIN history : j < k => history[j] < history[k]
        /\ \A i \in Elements(history) : i <= seqNum
    BY <1>0 DEF HistoryOK, HistoryOrdered, Elements
  <2> QED BY <2>1, <2>2, <2>3 DEF StreamOrder
<1>5. CASE Disconnect(s)
  <2>1. chan'[s] = <<>> /\ live'[s] = <<>> /\ replay'[s] = <<>>
    BY <1>0, <1>5 DEF Disconnect, TypeOK
  <2>2. DOMAIN <<>> = {} /\ Elements(<<>>) = {}
    BY ElementsEmpty DEF Elements
  <2> QED BY <2>1, <2>2 DEF StreamOrder, Increasing, Ahead
<1> QED BY <1>0, <1>1, <1>2, <1>3, <1>4, <1>5, StreamMoves

-----------------------------------------------------------------------------
(* Mail arrives in order. *)

(* A step of the server adds to the mailbox only what it delivers to Me. *)
LEMMA BoxKept ==
  ASSUME box \in Seq(Events), Follow, delivered'[Me] = delivered[Me] PROVE box' = box
<1>1. box' = box \o <<>>
  BY DEF Follow
<1> QED BY <1>1, ConcatEmptySeq

(* A delivery appends its event to the mailbox of the client, or is for *)
(* others.                                                              *)
LEMMA BoxGrows ==
  ASSUME TypeOK, NotifyOK, box \in Seq(Events), Follow,
         NEW e \in Emitters, NEW m \in Members, Deliver(e, m)
  PROVE  /\ event[e] \in Events /\ epc[e] = "deliver"
         /\ \/ box' = box /\ delivered'[Me] = delivered[Me]
            \/ /\ box' = Append(box, event[e]) /\ delivered'[Me] = delivered[Me] \cup {event[e]}
               /\ event[e] \notin delivered[Me]
<1>1. event[e] \in Events /\ epc[e] = "deliver"
  BY DEF Deliver, NotifyOK
<1>2. CASE delivered'[Me] = delivered[Me]
  BY <1>1, <1>2, BoxKept
<1>3. CASE delivered'[Me] # delivered[Me]
  <2>1. delivered'[Me] = delivered[Me] \cup {event[e]} /\ event[e] \notin delivered[Me]
    BY <1>3, CLIAssumption DEF Deliver, TypeOK
  <2>2. (CHOOSE i \in delivered'[Me] : i \notin delivered[Me]) = event[e]
    BY <2>1
  <2>3. box' = box \o <<event[e]>>
    BY <1>3, <2>2 DEF Follow
  <2> QED BY <1>1, <2>1, <2>3, AppendIsConcat
<1> QED BY <1>2, <1>3

(* Who delivers. *)
LEMMA DeliveredStep ==
  ASSUME TypeOK, MailOK, CLINext
  PROVE  \/ \E e \in Emitters, m \in Members : Follow /\ Deliver(e, m)
         \/ Client
         \/ delivered' = delivered /\ box' = box /\ UNCHANGED <<response, draining, lastSeq, shown, frame>>
<1>0. box \in Seq(Events)
  BY DEF MailOK
<1>1. ASSUME NEW e \in Emitters, Emit(e) \/ NotifyStart(e) \/ NotifyEnd(e) PROVE delivered' = delivered
  BY <1>1 DEF Emit, SendMessage, Broadcast, SystemEvent, AutoTransferEvent, AmbientEvent,
              Record, Unrecorded, Number, NotifyStart, NotifyEnd
<1>2. ASSUME NEW e \in Emitters, NEW s \in Streams, NotifySend(e, s) PROVE delivered' = delivered
  BY <1>2 DEF NotifySend
<1>3. ASSUME NEW s \in Streams, Connected(s) \/ Subscribe(s) \/ Forward(s) PROVE delivered' = delivered
  BY <1>3 DEF Connected, Subscribe, Forward
<1>4. ASSUME NEW s \in Streams, ServerReplay(s) \/ ServerDisconnect(s) \/ Watch(s)
      PROVE  delivered' = delivered /\ box' = box /\ UNCHANGED <<response, draining, lastSeq, shown, frame>>
  BY <1>4 DEF ServerReplay, Replay, ServerDisconnect, Disconnect, Watch, Admit, reader
<1>5. Follow /\ delivered' = delivered =>
        box' = box /\ UNCHANGED <<response, draining, lastSeq, shown, frame>>
  BY <1>0, BoxKept DEF Follow, reader
<1> QED BY <1>1, <1>2, <1>3, <1>4, <1>5, CLIKinds

(* Every step keeps mailbox and response in order. *)
LEMMA MailStep ==
  ASSUME StreamInv, FlightOK, MailOK, ReaderOK, CLINext
  PROVE  MailOK'
<1>0. /\ TypeOK /\ NotifyOK /\ FanOutOK /\ excused \subseteq excused'
      /\ seqNum \in Nat /\ seqNum' \in Nat /\ seqNum <= seqNum' /\ delivered[Me] \subseteq Nat
      /\ Events \subseteq Nat
  BY ExcusesStay, ServerNext, HubGrows, CLIAssumption DEF StreamInv, TypeOK, Events
<1>1. CASE delivered' = delivered /\ box' = box /\ response' = response
  <2>1. \A i \in delivered[Me] : i <= seqNum'
    BY <1>0 DEF MailOK
  <2> QED BY <1>0, <1>1, <2>1 DEF MailOK
<1>2. ASSUME NEW e \in Emitters, NEW m \in Members, Follow, Deliver(e, m) PROVE MailOK'
  <2>1. seqNum' = seqNum /\ response' = response
    BY <1>2 DEF Deliver, hub, Follow, reader
  <2>2. CASE box' = box /\ delivered'[Me] = delivered[Me]
    BY <1>0, <2>1, <2>2 DEF MailOK
  <2>3. CASE /\ box' = Append(box, event[e]) /\ delivered'[Me] = delivered[Me] \cup {event[e]}
             /\ event[e] \notin delivered[Me]
    <3>1. event[e] \in Events /\ epc[e] = "deliver" /\ event[e] <= seqNum
      BY <1>0, <1>2 DEF Deliver, NotifyOK, FanOutOK
    <3>2. event[e] \in excused \/ \A i \in delivered[Me] : i < event[e]
      <4>1. event[e] \in excused \/ event[e] = seqNum
        BY <3>1 DEF FlightOK, Events
      <4> QED BY <1>0, <2>3, <4>1 DEF MailOK
    <3>3. box' \in Seq(Events) /\ Elements(box') = Elements(box) \cup {event[e]}
      BY <2>3, <3>1, ElementsAppend DEF MailOK
    <3>4. ASSUME NEW j \in DOMAIN box', NEW k \in DOMAIN box', j < k, box'[k] \notin excused'
          PROVE  box'[j] < box'[k]
      <4>1. j \in DOMAIN box /\ box'[j] = box[j] /\ box[j] \in delivered[Me]
        BY <2>3, <3>1, <3>4, AppendAt DEF MailOK, Elements
      <4>2. CASE k \in DOMAIN box /\ box'[k] = box[k]
        BY <1>0, <3>4, <4>1, <4>2 DEF MailOK
      <4>3. CASE box'[k] = event[e]
        BY <1>0, <3>2, <3>4, <4>1, <4>3
      <4> QED BY <2>3, <3>1, <4>2, <4>3, AppendAt DEF MailOK
    <3>5. \A i \in Elements(response'), j \in Elements(box') : j \notin excused' => i < j
      BY <1>0, <2>1, <3>2, <3>3 DEF MailOK
    <3>6. \A i \in delivered'[Me] : i <= seqNum'
      BY <2>1, <2>3, <3>1 DEF MailOK
    <3>7. \A j, k \in DOMAIN response' : j < k /\ response'[k] \notin excused' => response'[j] < response'[k]
      BY <1>0, <2>1 DEF MailOK
    <3>8. /\ response' \in Seq(Events) /\ Elements(box') \subseteq delivered'[Me]
          /\ Elements(response') \subseteq delivered'[Me]
      BY <2>1, <2>3, <3>3 DEF MailOK
    <3> QED BY <3>3, <3>4, <3>5, <3>6, <3>7, <3>8 DEF MailOK
  <2> QED BY <1>0, <1>2, <2>2, <2>3, BoxGrows DEF MailOK
<1>3. CASE Client
  <2>0. UNCHANGED <<delivered, seqNum>> /\ <<>> \in Seq(Events) /\ Elements(<<>>) = {} /\ DOMAIN <<>> = {}
    BY <1>3, ElementsEmpty DEF Client, Cut, Drain, DrainFails, DrainDisplay, DrainLost, Read, vars, hub,
                               Elements
  <2>1. CASE Drain
    <3>1. box' = <<>> /\ response' = box
      BY <2>1 DEF Drain
    <3> QED BY <1>0, <2>0, <3>1 DEF MailOK
  <2>2. CASE DrainDisplay \/ DrainLost
    <3>1. box' = box /\ response' = <<>>
      BY <2>2 DEF DrainDisplay, DrainLost
    <3> QED BY <1>0, <2>0, <3>1 DEF MailOK
  <2>3. CASE Cut \/ DrainFails \/ Read
    <3>1. box' = box /\ response' = response
      BY <2>3 DEF Cut, DrainFails, Read
    <3> QED BY <1>1, <2>0, <3>1
  <2> QED BY <1>3, <2>1, <2>2, <2>3 DEF Client
<1> QED BY <1>0, <1>1, <1>2, <1>3, DeliveredStep

-----------------------------------------------------------------------------
(* The client's mark. *)

(* showEnvelope over a batch: what tops the mark and all before it is       *)
(* shown, and the mark moves to something shown.                            *)
LEMMA ShowFacts ==
  ASSUME NEW q \in Seq(Events), lastSeq \in Nat, Show(q)
  PROVE  /\ shown \subseteq shown'
         /\ \A k \in DOMAIN q : q[k] > lastSeq /\ (\A j \in DOMAIN q : j < k => q[j] < q[k]) =>
              q[k] \in shown' /\ lastSeq' # lastSeq
         /\ \/ lastSeq' = lastSeq
            \/ lastSeq' \in Elements(q) /\ lastSeq' > lastSeq /\ lastSeq' \in shown'
<1> DEFINE new == {k \in DOMAIN q : q[k] > lastSeq /\ \A j \in 1..k-1 : q[j] < q[k]}
<1>1. /\ shown' = shown \cup {q[k] : k \in new}
      /\ lastSeq' = IF new = {} THEN lastSeq ELSE q[CHOOSE k \in new : \A j \in new : j <= k]
  BY DEF Show
<1>2. DOMAIN q = 1..Len(q) /\ Len(q) \in Nat /\ \A k \in DOMAIN q : q[k] \in Nat
  <2>1. DOMAIN q = 1..Len(q) /\ Len(q) \in Nat /\ \A k \in 1..Len(q) : q[k] \in Events
    BY LenProperties, ElementOfSeq
  <2>2. Events \subseteq Nat
    BY DEF Events
  <2> QED BY <2>1, <2>2
<1>3. new # {} => \E k \in new : lastSeq' = q[k]
  <2> SUFFICES ASSUME new # {} PROVE \E k \in new : lastSeq' = q[k]
    OBVIOUS
  <2>1. new \in SUBSET (1..Len(q))
    BY <1>2
  <2>2. \E k \in new : \A j \in new : j <= k
    <3> HIDE DEF new
    <3> QED BY <1>2, <2>1, LastPosition
  <2> HIDE DEF new
  <2> QED BY <1>1, <2>2
<1>4. \A k \in new : k \in DOMAIN q /\ q[k] > lastSeq
  OBVIOUS
<1>5. \A k \in DOMAIN q : q[k] > lastSeq /\ (\A j \in DOMAIN q : j < k => q[j] < q[k]) => k \in new
  <2> SUFFICES ASSUME NEW k \in DOMAIN q, q[k] > lastSeq, \A j \in DOMAIN q : j < k => q[j] < q[k]
               PROVE  k \in new
    OBVIOUS
  <2>1. \A j \in 1..k-1 : j \in DOMAIN q /\ j < k
    BY <1>2
  <2> QED BY <2>1
<1> HIDE DEF new
<1>6. \A k \in new : q[k] \in shown' /\ q[k] \in Elements(q) /\ q[k] \in Nat
  BY <1>1, <1>2, <1>4 DEF Elements
<1>7. new # {} => lastSeq' # lastSeq /\ lastSeq' \in Elements(q) /\ lastSeq' > lastSeq /\ lastSeq' \in shown'
  BY <1>3, <1>4, <1>6
<1> QED BY <1>1, <1>5, <1>6, <1>7

(* The next frame is of the replay or, after it, live; the mark moves to it *)
(* if it is above.                                                          *)
LEMMA ReadFrame ==
  ASSUME TypeOK, ReaderOK, Read
  PROVE  /\ conn \in Streams /\ frame > 0 /\ frame' = frame + 1
         /\ UNCHANGED <<vars, box, conn, draining, response, excused>>
         /\ \E x \in Events :
              /\ \/ frame \in DOMAIN replay[conn] /\ x = replay[conn][frame]
                 \/ \E k \in DOMAIN live[conn] : frame = k + Len(replay[conn]) /\ x = live[conn][k]
              /\ x > lastSeq => lastSeq' = x /\ x \in shown'
              /\ x <= lastSeq => lastSeq' = lastSeq
              /\ shown \subseteq shown'
<1>1. /\ conn \in Streams /\ frame > 0 /\ frame \in Nat /\ frame' = frame + 1
      /\ frame <= Len(Frames) /\ Show(<<Frames[frame]>>)
      /\ UNCHANGED <<vars, box, conn, draining, response, excused>>
  BY DEF Read, ReaderOK
<1>2. replay[conn] \in Seq(Events) /\ live[conn] \in Seq(Events)
  BY <1>1 DEF TypeOK
<1> DEFINE x == Frames[frame]
           n == Len(replay[conn])
           l == Len(live[conn])
<1>3. /\ DOMAIN replay[conn] = 1..n /\ n \in Nat
      /\ DOMAIN live[conn] = 1..l /\ l \in Nat
  BY <1>2, LenProperties
<1>4. /\ Len(Frames) = n + l
      /\ \A i \in 1..(n + l) : Frames[i] = IF i <= n THEN replay[conn][i] ELSE live[conn][i - n]
  BY <1>2, ConcatProperties DEF Frames
<1> HIDE DEF n, l
<1>5. frame \in 1..(n + l)
  BY <1>1, <1>3, <1>4
<1>6. \/ frame \in DOMAIN replay[conn] /\ x = replay[conn][frame]
      \/ \E k \in DOMAIN live[conn] : frame = k + n /\ x = live[conn][k]
  <2>1. CASE frame <= n
    <3>1. frame \in 1..n
      BY <1>3, <1>5, <2>1
    <3> QED BY <1>3, <1>4, <1>5, <2>1, <3>1
  <2>2. CASE ~(frame <= n)
    <3>1. x = live[conn][frame - n]
      BY <1>4, <1>5, <2>2
    <3>2. frame - n \in 1..l /\ frame = (frame - n) + n
      BY <1>3, <1>5, <2>2
    <3> QED BY <1>3, <3>1, <3>2
  <2> QED BY <2>1, <2>2
<1>7. x \in Events
  BY <1>2, <1>6, ElementsIn DEF Elements
<1> HIDE DEF x
<1>8. Show(<<x>>)
  BY <1>1 DEF x
<1>9. /\ <<x>> \in Seq(Events) /\ DOMAIN <<x>> = {1} /\ <<x>>[1] = x
  BY <1>7
<1>10. Elements(<<x>>) = {x}
  BY <1>9 DEF Elements
<1>11. lastSeq \in Nat /\ x \in Nat
  BY <1>7 DEF ReaderOK, TypeOK, Events
<1>12. /\ shown \subseteq shown'
       /\ \A k \in DOMAIN <<x>> :
            <<x>>[k] > lastSeq /\ (\A j \in DOMAIN <<x>> : j < k => <<x>>[j] < <<x>>[k]) =>
              <<x>>[k] \in shown' /\ lastSeq' # lastSeq
       /\ \/ lastSeq' = lastSeq
          \/ lastSeq' \in Elements(<<x>>) /\ lastSeq' > lastSeq /\ lastSeq' \in shown'
  BY <1>8, <1>9, <1>11, ShowFacts
<1>13. x > lastSeq => x \in shown' /\ lastSeq' # lastSeq
  BY <1>9, <1>12
<1>14. lastSeq' = lastSeq \/ (lastSeq' = x /\ x > lastSeq)
  BY <1>10, <1>12
<1> QED BY <1>1, <1>6, <1>7, <1>11, <1>12, <1>13, <1>14 DEF n

(* A frame has a number. *)
LEMMA FrameBound ==
  ASSUME StreamInv, StreamOK, NEW s \in Streams
  PROVE  /\ \A k \in DOMAIN replay[s] : replay[s][k] \in Nat /\ replay[s][k] <= seqNum
         /\ \A k \in DOMAIN live[s] : live[s][k] \in Nat /\ live[s][k] <= seqNum
<1>1. TypeOK /\ NewsOK
  BY DEF StreamInv
<1>2. replay[s] \in Seq(Events) /\ Events \subseteq Nat /\ \A i \in Elements(live[s]) : i \in Nat /\ i <= seqNum
  BY <1>1, StreamBound
<1>3. Elements(replay[s]) \subseteq Nat
  BY <1>2, ElementsIn
<1> QED BY <1>2, <1>3 DEF StreamOK, StreamOrder, Elements

(* Every step keeps the client's locals in their ranges. *)
LEMMA ReaderStep ==
  ASSUME StreamInv, StreamOK, MailOK, ReaderOK, CLINext
  PROVE  ReaderOK'
<1>0. TypeOK /\ seqNum \in Nat /\ seqNum' \in Nat /\ seqNum <= seqNum' /\ lastSeq \in Nat /\ lastSeq <= seqNum
  <2>1. TypeOK /\ [Next]_vars
    BY ServerNext DEF StreamInv
  <2>2. seqNum \in Nat /\ seqNum' \in Nat /\ seqNum <= seqNum'
    BY <2>1, HubGrows DEF TypeOK
  <2> QED BY <2>1, <2>2 DEF ReaderOK
<1>1. CASE UNCHANGED reader
  BY <1>0, <1>1 DEF reader, ReaderOK
<1>2. ASSUME NEW s \in Streams, Watch(s) PROVE ReaderOK'
  <2>1. conn = NoStream /\ conn' = s /\ UNCHANGED <<frame, draining, response, lastSeq, shown>>
    BY <1>2 DEF Watch
  <2> QED BY <1>0, <2>1 DEF ReaderOK
<1>3. CASE Client
  <2>0. seqNum' = seqNum
    BY <1>3 DEF Client, Cut, Drain, DrainFails, DrainDisplay, DrainLost, Read, vars, hub
  <2>1. CASE Cut
    BY <2>0, <2>1 DEF Cut, ReaderOK
  <2>2. CASE Drain
    BY <2>0, <2>2 DEF Drain, ReaderOK
  <2>3. CASE DrainFails
    BY <2>0, <2>3 DEF DrainFails, ReaderOK
  <2>4. CASE DrainLost
    BY <2>0, <2>4 DEF DrainLost, ReaderOK
  <2>5. CASE DrainDisplay
    <3>1. /\ draining /\ Show(response) /\ draining' = FALSE /\ response' = <<>> /\ frame' = 1 /\ conn' = conn
      BY <2>5 DEF DrainDisplay
    <3>2. \A i \in Elements(response) : i \in Nat /\ i <= seqNum
      <4>1. Elements(response) \subseteq Events /\ Events \subseteq Nat
        <5>1. response \in Seq(Events)
          BY DEF MailOK
        <5>2. Elements(response) \subseteq Events
          BY <5>1, ElementsIn
        <5> QED BY <5>2 DEF Events
      <4> QED BY <4>1 DEF MailOK
    <3>3. lastSeq' = lastSeq \/ (lastSeq' \in Elements(response) /\ lastSeq' \in shown')
      BY <1>0, <3>1, ShowFacts DEF MailOK
    <3>4. shown \subseteq shown'
      BY <1>0, <3>1, ShowFacts DEF MailOK
    <3>5. lastSeq' \in 0..seqNum' /\ (lastSeq' # 0 => lastSeq' \in shown')
      BY <1>0, <2>0, <3>2, <3>3, <3>4 DEF ReaderOK
    <3> QED BY <3>1, <3>5 DEF ReaderOK
  <2>6. CASE Read
    <3>1. PICK x \in Events :
            /\ \/ frame \in DOMAIN replay[conn] /\ x = replay[conn][frame]
               \/ \E k \in DOMAIN live[conn] : frame = k + Len(replay[conn]) /\ x = live[conn][k]
            /\ x > lastSeq => lastSeq' = x /\ x \in shown'
            /\ x <= lastSeq => lastSeq' = lastSeq
            /\ shown \subseteq shown'
      BY <1>0, <2>6, ReadFrame
    <3>2. conn \in Streams /\ frame > 0 /\ frame' = frame + 1 /\ UNCHANGED <<conn, draining, response>>
      BY <1>0, <2>6, ReadFrame
    <3>3. x \in Nat /\ x <= seqNum
      BY <3>1, <3>2, FrameBound
    <3>4. lastSeq' \in 0..seqNum' /\ (lastSeq' # 0 => lastSeq' \in shown')
      BY <1>0, <2>0, <3>1, <3>3 DEF ReaderOK
    <3> QED BY <3>2, <3>4, CLIAssumption DEF ReaderOK
  <2> QED BY <1>3, <2>1, <2>2, <2>3, <2>4, <2>5, <2>6 DEF Client
<1>4. \A s \in Streams : ServerReplay(s) \/ ServerDisconnect(s) => UNCHANGED reader
  BY DEF ServerReplay, ServerDisconnect
<1> QED BY <1>1, <1>2, <1>3, <1>4, CLIKinds DEF Follow

(* The client and its connection move only as follows. *)
LEMMA ConnMoves ==
  ASSUME CLINext
  PROVE  \/ UNCHANGED reader /\ (\/ Follow \/ \E s \in Streams : ServerReplay(s)
                                 \/ \E s \in Streams : ServerDisconnect(s))
         \/ \E s \in Streams : Watch(s)
         \/ Client
<1>1. \A s \in Streams : ServerReplay(s) \/ ServerDisconnect(s) => UNCHANGED reader
  BY DEF ServerReplay, ServerDisconnect
<1> QED BY <1>1, CLIKinds DEF Follow

(* Positions and lengths of a stream's frames. *)
LEMMA FrameShape ==
  ASSUME TypeOK, NEW s \in Streams
  PROVE  /\ replay[s] \in Seq(Events) /\ live[s] \in Seq(Events)
         /\ DOMAIN replay[s] = 1..Len(replay[s]) /\ Len(replay[s]) \in Nat
         /\ DOMAIN live[s] = 1..Len(live[s]) /\ Len(live[s]) \in Nat
<1>1. replay[s] \in Seq(Events) /\ live[s] \in Seq(Events)
  BY DEF TypeOK
<1> QED BY <1>1, LenProperties

(* The mark goes on covering the frames that were read. *)
LEMMA ReadStep ==
  ASSUME StreamInv, QuietOK, StreamOK, MailOK, ReaderOK, ReadOK, CLINext, TypeOK', ReaderOK'
  PROVE  ReadOK'
<1>0. TypeOK /\ frame \in Nat /\ lastSeq \in Nat
  <2>1. TypeOK /\ frame \in Nat /\ lastSeq \in 0..seqNum
    BY DEF StreamInv, ReaderOK
  <2> QED BY <2>1
<1> SUFFICES ASSUME conn' # NoStream PROVE ReadOK'
  BY DEF ReadOK
<1>1. conn' \in Streams
  BY DEF ReaderOK
<1>2. CASE frame' <= 1
  <2>1. /\ DOMAIN replay'[conn'] = 1..Len(replay'[conn']) /\ Len(replay'[conn']) \in Nat
        /\ DOMAIN live'[conn'] = 1..Len(live'[conn']) /\ Len(live'[conn']) \in Nat /\ frame' \in Nat
    <3>1. replay'[conn'] \in Seq(Events) /\ live'[conn'] \in Seq(Events)
      BY <1>1 DEF TypeOK
    <3> QED BY <3>1, LenProperties DEF ReaderOK
  <2>2. ASSUME NEW n \in Nat, NEW l \in Nat
        PROVE  /\ \A k \in 1..n : ~(k < frame')
               /\ \A k \in 1..l : ~(k + n < frame')
               /\ frame' <= n + l + 1
    BY <1>2, <2>1
  <2> QED BY <2>1, <2>2 DEF ReadOK
<1>3. CASE frame' > 1
  <2>0. conn \in Streams /\ conn # NoStream /\ conn' = conn
    <3>1. ASSUME NEW s \in Streams, Watch(s) PROVE frame' = 0
      BY <3>1 DEF Watch, ReaderOK
    <3>2. Client => conn' = conn \/ conn' = NoStream
      BY DEF Client, Cut, Drain, DrainFails, DrainDisplay, DrainLost, Read
    <3>3. conn' = conn
      BY <1>3, <3>1, <3>2, ConnMoves DEF reader
    <3> QED BY <1>1, <3>3
  <2>1. CASE UNCHANGED reader
    <3>1. CASE chan'[conn] = chan[conn] /\ live'[conn] = live[conn] /\ replay'[conn] = replay[conn]
      BY <2>0, <2>1, <3>1 DEF ReadOK, reader
    <3>2. CASE Forward(conn)
      <4>1. /\ replay' = replay /\ chan[conn] # <<>> /\ live'[conn] = Append(live[conn], Head(chan[conn]))
        BY <1>0, <2>0, <3>2 DEF Forward, TypeOK
      <4>2. live[conn] \in Seq(Events) /\ chan[conn] \in Seq(Events)
        BY <1>0, <2>0 DEF TypeOK
      <4>3. Head(chan[conn]) \in Events
        BY <4>1, <4>2, ElementsTail
      <4>4. Len(live'[conn]) = Len(live[conn]) + 1
        BY <4>1, <4>2, <4>3
      <4>5. /\ DOMAIN live[conn] = 1..Len(live[conn]) /\ Len(live[conn]) \in Nat
            /\ Len(replay[conn]) \in Nat
        BY <1>0, <2>0, FrameShape
      <4> DEFINE n == Len(replay[conn])
                 l == Len(live[conn])
      <4>6. frame <= n + l + 1 /\ n \in Nat /\ l \in Nat
        BY <2>0, <4>5 DEF ReadOK
      <4>7. ASSUME NEW k \in DOMAIN live'[conn], k + n < frame PROVE live'[conn][k] <= lastSeq
        <5>1. \/ k \in DOMAIN live[conn] /\ live'[conn][k] = live[conn][k]
              \/ \A j \in DOMAIN live[conn] : j < k
          BY <4>1, <4>2, <4>3, AppendAt
        <5>2. k \in Nat \ {0}
          BY <2>0, LenProperties DEF TypeOK
        <5>3. k <= l
          <6> HIDE DEF n, l
          <6> QED BY <1>0, <4>6, <4>7, <5>2
        <5>4. k \in DOMAIN live[conn]
          BY <4>5, <5>2, <5>3
        <5>5. live'[conn][k] = live[conn][k]
          BY <5>1, <5>2, <5>4
        <5> QED BY <2>0, <4>7, <5>4, <5>5 DEF ReadOK
      <4>8. frame <= n + Len(live'[conn]) + 1
        <5>1. frame <= n + (l + 1) + 1
          <6> HIDE DEF n, l
          <6> QED BY <1>0, <4>6
        <5> QED BY <4>4, <5>1
      <4>9. UNCHANGED <<conn, frame, lastSeq>>
        BY <2>1 DEF reader
      <4> QED BY <2>0, <4>1, <4>7, <4>8, <4>9 DEF ReadOK
    <3>3. CASE Replay(conn)
      <4>1. spc[conn] = "subscribed"
        BY <3>3 DEF Replay
      <4>2. replay[conn] = <<>> /\ live[conn] = <<>>
        BY <2>0, <4>1 DEF QuietOK
      <4>3. frame <= Len(replay[conn]) + Len(live[conn]) + 1 /\ Len(<<>>) = 0
        BY <2>0, EmptySeq DEF ReadOK
      <4>4. frame <= 1
        BY <1>0, <4>2, <4>3
      <4> QED BY <1>0, <1>3, <2>1, <4>4 DEF reader
    <3>4. CASE \E e \in Emitters : NotifySend(e, conn)
      BY <2>0, <2>1, <3>4 DEF NotifySend, ReadOK, reader
    <3>5. ~Disconnect(conn)
      <4>1. ~ServerDisconnect(conn)
        BY DEF ServerDisconnect
      <4>2. Disconnect(conn) => spc[conn] = "live" /\ spc'[conn] = "off"
        BY <1>0, <2>0 DEF Disconnect, Goto, TypeOK
      <4>3. ASSUME NEW e \in Emitters, Emit(e) \/ FanOut(e) PROVE spc' = spc
        BY <4>3 DEF Emit, SendMessage, Broadcast, SystemEvent, AutoTransferEvent, AmbientEvent,
                    Record, Unrecorded, Number, FanOut, Deliver, NotifyStart, NotifyEnd, NotifySend, stream
      <4>4. ASSUME NEW s \in Streams, Connected(s) \/ Subscribe(s) \/ Forward(s) \/ ServerReplay(s) \/ Watch(s)
            PROVE  spc'[conn] # "off" \/ spc[conn] # "live"
        BY <1>0, <2>0, <4>4 DEF Connected, Subscribe, Forward, ServerReplay, Replay, Watch, Admit, Goto, TypeOK
      <4>5. ASSUME NEW s \in Streams, ServerDisconnect(s) PROVE spc'[conn] = spc[conn]
        BY <1>0, <2>0, <4>5 DEF ServerDisconnect, Disconnect, Goto, TypeOK
      <4>6. Client => spc' = spc
        BY DEF Client, Cut, Drain, DrainFails, DrainDisplay, DrainLost, Read, vars, stream
      <4> QED BY <4>2, <4>3, <4>4, <4>5, <4>6, CLIKinds DEF FanOut
    <3> QED BY <1>0, <2>0, <3>1, <3>2, <3>3, <3>4, <3>5, StreamMoves
  <2>2. CASE Client
    <3>1. CASE Read
      <4>1. PICK x \in Events :
              /\ \/ frame \in DOMAIN replay[conn] /\ x = replay[conn][frame]
                 \/ \E k \in DOMAIN live[conn] : frame = k + Len(replay[conn]) /\ x = live[conn][k]
              /\ x > lastSeq => lastSeq' = x
              /\ x <= lastSeq => lastSeq' = lastSeq
        BY <1>0, <3>1, ReadFrame
      <4>2. frame' = frame + 1 /\ UNCHANGED <<replay, live>>
        BY <1>0, <3>1, ReadFrame DEF vars, stream
      <4>3. x \in Nat /\ x <= lastSeq' /\ lastSeq <= lastSeq' /\ lastSeq' \in Nat
        BY <1>0, <4>1 DEF Events
      <4>4. /\ DOMAIN replay[conn] = 1..Len(replay[conn]) /\ Len(replay[conn]) \in Nat
            /\ DOMAIN live[conn] = 1..Len(live[conn]) /\ Len(live[conn]) \in Nat
        BY <1>0, <2>0, FrameShape
      <4> DEFINE n == Len(replay[conn])
                 l == Len(live[conn])
      <4>5. /\ \A k \in DOMAIN replay[conn] : k < frame => replay[conn][k] <= lastSeq
            /\ \A k \in DOMAIN live[conn] : k + n < frame => live[conn][k] <= lastSeq
        BY <2>0 DEF ReadOK
      <4>6. /\ \A k \in DOMAIN replay[conn] : replay[conn][k] \in Nat
            /\ \A k \in DOMAIN live[conn] : live[conn][k] \in Nat
        BY <2>0, FrameBound
      <4> HIDE DEF n, l
      <4>7. n \in Nat /\ l \in Nat /\ (frame \in 1..n \/ \E k \in 1..l : frame = k + n)
        BY <4>1, <4>4 DEF n, l
      <4>8. frame + 1 <= n + l + 1
        BY <1>0, <4>7
      <4>9. \A k \in DOMAIN replay[conn] : k < frame + 1 => replay[conn][k] <= lastSeq'
        <5> SUFFICES ASSUME NEW k \in DOMAIN replay[conn], k < frame + 1 PROVE replay[conn][k] <= lastSeq'
          OBVIOUS
        <5>1. k \in 1..n /\ n \in Nat
          BY <4>4 DEF n
        <5>2. CASE k < frame
          BY <1>0, <4>3, <4>5, <4>6, <5>2
        <5>3. CASE k = frame
          <6>1. \A j \in DOMAIN live[conn] : frame # j + n
            BY <4>4, <5>1, <5>3
          <6>2. x = replay[conn][frame]
            BY <4>1, <6>1 DEF n
          <6> QED BY <4>3, <5>3, <6>2
        <5> QED BY <1>0, <5>1, <5>2, <5>3
      <4>10. \A k \in DOMAIN live[conn] : k + n < frame + 1 => live[conn][k] <= lastSeq'
        <5> SUFFICES ASSUME NEW k \in DOMAIN live[conn], k + n < frame + 1 PROVE live[conn][k] <= lastSeq'
          OBVIOUS
        <5>1. k \in Nat \ {0} /\ n \in Nat
          BY <4>4 DEF n
        <5>2. CASE k + n < frame
          BY <1>0, <4>3, <4>5, <4>6, <5>2
        <5>3. CASE k + n = frame
          <6>1. frame \notin DOMAIN replay[conn]
            BY <4>4, <5>1, <5>3 DEF n
          <6>2. PICK j \in DOMAIN live[conn] : frame = j + n /\ x = live[conn][j]
            BY <4>1, <6>1 DEF n
          <6>3. j = k
            BY <4>4, <5>1, <5>3, <6>2
          <6> QED BY <4>3, <6>2, <6>3
        <5> QED BY <1>0, <5>1, <5>2, <5>3
      <4> QED BY <2>0, <4>2, <4>8, <4>9, <4>10 DEF ReadOK, n, l
    <3>2. CASE ~Read
      <4>1. frame' \in {0, 1, frame} /\ (frame' = frame => frame' \in {0, 1} \/ Drain)
        BY <2>0, <2>2, <3>2 DEF Client, Cut, Drain, DrainFails, DrainDisplay, DrainLost
      <4>2. Drain => frame' = 0
        BY DEF Drain
      <4> QED BY <1>3, <4>1, <4>2
    <3> QED BY <3>1, <3>2
  <2>3. ASSUME NEW s \in Streams, Watch(s) PROVE FALSE
    BY <1>3, <2>3 DEF Watch, ReaderOK
  <2> QED BY <2>1, <2>2, <2>3, ConnMoves
<1> QED BY <1>2, <1>3 DEF ReaderOK

-----------------------------------------------------------------------------
(* What the client may expect of its stream. *)

(* The frame that is read next is not newer than mail that is expected on *)
(* the connection: reading it moves the mark past no such mail.           *)
LEMMA Unread ==
  ASSUME CLIInv, conn # NoStream, spc[conn] = "live", NEW i \in Elements(box), i > lastSeq,
         i \notin excused, Expected(i),
         NEW x \in Events,
         \/ frame \in DOMAIN replay[conn] /\ x = replay[conn][frame]
         \/ \E k \in DOMAIN live[conn] : frame = k + Len(replay[conn]) /\ x = live[conn][k]
  PROVE  i >= x
<1>0. /\ TypeOK /\ NotifyOK /\ FanOutOK /\ conn \in Streams /\ frame \in Nat /\ lastSeq \in 0..seqNum
      /\ seqNum \in Nat
  BY DEF CLIInv, StreamInv, ReaderOK, TypeOK
<1>1. i \in Nat /\ x \in Nat /\ lastSeq \in Nat
  <2>1. box \in Seq(Events) /\ Events \subseteq Nat
    BY DEF CLIInv, MailOK, Events
  <2> QED BY <1>0, <2>1, ElementsIn
<1> SUFFICES ASSUME x > i PROVE FALSE
  BY <1>1
<1>2. /\ DOMAIN replay[conn] = 1..Len(replay[conn]) /\ Len(replay[conn]) \in Nat
      /\ DOMAIN live[conn] = 1..Len(live[conn]) /\ Len(live[conn]) \in Nat
  BY <1>0, FrameShape
<1>3. /\ \A k \in DOMAIN replay[conn] : k < frame => replay[conn][k] <= lastSeq
      /\ \A k \in DOMAIN live[conn] : k + Len(replay[conn]) < frame => live[conn][k] <= lastSeq
  BY DEF CLIInv, ReadOK
<1>4. StreamOrder(conn)
  BY <1>0 DEF CLIInv, StreamOK
<1> DEFINE n == Len(replay[conn])
<1>5. n \in Nat
  BY <1>2
<1>6. i \notin Elements(replay[conn])
  <2> SUFFICES ASSUME NEW k \in DOMAIN replay[conn], i = replay[conn][k] PROVE FALSE
    BY DEF Elements
  <2>1. k \in 1..n /\ ~(k < frame)
    BY <1>1, <1>2, <1>3
  <2>2. frame \in DOMAIN replay[conn] /\ x = replay[conn][frame]
    <3>1. \A j \in DOMAIN live[conn] : frame # j + n
      <4> HIDE DEF n
      <4> QED BY <1>0, <1>2, <1>5, <2>1
    <3> QED BY <3>1
  <2>3. CASE k = frame
    BY <1>1, <2>2, <2>3
  <2>4. CASE frame < k
    BY <1>1, <1>4, <2>2, <2>4 DEF StreamOrder
  <2> QED BY <1>0, <2>1, <2>3, <2>4
<1>7. Covered(i, conn) /\ \A j \in Elements(replay[conn]) : j < i
  BY <1>6 DEF Expected
<1>8. PICK l \in DOMAIN live[conn] : frame = l + n /\ x = live[conn][l]
  <2>1. ~(frame \in DOMAIN replay[conn] /\ x = replay[conn][frame])
    <3>1. frame \in DOMAIN replay[conn] => replay[conn][frame] \in Elements(replay[conn])
      BY DEF Elements
    <3> QED BY <1>1, <1>7, <3>1
  <2> QED BY <2>1
<1>9. x <= seqNum
  BY <1>0, <1>8, FrameBound DEF CLIInv
<1>10. i \notin Elements(live[conn])
  <2> SUFFICES ASSUME NEW k \in DOMAIN live[conn], i = live[conn][k] PROVE FALSE
    BY DEF Elements
  <2>1. ~(k + n < frame)
    BY <1>1, <1>3
  <2>2. k \in Nat /\ l \in Nat
    BY <1>2
  <2>3. ~(k < l)
    <3> HIDE DEF n
    <3> QED BY <1>0, <1>5, <1>8, <2>1, <2>2
  <2>4. CASE l < k
    BY <1>1, <1>4, <1>8, <2>4 DEF StreamOrder, Increasing
  <2>5. CASE l = k
    BY <1>1, <1>8, <2>5
  <2> QED BY <2>2, <2>3, <2>4, <2>5
<1>11. i \notin Elements(chan[conn])
  <2>1. x \in Elements(live[conn])
    BY <1>8 DEF Elements
  <2> QED BY <1>1, <1>4, <2>1 DEF StreamOrder, Ahead
<1>12. i \notin dropped[conn]
  BY DEF CLIInv, LiveOK
<1>13. ~OnItsWay(i, conn)
  <2> SUFFICES ASSUME NEW e \in Emitters, event[e] = i PROVE FALSE
    BY DEF OnItsWay
  <2>1. i = seqNum
    <3>1. i # 0
      BY <1>1 DEF CLIInv, ReaderOK
    <3> QED BY <3>1 DEF CLIInv, FlightOK
  <2> QED BY <1>0, <1>1, <1>9, <2>1
<1>14. ~(replay[conn] # <<>> /\ i < replay[conn][1])
  <2> SUFFICES ASSUME replay[conn] # <<>>, i < replay[conn][1] PROVE FALSE
    OBVIOUS
  <2>1. replay[conn] \in Seq(Events)
    BY <1>0 DEF TypeOK
  <2>2. 1 \in DOMAIN replay[conn] /\ replay[conn][1] \in Nat
    <3>1. 1 \in DOMAIN replay[conn]
      BY <2>1, TailAt
    <3> QED BY <1>0, <3>1, FrameBound DEF CLIInv
  <2>3. replay[conn][1] \in Elements(replay[conn])
    BY <2>2 DEF Elements
  <2> QED BY <1>1, <1>7, <2>2, <2>3
<1> QED BY <1>6, <1>7, <1>10, <1>11, <1>12, <1>13, <1>14 DEF Covered, Reached

(* Every step keeps mail of the client shown, above the mark, or excused. *)
LEMMA ShownStep ==
  ASSUME CLIInv, CLINext
  PROVE  MailShown'
<1>0. /\ StreamInv /\ TypeOK /\ NotifyOK /\ FanOutOK /\ MailOK /\ ReaderOK /\ MailShown /\ FlightOK
      /\ lastSeq \in Nat /\ seqNum \in Nat /\ Events \subseteq Nat /\ excused \subseteq excused'
      /\ delivered[Me] \subseteq Events
  <2>1. /\ StreamInv /\ TypeOK /\ NotifyOK /\ FanOutOK /\ MailOK /\ ReaderOK /\ MailShown /\ FlightOK
        /\ excused \subseteq excused'
    BY ExcusesStay DEF CLIInv, StreamInv
  <2>2. seqNum \in Nat /\ Events \subseteq Nat /\ delivered[Me] \subseteq Events
    BY <2>1, CLIAssumption DEF TypeOK, Events
  <2> QED BY <2>1, <2>2 DEF ReaderOK
<1>1. CASE delivered' = delivered /\ box' = box /\ UNCHANGED <<response, lastSeq, shown>>
  BY <1>0, <1>1 DEF MailShown
<1>2. ASSUME NEW e \in Emitters, NEW m \in Members, Follow, Deliver(e, m) PROVE MailShown'
  <2>1. UNCHANGED <<response, lastSeq, shown>> /\ box \in Seq(Events)
    BY <1>0, <1>2 DEF Follow, reader, MailOK
  <2>2. CASE box' = box /\ delivered'[Me] = delivered[Me]
    BY <1>0, <2>1, <2>2 DEF MailShown
  <2>3. CASE box' = Append(box, event[e]) /\ delivered'[Me] = delivered[Me] \cup {event[e]}
    <3>1. event[e] \in Events /\ 0 \notin Events
      BY <1>0, <1>2 DEF Deliver, NotifyOK, Events
    <3>2. Elements(box') = Elements(box) \cup {event[e]}
      BY <2>1, <2>3, <3>1, ElementsAppend
    <3>3. event[e] \in excused \/ event[e] = seqNum
      BY <1>0, <3>1 DEF FlightOK
    <3>4. event[e] \in excused \/ event[e] \in shown \/ event[e] > lastSeq
      BY <1>0, <3>1, <3>3 DEF ReaderOK
    <3> QED BY <1>0, <2>1, <2>3, <3>2, <3>4 DEF MailShown
  <2> QED BY <1>0, <1>2, <2>1, <2>2, <2>3, BoxGrows
<1>3. CASE Client
  <2>0. UNCHANGED delivered /\ Elements(<<>>) = {}
    BY <1>3, ElementsEmpty DEF Client, Cut, Drain, DrainFails, DrainDisplay, DrainLost, Read, vars
  <2>1. CASE Cut \/ DrainFails
    BY <1>0, <1>1, <2>0, <2>1 DEF Cut, DrainFails
  <2>2. CASE Drain
    <3>1. response' = box /\ box' = <<>> /\ response = <<>> /\ UNCHANGED <<lastSeq, shown>>
      BY <1>0, <2>2 DEF Drain, ReaderOK
    <3> QED BY <1>0, <2>0, <3>1 DEF MailShown
  <2>3. CASE DrainLost
    <3>1. response' = <<>> /\ box' = box /\ UNCHANGED <<lastSeq, shown>> /\ excused' = excused \cup Elements(response)
      BY <2>3 DEF DrainLost
    <3> QED BY <1>0, <2>0, <3>1 DEF MailShown
  <2>4. CASE DrainDisplay
    <3>1. response' = <<>> /\ box' = box /\ Show(response)
      BY <2>4 DEF DrainDisplay
    <3>2. /\ shown \subseteq shown'
          /\ \A k \in DOMAIN response :
               response[k] > lastSeq /\ (\A j \in DOMAIN response : j < k => response[j] < response[k]) =>
                 response[k] \in shown'
          /\ lastSeq' = lastSeq \/ lastSeq' \in Elements(response)
      BY <1>0, <3>1, ShowFacts DEF MailOK
    <3>3. \A i \in Elements(response) : i > lastSeq => i \in shown' \/ i \in excused
      BY <1>0, <3>2 DEF MailOK, Elements
    <3>4. \A i \in Elements(box) : i > lastSeq => i \in excused \/ i > lastSeq'
      BY <1>0, <3>2 DEF MailOK
    <3> QED BY <1>0, <2>0, <3>1, <3>2, <3>3, <3>4 DEF MailShown
  <2>5. CASE Read
    <3>1. PICK x \in Events :
            /\ \/ frame \in DOMAIN replay[conn] /\ x = replay[conn][frame]
               \/ \E k \in DOMAIN live[conn] : frame = k + Len(replay[conn]) /\ x = live[conn][k]
            /\ x > lastSeq => lastSeq' = x /\ x \in shown'
            /\ x <= lastSeq => lastSeq' = lastSeq
            /\ shown \subseteq shown'
      BY <1>0, <2>5, ReadFrame
    <3>2. conn \in Streams /\ frame > 0 /\ UNCHANGED <<box, response>>
      BY <1>0, <2>5, ReadFrame
    <3>3. spc[conn] = "live" /\ conn # NoStream
      <4>1. replay[conn] # <<>> \/ live[conn] # <<>>
        BY <3>1, ElementsEmpty DEF Elements
      <4> QED BY <3>2, <4>1, CLIAssumption DEF CLIInv, QuietOK
    <3>4. response = <<>>
      BY <1>0, <3>2 DEF ReaderOK
    <3>5. \A i \in Elements(box) : Expected(i)
      BY <3>2, <3>3 DEF CLIInv, LiveOK
    <3>6. ASSUME NEW i \in Elements(box), i > lastSeq, i \notin excused PROVE i > lastSeq' \/ i \in shown'
      <4>1. i >= x
        BY <3>1, <3>3, <3>5, <3>6, Unread
      <4>2. i \in Nat /\ x \in Nat
        BY <1>0 DEF MailOK
      <4> QED BY <1>0, <3>1, <3>6, <4>1, <4>2
    <3> QED BY <1>0, <2>0, <3>1, <3>2, <3>4, <3>6 DEF MailShown
  <2> QED BY <1>3, <2>1, <2>2, <2>3, <2>4, <2>5 DEF Client
<1> QED BY <1>0, <1>1, <1>2, <1>3, DeliveredStep

(* What is neither stranded nor dropped may be expected. *)
LEMMA NotStranded ==
  ASSUME TypeOK, NEW s \in Streams, NEW q \in Seq(Events), NEW i \in Elements(box), box \in Seq(Events),
         i \notin Stranded(s, q)
  PROVE  \/ i \in Elements(q)
         \/ (Reached(i, s) \/ OnItsWay(i, s)) /\ \A j \in Elements(q) : j < i
<1>1. i \in Nat /\ Elements(q) \subseteq Nat
  <2>1. Elements(box) \subseteq Events /\ Elements(q) \subseteq Events
    BY ElementsIn
  <2> QED BY <2>1 DEF Events
<1>2. CASE i \notin Elements(q)
  <2>1. (Reached(i, s) \/ OnItsWay(i, s)) /\ ~\E j \in Elements(q) : j > i
    BY <1>2 DEF Stranded
  <2>2. \A j \in Elements(q) : j # i
    BY <1>2
  <2> QED BY <1>1, <2>1, <2>2
<1> QED BY <1>2

(* The label of the client's stream. *)
LEMMA ConnLabel ==
  ASSUME TypeOK, CLINext, conn \in Streams, conn' = conn, spc'[conn] = "live"
  PROVE  spc[conn] = "live" \/ ServerReplay(conn)
<1>1. ASSUME NEW e \in Emitters, Emit(e) \/ FanOut(e) PROVE spc' = spc
  BY <1>1 DEF Emit, SendMessage, Broadcast, SystemEvent, AutoTransferEvent, AmbientEvent,
              Record, Unrecorded, Number, FanOut, Deliver, NotifyStart, NotifyEnd, NotifySend, stream
<1>2. ASSUME NEW s \in Streams, Connected(s) \/ Subscribe(s) \/ Forward(s) \/ ServerDisconnect(s) \/ Watch(s)
      PROVE  spc[conn] = "live"
  BY <1>2 DEF Connected, Subscribe, Forward, ServerDisconnect, Disconnect, Watch, Admit, Goto, TypeOK
<1>3. ASSUME NEW s \in Streams, s # conn, ServerReplay(s) PROVE spc[conn] = "live"
  BY <1>3 DEF ServerReplay, Replay, Goto, TypeOK
<1>4. Client => spc' = spc
  BY DEF Client, Cut, Drain, DrainFails, DrainDisplay, DrainLost, Read, vars, stream
<1> QED BY <1>1, <1>2, <1>3, <1>4, CLIKinds DEF FanOut

(* What the client's stream drops is excused. *)
LEMMA DropStep ==
  ASSUME CLIInv, CLINext, conn' # NoStream
  PROVE  dropped'[conn'] \subseteq excused'
<1>0. TypeOK /\ QuietOK /\ excused \subseteq excused' /\ conn \in Streams \cup {NoStream}
  BY ExcusesStay DEF CLIInv, StreamInv, ReaderOK
<1>1. conn # NoStream => dropped[conn] \subseteq excused
  BY DEF CLIInv, LiveOK
<1>2. CASE Follow
  BY <1>2 DEF Follow, DroppedNow, reader
<1>3. ASSUME NEW s \in Streams, ServerReplay(s) PROVE dropped' = dropped /\ conn' = conn
  BY <1>3 DEF ServerReplay, Replay, reader
<1>4. ASSUME NEW s \in Streams, ServerDisconnect(s) PROVE dropped'[conn] = dropped[conn] /\ conn' = conn
  BY <1>0, <1>4 DEF ServerDisconnect, Disconnect, reader, TypeOK
<1>5. ASSUME NEW s \in Streams, Watch(s) PROVE dropped'[conn'] = {}
  BY <1>0, <1>5 DEF Watch, Admit, QuietOK, Subscribed
<1>6. Client => dropped' = dropped /\ conn' \in {conn, NoStream}
  BY DEF Client, Cut, Drain, DrainFails, DrainDisplay, DrainLost, Read, vars, stream
<1> QED BY <1>0, <1>1, <1>2, <1>3, <1>4, <1>5, <1>6, ConnMoves

(* Mail that stays in the mailbox is still to be read on the connection. *)
LEMMA LiveStep ==
  ASSUME CLIInv, CLINext, ReaderOK'
  PROVE  LiveOK'
<1>0. /\ StreamInv /\ TypeOK /\ NotifyOK /\ FanOutOK /\ QuietOK /\ MailOK /\ ReaderOK /\ FlightOK /\ StreamOK
      /\ excused \subseteq excused' /\ [Next]_vars /\ box \in Seq(Events)
  BY ExcusesStay, ServerNext DEF CLIInv, StreamInv, MailOK
<1> SUFFICES ASSUME conn' # NoStream, spc'[conn'] = "live", draining' \/ frame' > 0, NEW i \in Elements(box')
             PROVE  Expected(i)'
  BY DropStep DEF LiveOK, Elements
<1>1. conn' = conn /\ conn \in Streams
  <2>1. ASSUME NEW s \in Streams, Watch(s) PROVE FALSE
    BY <1>0, <2>1 DEF Watch, Admit, Goto, TypeOK
  <2>2. Client => conn' \in {conn, NoStream}
    BY DEF Client, Cut, Drain, DrainFails, DrainDisplay, DrainLost, Read
  <2>3. conn' = conn
    BY <2>1, <2>2, ConnMoves DEF reader
  <2> QED BY <2>3 DEF ReaderOK
<1>2. CASE ServerReplay(conn)
  <2>1. /\ spc[conn] = "subscribed" /\ replay'[conn] = history /\ UNCHANGED <<emitter, chan, live, dropped>>
        /\ box' = box /\ UNCHANGED <<frame, draining>>
    BY <1>0, <1>1, <1>2 DEF ServerReplay, Replay, reader, TypeOK
  <2>2. Stranded(conn, history) \subseteq excused'
    BY <1>2, <2>1 DEF ServerReplay
  <2>3. replay[conn] = <<>> /\ Elements(<<>>) = {}
    BY <1>0, <1>1, <2>1, ElementsEmpty DEF QuietOK
  <2>4. CASE i \in Stranded(conn, history)
    BY <2>2, <2>4 DEF Expected
  <2>5. CASE i \notin Stranded(conn, history)
    <3>1. history \in Seq(Events)
      BY <1>0 DEF TypeOK
    <3>2. \/ i \in Elements(history)
          \/ (Reached(i, conn) \/ OnItsWay(i, conn)) /\ \A j \in Elements(history) : j < i
      BY <1>0, <1>1, <2>1, <2>5, <3>1, NotStranded
    <3>3. Reached(i, conn) => Reached(i, conn)'
      BY <1>1, <2>1, <2>3 DEF Reached, Elements
    <3>4. OnItsWay(i, conn) => OnItsWay(i, conn)'
      BY <1>1, <2>1 DEF OnItsWay, emitter
    <3>5. Elements(replay'[conn']) = Elements(history)
      BY <1>1, <2>1
    <3> QED BY <1>1, <3>2, <3>3, <3>4, <3>5 DEF Expected, Covered
  <2> QED BY <2>4, <2>5
<1>3. CASE spc[conn] = "live"
  <2>1. replay'[conn] = replay[conn]
    <3>1. ~Replay(conn)
      BY <1>3 DEF Replay
    <3>2. ~Disconnect(conn)
      BY <1>0, <1>1 DEF Disconnect, Goto, TypeOK
    <3>3. Forward(conn) => replay' = replay
      BY DEF Forward
    <3>4. (\E e \in Emitters : NotifySend(e, conn)) => replay' = replay
      BY DEF NotifySend
    <3> QED BY <1>0, <1>1, <3>1, <3>2, <3>3, <3>4, StreamMoves
  <2>2. ASSUME Expected(i) PROVE Expected(i)'
    <3>1. CASE i \in excused \/ i \in Elements(replay[conn])
      BY <1>0, <1>1, <2>1, <3>1 DEF Expected
    <3>2. CASE Covered(i, conn) /\ \A j \in Elements(replay[conn]) : j < i
      <4>1. spc'[conn] = "live"
        BY <1>1
      <4>2. ASSUME NEW s \in Streams, s = conn PROVE Covered(i, s)'
        BY <1>0, <1>3, <3>2, <4>1, <4>2, CoverStep
      <4>3. Covered(i, conn)'
        BY <1>1, <4>2
      <4> QED BY <1>1, <2>1, <3>2, <4>3 DEF Expected
    <3> QED BY <2>2, <3>1, <3>2 DEF Expected
  <2>3. ASSUME NEW e \in Emitters, NEW m \in Members, Follow, Deliver(e, m) PROVE Expected(i)'
    <3>1. draining \/ frame > 0
      BY <2>3 DEF Follow, reader
    <3>2. \A j \in Elements(box) : Expected(j)
      BY <1>1, <1>3, <3>1 DEF CLIInv, LiveOK
    <3>3. event[e] \in Events /\ epc[e] = "deliver" /\ (i \in Elements(box) \/ i = event[e])
      <4>1. event[e] \in Events /\ epc[e] = "deliver"
        BY <1>0, <2>3 DEF Deliver, NotifyOK
      <4>2. box' = box \/ box' = Append(box, event[e])
        BY <1>0, <2>3, BoxGrows
      <4>3. Elements(Append(box, event[e])) = Elements(box) \cup {event[e]}
        BY <1>0, <4>1, ElementsAppend
      <4> QED BY <4>1, <4>2, <4>3
    <3>4. CASE i = event[e]
      <4>1. i \in excused \/ i = seqNum
        BY <3>3, <3>4 DEF CLIInv, FlightOK, Events
      <4>2. OnItsWay(i, conn)'
        BY <1>1, <2>3, <3>3, <3>4 DEF OnItsWay, Deliver
      <4>3. CASE i = seqNum /\ i \notin Elements(replay[conn])
        <5>1. replay[conn] \in Seq(Events) /\ Events \subseteq Nat /\ seqNum \in Nat
          BY <1>0, <1>1 DEF TypeOK, Events
        <5>2. Elements(replay[conn]) \subseteq Nat
          BY <5>1, ElementsIn
        <5>3. \A j \in Elements(replay[conn]) : j <= seqNum /\ j # seqNum
          BY <1>0, <1>1, <4>3 DEF StreamOK, StreamOrder
        <5>4. \A j \in Elements(replay[conn]) : j < i
          BY <4>3, <5>1, <5>2, <5>3
        <5> QED BY <1>1, <2>1, <4>2, <5>4 DEF Expected, Covered
      <4> QED BY <1>0, <1>1, <2>1, <4>1, <4>3 DEF Expected
    <3> QED BY <2>2, <3>2, <3>3, <3>4
  <2>4. CASE box' = box /\ UNCHANGED <<draining, frame>>
    <3>1. \A j \in Elements(box) : Expected(j)
      BY <1>1, <1>3, <2>4 DEF CLIInv, LiveOK
    <3> QED BY <2>2, <2>4, <3>1
  <2>5. CASE Client
    <3>1. CASE DrainDisplay \/ DrainLost \/ Read
      <4>1. box' = box /\ (draining \/ frame > 0)
        BY <3>1 DEF DrainDisplay, DrainLost, Read
      <4>2. \A j \in Elements(box) : Expected(j)
        BY <1>1, <1>3, <4>1 DEF CLIInv, LiveOK
      <4> QED BY <2>2, <4>1, <4>2
    <3>2. CASE Drain
      BY <3>2, ElementsEmpty DEF Drain
    <3>3. CASE DrainFails
      <4>1. box' = box /\ excused' = excused \cup Stranded(conn, replay[conn])
        BY <1>3, <3>3 DEF DrainFails
      <4>2. UNCHANGED vars
        BY <3>3 DEF DrainFails
      <4>3. CASE i \in Stranded(conn, replay[conn])
        BY <4>1, <4>3 DEF Expected
      <4>4. CASE i \notin Stranded(conn, replay[conn])
        <5>1. replay[conn] \in Seq(Events)
          BY <1>0, <1>1 DEF TypeOK
        <5>2. \/ i \in Elements(replay[conn])
              \/ (Reached(i, conn) \/ OnItsWay(i, conn)) /\ \A j \in Elements(replay[conn]) : j < i
          BY <1>0, <1>1, <4>1, <4>4, <5>1, NotStranded
        <5> QED BY <2>2, <5>2 DEF Expected, Covered
      <4> QED BY <4>3, <4>4
    <3>4. CASE Cut
      BY <3>4 DEF Cut
    <3> QED BY <2>5, <3>1, <3>2, <3>3, <3>4 DEF Client
  <2> QED BY <1>0, <2>3, <2>4, <2>5, DeliveredStep
<1> QED BY <1>0, <1>1, <1>2, <1>3, ConnLabel

-----------------------------------------------------------------------------
(* A stuttering step keeps the invariant. *)
LEMMA CLIStutter == CLIInv /\ UNCHANGED cliVars => CLIInv'
<1> SUFFICES ASSUME CLIInv, UNCHANGED cliVars PROVE CLIInv'
  OBVIOUS
<1>1. UNCHANGED <<vars, hub, emitter, stream, client, reader>>
  BY DEF cliVars, vars
<1>2. StreamInv'
  BY <1>1, InvStep DEF CLIInv
<1>3. QuietOK' /\ FlightOK' /\ StreamOK'
  BY <1>1 DEF CLIInv, cliVars, vars, hub, emitter, stream, QuietOK, Subscribed, FlightOK, StreamOK,
              StreamOrder, Increasing, Ahead
<1>4. MailOK' /\ MailShown'
  BY <1>1 DEF CLIInv, cliVars, vars, hub, reader, MailOK, MailShown
<1>6. ReaderOK' /\ ReadOK'
  <2>1. UNCHANGED <<conn, frame, draining, response, lastSeq, shown, replay, live, seqNum>>
    BY <1>1 DEF vars, hub, stream, reader
  <2>2. ReaderOK'
    BY <2>1 DEF CLIInv, ReaderOK
  <2>3. ReadOK'
    <3>1. ReadOK
      BY DEF CLIInv
    <3> QED BY <2>1, <3>1, Zenon DEF ReadOK
  <2> QED BY <2>2, <2>3
<1>5. LiveOK'
  BY <1>1 DEF CLIInv, cliVars, vars, hub, emitter, stream, reader, LiveOK, Expected, Covered, Reached,
              OnItsWay
<1> QED BY <1>2, <1>3, <1>4, <1>5, <1>6 DEF CLIInv

(* The invariant holds initially. *)
LEMMA CLIInvInit == CLIInit => CLIInv
<1> SUFFICES ASSUME CLIInit PROVE CLIInv
  OBVIOUS
<1>1. StreamInv /\ TypeOK
  BY InvInit DEF CLIInit, StreamInv
<1>2. DOMAIN <<>> = {} /\ Elements(<<>>) = {} /\ <<>> \in Seq(Events)
  BY ElementsEmpty DEF Elements
<1>3. QuietOK /\ FlightOK
  BY DEF CLIInit, Init, QuietOK, FlightOK
<1>4. StreamOK
  BY <1>2 DEF CLIInit, Init, StreamOK, StreamOrder, Increasing, Ahead
<1>5. MailOK
  BY <1>2, CLIAssumption DEF CLIInit, Init, MailOK
<1>6. ReaderOK
  BY DEF CLIInit, Init, ReaderOK
<1>7. ReadOK /\ LiveOK
  BY DEF CLIInit, ReadOK, LiveOK
<1>8. MailShown
  BY CLIAssumption DEF CLIInit, Init, MailShown
<1> QED BY <1>1, <1>3, <1>4, <1>5, <1>6, <1>7, <1>8 DEF CLIInv

(* Every step of the composition keeps the invariant. *)
LEMMA CLIInvStep == CLIInv /\ [CLINext]_cliVars => CLIInv'
<1> SUFFICES ASSUME CLIInv, CLINext PROVE CLIInv'
  BY CLIStutter
<1>1. StreamInv' /\ TypeOK'
  BY ServerNext, InvStep DEF CLIInv, StreamInv
<1>2. QuietOK' /\ FlightOK' /\ StreamOK'
  BY ServerNext, QuietStep, FlightStep, StreamStep DEF CLIInv, StreamInv
<1>3. MailOK' /\ ReaderOK'
  BY MailStep, ReaderStep DEF CLIInv
<1>4. ReadOK' /\ LiveOK'
  BY <1>1, <1>3, ReadStep, LiveStep DEF CLIInv
<1>5. MailShown'
  BY ShownStep
<1> QED BY <1>1, <1>2, <1>3, <1>4, <1>5 DEF CLIInv

(* Whatever the client does, its server behaves as module EventStream says, *)
(* so all that is proved of that module holds here too.                     *)
THEOREM ServerUnderClient == CLISpec => Spec
<1>1. CLIInit => Init
  BY DEF CLIInit
<1>2. [CLINext]_cliVars => [Next]_vars
  BY ServerNext DEF cliVars
<1> QED BY <1>1, <1>2, PTL DEF CLISpec, Spec

(* However emitters interleave, streams are cut and drains fail, showing    *)
(* only what is above one mark loses mail of the client's in the five ways  *)
(* that MailShown lists and in no other: overlapping fan-outs, a full       *)
(* channel, a lost drain response, and mail outside the history that came   *)
(* after the drain or before one that never reached the server.             *)
THEOREM MarkLosesNoMail == CLISpec => []MailShown
<1>1. CLIInv => MailShown
  BY DEF CLIInv
<1> QED BY <1>1, CLIInvInit, CLIInvStep, PTL DEF CLISpec
=============================================================================
