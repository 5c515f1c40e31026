---------------------------- MODULE PersistProofs ----------------------------
(***************************************************************************)
(* For every number of messages, crashes, shutdowns, failed flushes and    *)
(* deletions: what a completed flush saved survives crashes, the restored  *)
(* counter is not below the restored history and mail, and a message is    *)
(* returned once for every run of the process.                             *)
(***************************************************************************)
EXTENDS Persist, Integers, TLAPS

(* The empty snapshot is a snapshot. *)
LEMMA EmptyType == Empty \in Snapshots
BY PersistAssumption DEF Empty, Snapshots

(* Changing one field of a flusher's snapshot keeps it a snapshot. *)
LEMMA SnapType ==
  ASSUME snap \in [Flushers -> Snapshots], NEW f \in Flushers
  PROVE  /\ [snap EXCEPT ![f] = Empty] \in [Flushers -> Snapshots]
         /\ open \in BOOLEAN => [snap EXCEPT ![f].open = open] \in [Flushers -> Snapshots]
         /\ mail \subseteq Ids => [snap EXCEPT ![f].mail = mail] \in [Flushers -> Snapshots]
         /\ hist \subseteq Ids => [snap EXCEPT ![f].hist = hist] \in [Flushers -> Snapshots]
         /\ seq \in 0..MaxMessages => [snap EXCEPT ![f].seq = seq] \in [Flushers -> Snapshots]
         /\ [snap EXCEPT ![f].whole = TRUE] \in [Flushers -> Snapshots]
<1>1. [snap EXCEPT ![f] = Empty] \in [Flushers -> Snapshots]
  BY EmptyType
<1>2. ASSUME open \in BOOLEAN PROVE [snap EXCEPT ![f].open = open] \in [Flushers -> Snapshots]
  BY <1>2 DEF Snapshots
<1>3. ASSUME mail \subseteq Ids PROVE [snap EXCEPT ![f].mail = mail] \in [Flushers -> Snapshots]
  BY <1>3 DEF Snapshots
<1>4. ASSUME hist \subseteq Ids PROVE [snap EXCEPT ![f].hist = hist] \in [Flushers -> Snapshots]
  BY <1>4 DEF Snapshots
<1>5. ASSUME seq \in 0..MaxMessages PROVE [snap EXCEPT ![f].seq = seq] \in [Flushers -> Snapshots]
  BY <1>5 DEF Snapshots
<1>6. [snap EXCEPT ![f].whole = TRUE] \in [Flushers -> Snapshots]
  BY DEF Snapshots
<1> QED BY <1>1, <1>2, <1>3, <1>4, <1>5, <1>6

(* What a new process restores is well typed. *)
LEMMA LoadedType ==
  ASSUME disk \in Snapshots \cup {NoSnapshot}
  PROVE  /\ Loaded.open \in BOOLEAN /\ Loaded.mail \subseteq Ids /\ Loaded.hist \subseteq Ids
         /\ Loaded.seq \in 0..MaxMessages
<1>1. Loaded \in Snapshots
  BY EmptyType DEF Loaded
<1> QED BY <1>1 DEF Snapshots

-----------------------------------------------------------------------------
(* Everything in memory, in a snapshot or on disk is of messages that were *)
(* sent, and no counter is ahead of their number.                          *)
Known(q, m, h) == q <= made /\ m \subseteq 1..made /\ h \subseteq 1..made

KnownOK ==
  /\ Known(seq, mail, hist) /\ sending \in 0..made
  /\ \A f \in Flushers : Known(snap[f].seq, snap[f].mail, snap[f].hist)
  /\ disk # NoSnapshot => Known(disk.seq, disk.mail, disk.hist)
  /\ \A i \in Ids : i > made => reads[i] = 0

(* The fields of a snapshot have their types. *)
LEMMA SnapFields ==
  ASSUME TypeOK, NEW f \in Flushers
  PROVE  /\ snap[f].open \in BOOLEAN /\ snap[f].mail \subseteq Ids /\ snap[f].hist \subseteq Ids
         /\ snap[f].seq \in 0..MaxMessages /\ snap[f].whole \in BOOLEAN
<1>1. snap[f] \in Snapshots
  BY DEF TypeOK
<1> QED BY <1>1 DEF Snapshots

(* Sending, reading and deleting keep the variables in their types. *)
LEMMA RequestType == ASSUME TypeOK, KnownOK, Requests PROVE TypeOK'
<1> USE PersistAssumption DEF TypeOK, memory, request, flush, faults, history, Ids
<1>1. CASE SendRecord
  <2>1. made \in Nat /\ seq \in Nat /\ seq <= made /\ made < MaxMessages /\ MaxMessages \in Nat
    BY <1>1 DEF SendRecord, KnownOK, Known
  <2>2. made + 1 \in 1..MaxMessages /\ seq + 1 \in 0..MaxMessages /\ made + 1 \in 0..MaxMessages
    BY <2>1
  <2> QED BY <1>1, <2>2 DEF SendRecord
<1>2. CASE SendDeliver
  BY <1>2 DEF SendDeliver
<1>3. CASE PollCall
  BY <1>3 DEF PollCall
<1>4. CASE Drain
  <2>1. \A i \in Ids : (IF i \in mail THEN reads[i] + 1 ELSE reads[i]) \in Nat
    OBVIOUS
  <2>2. reads' \in [Ids -> Nat]
    BY <1>4, <2>1 DEF Drain
  <2> QED BY <1>4, <2>2 DEF Drain
<1>5. CASE CloseRecord
  <2>1. closes' \in 0..MaxCloses
    BY <1>5 DEF CloseRecord
  <2> QED BY <1>5, <2>1 DEF CloseRecord
<1>6. CASE CloseHub
  <2>1. hist' \subseteq Ids /\ seq' \in 0..MaxMessages
    BY <1>6 DEF CloseHub
  <2> QED BY <1>6, <2>1 DEF CloseHub
<1>7. CASE CloseMail
  BY <1>7 DEF CloseMail
<1>8. CASE Register
  BY <1>8 DEF Register
<1> QED BY <1>1, <1>2, <1>3, <1>4, <1>5, <1>6, <1>7, <1>8 DEF Requests

(* Flushing keeps the variables in their types. *)
LEMMA FlushType == ASSUME TypeOK, NEW f \in Flushers, Flush(f) PROVE TypeOK'
<1> USE SnapType DEF TypeOK, memory, request, faults, history, FlushGo
<1>1. CASE FlushStart(f)
  BY <1>1 DEF FlushStart
<1>2. CASE SnapSessions(f)
  BY <1>2 DEF SnapSessions
<1>3. CASE SnapMail(f)
  BY <1>3 DEF SnapMail
<1>4. CASE SnapHistory(f)
  BY <1>4 DEF SnapHistory
<1>5. CASE SnapSeq(f)
  BY <1>5 DEF SnapSeq
<1>6. CASE FlushWrite(f)
  BY <1>6 DEF FlushWrite
<1>7. CASE FlushRename(f)
  BY <1>7 DEF FlushRename, EndFlush
<1>8. CASE FlushFail(f)
  <2>1. failures' \in 0..MaxFailures
    BY <1>8, PersistAssumption DEF FlushFail
  <2> QED BY <1>8, <2>1 DEF FlushFail, EndFlush
<1> QED BY <1>1, <1>2, <1>3, <1>4, <1>5, <1>6, <1>7, <1>8 DEF Flush

(* Every step of Persist keeps its variables in their types. *)
LEMMA TypeStep == ASSUME TypeOK, KnownOK, [Next]_vars PROVE TypeOK'
<1> USE DEF TypeOK, memory, request, flush, faults, history
<1>1. CASE Shutdown
  <2>1. shutdowns' \in 0..MaxShutdowns
    BY <1>1, PersistAssumption DEF Shutdown
  <2> QED BY <1>1, <2>1 DEF Shutdown
<1>2. CASE StopFlusher \/ Exit
  BY <1>2 DEF StopFlusher, Exit
<1>3. CASE Crash
  <2>1. crashes' \in 0..MaxCrashes
    BY <1>3, PersistAssumption DEF Crash
  <2> QED BY <1>3, <2>1 DEF Crash
<1>4. CASE Restart
  <2>1. snap' \in [Flushers -> Snapshots] /\ begin' \in [Flushers -> SUBSET Ids]
    BY <1>4, EmptyType DEF Restart
  <2>2. open' \in BOOLEAN /\ mail' \subseteq Ids /\ hist' \subseteq Ids /\ seq' \in 0..MaxMessages
    BY <1>4, LoadedType DEF Restart
  <2> QED BY <1>4, <2>1, <2>2 DEF Restart
<1>5. CASE UNCHANGED vars
  BY <1>5 DEF vars
<1> QED BY <1>1, <1>2, <1>3, <1>4, <1>5, RequestType, FlushType DEF Next

(* Every step keeps KnownOK: only SendRecord makes a message known. *)
LEMMA KnownStep == ASSUME TypeOK, KnownOK, [Next]_vars PROVE KnownOK'
<1> USE DEF memory, request, flush, faults, history
<1>0. made \in Nat /\ seq \in Nat
  BY DEF TypeOK
<1>1. CASE SendRecord
  <2>1. 1..made \subseteq 1..(made + 1) /\ made + 1 \in 1..(made + 1) /\ 0..made \subseteq 0..(made + 1)
    BY <1>0
  <2>2. Known(seq, mail, hist)' /\ sending' \in 0..made'
    BY <1>0, <1>1, <2>1 DEF SendRecord, KnownOK, Known
  <2>3. \A f \in Flushers : Known(snap[f].seq, snap[f].mail, snap[f].hist)'
    <3>1. \A f \in Flushers : snap[f].seq \in Nat
      BY SnapFields
    <3> QED BY <1>0, <1>1, <2>1, <3>1 DEF SendRecord, KnownOK, Known
  <2>4. disk' # NoSnapshot => Known(disk.seq, disk.mail, disk.hist)'
    <3>1. disk # NoSnapshot => disk.seq \in Nat
      BY DEF TypeOK, Snapshots
    <3> QED BY <1>0, <1>1, <2>1, <3>1 DEF SendRecord, KnownOK, Known
  <2>5. \A i \in Ids : i > made' => reads'[i] = 0
    BY <1>0, <1>1 DEF SendRecord, KnownOK, Ids
  <2> QED BY <2>2, <2>3, <2>4, <2>5 DEF KnownOK
<1>2. CASE SendDeliver
  BY <1>2 DEF SendDeliver, KnownOK, Known, TypeOK
<1>3. CASE Drain
  <2>1. \A i \in Ids : i > made => i \notin mail
    BY <1>0 DEF KnownOK, Known, Ids
  <2> QED BY <1>0, <1>3, <2>1 DEF Drain, KnownOK, Known
<1>4. CASE Register \/ PollCall \/ CloseRecord
  BY <1>4 DEF Register, PollCall, CloseRecord, KnownOK, Known
<1>5. CASE CloseHub
  BY <1>0, <1>5 DEF CloseHub, KnownOK, Known
<1>6. CASE CloseMail
  BY <1>6 DEF CloseMail, KnownOK, Known
<1>7. ASSUME NEW f \in Flushers, Flush(f) PROVE KnownOK'
  <2>1. UNCHANGED <<seq, mail, hist, sending, made, reads>>
    BY <1>7 DEF Flush, FlushStart, SnapSessions, SnapMail, SnapHistory, SnapSeq, FlushWrite,
                FlushRename, FlushFail
  <2>2. \A g \in Flushers : g # f => snap'[g] = snap[g]
    BY <1>7 DEF Flush, FlushStart, SnapSessions, SnapMail, SnapHistory, SnapSeq, FlushWrite,
                FlushRename, FlushFail, EndFlush, TypeOK
  <2>3. Known(snap[f].seq, snap[f].mail, snap[f].hist)'
    <3>1. snap[f] \in Snapshots /\ Known(Empty.seq, Empty.mail, Empty.hist)
      BY <1>0 DEF TypeOK, Empty, Known
    <3>2. CASE FlushStart(f) \/ FlushRename(f) \/ FlushFail(f)
      <4>1. snap'[f] = Empty
        BY <3>2 DEF FlushStart, FlushRename, FlushFail, EndFlush, TypeOK
      <4> QED BY <2>1, <3>1, <4>1 DEF Known
    <3>3. CASE SnapSessions(f) \/ FlushWrite(f)
      <4>1. snap'[f].seq = snap[f].seq /\ snap'[f].mail = snap[f].mail /\ snap'[f].hist = snap[f].hist
        BY <3>1, <3>3 DEF SnapSessions, FlushWrite, TypeOK, Snapshots
      <4> QED BY <2>1, <4>1 DEF KnownOK, Known
    <3>4. CASE SnapMail(f)
      <4>1. snap'[f].seq = snap[f].seq /\ snap'[f].mail = mail /\ snap'[f].hist = snap[f].hist
        BY <3>1, <3>4 DEF SnapMail, TypeOK, Snapshots
      <4> QED BY <2>1, <4>1 DEF KnownOK, Known
    <3>5. CASE SnapHistory(f)
      <4>1. snap'[f].seq = snap[f].seq /\ snap'[f].mail = snap[f].mail /\ snap'[f].hist = hist
        BY <3>1, <3>5 DEF SnapHistory, TypeOK, Snapshots
      <4> QED BY <2>1, <4>1 DEF KnownOK, Known
    <3>6. CASE SnapSeq(f)
      <4>1. snap'[f].seq = seq /\ snap'[f].mail = snap[f].mail /\ snap'[f].hist = snap[f].hist
        BY <3>1, <3>6 DEF SnapSeq, TypeOK, Snapshots
      <4> QED BY <2>1, <4>1 DEF KnownOK, Known
    <3> QED BY <1>7, <3>2, <3>3, <3>4, <3>5, <3>6 DEF Flush
  <2>4. disk' = disk \/ disk' = snap[f]
    BY <1>7 DEF Flush, FlushStart, SnapSessions, SnapMail, SnapHistory, SnapSeq, FlushWrite,
                FlushRename, FlushFail
  <2>5. \A g \in Flushers : Known(snap[g].seq, snap[g].mail, snap[g].hist)'
    BY <2>1, <2>2, <2>3 DEF KnownOK, Known
  <2>6. disk' # NoSnapshot => Known(disk.seq, disk.mail, disk.hist)'
    BY <2>1, <2>4 DEF KnownOK, Known
  <2> QED BY <2>1, <2>5, <2>6 DEF KnownOK, Known
<1>8. CASE Shutdown \/ StopFlusher \/ Exit \/ Crash
  BY <1>8 DEF Shutdown, StopFlusher, Exit, Crash, KnownOK, Known
<1>9. CASE Restart
  <2>1. Known(Empty.seq, Empty.mail, Empty.hist)
    BY <1>0 DEF Empty, Known
  <2>2. Known(Loaded.seq, Loaded.mail, Loaded.hist)
    BY <2>1 DEF Loaded, KnownOK
  <2>3. Known(seq, mail, hist)' /\ sending' \in 0..made'
    BY <1>0, <1>9, <2>2 DEF Restart, Known
  <2>4. \A f \in Flushers : Known(snap[f].seq, snap[f].mail, snap[f].hist)'
    BY <1>9, <2>1 DEF Restart, Known
  <2> QED BY <1>9, <2>3, <2>4 DEF Restart, KnownOK, Known
<1>10. CASE UNCHANGED vars
  BY <1>10 DEF vars, KnownOK, Known
<1> QED BY <1>1, <1>2, <1>3, <1>4, <1>5, <1>6, <1>7, <1>8, <1>9, <1>10 DEF Next, Requests

(* The types and KnownOK are an inductive invariant of Persist. *)
LEMMA TypeAndKnown == Spec => [](TypeOK /\ KnownOK)
<1>1. Init => TypeOK /\ KnownOK
  <2> SUFFICES ASSUME Init PROVE TypeOK /\ KnownOK
    OBVIOUS
  <2>1. 0 \in 0..MaxMessages /\ 0 \in 0..MaxCrashes /\ 0 \in 0..MaxShutdowns
        /\ 0 \in 0..MaxFailures /\ 0 \in 0..MaxCloses
    BY PersistAssumption
  <2>2. TypeOK
    BY <2>1, EmptyType DEF Init, TypeOK
  <2>3. \A f \in Flushers : Known(snap[f].seq, snap[f].mail, snap[f].hist)
    BY DEF Init, Known, Empty
  <2>4. KnownOK
    BY <2>3 DEF Init, KnownOK, Known
  <2> QED BY <2>2, <2>4
<1>2. TypeOK /\ KnownOK /\ [Next]_vars => (TypeOK /\ KnownOK)'
  BY TypeStep, KnownStep
<1> QED BY <1>1, <1>2, PTL DEF Spec

(* Persist keeps its variables in their types: memory, both snapshots and   *)
(* the state file, over crashes and restarts.                               *)
THEOREM TypeCorrect == Spec => []TypeOK
BY TypeAndKnown, PTL

-----------------------------------------------------------------------------
(* What a step of a flusher leaves alone. *)
LEMMA FlushFrame ==
  ASSUME TypeOK, NEW f \in Flushers, Flush(f)
  PROVE  /\ UNCHANGED <<open, mail, hist, seq, made, seqOf, sending, polling, closing>>
         /\ UNCHANGED <<crashes, shutdowns, closes, reads, accepted, dropped>>
         /\ \A g \in Flushers : g # f => /\ fpc'[g] = fpc[g] /\ snap'[g] = snap[g]
                                         /\ begin'[g] = begin[g]
         /\ up # "down"
         /\ (up' = up) \/ (f = "final" /\ up' = "exiting" /\ fpc'[f] = "rest" /\ fpc[f] # "rest")
<1> USE DEF memory, request, faults, history, FlushGo, EndFlush, Flush, FlushStart, SnapSessions,
            SnapMail, SnapHistory, SnapSeq, FlushWrite, FlushRename, FlushFail
<1>1. UNCHANGED <<open, mail, hist, seq, made, seqOf, sending, polling, closing>>
  OBVIOUS
<1>2. UNCHANGED <<crashes, shutdowns, closes, reads, accepted, dropped>> /\ up # "down"
  OBVIOUS
<1>3. \A g \in Flushers : g # f => fpc'[g] = fpc[g]
  BY DEF TypeOK
<1>4. \A g \in Flushers : g # f => snap'[g] = snap[g]
  BY DEF TypeOK
<1>5. \A g \in Flushers : g # f => begin'[g] = begin[g]
  BY DEF TypeOK
<1>6. (up' = up) \/ (f = "final" /\ up' = "exiting" /\ fpc'[f] = "rest" /\ fpc[f] # "rest")
  <2>1. CASE FlushRename(f) \/ FlushFail(f)
    <3>1. fpc'[f] = "rest" /\ fpc[f] # "rest"
      BY <2>1 DEF TypeOK
    <3>2. up' = up \/ (f = "final" /\ up' = "exiting")
      BY <2>1
    <3> QED BY <3>1, <3>2
  <2>2. CASE FlushStart(f) \/ SnapSessions(f) \/ SnapMail(f) \/ SnapHistory(f) \/ SnapSeq(f)
             \/ FlushWrite(f)
    <3>1. up' = up
      BY <2>2
    <3> QED BY <3>1
  <2> QED BY <2>1, <2>2
<1> QED BY <1>1, <1>2, <1>3, <1>4, <1>5, <1>6

(* What each step of a flusher does to its own locals, and to the file. *)
LEMMA FlushEffect ==
  ASSUME TypeOK, NEW f \in Flushers, Flush(f)
  PROVE  \/ fpc[f] = "rest" /\ fpc'[f] = "sessions" /\ begin'[f] = mail /\ UNCHANGED <<disk, safe>>
            /\ (f = "final" => up = "flushing")
         \/ fpc[f] = "sessions" /\ fpc'[f] = "mail" /\ begin'[f] = begin[f] /\ UNCHANGED <<disk, safe>>
         \/ /\ fpc[f] = "mail" /\ fpc'[f] = "hist" /\ begin'[f] = begin[f] /\ UNCHANGED <<disk, safe>>
            /\ snap'[f].mail = mail
         \/ /\ fpc[f] = "hist" /\ fpc'[f] = "seq" /\ begin'[f] = begin[f] /\ UNCHANGED <<disk, safe>>
            /\ snap'[f].mail = snap[f].mail /\ snap'[f].hist = hist
         \/ /\ fpc[f] = "seq" /\ fpc'[f] = "write" /\ begin'[f] = begin[f] /\ UNCHANGED <<disk, safe>>
            /\ snap'[f].mail = snap[f].mail /\ snap'[f].hist = snap[f].hist /\ snap'[f].seq = seq
         \/ /\ fpc[f] = "write" /\ fpc'[f] = "rename" /\ begin'[f] = begin[f] /\ UNCHANGED <<disk, safe>>
            /\ snap'[f].mail = snap[f].mail /\ snap'[f].hist = snap[f].hist
            /\ snap'[f].seq = snap[f].seq /\ snap'[f].whole
         \/ fpc[f] = "rename" /\ fpc'[f] = "rest" /\ disk' = snap[f] /\ safe' = safe \cup begin[f]
         \/ fpc[f] \in {"write", "rename"} /\ fpc'[f] = "rest" /\ UNCHANGED <<disk, safe>>
<1> USE DEF memory, request, faults, history, FlushGo
<1>0. /\ snap[f] \in Snapshots /\ fpc \in [Flushers -> {"rest", "sessions", "mail", "hist", "seq", "write", "rename"}]
      /\ begin \in [Flushers -> SUBSET Ids] /\ snap \in [Flushers -> Snapshots]
  BY DEF TypeOK
<1>1. CASE FlushStart(f)
  BY <1>0, <1>1 DEF FlushStart
<1>2. CASE SnapSessions(f)
  BY <1>0, <1>2 DEF SnapSessions
<1>3. CASE SnapMail(f)
  BY <1>0, <1>3 DEF SnapMail, Snapshots
<1>4. CASE SnapHistory(f)
  BY <1>0, <1>4 DEF SnapHistory, Snapshots
<1>5. CASE SnapSeq(f)
  BY <1>0, <1>5 DEF SnapSeq, Snapshots
<1>6. CASE FlushWrite(f)
  BY <1>0, <1>6 DEF FlushWrite, Snapshots
<1>7. CASE FlushRename(f)
  BY <1>0, <1>7 DEF FlushRename, EndFlush
<1>8. CASE FlushFail(f)
  BY <1>0, <1>8 DEF FlushFail, EndFlush
<1> QED BY <1>1, <1>2, <1>3, <1>4, <1>5, <1>6, <1>7, <1>8 DEF Flush

-----------------------------------------------------------------------------
(* The numbers of the messages in h are q or less. *)
Below(h, q) == \A i \in h : seqOf[i] <= q

(* Why the counter stays above what the server holds: a flusher copies       *)
(* mailboxes and history first and the counter after them, and until it has  *)
(* the counter, the one in memory bounds what it copied.  A deletion resets  *)
(* the counter: with it none of this holds.                                  *)
CounterOK ==
  closes = 0 =>
    /\ closing = "no"
    /\ Below(hist \cup mail, seq) /\ (sending # 0 => seqOf[sending] <= seq)
    /\ \A f \in Flushers :
         /\ fpc[f] \in {"hist", "seq"} => Below(snap[f].mail, seq)
         /\ fpc[f] = "seq" => Below(snap[f].hist, seq)
         /\ fpc[f] \in {"write", "rename"} =>
              Below(snap[f].hist, snap[f].seq) /\ Below(snap[f].mail, snap[f].seq)
    /\ disk # NoSnapshot => Below(disk.hist, disk.seq) /\ Below(disk.mail, disk.seq)

(* A new message changes the number of no message sent before it. *)
LEMMA BelowSent ==
  ASSUME TypeOK, SendRecord, NEW h \in SUBSET (1..made), NEW q \in Nat, Below(h, q)
  PROVE  \A i \in h : seqOf'[i] <= q
<1>1. made \in Nat /\ made < MaxMessages /\ MaxMessages \in Nat /\ seqOf \in [1..MaxMessages -> 0..MaxMessages]
  BY PersistAssumption DEF TypeOK, SendRecord, Ids
<1>2. \A i \in h : i \in 1..MaxMessages /\ i # made + 1
  BY <1>1
<1>3. \A i \in h : seqOf'[i] = seqOf[i]
  BY <1>1, <1>2 DEF SendRecord
<1> QED BY <1>3 DEF Below

(* Nor does it put a message above a counter that has grown. *)
LEMMA BelowGrown ==
  ASSUME TypeOK, KnownOK, SendRecord, NEW h \in SUBSET (1..made), Below(h, seq)
  PROVE  \A i \in h : seqOf'[i] <= seq'
<1>1. seq \in Nat /\ seq' = seq + 1 /\ made \in Nat /\ made < MaxMessages /\ MaxMessages \in Nat
  BY PersistAssumption DEF TypeOK, SendRecord
<1>2. \A i \in h : seqOf'[i] <= seq
  BY <1>1, BelowSent
<1>3. seqOf' \in [Ids -> 0..MaxMessages]
  BY TypeStep DEF TypeOK, Next, Requests
<1>4. \A i \in h : seqOf'[i] \in Nat
  BY <1>1, <1>3 DEF Ids
<1> QED BY <1>1, <1>2, <1>4

(* Every step keeps CounterOK. *)
LEMMA CounterStep == ASSUME TypeOK, KnownOK, CounterOK, [Next]_vars PROVE CounterOK'
<1> USE DEF memory, request, flush, faults, history
<1>1. CASE SendRecord
  <2> SUFFICES ASSUME closes' = 0 PROVE CounterOK'
    BY DEF CounterOK
  <2>0. closes = 0 /\ UNCHANGED <<fpc, snap, disk, closing, mail>>
    BY <1>1 DEF SendRecord
  <2>1. /\ seq \in Nat /\ seq' = seq + 1 /\ hist' = hist \cup {made + 1} /\ sending' = made + 1
        /\ seqOf'[made + 1] = seq + 1
    <3>1. made + 1 \in Ids
      BY <1>1, PersistAssumption DEF SendRecord, TypeOK, Ids
    <3> QED BY <1>1, <3>1 DEF SendRecord, TypeOK
  <2>2. \A i \in hist \cup mail : seqOf'[i] <= seq'
    <3>1. hist \cup mail \in SUBSET (1..made) /\ Below(hist \cup mail, seq)
      BY <2>0 DEF CounterOK, KnownOK, Known
    <3> QED BY <1>1, <3>1, BelowGrown
  <2>3. /\ \A i \in hist' \cup mail' : seqOf'[i] <= seq'
        /\ seqOf'[sending'] <= seq'
    BY <2>0, <2>1, <2>2
  <2>4. ASSUME NEW f \in Flushers, fpc[f] = "seq" PROVE \A i \in snap[f].hist : seqOf'[i] <= seq'
    BY <1>1, <2>0, <2>4, BelowGrown DEF CounterOK, KnownOK, Known
  <2>5. ASSUME NEW f \in Flushers, fpc[f] \in {"hist", "seq"}
        PROVE  \A i \in snap[f].mail : seqOf'[i] <= seq'
    BY <1>1, <2>0, <2>5, BelowGrown DEF CounterOK, KnownOK, Known
  <2>6. ASSUME NEW f \in Flushers, fpc[f] \in {"write", "rename"}
        PROVE  /\ \A i \in snap[f].hist : seqOf'[i] <= snap[f].seq
               /\ \A i \in snap[f].mail : seqOf'[i] <= snap[f].seq
    <3>1. snap[f].seq \in Nat
      BY SnapFields
    <3> QED BY <1>1, <2>0, <2>6, <3>1, BelowSent DEF CounterOK, KnownOK, Known
  <2>7. disk # NoSnapshot => /\ \A i \in disk.hist : seqOf'[i] <= disk.seq
                             /\ \A i \in disk.mail : seqOf'[i] <= disk.seq
    <3>1. disk # NoSnapshot => disk.seq \in Nat
      BY DEF TypeOK, Snapshots
    <3> QED BY <1>1, <2>0, <3>1, BelowSent DEF CounterOK, KnownOK, Known
  <2> QED BY <2>0, <2>3, <2>4, <2>5, <2>6, <2>7 DEF CounterOK, Below
<1>2. CASE SendDeliver
  BY <1>2 DEF SendDeliver, CounterOK, Below
<1>3. CASE Register \/ PollCall \/ Drain \/ CloseMail
  BY <1>3 DEF Register, PollCall, Drain, CloseMail, CounterOK, Below
<1>4. CASE CloseRecord
  <2>1. closes' # 0
    BY <1>4 DEF CloseRecord, TypeOK
  <2> QED BY <2>1 DEF CounterOK
<1>5. CASE CloseHub
  BY <1>5 DEF CloseHub, CounterOK
<1>6. ASSUME NEW f \in Flushers, Flush(f) PROVE CounterOK'
  <2>1. UNCHANGED <<closes, closing, hist, mail, sending, seq, seqOf>>
        /\ \A g \in Flushers : g # f => fpc'[g] = fpc[g] /\ snap'[g] = snap[g]
    BY <1>6, FlushFrame
  <2> SUFFICES ASSUME closes = 0 PROVE CounterOK'
    BY <2>1 DEF CounterOK
  <2>2. /\ fpc'[f] = "seq" => \A i \in snap'[f].hist : seqOf[i] <= seq
        /\ fpc'[f] \in {"write", "rename"} => \A i \in snap'[f].hist : seqOf[i] <= snap'[f].seq
        /\ disk' # NoSnapshot => \A i \in disk'.hist : seqOf[i] <= disk'.seq
    BY <1>6, FlushEffect DEF CounterOK, Below
  <2>3. /\ fpc'[f] \in {"hist", "seq"} => \A i \in snap'[f].mail : seqOf[i] <= seq
        /\ fpc'[f] \in {"write", "rename"} => \A i \in snap'[f].mail : seqOf[i] <= snap'[f].seq
        /\ disk' # NoSnapshot => \A i \in disk'.mail : seqOf[i] <= disk'.seq
    BY <1>6, FlushEffect DEF CounterOK, Below
  <2> QED BY <2>1, <2>2, <2>3 DEF CounterOK, Below
<1>7. CASE Shutdown \/ StopFlusher \/ Exit \/ Crash
  BY <1>7 DEF Shutdown, StopFlusher, Exit, Crash, CounterOK, Below
<1>8. CASE Restart
  <2>1. closes = 0 => Below(Loaded.hist, Loaded.seq) /\ Below(Loaded.mail, Loaded.seq)
    BY DEF Loaded, CounterOK, Below, Empty
  <2> QED BY <1>8, <2>1 DEF Restart, CounterOK, Below
<1>9. CASE UNCHANGED vars
  BY <1>9 DEF vars, CounterOK, Below
<1> QED BY <1>1, <1>2, <1>3, <1>4, <1>5, <1>6, <1>7, <1>8, <1>9 DEF Next, Requests

(* A counter that a restart restored is not below the restored history and   *)
(* mail, although getSnapshot copies them at three instants: SendMessage     *)
(* gives a message no number of one that the server still holds.             *)
THEOREM CounterCoversHistory == Spec => []CounterAboveHistory
<1>1. Init => CounterOK
  BY DEF Init, CounterOK, Below
<1>2. TypeOK /\ KnownOK /\ CounterOK /\ [Next]_vars => CounterOK'
  BY CounterStep
<1>3. CounterOK => CounterAboveHistory
  BY DEF CounterOK, CounterAboveHistory, Below
<1> QED BY <1>1, <1>2, <1>3, TypeAndKnown, PTL DEF Spec

-----------------------------------------------------------------------------
(* The messages of S are in m, or were read, or were dropped. *)
Held(S, m) == \A i \in S : i \in m \/ Settled(i)

(* Why a crash loses nothing older than the last completed flush, as long    *)
(* as one flusher runs at a time: what is safe is in the state file and in   *)
(* memory; what was in memory when a flush began is in memory still, and,    *)
(* once the flusher has copied the mailboxes, in its copy together with      *)
(* everything that is safe.                                                  *)
LossOK ==
  shutdowns = 0 =>
    /\ up \in {"up", "down"} /\ fpc["final"] = "rest"
    /\ Held(safe, mail)
    /\ Held(safe, IF disk # NoSnapshot /\ disk.whole THEN disk.mail ELSE {})
    /\ fpc["periodic"] # "rest" => Held(begin["periodic"], mail)
    /\ fpc["periodic"] \in {"hist", "seq", "write", "rename"} =>
         Held(safe \cup begin["periodic"], snap["periodic"].mail)
    /\ fpc["periodic"] = "rename" => snap["periodic"].whole

(* What was read or dropped stays so. *)
LEMMA SettledStays ==
  ASSUME TypeOK, [Next]_vars, NEW i \in Ids, Settled(i) PROVE Settled(i)'
<1> USE DEF memory, request, flush, faults, history, Settled
<1>1. CASE Drain
  BY <1>1 DEF Drain, TypeOK
<1>2. CASE CloseMail
  BY <1>2 DEF CloseMail
<1>3. CASE Register \/ SendRecord \/ SendDeliver \/ PollCall \/ CloseRecord \/ CloseHub
  BY <1>3 DEF Register, SendRecord, SendDeliver, PollCall, CloseRecord, CloseHub
<1>4. ASSUME NEW f \in Flushers, Flush(f) PROVE Settled(i)'
  BY <1>4, FlushFrame
<1>5. CASE Shutdown \/ StopFlusher \/ Exit \/ Crash \/ Restart
  BY <1>5 DEF Shutdown, StopFlusher, Exit, Crash, Restart
<1>6. CASE UNCHANGED vars
  BY <1>6 DEF vars
<1> QED BY <1>1, <1>2, <1>3, <1>4, <1>5, <1>6 DEF Next, Requests

(* A message leaves the mailbox of a running server only when it is settled. *)
LEMMA MailLeaves ==
  ASSUME TypeOK, [Next]_vars, ~Restart, NEW i \in mail PROVE i \in mail' \/ Settled(i)'
<1> USE DEF memory, request, flush, faults, history
<1>1. CASE Drain
  <2>1. i \in Ids /\ reads[i] \in Nat /\ reads'[i] = reads[i] + 1
    BY <1>1 DEF Drain, TypeOK
  <2> QED BY <2>1 DEF Settled
<1>2. CASE CloseMail
  BY <1>2 DEF CloseMail, Settled
<1>3. CASE Register \/ SendRecord \/ SendDeliver \/ PollCall \/ CloseRecord \/ CloseHub
  BY <1>3 DEF Register, SendRecord, SendDeliver, PollCall, CloseRecord, CloseHub
<1>4. ASSUME NEW f \in Flushers, Flush(f) PROVE i \in mail'
  BY <1>4, FlushFrame
<1>5. CASE Shutdown \/ StopFlusher \/ Exit \/ Crash
  BY <1>5 DEF Shutdown, StopFlusher, Exit, Crash
<1>6. CASE UNCHANGED vars
  BY <1>6 DEF vars
<1> QED BY <1>1, <1>2, <1>3, <1>4, <1>5, <1>6 DEF Next, Requests

(* Every step keeps LossOK. *)
LEMMA LossStep == ASSUME TypeOK, LossOK, [Next]_vars PROVE LossOK'
<1> USE DEF memory, request, flush, faults, history
<1>0. safe \subseteq Ids /\ begin["periodic"] \subseteq Ids
  BY DEF TypeOK, Flushers
<1>1. CASE Shutdown
  <2>1. shutdowns' # 0
    BY <1>1 DEF Shutdown, TypeOK
  <2> QED BY <2>1 DEF LossOK
<1>2. CASE Requests \/ StopFlusher \/ Exit \/ Crash \/ UNCHANGED vars
  <2>1. UNCHANGED <<fpc, snap, begin, disk, shutdowns, safe>>
    BY <1>2 DEF Requests, Register, SendRecord, SendDeliver, PollCall, Drain, CloseRecord, CloseHub,
                CloseMail, StopFlusher, Exit, Crash, vars
  <2>2. shutdowns = 0 => up' \in {"up", "down"}
    BY <1>2 DEF LossOK, Requests, Register, SendRecord, SendDeliver, PollCall, Drain, CloseRecord, CloseHub,
                CloseMail, StopFlusher, Exit, Crash, vars
  <2>3. ~Restart \/ UNCHANGED mail
    BY <1>2 DEF Requests, Register, SendRecord, SendDeliver, PollCall, Drain, CloseRecord, CloseHub,
                CloseMail, StopFlusher, Exit, Crash, vars, Restart
  <2>4. \A i \in mail : i \in mail' \/ Settled(i)'
    BY <2>3, MailLeaves
  <2>5. \A i \in Ids : Settled(i) => Settled(i)'
    BY SettledStays
  <2> QED BY <1>0, <2>1, <2>2, <2>4, <2>5 DEF LossOK, Held
<1>3. ASSUME NEW f \in Flushers, Flush(f) PROVE LossOK'
  <2>1. UNCHANGED <<mail, shutdowns, reads, dropped>> /\ up # "down"
    BY <1>3, FlushFrame
  <2> SUFFICES ASSUME shutdowns = 0 PROVE LossOK'
    BY <2>1 DEF LossOK
  <2>2. f = "periodic"
    BY <1>3, FlushEffect DEF LossOK, Flushers
  <2>3. up' = up /\ fpc'["final"] = fpc["final"]
    BY <1>3, <2>2, FlushFrame DEF Flushers
  <2>4. \A i : Settled(i)' <=> Settled(i)
    BY <2>1 DEF Settled
  <2>5. CASE fpc["periodic"] = "rename" /\ disk' = snap["periodic"] /\ fpc'["periodic"] = "rest"
             /\ safe' = safe \cup begin["periodic"]
    <3>1. snap["periodic"] # NoSnapshot
      BY NoSnapshotAssumption DEF TypeOK, Flushers
    <3>2. Held(safe, mail)' /\ Held(safe, disk.mail)'
      BY <2>1, <2>4, <2>5 DEF LossOK, Held
    <3> QED BY <2>1, <2>3, <2>5, <3>1, <3>2 DEF LossOK
  <2>6. CASE UNCHANGED <<disk, safe>>
    <3>1. Held(safe, mail)' /\ Held(safe, IF disk # NoSnapshot /\ disk.whole THEN disk.mail ELSE {})'
      BY <2>1, <2>4, <2>6 DEF LossOK, Held
    <3>2. fpc'["periodic"] # "rest" => Held(begin["periodic"], mail)'
      BY <1>3, <2>1, <2>2, <2>4, FlushEffect DEF LossOK, Held
    <3>3. fpc'["periodic"] \in {"hist", "seq", "write", "rename"} =>
            Held(safe \cup begin["periodic"], snap["periodic"].mail)'
      BY <1>3, <2>1, <2>2, <2>4, <2>6, FlushEffect DEF LossOK, Held
    <3>4. fpc'["periodic"] = "rename" => snap'["periodic"].whole
      BY <1>3, <2>2, FlushEffect
    <3> QED BY <2>1, <2>3, <3>1, <3>2, <3>3, <3>4 DEF LossOK
  <2> QED BY <1>3, <2>2, <2>5, <2>6, FlushEffect
<1>4. CASE Restart
  <2>1. UNCHANGED <<shutdowns, safe, disk, reads, dropped>> /\ mail' = Loaded.mail /\ up' = "up"
        /\ fpc' = [f \in Flushers |-> "rest"]
    BY <1>4 DEF Restart
  <2>2. shutdowns = 0 => Held(safe, Loaded.mail)
    BY DEF LossOK, Loaded, Held, Empty
  <2> QED BY <2>1, <2>2 DEF LossOK, Held, Settled, Flushers
<1> QED BY <1>1, <1>2, <1>3, <1>4 DEF Next

(* Mail that was in the mailbox when the last completed flush began         *)
(* survives any number of crashes, failed flushes and restarts.             *)
THEOREM FlushedMailSurvives == Spec => []LossWindow
<1>1. Init => LossOK
  BY DEF Init, LossOK, Held, Flushers
<1>2. TypeOK /\ LossOK /\ [Next]_vars => LossOK'
  BY LossStep
<1>3. LossOK => LossWindow
  BY DEF LossOK, LossWindow, Held
<1> QED BY <1>1, <1>2, <1>3, TypeCorrect, PTL DEF Spec

-----------------------------------------------------------------------------
(* The runs of the process that have ended: a shutdown counts when it is    *)
(* over.                                                                    *)
Ended == IF up \in {"up", "down"} THEN crashes + shutdowns ELSE (crashes + shutdowns) - 1

(* Why a message is returned once in a run: one that is queued, or about to *)
(* be, was returned in earlier runs only.  The final flush moves the server *)
(* from flushing to exiting and from no other state, so a run that ended is *)
(* counted once.                                                            *)
RereadOK ==
  /\ up \notin {"up", "down"} => shutdowns # 0
  /\ fpc["final"] # "rest" => up \in {"flushing", "down"}
  /\ sending \notin mail
  /\ up = "down" => \A i \in Ids : reads[i] <= crashes + shutdowns
  /\ up # "down" => /\ \A i \in Ids : reads[i] <= Ended + 1
                    /\ \A i \in Ids : i \in mail \/ i = sending => reads[i] <= Ended

(* Every step keeps RereadOK. *)
LEMMA RereadStep == ASSUME TypeOK, KnownOK, RereadOK, [Next]_vars PROVE RereadOK'
<1> USE DEF memory, request, flush, faults, history
<1>0. /\ crashes \in Nat /\ shutdowns \in Nat /\ \A i \in Ids : reads[i] \in Nat
      /\ Ended \in Int /\ (up # "down" => Ended \in Nat)
  BY DEF TypeOK, RereadOK, Ended
<1>1. CASE SendRecord
  <2>1. /\ up = "up" /\ UNCHANGED <<up, mail, fpc, crashes, shutdowns, reads>>
        /\ sending' = made + 1 /\ made \in Nat /\ made < MaxMessages
    BY <1>1 DEF SendRecord, TypeOK
  <2>2. made + 1 \notin mail /\ (made + 1 \in Ids => reads[made + 1] = 0)
    BY <2>1 DEF KnownOK, Known
  <2>3. Ended' = Ended
    BY <2>1 DEF Ended
  <2> QED BY <1>0, <2>1, <2>2, <2>3 DEF RereadOK
<1>2. CASE SendDeliver
  <2>1. Ended' = Ended /\ 0 \notin mail' /\ 0 \notin Ids
    BY <1>2 DEF SendDeliver, Ended, TypeOK, Ids
  <2> QED BY <1>2, <2>1 DEF SendDeliver, RereadOK
<1>3. CASE Drain
  <2>1. UNCHANGED <<up, crashes, shutdowns, sending, fpc>> /\ mail' = {} /\ up # "down"
    BY <1>3 DEF Drain
  <2>2. Ended' = Ended
    BY <2>1 DEF Ended
  <2>3. \A i \in Ids : reads'[i] = IF i \in mail THEN reads[i] + 1 ELSE reads[i]
    BY <1>3 DEF Drain
  <2>4. \A i \in Ids : reads'[i] <= Ended + 1
    BY <1>0, <2>1, <2>3 DEF RereadOK
  <2>5. \A i \in Ids : i = sending => reads'[i] <= Ended
    BY <2>1, <2>3 DEF RereadOK
  <2> QED BY <2>1, <2>2, <2>4, <2>5 DEF RereadOK
<1>4. CASE Register \/ PollCall \/ CloseRecord \/ CloseHub \/ CloseMail \/ UNCHANGED vars
  <2>1. UNCHANGED <<up, crashes, shutdowns, sending, fpc, reads>> /\ (mail' = mail \/ mail' = {})
    BY <1>4 DEF Register, PollCall, CloseRecord, CloseHub, CloseMail, vars
  <2>2. Ended' = Ended
    BY <2>1 DEF Ended
  <2> QED BY <2>1, <2>2 DEF RereadOK
<1>5. ASSUME NEW f \in Flushers, Flush(f) PROVE RereadOK'
  <2>1. UNCHANGED <<mail, sending, reads, crashes, shutdowns>> /\ up # "down"
    BY <1>5, FlushFrame
  <2>2. fpc["final"] # "rest" => up = "flushing"
    BY <2>1 DEF RereadOK
  <2>3. up' = up \/ (up = "flushing" /\ up' = "exiting" /\ fpc'["final"] = "rest")
    BY <1>5, <2>2, FlushFrame
  <2>4. fpc'["final"] # "rest" => up' = "flushing"
    <3>1. CASE f = "final"
      <4>1. fpc["final"] = "rest" => up = "flushing"
        BY <1>5, <3>1, FlushEffect
      <4> QED BY <2>2, <2>3, <4>1
    <3>2. CASE f # "final"
      <4>1. fpc'["final"] = fpc["final"] /\ up' = up
        BY <1>5, <3>2, FlushFrame DEF Flushers
      <4> QED BY <2>2, <4>1
    <3> QED BY <3>1, <3>2
  <2>5. Ended' = Ended /\ up' # "down" /\ (up' \notin {"up", "down"} => shutdowns # 0)
    BY <2>1, <2>3 DEF Ended, RereadOK
  <2> QED BY <2>1, <2>4, <2>5 DEF RereadOK
<1>6. CASE Shutdown
  <2>1. UNCHANGED <<mail, sending, reads, fpc, crashes>> /\ up = "up" /\ up' = "draining"
        /\ shutdowns' = shutdowns + 1
    BY <1>6 DEF Shutdown
  <2>2. Ended' = Ended
    BY <1>0, <2>1 DEF Ended
  <2> QED BY <1>0, <2>1, <2>2 DEF RereadOK
<1>7. CASE StopFlusher
  <2>1. UNCHANGED <<mail, sending, reads, fpc, crashes, shutdowns>> /\ up = "draining"
        /\ up' = "flushing"
    BY <1>7 DEF StopFlusher
  <2>2. Ended' = Ended
    BY <2>1 DEF Ended
  <2> QED BY <2>1, <2>2 DEF RereadOK
<1>8. CASE Exit
  <2>1. UNCHANGED <<mail, sending, reads, fpc, crashes, shutdowns>> /\ up = "exiting" /\ up' = "down"
    BY <1>8 DEF Exit
  <2>2. Ended = (crashes + shutdowns) - 1
    BY <2>1 DEF Ended
  <2>3. \A i \in Ids : reads[i] <= crashes + shutdowns
    BY <1>0, <2>1, <2>2 DEF RereadOK
  <2> QED BY <2>1, <2>3 DEF RereadOK
<1>9. CASE Crash
  <2>1. UNCHANGED <<mail, sending, reads, fpc, shutdowns>> /\ up # "down" /\ up' = "down"
        /\ crashes' = crashes + 1
    BY <1>9 DEF Crash
  <2>2. Ended <= crashes + shutdowns
    BY <1>0 DEF Ended
  <2>3. \A i \in Ids : reads[i] <= (crashes + 1) + shutdowns
    BY <1>0, <2>1, <2>2 DEF RereadOK
  <2> QED BY <2>1, <2>3 DEF RereadOK
<1>10. CASE Restart
  <2>1. /\ UNCHANGED <<reads, crashes, shutdowns>> /\ up = "down" /\ up' = "up" /\ sending' = 0
        /\ mail' = Loaded.mail /\ fpc'["final"] = "rest"
    BY <1>10 DEF Restart, Flushers
  <2>2. 0 \notin mail' /\ Ended' = crashes + shutdowns
    BY <2>1, LoadedType DEF Ended, TypeOK, Ids
  <2> QED BY <1>0, <2>1, <2>2 DEF RereadOK
<1> QED BY <1>1, <1>2, <1>3, <1>4, <1>5, <1>6, <1>7, <1>8, <1>9, <1>10 DEF Next, Requests

(* A destructive read is undone by a restart and by nothing else: Drain     *)
(* returns a message at most once for every run of the process.             *)
THEOREM RereadNeedsRestart == Spec => []RereadOnlyAfterRestart
<1>1. Init => RereadOK
  BY DEF Init, RereadOK, Flushers, Ended
<1>2. TypeOK /\ KnownOK /\ RereadOK /\ [Next]_vars => RereadOK'
  BY RereadStep
<1>3. TypeOK /\ RereadOK => RereadOnlyAfterRestart
  <2> SUFFICES ASSUME TypeOK, RereadOK, NEW i \in Ids PROVE reads[i] <= (1 + crashes) + shutdowns
    BY DEF RereadOnlyAfterRestart
  <2>1. crashes \in Nat /\ shutdowns \in Nat /\ reads[i] \in Nat
    BY DEF TypeOK
  <2> QED BY <2>1 DEF RereadOK, Ended
<1> QED BY <1>1, <1>2, <1>3, TypeAndKnown, PTL DEF Spec
=============================================================================
