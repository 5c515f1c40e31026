--------------------------- MODULE MailboxProofs ---------------------------
(***************************************************************************)
(* For every number of goroutines, keys, boxes and entries and every box   *)
(* capacity: the mailbox store is well typed, returns no entry twice,      *)
(* loses no mail, pushes out only the oldest, and implements MailLedger.   *)
(***************************************************************************)
EXTENDS Mailbox, FiniteSetTheorems, TLAPS

(* There is a key to fall back on. *)
LEMMA SomeKeyType == SomeKey \in Keys
BY MailboxAssumption DEF SomeKey

(* The empty filter, messages and requested filters are filters. *)
LEMMA FilterTypes ==
  /\ Everything \in Filters
  /\ [from : Senders, type : Types] \subseteq Filters
  /\ \A p \in Readers : Wanted[p] \subseteq Filters
BY MailboxAssumption DEF Everything, Filters

(* Zero is the entry number of a goroutine that has none. *)
LEMMA ZeroEid == 0 \in 0..MaxEntries
BY MailboxAssumption

(* The number of entries that have arrived is a natural number. *)
LEMMA ArrivedCount == Cardinality(Appended) \in Nat
<1>1. IsFiniteSet(Ids)
  BY MailboxAssumption, FS_Interval DEF Ids
<1>2. Appended \subseteq Ids
  BY DEF Appended
<1> QED BY <1>1, <1>2, FS_Subset, FS_CardinalityType

(* Trimming keeps a subset of the box. *)
LEMMA NewestSubset ==
  ASSUME NEW S, NEW n, NEW arr PROVE Newest(S, n, arr) \subseteq S
BY DEF Newest

(* A goroutine that returns is left with well-typed locals. *)
LEMMA ReturnType ==
  ASSUME LocalTypeOK, NEW p \in Procs, Return(p) PROVE LocalTypeOK'
<1>1. "idle" \in Labels \ Holding
  BY DEF Labels, Holding
<1> QED BY <1>1, SomeKeyType, FilterTypes, ZeroEid DEF LocalTypeOK, Return

(* Looking a box up changes only where a goroutine is and what it holds. *)
LEMMA FindBoxType ==
  ASSUME TypeOK, NEW p \in Procs, NEW at, 
         NEW hit \in Labels \ {"dAppend"}, NEW miss \in Labels \ Holding,
         FindBox(p, at, hit, miss)
  PROVE  TypeOK'
<1> USE DEF TypeOK, FindBox, store, queue, history, Goto
<1>1. StoreTypeOK'
  BY DEF StoreTypeOK
<1>2. MailTypeOK'
  BY DEF MailTypeOK
<1>3. LocalTypeOK'
  <2>1. key[p] \in Keys /\ boxes[key[p]] \in BoxIds \cup {NoBox}
    BY DEF LocalTypeOK, StoreTypeOK
  <2>2. boxes[key[p]] # NoBox => boxes[key[p]] \in BoxIds
    BY <2>1
  <2>3. \A q \in Procs : box'[q] = IF q = p THEN boxes[key[p]] ELSE box[q]
    BY DEF LocalTypeOK
  <2>4. \A q \in Procs : pc'[q] = IF q = p THEN IF boxes[key[p]] # NoBox THEN hit ELSE miss
                                           ELSE pc[q]
    BY DEF LocalTypeOK
  <2>5. \A q \in Procs : /\ pc'[q] = "dAppend" => eid'[q] \in Ids
                         /\ pc'[q] \in Holding => box'[q] \in BoxIds
    BY <2>2, <2>3, <2>4, "dAppend" \in Holding DEF LocalTypeOK, Holding
  <2> QED BY <2>1, <2>5 DEF LocalTypeOK
<1> QED BY <1>1, <1>2, <1>3

(* Allocating a box keeps the map and the goroutine well typed. *)
LEMMA MakeBoxType ==
  ASSUME TypeOK, NEW p \in Procs, NEW at, 
         NEW next \in Labels \ {"dAppend"}, MakeBox(p, at, next)
  PROVE  TypeOK'
<1> USE DEF TypeOK, MakeBox, store, queue, history, Goto
<1>1. MailTypeOK'
  BY DEF MailTypeOK
<1>2. key[p] \in Keys /\ boxes[key[p]] \in BoxIds \cup {NoBox}
  BY DEF LocalTypeOK, StoreTypeOK
<1>3. made < MaxBoxes => made + 1 \in BoxIds /\ made + 1 \in 0..MaxBoxes
  BY MailboxAssumption DEF StoreTypeOK, BoxIds
<1>4. StoreTypeOK'
  BY <1>2, <1>3 DEF StoreTypeOK
<1>5. LocalTypeOK'
  BY <1>2, <1>3 DEF LocalTypeOK
<1> QED BY <1>1, <1>4, <1>5

(* Taking entries out of a box keeps the mail well typed. *)
LEMMA TakeType ==
  ASSUME MailTypeOK, NEW b, NEW S, Take(b, S), UNCHANGED <<entrySeq, envelope, dest>>
  PROVE  MailTypeOK'
<1>1. drains' \in [Ids -> Nat]
  BY DEF MailTypeOK, Take
<1>2. entries' \in [BoxIds -> SUBSET Ids]
  BY DEF MailTypeOK, Take
<1> QED BY <1>1, <1>2 DEF MailTypeOK, Take

(* Appending, with its trim, keeps the mail well typed. *)
LEMMA AppendType ==
  ASSUME TypeOK, NEW p \in Procs, DeliverAppend(p) PROVE MailTypeOK'
<1> DEFINE arr == [arrival EXCEPT ![eid[p]] = Cardinality(Appended) + 1]
           all == entries[box[p]] \cup {eid[p]}
<1> USE DEF TypeOK
<1>0. eid[p] \in Ids
  BY DEF DeliverAppend, LocalTypeOK
<1>1. arrival' \in [Ids -> Nat]
  <2>1. arrival' = arr
    BY DEF DeliverAppend
  <2>2. Cardinality(Appended) + 1 \in Nat
    BY ArrivedCount
  <2>3. arrival \in [Ids -> Nat]
    BY DEF MailTypeOK
  <2> HIDE DEF TypeOK
  <2> QED BY <2>1, <2>2, <2>3
<1>2. PICK kept : /\ kept \subseteq all
                  /\ entries' = [entries EXCEPT ![box[p]] = kept]
                  /\ evicted' = evicted \cup (all \ kept)
  BY NewestSubset DEF DeliverAppend
<1>3. all \subseteq Ids
  BY <1>0 DEF MailTypeOK, LocalTypeOK, DeliverAppend, Holding
<1> QED BY <1>1, <1>2, <1>3 DEF DeliverAppend, MailTypeOK, history

(* Every step of Mailbox keeps its variables in their types. *)
LEMMA TypeStep == TypeOK /\ [Next]_vars => TypeOK'
<1> SUFFICES ASSUME TypeOK, [Next]_vars PROVE TypeOK'
  OBVIOUS
<1> USE DEF TypeOK, store, queue, locals, history
<1>1. ASSUME NEW p \in Procs, Deliver(p) PROVE TypeOK'
  <2>1. CASE DeliverFind(p)
    BY <2>1, FindBoxType DEF DeliverFind, Labels, Holding
  <2>2. CASE DeliverMake(p)
    BY <2>2, MakeBoxType DEF DeliverMake, Labels, Holding
  <2>3. CASE DeliverStamp(p)
    <3>1. entrySeq + 1 \in Ids /\ entrySeq + 1 \in 0..MaxEntries
      BY <2>3, MailboxAssumption DEF DeliverStamp, MailTypeOK, Ids
    <3>2. filter[p] \in Filters /\ key[p] \in Keys
      BY DEF LocalTypeOK
    <3>3. StoreTypeOK'
      BY <2>3 DEF DeliverStamp, StoreTypeOK
    <3>4. MailTypeOK'
      BY <2>3, <3>1, <3>2 DEF DeliverStamp, MailTypeOK
    <3>5. LocalTypeOK'
      BY <2>3, <3>1 DEF DeliverStamp, LocalTypeOK, Goto, Labels, Holding
    <3> QED BY <3>3, <3>4, <3>5
  <2>4. CASE DeliverAppend(p)
    <3>1. StoreTypeOK'
      BY <2>4 DEF DeliverAppend, StoreTypeOK
    <3>2. LocalTypeOK'
      BY <2>4 DEF DeliverAppend, LocalTypeOK, Goto, Labels, Holding
    <3>3. MailTypeOK'
      BY <2>4, AppendType DEF DeliverAppend
    <3> QED BY <3>1, <3>2, <3>3
  <2>5. CASE DeliverSignal(p)
    BY <2>5, ReturnType DEF DeliverSignal, StoreTypeOK, MailTypeOK
  <2> QED BY <1>1, <2>1, <2>2, <2>3, <2>4, <2>5 DEF Deliver
<1>2. ASSUME NEW p \in Procs, Drain(p) PROVE TypeOK'
  <2>1. CASE DrainFind(p)
    <3>1. CASE FindBox(p, "rFind", "rTake", "rFind")
      BY <3>1, FindBoxType DEF Labels, Holding
    <3>2. CASE ~FindBox(p, "rFind", "rTake", "rFind")
      BY <2>1, <3>2, ReturnType DEF DrainFind, StoreTypeOK, MailTypeOK
    <3> QED BY <3>1, <3>2
  <2>2. CASE DrainTake(p)
    BY <2>2, ReturnType, TakeType DEF DrainTake, StoreTypeOK
  <2> QED BY <1>2, <2>1, <2>2 DEF Drain
<1>3. ASSUME NEW p \in Procs, Wait(p) PROVE TypeOK'
  <2>1. CASE WaitFind(p)
    BY <2>1, FindBoxType DEF WaitFind, Labels, Holding
  <2>2. CASE WaitTake(p)
    <3>1. StoreTypeOK' /\ MailTypeOK'
      BY <2>2, TakeType DEF WaitTake, StoreTypeOK
    <3>2. LocalTypeOK'
      BY <2>2, ReturnType DEF WaitTake, LocalTypeOK, Goto, Labels, Holding
    <3> QED BY <3>1, <3>2
  <2>3. CASE WaitCheck(p)
    <3>1. StoreTypeOK' /\ MailTypeOK'
      BY <2>3 DEF WaitCheck, StoreTypeOK, MailTypeOK
    <3>2. LocalTypeOK'
      BY <2>3, ReturnType DEF WaitCheck, LocalTypeOK, Goto, Labels, Holding
    <3> QED BY <3>1, <3>2
  <2>4. CASE WaitGet(p)
    BY <2>4, FindBoxType DEF WaitGet, Labels, Holding
  <2>5. CASE WaitMake(p)
    BY <2>5, MakeBoxType DEF WaitMake, Labels, Holding
  <2>6. CASE WaitSignalled(p)
    BY <2>6 DEF WaitSignalled, StoreTypeOK, MailTypeOK, LocalTypeOK, Goto, Labels, Holding
  <2>7. CASE WaitTick(p)
    BY <2>7 DEF WaitTick, StoreTypeOK, MailTypeOK, LocalTypeOK, Goto, Labels, Holding
  <2> QED BY <1>3, <2>1, <2>2, <2>3, <2>4, <2>5, <2>6, <2>7 DEF Wait
<1>4. ASSUME NEW p \in Procs, DeadlinePasses(p) PROVE TypeOK'
  BY <1>4 DEF DeadlinePasses, StoreTypeOK, MailTypeOK, LocalTypeOK
<1>5. ASSUME NEW p \in Writers, NEW k \in Keys,
             NEW env \in [from : Senders, type : Types], DeliverCall(p, k, env)
      PROVE  TypeOK'
  <2>1. env \in Filters /\ p \in Procs
    BY FilterTypes DEF Procs
  <2> QED BY <1>5, <2>1 DEF DeliverCall, StoreTypeOK, MailTypeOK, LocalTypeOK, Goto, Labels, Holding
<1>6. ASSUME NEW p \in Readers, NEW k \in Keys, DrainCall(p, k) PROVE TypeOK'
  BY <1>6 DEF DrainCall, StoreTypeOK, MailTypeOK, LocalTypeOK, Goto, Labels, Holding, Procs
<1>7. ASSUME NEW p \in Readers, NEW k \in Keys, NEW noWait \in BOOLEAN, NEW f \in Wanted[p],
             WaitCall(p, k, f, noWait)
      PROVE  TypeOK'
  <2>1. f \in Filters /\ p \in Procs
    BY FilterTypes DEF Procs
  <2> QED BY <1>7, <2>1 DEF WaitCall, StoreTypeOK, MailTypeOK, LocalTypeOK, Goto, Labels, Holding
<1>8. ASSUME NEW K \in SUBSET Keys, Delete(K) PROVE TypeOK'
  BY <1>8 DEF Delete, StoreTypeOK, MailTypeOK, LocalTypeOK
<1>9. CASE UNCHANGED vars
  BY <1>9 DEF vars, StoreTypeOK, MailTypeOK, LocalTypeOK
<1> QED
  BY <1>1, <1>2, <1>3, <1>4, <1>5, <1>6, <1>7, <1>8, <1>9, MailboxAssumption
     DEF Next, Step, DeleteBox, DeleteSession

(* The initial state of the mailbox store is well typed. *)
LEMMA TypeInit == Init => TypeOK
<1>1. Init => StoreTypeOK
  BY MailboxAssumption DEF Init, StoreTypeOK
<1>2. Init => MailTypeOK
  BY SomeKeyType, FilterTypes, ZeroEid DEF Init, MailTypeOK
<1>3. Init => LocalTypeOK
  BY SomeKeyType, FilterTypes, ZeroEid DEF Init, LocalTypeOK, Labels, Holding
<1> QED BY <1>1, <1>2, <1>3 DEF TypeOK

(* Every reachable state of the mailbox store is well typed. *)
THEOREM TypeCorrect == Spec => []TypeOK
BY TypeInit, TypeStep, PTL DEF Spec

-----------------------------------------------------------------------------
(* The invariant behind the two theorems about mail.  An entry that has a   *)
(* number but has not arrived belongs to exactly one goroutine.             *)
PendingOK ==
  \A p \in Procs : pc[p] = "dAppend" =>
    /\ eid[p] <= entrySeq /\ arrival[eid[p]] = 0 /\ dest[eid[p]] = key[p]
    /\ \A q \in Procs : pc[q] = "dAppend" /\ eid[q] = eid[p] => q = p

(* An entry that has not arrived is nowhere. *)
UnbornOK ==
  \A i \in Ids :
    /\ i > entrySeq => arrival[i] = 0
    /\ arrival[i] = 0 => drains[i] = 0 /\ i \notin evicted /\ \A b \in BoxIds : i \notin entries[b]

(* An entry is in one box only, and then neither read nor evicted. *)
PlaceOK ==
  \A i \in Ids :
    /\ drains[i] # 0 => drains[i] = 1 /\ i \notin evicted
    /\ \A b \in BoxIds : i \in entries[b] =>
         /\ drains[i] = 0 /\ i \notin evicted
         /\ \A c \in BoxIds : i \in entries[c] => c = b

(* The box in a goroutine's hand is the one the map has for its key, or one *)
(* that a deletion took out of the map.                                     *)
HeldOK ==
  \A p \in Procs : pc[p] \in Holding => boxes[key[p]] = box[p] \/ box[p] \in removed

MailInv == PendingOK /\ UnbornOK /\ PlaceOK /\ HeldOK /\ NothingLost

(* A step that moves no mail and puts nobody at the append keeps the state *)
(* of every entry.                                                         *)
LEMMA QuietMail ==
  ASSUME PendingOK, UnbornOK, PlaceOK, UNCHANGED <<queue, entrySeq, dest>>,
         \A q \in Procs : pc'[q] = "dAppend" =>
                            pc[q] = "dAppend" /\ eid'[q] = eid[q] /\ key'[q] = key[q]
  PROVE  PendingOK' /\ UnbornOK' /\ PlaceOK'
<1> USE DEF queue
<1>1. PendingOK'
  BY DEF PendingOK
<1>2. UnbornOK' /\ PlaceOK'
  BY DEF UnbornOK, PlaceOK
<1> QED BY <1>1, <1>2

(* A step that neither moves mail nor touches the map loses none. *)
LEMMA QuietLoss ==
  ASSUME NothingLost, UNCHANGED <<queue, boxes, dest, removed>> PROVE NothingLost'
BY DEF NothingLost, Appended, queue

(* A goroutine that keeps its box and its key, or gives them up, holds the *)
(* box that it should.                                                     *)
LEMMA QuietHeld ==
  ASSUME HeldOK, UNCHANGED <<boxes, removed>>,
         \A q \in Procs : pc'[q] \in Holding =>
                            pc[q] \in Holding /\ box'[q] = box[q] /\ key'[q] = key[q]
  PROVE  HeldOK'
BY DEF HeldOK

(* Returning gives up box, key and entry. *)
LEMMA ReturnQuiet ==
  ASSUME TypeOK, NEW p \in Procs, Return(p)
  PROVE  \A q \in Procs :
           /\ pc'[q] \notin Holding \/ q # p
           /\ q # p => /\ pc'[q] = pc[q] /\ eid'[q] = eid[q]
                       /\ key'[q] = key[q] /\ box'[q] = box[q]
BY DEF TypeOK, LocalTypeOK, Return, Holding

(* Moving a goroutine on changes no other. *)
LEMMA GotoQuiet ==
  ASSUME TypeOK, NEW p \in Procs, NEW l, Goto(p, l)
  PROVE  \A q \in Procs : pc'[q] = IF q = p THEN l ELSE pc[q]
BY DEF TypeOK, LocalTypeOK, Goto

(* Looking a box up keeps the invariant. *)
LEMMA FindBoxInv ==
  ASSUME TypeOK, MailInv, NEW p \in Procs, NEW at, NEW hit \in Labels \ {"dAppend"},
         NEW miss \in Labels \ Holding, FindBox(p, at, hit, miss)
  PROVE  MailInv'
<1> USE DEF FindBox, store, history
<1>1. \A q \in Procs : pc'[q] = IF q = p THEN IF boxes[key[p]] # NoBox THEN hit ELSE miss
                                         ELSE pc[q]
  BY GotoQuiet
<1>2. PendingOK' /\ UnbornOK' /\ PlaceOK'
  BY <1>1, QuietMail DEF MailInv, Holding
<1>3. HeldOK'
  <2>1. \A q \in Procs : box'[q] = IF q = p THEN boxes[key[p]] ELSE box[q]
    BY DEF TypeOK, LocalTypeOK
  <2> QED BY <1>1, <2>1 DEF MailInv, HeldOK
<1>4. NothingLost'
  BY QuietLoss DEF MailInv
<1> QED BY <1>2, <1>3, <1>4 DEF MailInv

(* Allocating a box keeps the invariant: the map had none for this key, so *)
(* nobody holds, and no mail is in, a box that the map now forgets.        *)
LEMMA MakeBoxInv ==
  ASSUME TypeOK, MailInv, NEW p \in Procs, NEW at, NEW next \in Labels \ {"dAppend"},
         MakeBox(p, at, next)
  PROVE  MailInv'
<1> USE DEF MakeBox, store, history
<1>1. \A q \in Procs : pc'[q] = IF q = p THEN next ELSE pc[q]
  BY GotoQuiet
<1>2. PendingOK' /\ UnbornOK' /\ PlaceOK'
  BY <1>1, QuietMail DEF MailInv
<1>3. key[p] \in Keys
  BY DEF TypeOK, LocalTypeOK
<1>4. NoBox \notin BoxIds
  BY MailboxAssumption DEF BoxIds
<1>5. boxes'[key[p]] = box'[p]
  BY <1>3 DEF TypeOK, LocalTypeOK, StoreTypeOK
<1>6. \A k \in Keys : boxes[k] # NoBox => boxes'[k] = boxes[k]
  BY DEF TypeOK, StoreTypeOK
<1>7. HeldOK'
  <2>1. \A q \in Procs : q # p => box'[q] = box[q]
    BY DEF TypeOK, LocalTypeOK
  <2>2. \A q \in Procs : pc[q] \in Holding => box[q] \in BoxIds /\ key[q] \in Keys
    BY DEF TypeOK, LocalTypeOK
  <2> QED BY <1>1, <1>4, <1>5, <1>6, <2>1, <2>2 DEF MailInv, HeldOK
<1>8. NothingLost'
  <2>1. \A i \in Ids : dest[i] \in Keys
    BY DEF TypeOK, MailTypeOK
  <2> QED BY <1>4, <1>6, <2>1 DEF MailInv, NothingLost, Appended, queue
<1> QED BY <1>2, <1>7, <1>8 DEF MailInv

(* Taking some of a box's entries out of it keeps the state of every entry *)
(* and loses none.                                                         *)
LEMMA TakeInv ==
  ASSUME TypeOK, MailInv, NEW b \in BoxIds, NEW S \in SUBSET entries[b], Take(b, S),
         UNCHANGED <<boxes, entrySeq, dest, removed>>,
         \A q \in Procs : pc'[q] = "dAppend" =>
                            pc[q] = "dAppend" /\ eid'[q] = eid[q] /\ key'[q] = key[q]
  PROVE  PendingOK' /\ UnbornOK' /\ PlaceOK' /\ NothingLost'
<1>1. \A i \in Ids : drains'[i] = IF i \in S THEN drains[i] + 1 ELSE drains[i]
  BY DEF Take
<1>2. \A c \in BoxIds : entries'[c] = IF c = b THEN entries[b] \ S ELSE entries[c]
  BY DEF Take, TypeOK, MailTypeOK
<1>3. arrival' = arrival /\ evicted' = evicted
  BY DEF Take
<1>4. \A i \in Ids : i \in S => drains'[i] = 1 /\ i \notin evicted /\ arrival[i] # 0
                             /\ \A c \in BoxIds : i \notin entries'[c]
  BY <1>1, <1>2 DEF MailInv, PlaceOK, UnbornOK
<1>5. \A i \in Ids : i \notin S => /\ drains'[i] = drains[i]
                                /\ \A c \in BoxIds : i \in entries'[c] <=> i \in entries[c]
  BY <1>1, <1>2
<1>6. PendingOK'
  BY <1>3 DEF MailInv, PendingOK
<1>7. UnbornOK'
  BY <1>3, <1>4, <1>5 DEF MailInv, UnbornOK
<1>8. PlaceOK'
  BY <1>3, <1>4, <1>5 DEF MailInv, PlaceOK
<1>9. NothingLost'
  BY <1>3, <1>4, <1>5 DEF MailInv, NothingLost, Appended
<1> QED BY <1>6, <1>7, <1>8, <1>9

(* A new number goes to one goroutine, and to an entry that is nowhere. *)
LEMMA StampInv ==
  ASSUME TypeOK, MailInv, NEW p \in Procs, DeliverStamp(p) PROVE MailInv'
<1> DEFINE n == entrySeq + 1
<1> USE DEF DeliverStamp, store, queue
<1>1. n \in Ids /\ entrySeq \in Nat
  BY MailboxAssumption DEF TypeOK, MailTypeOK, Ids
<1>2. arrival[n] = 0
  BY <1>1 DEF MailInv, UnbornOK
<1>3. \A i \in Ids : dest'[i] = IF i = n THEN key[p] ELSE dest[i]
  BY DEF TypeOK, MailTypeOK
<1>4. \A q \in Procs : pc'[q] = IF q = p THEN "dAppend" ELSE pc[q]
  BY GotoQuiet
<1>5. \A q \in Procs : eid'[q] = IF q = p THEN n ELSE eid[q]
  BY DEF TypeOK, LocalTypeOK
<1>6. PendingOK'
  <2>1. \A q \in Procs : q # p /\ pc'[q] = "dAppend" =>
          /\ eid'[q] \in Ids /\ eid'[q] <= entrySeq /\ eid'[q] # n
          /\ arrival'[eid'[q]] = 0 /\ dest'[eid'[q]] = key'[q]
    BY <1>1, <1>3, <1>4, <1>5 DEF MailInv, PendingOK, TypeOK, LocalTypeOK, Ids
  <2>2. entrySeq <= entrySeq' /\ n <= entrySeq'
    BY <1>1
  <2>3. \A q \in Procs : pc'[q] = "dAppend" => eid'[q] <= entrySeq'
    BY <1>1, <1>4, <1>5, <2>1, <2>2 DEF Ids
  <2>4. \A q, r \in Procs : pc'[q] = "dAppend" /\ pc'[r] = "dAppend" /\ eid'[q] = eid'[r] => q = r
    BY <1>4, <1>5, <2>1 DEF MailInv, PendingOK
  <2> QED BY <1>1, <1>2, <1>3, <1>4, <1>5, <2>1, <2>3, <2>4 DEF PendingOK
<1>7. UnbornOK'
  BY <1>1 DEF MailInv, UnbornOK, Ids
<1>8. PlaceOK'
  BY DEF MailInv, PlaceOK
<1>9. HeldOK'
  BY <1>4, QuietHeld DEF MailInv, Holding
<1>10. NothingLost'
  BY <1>2, <1>3 DEF MailInv, NothingLost, Appended
<1> QED BY <1>6, <1>7, <1>8, <1>9, <1>10 DEF MailInv

(* The appended entry is in the box or evicted; the others stay or are *)
(* evicted with it.                                                    *)
LEMMA AppendInv ==
  ASSUME TypeOK, MailInv, NEW p \in Procs, DeliverAppend(p) PROVE MailInv'
<1> DEFINE e == eid[p]
           b == box[p]
           all == entries[b] \cup {e}
<1> USE DEF store, history
<1>1. e \in Ids /\ b \in BoxIds /\ key[p] \in Keys
  BY DEF DeliverAppend, TypeOK, LocalTypeOK, Holding
<1>2. PICK kept : /\ kept \subseteq all
                  /\ entries' = [entries EXCEPT ![b] = kept]
                  /\ evicted' = evicted \cup (all \ kept)
  BY NewestSubset DEF DeliverAppend
<1>3. arrival[e] = 0 /\ dest[e] = key[p] /\ e <= entrySeq
  BY DEF MailInv, PendingOK, DeliverAppend
<1>4. \A i \in Ids : (i = e => arrival'[i] # 0) /\ (i # e => arrival'[i] = arrival[i])
  <2>1. arrival' = [arrival EXCEPT ![e] = Cardinality(Appended) + 1]
    BY DEF DeliverAppend
  <2>2. Cardinality(Appended) + 1 # 0
    BY ArrivedCount
  <2>3. arrival \in [Ids -> Nat]
    BY DEF TypeOK, MailTypeOK
  <2> QED BY <2>1, <2>2, <2>3
<1>5. \A c \in BoxIds : entries'[c] = IF c = b THEN kept ELSE entries[c]
  BY <1>2 DEF TypeOK, MailTypeOK
<1>6. /\ UNCHANGED <<drains, entrySeq, boxes, removed, dest, key, box, eid>>
      /\ \A q \in Procs : pc'[q] = IF q = p THEN "dSignal" ELSE pc[q]
  BY GotoQuiet DEF DeliverAppend
<1>7. drains[e] = 0 /\ e \notin evicted /\ \A c \in BoxIds : e \notin entries[c]
  BY <1>1, <1>3 DEF MailInv, UnbornOK
<1>8. PendingOK'
  <2>1. \A q \in Procs : pc'[q] = "dAppend" => q # p /\ pc[q] = "dAppend" /\ eid[q] # e /\ eid[q] \in Ids
    BY <1>6 DEF DeliverAppend, MailInv, PendingOK, TypeOK, LocalTypeOK
  <2> QED BY <1>4, <1>6, <2>1 DEF MailInv, PendingOK
<1>9. UnbornOK'
  <2>1. \A i \in Ids : i > entrySeq => i # e
    BY <1>3 DEF TypeOK, MailTypeOK, Ids
  <2>2. \A i \in Ids : i # e /\ i \notin entries[b] => i \notin all
    OBVIOUS
  <2> QED BY <1>1, <1>2, <1>4, <1>5, <1>6, <2>1, <2>2 DEF MailInv, UnbornOK
<1>10. PlaceOK'
  BY <1>1, <1>2, <1>5, <1>6, <1>7 DEF MailInv, PlaceOK
<1>11. HeldOK'
  BY <1>6, QuietHeld DEF DeliverAppend, MailInv, Holding
<1>12. NothingLost'
  <2>1. boxes[key[p]] = b \/ b \in removed
    BY DEF DeliverAppend, MailInv, HeldOK, Holding
  <2>2. \A i \in Ids : i # e /\ arrival'[i] # 0 /\ drains'[i] = 0 /\ i \notin evicted' =>
          \E c \in BoxIds : i \in entries'[c] /\ (boxes'[dest'[i]] = c \/ c \in removed')
    BY <1>2, <1>4, <1>5, <1>6 DEF MailInv, NothingLost, Appended
  <2>3. e \notin evicted' => e \in entries'[b]
    BY <1>1, <1>2, <1>5
  <2> QED BY <1>1, <1>3, <1>6, <2>1, <2>2, <2>3 DEF NothingLost, Appended
<1> QED BY <1>8, <1>9, <1>10, <1>11, <1>12 DEF MailInv

(* A deletion moves boxes from the map to the removed ones. *)
LEMMA DeleteInv ==
  ASSUME TypeOK, MailInv, NEW K \in SUBSET Keys, Delete(K) PROVE MailInv'
<1> USE DEF Delete, locals
<1>1. PendingOK' /\ UnbornOK' /\ PlaceOK'
  BY QuietMail DEF MailInv
<1>2. NoBox \notin BoxIds
  BY MailboxAssumption DEF BoxIds
<1>3. \A k \in Keys : boxes[k] # NoBox => boxes'[k] = boxes[k] \/ boxes[k] \in removed'
  OBVIOUS
<1>4. HeldOK'
  <2>1. \A q \in Procs : pc[q] \in Holding => box[q] \in BoxIds /\ key[q] \in Keys
    BY DEF TypeOK, LocalTypeOK
  <2> QED BY <1>2, <1>3, <2>1 DEF MailInv, HeldOK
<1>5. NothingLost'
  <2>1. \A i \in Ids : dest[i] \in Keys
    BY DEF TypeOK, MailTypeOK
  <2> QED BY <1>2, <1>3, <2>1 DEF MailInv, NothingLost, Appended, queue
<1> QED BY <1>1, <1>4, <1>5 DEF MailInv

(* A step of one goroutine that changes only its own locals, and holds no *)
(* box afterwards that it did not hold before, keeps the invariant.       *)
LEMMA LocalInv ==
  ASSUME MailInv, UNCHANGED <<boxes, queue, entrySeq, history>>,
         \A q \in Procs : pc'[q] \in Holding =>
            pc[q] = pc'[q] /\ eid'[q] = eid[q] /\ box'[q] = box[q] /\ key'[q] = key[q]
  PROVE  MailInv'
<1> USE DEF history, MailInv
<1>1. PendingOK' /\ UnbornOK' /\ PlaceOK'
  BY QuietMail DEF Holding
<1>2. HeldOK'
  BY QuietHeld
<1>3. NothingLost'
  BY QuietLoss
<1> QED BY <1>1, <1>2, <1>3

(* Every step of Mailbox keeps the invariant. *)
LEMMA InvStep == TypeOK /\ MailInv /\ [Next]_vars => MailInv'
<1> SUFFICES ASSUME TypeOK, MailInv, [Next]_vars PROVE MailInv'
  OBVIOUS
<1> USE DEF store, history
<1>1. ASSUME NEW p \in Procs, Deliver(p) PROVE MailInv'
  <2>1. CASE DeliverFind(p)
    BY <2>1, FindBoxInv DEF DeliverFind, Labels, Holding
  <2>2. CASE DeliverMake(p)
    BY <2>2, MakeBoxInv DEF DeliverMake, Labels
  <2>3. CASE DeliverStamp(p)
    BY <2>3, StampInv
  <2>4. CASE DeliverAppend(p)
    BY <2>4, AppendInv
  <2>5. CASE DeliverSignal(p)
    BY <2>5, ReturnQuiet, LocalInv DEF DeliverSignal
  <2> QED BY <1>1, <2>1, <2>2, <2>3, <2>4, <2>5 DEF Deliver
<1>2. ASSUME NEW p \in Procs, Drain(p) PROVE MailInv'
  <2>1. CASE DrainFind(p)
    <3>1. CASE FindBox(p, "rFind", "rTake", "rFind")
      BY <3>1, FindBoxInv DEF Labels, Holding
    <3>2. CASE ~FindBox(p, "rFind", "rTake", "rFind")
      BY <2>1, <3>2, ReturnQuiet, LocalInv DEF DrainFind
    <3> QED BY <3>1, <3>2
  <2>2. CASE DrainTake(p)
    <3>1. box[p] \in BoxIds
      BY <2>2 DEF DrainTake, TypeOK, LocalTypeOK, Holding
    <3>2. PendingOK' /\ UnbornOK' /\ PlaceOK' /\ NothingLost'
      BY <2>2, <3>1, ReturnQuiet, TakeInv DEF DrainTake, Holding
    <3>3. HeldOK'
      BY <2>2, ReturnQuiet, QuietHeld DEF DrainTake, MailInv
    <3> QED BY <3>2, <3>3 DEF MailInv
  <2> QED BY <1>2, <2>1, <2>2 DEF Drain
<1>3. ASSUME NEW p \in Procs, Wait(p) PROVE MailInv'
  <2>1. CASE WaitFind(p)
    BY <2>1, FindBoxInv DEF WaitFind, Labels, Holding
  <2>2. CASE WaitTake(p)
    <3>1. box[p] \in BoxIds /\ Matching(box[p], filter[p]) \subseteq entries[box[p]]
      BY <2>2 DEF WaitTake, TypeOK, LocalTypeOK, Holding, Matching
    <3>2. \A q \in Procs : pc'[q] \in Holding =>
            pc[q] = pc'[q] /\ eid'[q] = eid[q] /\ box'[q] = box[q] /\ key'[q] = key[q]
      BY <2>2, ReturnQuiet, GotoQuiet DEF WaitTake, Holding
    <3>3. PendingOK' /\ UnbornOK' /\ PlaceOK' /\ NothingLost'
      BY <2>2, <3>1, <3>2, TakeInv DEF WaitTake, Holding
    <3>4. HeldOK'
      BY <2>2, <3>2, QuietHeld DEF WaitTake, MailInv
    <3> QED BY <3>3, <3>4 DEF MailInv
  <2>3. CASE WaitCheck(p)
    BY <2>3, ReturnQuiet, GotoQuiet, LocalInv DEF WaitCheck, Holding
  <2>4. CASE WaitGet(p)
    BY <2>4, FindBoxInv DEF WaitGet, Labels, Holding
  <2>5. CASE WaitMake(p)
    BY <2>5, MakeBoxInv DEF WaitMake, Labels
  <2>6. CASE WaitSignalled(p)
    BY <2>6, GotoQuiet, LocalInv DEF WaitSignalled, Holding
  <2>7. CASE WaitTick(p)
    BY <2>7, GotoQuiet, LocalInv DEF WaitTick, Holding
  <2> QED BY <1>3, <2>1, <2>2, <2>3, <2>4, <2>5, <2>6, <2>7 DEF Wait
<1>4. ASSUME NEW p \in Procs, DeadlinePasses(p) PROVE MailInv'
  BY <1>4, LocalInv DEF DeadlinePasses
<1>5. ASSUME NEW p \in Procs, NEW k \in Keys, pc[p] = "idle",
             key' = [key EXCEPT ![p] = k],
             \E l \in {"dFind", "rFind", "wFind"} : Goto(p, l),
             UNCHANGED <<store, queue, entrySeq, box, eid, history>>
      PROVE  MailInv'
  <2>1. \A q \in Procs : q # p => pc'[q] = pc[q] /\ key'[q] = key[q]
    BY <1>5, GotoQuiet DEF TypeOK, LocalTypeOK
  <2>2. pc'[p] \notin Holding
    BY <1>5, GotoQuiet DEF Holding
  <2> QED BY <1>5, <2>1, <2>2, LocalInv
<1>6. ASSUME NEW K \in SUBSET Keys, Delete(K) PROVE MailInv'
  BY <1>6, DeleteInv
<1>7. CASE UNCHANGED vars
  BY <1>7, LocalInv DEF vars, locals
<1>8. ASSUME NEW p \in Writers, NEW k \in Keys,
             NEW env \in [from : Senders, type : Types], DeliverCall(p, k, env)
      PROVE  MailInv'
  BY <1>5, <1>8 DEF DeliverCall, Procs
<1>9. ASSUME NEW p \in Readers, NEW k \in Keys, DrainCall(p, k) PROVE MailInv'
  BY <1>5, <1>9 DEF DrainCall, Procs
<1>10. ASSUME NEW p \in Readers, NEW k \in Keys, NEW noWait \in BOOLEAN, NEW f \in Wanted[p],
              WaitCall(p, k, f, noWait)
       PROVE  MailInv'
  BY <1>5, <1>10 DEF WaitCall, Procs
<1> QED
  BY <1>1, <1>2, <1>3, <1>4, <1>6, <1>7, <1>8, <1>9, <1>10, MailboxAssumption
     DEF Next, Step, DeleteBox, DeleteSession

(* The initial state satisfies the invariant: there is no mail. *)
LEMMA InvInit == Init => MailInv
<1> SUFFICES ASSUME Init PROVE MailInv
  OBVIOUS
<1>1. PendingOK /\ HeldOK
  BY DEF Init, PendingOK, HeldOK, Holding
<1>2. UnbornOK /\ PlaceOK
  BY DEF Init, UnbornOK, PlaceOK
<1>3. NothingLost
  BY DEF Init, NothingLost, Appended
<1> QED BY <1>1, <1>2, <1>3 DEF MailInv

(* The invariant holds in every reachable state. *)
LEMMA InvCorrect == Spec => [](TypeOK /\ MailInv)
BY TypeInit, TypeStep, InvInit, InvStep, PTL DEF Spec

(* No entry is ever returned to two readers, however many goroutines drain *)
(* or long-poll one mailbox while others deliver to it and delete it.      *)
THEOREM NoEntryDrainedTwice == Spec => []DrainedOnce
<1>1. TypeOK /\ MailInv => DrainedOnce
  BY DEF DrainedOnce, MailInv, PlaceOK, Queued
<1> QED BY <1>1, InvCorrect, PTL

(* No mail disappears: races between deliveries that find no box, and with *)
(* deletions, leave every unread entry in the box of its key or in one     *)
(* that was deleted.                                                       *)
THEOREM NoMailLost == Spec => []NothingLost
<1>1. TypeOK /\ MailInv => NothingLost
  BY DEF MailInv
<1> QED BY <1>1, InvCorrect, PTL

-----------------------------------------------------------------------------
(* The store implements the ledger. *)

(* Where an entry stands follows from the one box that holds it. *)
LEMMA StatusOf ==
  ASSUME TypeOK, MailInv, NEW b \in BoxIds, NEW i \in entries[b]
  PROVE  i \in Ids /\ Status(i) = IF b \in removed THEN "dropped" ELSE "queued"
<1>1. i \in Ids /\ removed \subseteq BoxIds
  BY DEF TypeOK, MailTypeOK, StoreTypeOK
<1>2. drains[i] = 0 /\ i \notin evicted /\ \A c \in BoxIds : i \in entries[c] => c = b
  BY <1>1 DEF MailInv, PlaceOK
<1>3. (\E c \in removed : i \in entries[c]) <=> b \in removed
  BY <1>1, <1>2
<1> QED BY <1>1, <1>2, <1>3 DEF Status

(* An entry keeps its standing in a step that neither moves it nor removes *)
(* its box.                                                                *)
LEMMA SameStatus ==
  ASSUME NEW i, drains'[i] = drains[i], i \in evicted' <=> i \in evicted,
         \A b \in BoxIds : i \in entries'[b] <=> i \in entries[b],
         (\E b \in removed' : i \in entries'[b]) <=> (\E b \in removed : i \in entries[b])
  PROVE  Status(i)' = Status(i)
BY DEF Status

(* A step that moves no mail and removes no box is invisible in the ledger. *)
LEMMA QuietLedger ==
  ASSUME UNCHANGED <<queue, removed>> PROVE UNCHANGED [i \in Ids |-> Status(i)]
BY DEF queue, Status

(* Taking entries out of a box is one read of the ledger, or none. *)
LEMMA TakeLedger ==
  ASSUME TypeOK, MailInv, NEW b \in BoxIds, NEW S \in SUBSET entries[b], Take(b, S),
         UNCHANGED removed
  PROVE  Ledger!Read(S) \/ UNCHANGED [i \in Ids |-> Status(i)]
<1>1. \A i \in Ids : drains'[i] = IF i \in S THEN drains[i] + 1 ELSE drains[i]
  BY DEF Take
<1>2. \A c \in BoxIds : entries'[c] = IF c = b THEN entries[b] \ S ELSE entries[c]
  BY DEF Take, TypeOK, MailTypeOK
<1>3. evicted' = evicted /\ S \subseteq Ids /\ removed \subseteq BoxIds
  BY DEF Take, TypeOK, MailTypeOK, StoreTypeOK
<1>4. \A i \in S : Status(i) \in {"queued", "dropped"}
  BY StatusOf
<1>5. \A i \in S : Status(i)' = "read"
  <2>1. \A i \in S : drains'[i] # 0
    BY <1>1, <1>3 DEF TypeOK, MailTypeOK
  <2> QED BY <2>1 DEF Status
<1>6. \A i \in Ids \ S : Status(i)' = Status(i)
  <2> SUFFICES ASSUME NEW i \in Ids \ S PROVE Status(i)' = Status(i)
    OBVIOUS
  <2>1. drains'[i] = drains[i] /\ \A c \in BoxIds : i \in entries'[c] <=> i \in entries[c]
    BY <1>1, <1>2
  <2> QED BY <1>3, <2>1, SameStatus
<1>7. CASE S = {}
  BY <1>6, <1>7
<1>8. CASE S # {}
  <2>1. [i \in Ids |-> Status(i)]' =
          [i \in Ids |-> IF i \in S THEN "read" ELSE [j \in Ids |-> Status(j)][i]]
    BY <1>5, <1>6
  <2>2. \A m \in S : [j \in Ids |-> Status(j)][m] \in {"queued", "dropped"}
    BY <1>3, <1>4
  <2> QED BY <1>8, <2>1, <2>2 DEF Ledger!Read
<1> QED BY <1>7, <1>8

(* Appending accepts one entry and evicts others of the same box. *)
LEMMA AppendLedger ==
  ASSUME TypeOK, MailInv, NEW p \in Procs, DeliverAppend(p)
  PROVE  \E m \in Ids, E \in SUBSET Ids, s \in {"queued", "dropped"} : Ledger!Accept(m, E, s)
<1> DEFINE e == eid[p]
           b == box[p]
           all == entries[b] \cup {e}
           s == IF b \in removed THEN "dropped" ELSE "queued"
<1>1. e \in Ids /\ b \in BoxIds
  BY DEF DeliverAppend, TypeOK, LocalTypeOK, Holding
<1>2. PICK kept : /\ kept \subseteq all
                  /\ entries' = [entries EXCEPT ![b] = kept]
                  /\ evicted' = evicted \cup (all \ kept)
  BY NewestSubset DEF DeliverAppend
<1>3. drains[e] = 0 /\ e \notin evicted /\ \A c \in BoxIds : e \notin entries[c]
  BY <1>1 DEF DeliverAppend, MailInv, PendingOK, UnbornOK
<1>4. \A c \in BoxIds : entries'[c] = IF c = b THEN kept ELSE entries[c]
  BY <1>2 DEF TypeOK, MailTypeOK
<1>5. UNCHANGED <<drains, removed>> /\ removed \subseteq BoxIds /\ all \subseteq Ids
  BY <1>1 DEF DeliverAppend, history, TypeOK, MailTypeOK, StoreTypeOK
<1> DEFINE E == all \ kept
<1>6. Status(e) = "new"
  BY <1>3 DEF Status
<1>7. \A i \in entries[b] : i \in Ids /\ Status(i) = s /\ drains[i] = 0 /\ i \notin evicted
  BY <1>1, <1>5, StatusOf DEF MailInv, PlaceOK
<1>8. \A i \in E : Status(i)' = "evicted"
  <2>1. \A i \in E : drains'[i] = 0 /\ i \in evicted'
    BY <1>2, <1>3, <1>5, <1>7
  <2> QED BY <2>1 DEF Status
<1>9. \A i \in kept : Status(i)' = s
  <2> SUFFICES ASSUME NEW i \in kept PROVE Status(i)' = s
    OBVIOUS
  <2>1. drains'[i] = 0 /\ i \notin evicted'
    BY <1>2, <1>3, <1>5, <1>7
  <2>2. i \in entries'[b] /\ \A c \in BoxIds : c # b => i \notin entries'[c]
    BY <1>1, <1>2, <1>3, <1>4, <1>5 DEF MailInv, PlaceOK
  <2>3. (\E c \in removed' : i \in entries'[c]) <=> b \in removed
    BY <1>1, <1>5, <2>2
  <2>4. \E c \in BoxIds : i \in entries'[c]
    BY <1>1, <2>2
  <2> QED BY <2>1, <2>3, <2>4 DEF Status
<1>10. \A i \in Ids \ all : Status(i)' = Status(i)
  <2> SUFFICES ASSUME NEW i \in Ids \ all PROVE Status(i)' = Status(i)
    OBVIOUS
  <2>1. drains'[i] = drains[i] /\ (i \in evicted' <=> i \in evicted)
    BY <1>2, <1>5
  <2>2. \A c \in BoxIds : i \in entries'[c] <=> i \in entries[c]
    BY <1>2, <1>4
  <2> QED BY <1>5, <2>1, <2>2, SameStatus
<1> HIDE DEF s
<1>11. [i \in Ids |-> Status(i)]' =
         [i \in Ids |-> IF i \in E THEN "evicted"
                        ELSE IF i = e THEN s ELSE [j \in Ids |-> Status(j)][i]]
  <2>1. \A i \in Ids : Status(i)' = IF i \in E THEN "evicted" ELSE IF i = e THEN s ELSE Status(i)
    BY <1>2, <1>7, <1>8, <1>9, <1>10
  <2> QED BY <2>1
<1>12. \A i \in E : i = e \/ [j \in Ids |-> Status(j)][i] = s
  BY <1>7
<1>13. [j \in Ids |-> Status(j)][e] = "new" /\ s \in {"queued", "dropped"}
  BY <1>1, <1>6 DEF s
<1>14. Ledger!Accept(e, E, s)
  BY <1>11, <1>12, <1>13 DEF Ledger!Accept
<1> QED BY <1>1, <1>5, <1>13, <1>14

(* A deletion drops the entries that were queued in the boxes it removes. *)
LEMMA DeleteLedger ==
  ASSUME TypeOK, MailInv, NEW K \in SUBSET Keys, Delete(K)
  PROVE  (\E M \in SUBSET Ids : Ledger!Drop(M)) \/ UNCHANGED [i \in Ids |-> Status(i)]
<1> DEFINE gone == removed' \ removed
           M == {i \in Ids : \E b \in gone : i \in entries[b]}
<1>1. UNCHANGED <<entries, drains, evicted>> /\ removed \subseteq removed'
  BY DEF Delete, queue
<1>2. removed \subseteq BoxIds /\ removed' \subseteq BoxIds
  BY DEF Delete, TypeOK, StoreTypeOK
<1>3. \A i \in M : Status(i) = "queued" /\ Status(i)' = "dropped"
  <2> SUFFICES ASSUME NEW i \in M PROVE Status(i) = "queued" /\ Status(i)' = "dropped"
    OBVIOUS
  <2>1. PICK b \in gone : i \in entries[b]
    OBVIOUS
  <2>2. b \in BoxIds /\ b \notin removed /\ b \in removed'
    BY <1>2
  <2>3. Status(i) = "queued"
    BY <2>1, <2>2, StatusOf
  <2>4. drains[i] = 0 /\ i \notin evicted
    BY <2>1, <2>2 DEF MailInv, PlaceOK
  <2>5. \E c \in removed' : i \in entries'[c]
    BY <1>1, <2>1, <2>2
  <2> QED BY <1>1, <1>2, <2>3, <2>4, <2>5 DEF Status
<1>4. \A i \in Ids \ M : Status(i)' = Status(i)
  <2> SUFFICES ASSUME NEW i \in Ids \ M PROVE Status(i)' = Status(i)
    OBVIOUS
  <2>1. (\E c \in removed' : i \in entries'[c]) <=> (\E c \in removed : i \in entries[c])
    BY <1>1
  <2> QED BY <1>1, <2>1, SameStatus
<1> HIDE DEF M
<1>5. M \subseteq Ids
  BY DEF M
<1>6. CASE M = {}
  BY <1>4, <1>6
<1>7. CASE M # {}
  <2>1. [i \in Ids |-> Status(i)]' =
          [i \in Ids |-> IF i \in M THEN "dropped" ELSE [j \in Ids |-> Status(j)][i]]
    BY <1>3, <1>4
  <2>2. \A m \in M : [j \in Ids |-> Status(j)][m] = "queued"
    BY <1>3, <1>5
  <2>3. Ledger!Drop(M)
    BY <1>7, <2>1, <2>2 DEF Ledger!Drop
  <2> QED BY <1>5, <2>3
<1> QED BY <1>6, <1>7

(* Every step of the store is a step of the ledger or leaves it alone. *)
LEMMA LedgerStep ==
  TypeOK /\ MailInv /\ [Next]_vars => [Ledger!LedgerNext]_[i \in Ids |-> Status(i)]
<1> SUFFICES ASSUME TypeOK, MailInv, [Next]_vars
             PROVE  Ledger!LedgerNext \/ UNCHANGED [i \in Ids |-> Status(i)]
  BY Zenon
<1> USE DEF store, history
<1>1. ASSUME NEW p \in Procs, Deliver(p)
      PROVE  Ledger!LedgerNext \/ UNCHANGED <<queue, removed>>
  <2>1. CASE DeliverAppend(p)
    BY <2>1, AppendLedger DEF Ledger!LedgerNext
  <2>2. CASE ~DeliverAppend(p)
    BY <1>1, <2>2 DEF Deliver, DeliverFind, DeliverMake, FindBox, MakeBox, DeliverStamp,
                      DeliverSignal, queue
  <2> QED BY <2>1, <2>2
<1>2. ASSUME NEW b \in BoxIds, NEW S \in SUBSET entries[b], Take(b, S), UNCHANGED removed
      PROVE  Ledger!LedgerNext \/ UNCHANGED [i \in Ids |-> Status(i)]
  <2>1. S \subseteq Ids
    BY DEF TypeOK, MailTypeOK
  <2> QED BY <1>2, <2>1, TakeLedger DEF Ledger!LedgerNext
<1>3. ASSUME NEW p \in Procs, Drain(p)
      PROVE  Ledger!LedgerNext \/ UNCHANGED [i \in Ids |-> Status(i)]
  <2>1. CASE DrainTake(p)
    <3>1. box[p] \in BoxIds
      BY <2>1 DEF DrainTake, TypeOK, LocalTypeOK, Holding
    <3> QED BY <1>2, <2>1, <3>1 DEF DrainTake
  <2>2. CASE DrainFind(p)
    BY <2>2, QuietLedger DEF DrainFind, FindBox
  <2> QED BY <1>3, <2>1, <2>2 DEF Drain
<1>4. ASSUME NEW p \in Procs, Wait(p)
      PROVE  Ledger!LedgerNext \/ UNCHANGED [i \in Ids |-> Status(i)]
  <2>1. CASE WaitTake(p)
    <3>1. box[p] \in BoxIds /\ Matching(box[p], filter[p]) \subseteq entries[box[p]]
      BY <2>1 DEF WaitTake, TypeOK, LocalTypeOK, Holding, Matching
    <3> QED BY <1>2, <2>1, <3>1 DEF WaitTake
  <2>2. CASE ~WaitTake(p)
    <3>1. UNCHANGED <<queue, removed>>
      BY <1>4, <2>2 DEF Wait, WaitFind, WaitCheck, WaitGet, WaitMake, WaitSignalled, WaitTick,
                        FindBox, MakeBox
    <3> QED BY <3>1, QuietLedger
  <2> QED BY <2>1, <2>2
<1>5. ASSUME NEW K \in SUBSET Keys, Delete(K)
      PROVE  Ledger!LedgerNext \/ UNCHANGED [i \in Ids |-> Status(i)]
  BY <1>5, DeleteLedger DEF Ledger!LedgerNext
<1>6. ASSUME NEW p \in Procs, DeadlinePasses(p) PROVE UNCHANGED <<queue, removed>>
  BY <1>6 DEF DeadlinePasses
<1>7. ASSUME NEW p, NEW k, NEW env, DeliverCall(p, k, env) PROVE UNCHANGED <<queue, removed>>
  BY <1>7 DEF DeliverCall
<1>8. ASSUME NEW p, NEW k, DrainCall(p, k) PROVE UNCHANGED <<queue, removed>>
  BY <1>8 DEF DrainCall
<1>9. ASSUME NEW p, NEW k, NEW f, NEW noWait, WaitCall(p, k, f, noWait)
      PROVE  UNCHANGED <<queue, removed>>
  BY <1>9 DEF WaitCall
<1>10. CASE UNCHANGED vars
  BY <1>10, QuietLedger DEF vars
<1> QED
  BY <1>1, <1>3, <1>4, <1>5, <1>6, <1>7, <1>8, <1>9, <1>10, QuietLedger, MailboxAssumption
     DEF Next, Step, DeleteBox, DeleteSession

(* For each message, whatever goroutines do, the store goes through the    *)
(* stages of MailLedger: it is accepted once and leaves the queue once,    *)
(* handed to one reader, pushed out, or thrown away with its mailbox.      *)
THEOREM StoreImplementsLedger == Spec => ImplementsLedger
<1>1. Init => Ledger!LedgerInit
  BY DEF Init, Ledger!LedgerInit, Status
<1> QED BY <1>1, LedgerStep, InvCorrect, PTL DEF Spec, ImplementsLedger, Ledger!LedgerSpec

-----------------------------------------------------------------------------
(* The trim of a full box. *)

(* A box belongs to one key for life: to the key the map has it for, to    *)
(* every goroutine that holds it and to every entry in it.                 *)
Owns(owner) ==
  /\ \A k \in Keys : boxes[k] # NoBox => owner[boxes[k]] = k /\ boxes[k] <= made
  /\ \A p \in Procs : pc[p] \in Holding => owner[box[p]] = key[p] /\ box[p] <= made
  /\ \A b \in BoxIds : \A i \in entries[b] : owner[b] = dest[i] /\ b <= made

OwnerOK == \E owner \in [BoxIds -> Keys] : Owns(owner)

(* Entries arrive one after the other. *)
ArrivalOK ==
  \A i \in Appended : /\ arrival[i] <= Cardinality(Appended)
                      /\ \A j \in Appended : arrival[i] = arrival[j] => i = j

TrimInv == OwnerOK /\ ArrivalOK /\ EvictsOldest

(* A set of entries is finite, and so is its number. *)
LEMMA EntriesFinite ==
  ASSUME NEW S \in SUBSET Ids PROVE IsFiniteSet(S) /\ Cardinality(S) \in Nat
<1>1. IsFiniteSet(Ids)
  BY MailboxAssumption, FS_Interval DEF Ids
<1> QED BY <1>1, FS_Subset, FS_CardinalityType

(* The trim keeps at most n entries: each has a rank of its own below n. *)
LEMMA NewestBound ==
  ASSUME NEW S \in SUBSET Ids, NEW n \in Nat, NEW arr \in [Ids -> Nat],
         \A i, j \in S : arr[i] = arr[j] => i = j
  PROVE  Cardinality(Newest(S, n, arr)) <= n
<1> DEFINE Later(i) == {j \in S : arr[j] > arr[i]}
           N == Newest(S, n, arr)
           rank == [i \in N |-> Cardinality(Later(i))]
<1>1. \A i \in S : Later(i) \in SUBSET Ids /\ IsFiniteSet(Later(i)) /\ Cardinality(Later(i)) \in Nat
  BY EntriesFinite
<1>2. N \subseteq S /\ \A i \in N : Cardinality(Later(i)) < n
  BY DEF Newest
<1>3. ASSUME NEW i \in S, NEW j \in S, arr[i] < arr[j]
      PROVE  Cardinality(Later(j)) # Cardinality(Later(i))
  <2>1. Later(j) \subseteq Later(i)
    BY <1>3
  <2>2. j \in Later(i) /\ j \notin Later(j)
    BY <1>3
  <2>3. Later(i) # Later(j) /\ Later(j) \in SUBSET Later(i)
    BY <2>1, <2>2
  <2> HIDE DEF Later
  <2> QED BY <1>1, <2>3, FS_Subset
<1>4. \A i, j \in N : Cardinality(Later(i)) = Cardinality(Later(j)) => i = j
  <2> SUFFICES ASSUME NEW i \in N, NEW j \in N, Cardinality(Later(i)) = Cardinality(Later(j))
               PROVE  i = j
    OBVIOUS
  <2>1. i \in S /\ j \in S /\ arr[i] \in Nat /\ arr[j] \in Nat
    BY <1>2
  <2>2. ~(arr[i] < arr[j]) /\ ~(arr[j] < arr[i])
    BY <1>3, <2>1
  <2>3. arr[i] = arr[j]
    BY <2>1, <2>2
  <2> QED BY <2>1, <2>3
<1>5. rank \in [N -> 0..(n - 1)]
  <2>1. \A i \in N : Cardinality(Later(i)) \in 0..(n - 1)
    <3> HIDE DEF Later
    <3> QED BY <1>1, <1>2
  <2> QED BY <2>1
<1>6. rank \in Injection(N, 0..(n - 1))
  BY <1>4, <1>5 DEF Injection, IsInjective
<1>7. IsFiniteSet(0..(n - 1)) /\ Cardinality(0..(n - 1)) = n
  BY FS_Interval
<1> HIDE DEF rank, N
<1>8. Cardinality(N) <= Cardinality(0..(n - 1))
  BY <1>6, <1>7, FS_Injection
<1> QED BY <1>7, <1>8 DEF N

(* What the trim drops has at least n later entries. *)
LEMMA NotNewest ==
  ASSUME NEW S \in SUBSET Ids, NEW n \in Nat, NEW arr \in [Ids -> Nat],
         NEW i \in S, i \notin Newest(S, n, arr)
  PROVE  Cardinality({j \in S : arr[j] > arr[i]}) >= n
<1>1. {j \in S : arr[j] > arr[i]} \in SUBSET Ids
  OBVIOUS
<1>2. Cardinality({j \in S : arr[j] > arr[i]}) \in Nat
  BY <1>1, EntriesFinite
<1>3. ~(Cardinality({j \in S : arr[j] > arr[i]}) < n)
  BY DEF Newest
<1> QED BY <1>2, <1>3

(* A step that allocates no box keeps every box with its owner, if who     *)
(* holds a box held it before or found it under its key, and what is in a  *)
(* box was there before or is put there by a holder for its own key.       *)
LEMMA QuietOwner ==
  ASSUME TypeOK, OwnerOK, made' = made,
         \A k \in Keys : boxes'[k] # NoBox => boxes'[k] = boxes[k],
         \A q \in Procs : pc'[q] \in Holding =>
            \/ pc[q] \in Holding /\ box'[q] = box[q] /\ key'[q] = key[q]
            \/ key'[q] \in Keys /\ boxes[key'[q]] # NoBox /\ box'[q] = boxes[key'[q]],
         \A b \in BoxIds : \A i \in entries'[b] :
            \/ i \in entries[b] /\ dest'[i] = dest[i]
            \/ \E q \in Procs : pc[q] \in Holding /\ box[q] = b /\ dest'[i] = key[q]
  PROVE  OwnerOK'
<1>1. PICK owner \in [BoxIds -> Keys] : Owns(owner)
  BY DEF OwnerOK
<1>2. \A k \in Keys : boxes'[k] # NoBox => owner[boxes'[k]] = k /\ boxes'[k] <= made'
  BY <1>1 DEF Owns
<1>3. \A p \in Procs : pc'[p] \in Holding => owner[box'[p]] = key'[p] /\ box'[p] <= made'
  BY <1>1 DEF Owns
<1>4. \A b \in BoxIds : \A i \in entries'[b] : owner[b] = dest'[i] /\ b <= made'
  BY <1>1 DEF Owns
<1>5. Owns(owner)'
  BY <1>2, <1>3, <1>4 DEF Owns
<1> QED BY <1>5 DEF OwnerOK

(* A new box belongs to the key it was made for. *)
LEMMA MakeBoxOwner ==
  ASSUME TypeOK, OwnerOK, NEW p \in Procs, NEW at, NEW next \in Labels, MakeBox(p, at, next)
  PROVE  OwnerOK'
<1> USE DEF MakeBox, store, queue, history
<1>1. \A q \in Procs : pc'[q] = IF q = p THEN next ELSE pc[q]
  BY GotoQuiet
<1>2. key[p] \in Keys /\ boxes \in [Keys -> BoxIds \cup {NoBox}] /\ made \in Nat
  BY DEF TypeOK, LocalTypeOK, StoreTypeOK
<1>3. CASE boxes[key[p]] # NoBox
  <2>1. box' = [box EXCEPT ![p] = boxes[key[p]]] /\ UNCHANGED <<boxes, made, entries, key, dest>>
    BY <1>3
  <2>2. \A q \in Procs : box'[q] = IF q = p THEN boxes[key[p]] ELSE box[q]
    BY <2>1 DEF TypeOK, LocalTypeOK
  <2> HIDE DEF MakeBox
  <2> QED BY <1>1, <1>2, <1>3, <2>1, <2>2, QuietOwner
<1>4. CASE boxes[key[p]] = NoBox
  <2> DEFINE n == made + 1
  <2>1. /\ made < MaxBoxes /\ made' = n /\ boxes' = [boxes EXCEPT ![key[p]] = n]
        /\ box' = [box EXCEPT ![p] = n] /\ UNCHANGED <<entries, key, dest>>
    BY <1>4
  <2>2. n \in BoxIds /\ n # NoBox /\ made <= n /\ n <= n
    BY <1>2, <2>1, MailboxAssumption DEF BoxIds
  <2>3. PICK owner \in [BoxIds -> Keys] : Owns(owner)
    BY DEF OwnerOK
  <2>4. PICK new \in [BoxIds -> Keys] : new = [owner EXCEPT ![n] = key[p]]
    BY <1>2, <2>2, <2>3
  <2>5. new[n] = key[p]
    BY <1>2, <2>2, <2>3, <2>4
  <2>6. \A b \in BoxIds : b <= made => new[b] = owner[b] /\ b <= n
    BY <1>2, <2>2, <2>3, <2>4 DEF BoxIds
  <2> HIDE DEF n
  <2>7. \A k \in Keys : boxes'[k] # NoBox => new[boxes'[k]] = k /\ boxes'[k] <= n
    <3>1. \A k \in Keys : boxes'[k] = IF k = key[p] THEN n ELSE boxes[k]
      BY <1>2, <2>1
    <3>2. \A k \in Keys : boxes[k] # NoBox => boxes[k] \in BoxIds
      BY <1>2
    <3> QED BY <2>2, <2>3, <2>5, <2>6, <3>1, <3>2 DEF Owns
  <2>8. \A q \in Procs : pc'[q] \in Holding => new[box'[q]] = key'[q] /\ box'[q] <= n
    <3>1. \A q \in Procs : box'[q] = IF q = p THEN n ELSE box[q]
      BY <2>1 DEF TypeOK, LocalTypeOK
    <3>2. \A q \in Procs : pc[q] \in Holding => box[q] \in BoxIds
      BY DEF TypeOK, LocalTypeOK
    <3> HIDE DEF MakeBox
    <3> QED BY <1>1, <2>1, <2>2, <2>3, <2>5, <2>6, <3>1, <3>2 DEF Owns
  <2>9. \A b \in BoxIds : \A i \in entries'[b] : new[b] = dest'[i] /\ b <= n
    BY <2>1, <2>3, <2>6 DEF Owns
  <2>10. Owns(new)'
    BY <2>1, <2>7, <2>8, <2>9 DEF Owns
  <2> QED BY <2>10 DEF OwnerOK
<1> QED BY <1>3, <1>4

(* A step that appends and evicts nothing keeps the order of arrival and   *)
(* the account of evictions.                                               *)
LEMMA QuietTrim ==
  ASSUME TypeOK, MailInv, ArrivalOK, EvictsOldest, UNCHANGED <<arrival, evicted>>,
         \A i \in Appended : dest'[i] = dest[i],
         \A b \in BoxIds : entries'[b] \subseteq entries[b]
  PROVE  ArrivalOK' /\ EvictsOldest'
<1>1. Appended' = Appended
  BY DEF Appended
<1>2. ArrivalOK'
  BY <1>1 DEF ArrivalOK
<1>3. ASSUME NEW b \in BoxIds PROVE Cardinality(entries'[b]) <= MaxPerBox
  <2>1. entries[b] \in SUBSET Ids /\ entries'[b] \in SUBSET entries[b] /\ entries'[b] \in SUBSET Ids
    BY DEF TypeOK, MailTypeOK
  <2>2. Cardinality(entries'[b]) <= Cardinality(entries[b])
    BY <2>1, EntriesFinite, FS_Subset
  <2>3. Cardinality(entries'[b]) \in Nat /\ Cardinality(entries[b]) \in Nat
    BY <2>1, EntriesFinite
  <2> QED BY <2>2, <2>3, MailboxAssumption DEF EvictsOldest
<1>4. \A i \in evicted : i \in Appended
  BY DEF MailInv, UnbornOK, TypeOK, MailTypeOK, Appended
<1>5. \A i \in evicted :
        {j \in Appended : dest'[j] = dest'[i] /\ arrival[j] > arrival[i]} =
        {j \in Appended : dest[j] = dest[i] /\ arrival[j] > arrival[i]}
  BY <1>4
<1> QED BY <1>1, <1>2, <1>3, <1>5 DEF EvictsOldest

(* Deliver's append and trim: the entry arrives last, and what is dropped *)
(* is followed by a full box of later entries for the same key.           *)
LEMMA AppendTrim ==
  ASSUME TypeOK, MailInv, TrimInv, NEW p \in Procs, DeliverAppend(p) PROVE TrimInv'
<1> DEFINE e == eid[p]
           b == box[p]
           all == entries[b] \cup {e}
           n == Cardinality(Appended) + 1
<1>1. e \in Ids /\ b \in BoxIds /\ key[p] \in Keys /\ pc[p] \in Holding
  BY DEF DeliverAppend, TypeOK, LocalTypeOK, Holding
<1>2. arrival[e] = 0 /\ dest[e] = key[p]
  BY DEF DeliverAppend, MailInv, PendingOK
<1>3. Appended \in SUBSET Ids /\ e \notin Appended /\ n \in Nat
  BY <1>2, ArrivedCount DEF Appended
<1>4. /\ arrival' = [arrival EXCEPT ![e] = n]
      /\ UNCHANGED <<dest, key, box, boxes, made>>
      /\ \A q \in Procs : pc'[q] = IF q = p THEN "dSignal" ELSE pc[q]
  BY GotoQuiet DEF DeliverAppend, store, history
<1>5. arrival' \in [Ids -> Nat] /\ \A i \in Ids : arrival'[i] = IF i = e THEN n ELSE arrival[i]
  BY <1>1, <1>3, <1>4 DEF TypeOK, MailTypeOK
<1> DEFINE kept == IF Cardinality(all) > MaxPerBox THEN Newest(all, MaxPerBox, arrival') ELSE all
<1>6. entries' = [entries EXCEPT ![b] = kept] /\ evicted' = evicted \cup (all \ kept)
  BY DEF DeliverAppend
<1>7. kept \subseteq all /\ all \in SUBSET Ids
  BY <1>1, NewestSubset DEF TypeOK, MailTypeOK
<1> HIDE DEF kept, n
<1>8. \A c \in BoxIds : entries'[c] = IF c = b THEN kept ELSE entries[c]
  BY <1>6 DEF TypeOK, MailTypeOK
<1>9. OwnerOK'
  <2>1. \A q \in Procs : pc'[q] \in Holding => pc[q] \in Holding
    BY <1>1, <1>4
  <2>2. \A c \in BoxIds : \A i \in entries'[c] : i \in entries[c] \/ (c = b /\ i = e)
    BY <1>7, <1>8
  <2> QED BY <1>1, <1>2, <1>4, <2>1, <2>2, QuietOwner DEF TrimInv
<1>10. Appended' = Appended \cup {e} /\ Cardinality(Appended') = n
  <2>1. n # 0
    BY ArrivedCount DEF n
  <2>2. Appended' = Appended \cup {e}
    BY <1>1, <1>5, <2>1 DEF Appended
  <2> QED BY <1>3, <2>2, EntriesFinite, FS_AddElement DEF n
<1>11. ArrivalOK'
  <2>1. \A i \in Appended : arrival'[i] = arrival[i] /\ arrival[i] \in Nat /\ arrival[i] < n
    <3>1. \A i \in Appended : arrival'[i] = arrival[i] /\ arrival[i] \in Nat /\ i \in Ids
      BY <1>3, <1>5 DEF TypeOK, MailTypeOK
    <3>2. \A i \in Appended : arrival[i] <= Cardinality(Appended)
      BY DEF TrimInv, ArrivalOK
    <3> QED BY <3>1, <3>2, ArrivedCount DEF n
  <2>2. \A i \in Appended, j \in Appended : arrival[i] = arrival[j] => i = j
    BY DEF TrimInv, ArrivalOK
  <2> QED BY <1>1, <1>3, <1>5, <1>10, <2>1, <2>2 DEF ArrivalOK
<1>12. all \subseteq Appended'
  <2>1. entries[b] \subseteq Appended
    BY <1>1 DEF MailInv, UnbornOK, TypeOK, MailTypeOK, Appended
  <2> QED BY <1>10, <2>1
<1>13. \A c \in BoxIds : Cardinality(entries'[c]) <= MaxPerBox
  <2>1. Cardinality(kept) <= MaxPerBox
    <3>1. CASE Cardinality(all) > MaxPerBox
      <4>1. \A i, j \in all : arrival'[i] = arrival'[j] => i = j
        BY <1>11, <1>12 DEF ArrivalOK
      <4> QED BY <1>5, <1>7, <3>1, <4>1, NewestBound, MailboxAssumption DEF kept
    <3>2. CASE ~(Cardinality(all) > MaxPerBox)
      <4>1. Cardinality(all) \in Nat /\ kept = all
        BY <1>7, <3>2, EntriesFinite DEF kept
      <4> QED BY <3>2, <4>1, MailboxAssumption
    <3> QED BY <3>1, <3>2
  <2> QED BY <1>8, <2>1 DEF TrimInv, EvictsOldest
<1>14. ASSUME NEW i \in evicted'
       PROVE  Cardinality({j \in Appended' : dest'[j] = dest'[i] /\ arrival'[j] > arrival'[i]}) >= MaxPerBox
  <2> DEFINE After(k) == {j \in Appended' : dest'[j] = dest'[k] /\ arrival'[j] > arrival'[k]}
  <2>1. After(i) \in SUBSET Ids
    BY <1>1, <1>3, <1>10
  <2>2. Cardinality(After(i)) \in Nat /\ IsFiniteSet(After(i))
    BY <2>1, EntriesFinite
  <2>3. CASE i \in evicted
    <3> DEFINE Old == {j \in Appended : dest[j] = dest[i] /\ arrival[j] > arrival[i]}
    <3>1. i \in Appended
      BY <2>3 DEF MailInv, UnbornOK, TypeOK, MailTypeOK, Appended
    <3>2. Old \subseteq After(i)
      BY <1>3, <1>4, <1>5, <1>10, <3>1
    <3>3. Cardinality(Old) >= MaxPerBox
      BY <2>3 DEF TrimInv, EvictsOldest
    <3>4. Old \in SUBSET Ids
      BY <1>3
    <3> HIDE DEF Old, After
    <3>5. Cardinality(Old) <= Cardinality(After(i)) /\ Cardinality(Old) \in Nat
      BY <2>2, <3>2, <3>4, EntriesFinite, FS_Subset
    <3> QED BY <2>2, <3>3, <3>5, MailboxAssumption DEF After
  <2>4. CASE i \in all \ kept
    <3> DEFINE Later == {j \in all : arrival'[j] > arrival'[i]}
    <3>1. kept = Newest(all, MaxPerBox, arrival')
      BY <2>4 DEF kept
    <3>2. Cardinality(Later) >= MaxPerBox
      BY <1>5, <1>7, <2>4, <3>1, NotNewest, MailboxAssumption
    <3>3. PICK owner \in [BoxIds -> Keys] : Owns(owner)
      BY DEF TrimInv, OwnerOK
    <3>4. \A j \in all : dest[j] = key[p]
      BY <1>1, <1>2, <3>3 DEF Owns
    <3>5. Later \subseteq After(i)
      BY <1>4, <1>12, <2>4, <3>4
    <3>6. Later \in SUBSET Ids
      BY <1>7
    <3> HIDE DEF Later, After
    <3>7. Cardinality(Later) <= Cardinality(After(i)) /\ Cardinality(Later) \in Nat
      BY <2>2, <3>5, <3>6, EntriesFinite, FS_Subset
    <3> QED BY <2>2, <3>2, <3>7, MailboxAssumption DEF After
  <2> QED BY <1>6, <2>3, <2>4
<1>15. EvictsOldest'
  BY <1>13, <1>14 DEF EvictsOldest
<1> QED BY <1>9, <1>11, <1>15 DEF TrimInv

(* Every step keeps the invariant of the trim. *)
LEMMA TrimStep == TypeOK /\ MailInv /\ TrimInv /\ [Next]_vars => TrimInv'
<1> SUFFICES ASSUME TypeOK, MailInv, TrimInv, [Next]_vars PROVE TrimInv'
  OBVIOUS
<1> USE DEF store, history
<1>1. ASSUME NEW p \in Procs, NEW at, NEW hit, NEW miss \in Labels \ Holding,
             FindBox(p, at, hit, miss)
      PROVE  TrimInv'
  <2>1. UNCHANGED <<boxes, made, entries, arrival, evicted, dest, key>>
    BY <1>1 DEF FindBox, queue
  <2>2. \A q \in Procs : box'[q] = IF q = p THEN boxes[key[p]] ELSE box[q]
    BY <1>1 DEF FindBox, TypeOK, LocalTypeOK
  <2>3. \A q \in Procs : pc'[q] = IF q = p THEN IF boxes[key[p]] # NoBox THEN hit ELSE miss
                                           ELSE pc[q]
    BY <1>1, GotoQuiet DEF FindBox
  <2>4. key[p] \in Keys
    BY DEF TypeOK, LocalTypeOK
  <2>5. OwnerOK'
    BY <2>1, <2>2, <2>3, <2>4, QuietOwner DEF TrimInv
  <2> QED BY <2>1, <2>5, QuietTrim DEF TrimInv
<1>2. ASSUME NEW p \in Procs, NEW at, NEW next \in Labels, MakeBox(p, at, next) PROVE TrimInv'
  <2>1. UNCHANGED <<entries, arrival, evicted, dest>>
    BY <1>2 DEF MakeBox, queue
  <2> QED BY <1>2, <2>1, MakeBoxOwner, QuietTrim DEF TrimInv
<1>3. ASSUME UNCHANGED <<boxes, made, arrival, evicted, dest>>,
             \A b \in BoxIds : entries'[b] \subseteq entries[b],
             \A q \in Procs : pc'[q] \in Holding =>
                pc[q] \in Holding /\ box'[q] = box[q] /\ key'[q] = key[q]
      PROVE  TrimInv'
  BY <1>3, QuietOwner, QuietTrim DEF TrimInv
<1>4. ASSUME NEW b \in BoxIds, NEW S, Take(b, S)
      PROVE  UNCHANGED <<arrival, evicted>> /\ \A c \in BoxIds : entries'[c] \subseteq entries[c]
  BY <1>4 DEF Take, TypeOK, MailTypeOK
<1>5. ASSUME NEW p \in Procs, Deliver(p) PROVE TrimInv'
  <2>1. CASE DeliverFind(p)
    BY <1>1, <2>1 DEF DeliverFind, Labels, Holding
  <2>2. CASE DeliverMake(p)
    BY <1>2, <2>2 DEF DeliverMake, Labels
  <2>3. CASE DeliverStamp(p)
    <3>1. UNCHANGED <<boxes, made, entries, arrival, evicted, key, box>>
      BY <2>3 DEF DeliverStamp, queue
    <3>2. \A q \in Procs : pc'[q] \in Holding => pc[q] \in Holding
      BY <2>3, GotoQuiet DEF DeliverStamp, Holding
    <3>3. arrival[entrySeq + 1] = 0 /\ entrySeq + 1 \in Ids
      BY <2>3, MailboxAssumption DEF DeliverStamp, MailInv, UnbornOK, TypeOK, MailTypeOK, Ids
    <3>4. \A i \in Ids : i # entrySeq + 1 => dest'[i] = dest[i]
      BY <2>3 DEF DeliverStamp, TypeOK, MailTypeOK
    <3>5. \A i \in Appended : dest'[i] = dest[i]
      BY <3>3, <3>4 DEF Appended
    <3>6. \A b \in BoxIds : \A i \in entries[b] : i \in Appended
      BY DEF MailInv, UnbornOK, TypeOK, MailTypeOK, Appended
    <3>7. OwnerOK'
      BY <3>1, <3>2, <3>5, <3>6, QuietOwner DEF TrimInv
    <3> QED BY <3>1, <3>5, <3>7, QuietTrim DEF TrimInv
  <2>4. CASE DeliverAppend(p)
    BY <2>4, AppendTrim
  <2>5. CASE DeliverSignal(p)
    BY <1>3, <2>5, ReturnQuiet DEF DeliverSignal, queue
  <2> QED BY <1>5, <2>1, <2>2, <2>3, <2>4, <2>5 DEF Deliver
<1>6. ASSUME NEW p \in Procs, Drain(p) PROVE TrimInv'
  <2>1. CASE FindBox(p, "rFind", "rTake", "rFind")
    BY <1>1, <2>1 DEF Labels, Holding
  <2>2. CASE DrainFind(p) /\ ~FindBox(p, "rFind", "rTake", "rFind")
    BY <1>3, <2>2, ReturnQuiet DEF DrainFind, queue
  <2>3. CASE DrainTake(p)
    <3>1. box[p] \in BoxIds
      BY <2>3 DEF DrainTake, TypeOK, LocalTypeOK, Holding
    <3> QED BY <1>3, <1>4, <2>3, <3>1, ReturnQuiet DEF DrainTake
  <2> QED BY <1>6, <2>1, <2>2, <2>3 DEF Drain
<1>7. ASSUME NEW p \in Procs, Wait(p) PROVE TrimInv'
  <2>1. CASE WaitFind(p)
    BY <1>1, <2>1 DEF WaitFind, Labels, Holding
  <2>2. CASE WaitTake(p)
    <3>1. box[p] \in BoxIds
      BY <2>2 DEF WaitTake, TypeOK, LocalTypeOK, Holding
    <3>2. \A q \in Procs : pc'[q] \in Holding =>
            pc[q] \in Holding /\ box'[q] = box[q] /\ key'[q] = key[q]
      BY <2>2, ReturnQuiet, GotoQuiet DEF WaitTake, Holding
    <3> QED BY <1>3, <1>4, <2>2, <3>1, <3>2 DEF WaitTake
  <2>3. CASE WaitCheck(p)
    BY <1>3, <2>3, ReturnQuiet, GotoQuiet DEF WaitCheck, Holding, queue
  <2>4. CASE WaitGet(p)
    BY <1>1, <2>4 DEF WaitGet, Labels, Holding
  <2>5. CASE WaitMake(p)
    BY <1>2, <2>5 DEF WaitMake, Labels
  <2>6. CASE WaitSignalled(p)
    BY <1>3, <2>6, GotoQuiet DEF WaitSignalled, Holding, queue
  <2>7. CASE WaitTick(p)
    BY <1>3, <2>7, GotoQuiet DEF WaitTick, Holding, queue
  <2> QED BY <1>7, <2>1, <2>2, <2>3, <2>4, <2>5, <2>6, <2>7 DEF Wait
<1>8. ASSUME NEW p \in Procs, DeadlinePasses(p) PROVE TrimInv'
  BY <1>3, <1>8 DEF DeadlinePasses, queue
<1>9. ASSUME NEW p \in Procs, NEW k \in Keys, pc[p] = "idle",
             key' = [key EXCEPT ![p] = k],
             \E l \in {"dFind", "rFind", "wFind"} : Goto(p, l),
             UNCHANGED <<store, queue, box, history>>
      PROVE  TrimInv'
  <2>1. \A q \in Procs : q # p => pc'[q] = pc[q] /\ key'[q] = key[q]
    BY <1>9, GotoQuiet DEF TypeOK, LocalTypeOK
  <2>2. pc'[p] \notin Holding
    BY <1>9, GotoQuiet DEF Holding
  <2> QED BY <1>3, <1>9, <2>1, <2>2 DEF queue
<1>10. ASSUME NEW K \in SUBSET Keys, Delete(K) PROVE TrimInv'
  <2>1. UNCHANGED <<made, entries, arrival, evicted, dest, pc, box, key>>
    BY <1>10 DEF Delete, queue, locals
  <2>2. \A k \in Keys : boxes'[k] # NoBox => boxes'[k] = boxes[k]
    BY <1>10 DEF Delete
  <2>3. OwnerOK'
    BY <2>1, <2>2, QuietOwner DEF TrimInv
  <2> QED BY <2>1, <2>3, QuietTrim DEF TrimInv
<1>11. CASE UNCHANGED vars
  BY <1>3, <1>11 DEF vars, locals, queue
<1>12. ASSUME NEW p \in Writers, NEW k \in Keys,
              NEW env \in [from : Senders, type : Types], DeliverCall(p, k, env)
       PROVE  TrimInv'
  BY <1>9, <1>12 DEF DeliverCall, Procs
<1>13. ASSUME NEW p \in Readers, NEW k \in Keys, DrainCall(p, k) PROVE TrimInv'
  BY <1>9, <1>13 DEF DrainCall, Procs
<1>14. ASSUME NEW p \in Readers, NEW k \in Keys, NEW noWait \in BOOLEAN, NEW f \in Wanted[p],
              WaitCall(p, k, f, noWait)
       PROVE  TrimInv'
  BY <1>9, <1>14 DEF WaitCall, Procs
<1> QED
  BY <1>5, <1>6, <1>7, <1>8, <1>10, <1>11, <1>12, <1>13, <1>14, MailboxAssumption
     DEF Next, Step, DeleteBox, DeleteSession

(* The initial state satisfies the invariant of the trim. *)
LEMMA TrimInit == Init => TrimInv
<1> SUFFICES ASSUME Init PROVE TrimInv
  OBVIOUS
<1>1. Owns([b \in BoxIds |-> SomeKey])
  BY DEF Init, Owns, Holding
<1>2. [b \in BoxIds |-> SomeKey] \in [BoxIds -> Keys]
  BY SomeKeyType
<1>3. OwnerOK
  BY <1>1, <1>2 DEF OwnerOK
<1>4. ArrivalOK
  BY DEF Init, ArrivalOK, Appended
<1>5. EvictsOldest
  BY FS_EmptySet, MailboxAssumption DEF Init, EvictsOldest
<1> QED BY <1>3, <1>4, <1>5 DEF TrimInv

(* No box ever exceeds its capacity, and to make room Deliver drops only   *)
(* an entry that a full box of later entries for the same key follows,     *)
(* however deliveries race with each other and with deletions.             *)
THEOREM TrimDropsOldest == Spec => []EvictsOldest
<1>1. TrimInv => EvictsOldest
  BY DEF TrimInv
<1>2. Spec => []TrimInv
  BY TrimInit, TrimStep, InvCorrect, PTL DEF Spec
<1> QED BY <1>1, <1>2, PTL
=============================================================================
