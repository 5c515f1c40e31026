------------------------------- MODULE Mailbox -------------------------------
(***************************************************************************)
(* The per-agent mailbox store, internal/mailbox/mailbox.go.               *)
(*                                                                         *)
(* Every step is one critical section of the Go code: a read of the map    *)
(* under Store.mu, a write of it, an access to a box under Box.mu, or one  *)
(* operation on a channel or an atomic counter.  Between two steps of one  *)
(* goroutine any other goroutine runs.  Boxes are heap objects with an     *)
(* identity of their own: a goroutine that looked a box up keeps its       *)
(* pointer while DeleteBox takes the key out of the map.                   *)
(*                                                                         *)
(* A box's slice of entries is in the order of arrival.  It is represented *)
(* by the set of its entries' identifiers and the arrival stamp of each.   *)
(***************************************************************************)
EXTENDS Naturals, FiniteSets

CONSTANTS
  Keys,        \* mailbox keys, "sessionID/agentID"
  Sessions,    \* the sets of keys that share a "sessionID/" prefix
  Writers,     \* goroutines that call Deliver
  Readers,     \* goroutines that call Drain or DrainMatchingWait
  Senders,     \* values of Envelope.From
  Types,       \* values of Envelope.Type
  Wanted,      \* the from/type filters that each reader waits with
  NoFilter,    \* the empty filter field, which matches everything
  NoBox,       \* the nil *Box
  MaxPerBox,   \* Store.maxPer
  MaxEntries,  \* bound: entries ever delivered
  MaxBoxes     \* bound: box objects ever allocated

ASSUME MailboxAssumption ==
  /\ Keys # {} /\ Sessions \subseteq SUBSET Keys
  /\ MaxPerBox \in Nat \ {0}
  /\ MaxEntries \in Nat /\ MaxBoxes \in Nat
  /\ NoBox \notin Nat
  /\ NoFilter \notin Senders \cup Types
  /\ Wanted \in [Readers -> SUBSET [from : Senders \cup {NoFilter}, type : Types \cup {NoFilter}]]

Procs   == Writers \cup Readers
Ids     == 1..MaxEntries
BoxIds  == 1..MaxBoxes
Filters == [from : Senders \cup {NoFilter}, type : Types \cup {NoFilter}]

VARIABLES
  boxes,      \* Store.boxes: the box of a key, or NoBox
  made,       \* number of box objects allocated
  entries,    \* Box.entries: identifiers queued in a box
  changed,    \* Box.changed: whether the channel of capacity 1 holds a signal
  entrySeq,   \* the global atomic counter
  arrival,    \* order in which the entries were appended; 0 = not appended
  envelope,   \* Entry.Envelope, the fields a filter looks at
  pc, key, box, filter, eid, late,   \* locals of each goroutine
  dest,       \* history: the key an entry was delivered to
  drains,     \* history: how often an entry was returned to a reader
  evicted,    \* history: entries dropped because their box was full
  removed     \* history: boxes taken out of the map by a deletion

store   == <<boxes, made>>
queue   == <<entries, arrival, drains, evicted>>
locals  == <<pc, key, box, filter, eid, late>>
history == <<dest, removed>>
vars == <<store, queue, changed, entrySeq, envelope, locals, history>>

Appended == {i \in Ids : arrival[i] # 0}

Labels == {"idle", "dFind", "dMake", "dStamp", "dAppend", "dSignal", "rFind", "rTake",
           "wFind", "wTake", "wCheck", "wGet", "wMake", "wSelect"}

(* Where a goroutine has a *Box in hand. *)
Holding == {"dStamp", "dAppend", "dSignal", "rTake", "wTake", "wSelect"}

StoreTypeOK ==
  /\ boxes \in [Keys -> BoxIds \cup {NoBox}]
  /\ made \in 0..MaxBoxes
  /\ changed \in [BoxIds -> BOOLEAN]
  /\ removed \subseteq BoxIds

MailTypeOK ==
  /\ entries \in [BoxIds -> SUBSET Ids]
  /\ entrySeq \in 0..MaxEntries
  /\ arrival \in [Ids -> Nat]
  /\ envelope \in [Ids -> Filters]
  /\ dest \in [Ids -> Keys]
  /\ drains \in [Ids -> Nat]
  /\ evicted \subseteq Ids

LocalTypeOK ==
  /\ pc \in [Procs -> Labels]
  /\ key \in [Procs -> Keys]
  /\ box \in [Procs -> BoxIds \cup {NoBox}]
  /\ filter \in [Procs -> Filters]
  /\ eid \in [Procs -> 0..MaxEntries]
  /\ late \in [Procs -> BOOLEAN]
  /\ \A p \in Procs : /\ pc[p] = "dAppend" => eid[p] \in Ids
                      /\ pc[p] \in Holding => box[p] \in BoxIds

TypeOK == StoreTypeOK /\ MailTypeOK /\ LocalTypeOK

Everything == [from |-> NoFilter, type |-> NoFilter]
SomeKey    == CHOOSE k \in Keys : TRUE

Init ==
  /\ boxes = [k \in Keys |-> NoBox]
  /\ made = 0
  /\ entries = [b \in BoxIds |-> {}]
  /\ changed = [b \in BoxIds |-> FALSE]
  /\ entrySeq = 0
  /\ arrival = [i \in Ids |-> 0]
  /\ envelope = [i \in Ids |-> Everything]
  /\ pc = [p \in Procs |-> "idle"]
  /\ key = [p \in Procs |-> SomeKey]
  /\ box = [p \in Procs |-> NoBox]
  /\ filter = [p \in Procs |-> Everything]
  /\ eid = [p \in Procs |-> 0]
  /\ late = [p \in Procs |-> FALSE]
  /\ dest = [i \in Ids |-> SomeKey]
  /\ drains = [i \in Ids |-> 0]
  /\ evicted = {}
  /\ removed = {}

-----------------------------------------------------------------------------
(* A goroutine returns: its locals are gone. *)
Return(p) ==
  /\ pc' = [pc EXCEPT ![p] = "idle"]
  /\ key' = [key EXCEPT ![p] = SomeKey]
  /\ box' = [box EXCEPT ![p] = NoBox]
  /\ filter' = [filter EXCEPT ![p] = Everything]
  /\ eid' = [eid EXCEPT ![p] = 0]
  /\ late' = [late EXCEPT ![p] = FALSE]

Goto(p, label) == pc' = [pc EXCEPT ![p] = label]

(* Mutant: the lookup does not test for a missing key and goes on with nil. *)
FindBoxUnchecked(p, at, hit, miss) ==
  /\ pc[p] = at
  /\ box' = [box EXCEPT ![p] = boxes[key[p]]]
  /\ Goto(p, hit)
  /\ UNCHANGED <<store, queue, changed, entrySeq, envelope,
                 key, filter, eid, late, history>>

(* The map read under Store.mu.RLock that starts getOrCreateBox, Drain and *)
(* DrainMatching.                                                          *)
FindBox(p, at, hit, miss) ==
  /\ pc[p] = at
  /\ box' = [box EXCEPT ![p] = boxes[key[p]]]
  /\ Goto(p, IF boxes[key[p]] # NoBox THEN hit ELSE miss)
  /\ UNCHANGED <<store, queue, changed, entrySeq, envelope,
                 key, filter, eid, late, history>>

(* Mutant: the key is not looked up again under the write lock. *)
MakeBoxBlindly(p, at, next) ==
  /\ pc[p] = at
  /\ made < MaxBoxes
  /\ made' = made + 1
  /\ boxes' = [boxes EXCEPT ![key[p]] = made + 1]
  /\ box' = [box EXCEPT ![p] = made + 1]
  /\ Goto(p, next)
  /\ UNCHANGED <<queue, changed, entrySeq, envelope,
                 key, filter, eid, late, history>>

(* The second half of getOrCreateBox: under Store.mu.Lock the key is looked *)
(* up again, and a box is allocated only if it is still absent.             *)
MakeBox(p, at, next) ==
  /\ pc[p] = at
  /\ \/ /\ boxes[key[p]] # NoBox
        /\ box' = [box EXCEPT ![p] = boxes[key[p]]]
        /\ UNCHANGED store
     \/ /\ boxes[key[p]] = NoBox
        /\ made < MaxBoxes
        /\ made' = made + 1
        /\ boxes' = [boxes EXCEPT ![key[p]] = made + 1]
        /\ box' = [box EXCEPT ![p] = made + 1]
  /\ Goto(p, next)
  /\ UNCHANGED <<queue, changed, entrySeq, envelope,
                 key, filter, eid, late, history>>

-----------------------------------------------------------------------------
(* Deliver(key, env). *)

Delivering == {p \in Procs : pc[p] \in {"dFind", "dMake", "dStamp"}}

DeliverCall(p, k, env) ==
  /\ pc[p] = "idle"
  /\ entrySeq + Cardinality(Delivering) < MaxEntries
  /\ key' = [key EXCEPT ![p] = k]
  /\ filter' = [filter EXCEPT ![p] = env]
  /\ Goto(p, "dFind")
  /\ UNCHANGED <<store, queue, changed, entrySeq, envelope, box, eid, late, history>>

DeliverFind(p) == FindBox(p, "dFind", "dStamp", "dMake")
DeliverMake(p) == MakeBox(p, "dMake", "dStamp")

(* The entry gets its ID from the atomic counter, outside every lock: IDs *)
(* need not arrive in a box in increasing order.                          *)
DeliverStamp(p) ==
  /\ pc[p] = "dStamp"
  /\ entrySeq < MaxEntries
  /\ entrySeq' = entrySeq + 1
  /\ eid' = [eid EXCEPT ![p] = entrySeq + 1]
  /\ envelope' = [envelope EXCEPT ![entrySeq + 1] = filter[p]]
  /\ dest' = [dest EXCEPT ![entrySeq + 1] = key[p]]
  /\ Goto(p, "dAppend")
  /\ UNCHANGED <<store, queue, changed, key, box, filter, late, removed>>

(* Mutant: the trim drops the newest entries, from the back of the slice. *)
OldestKept(S, n, arr) == {i \in S : Cardinality({j \in S : arr[j] < arr[i]}) < n}

(* The n members of S that arrived last. *)
Newest(S, n, arr) == {i \in S : Cardinality({j \in S : arr[j] > arr[i]}) < n}

(* Under Box.mu: append, then drop from the front what exceeds the maximum. *)
DeliverAppend(p) ==
  /\ pc[p] = "dAppend"
  /\ LET b == box[p]
         arr  == [arrival EXCEPT ![eid[p]] = Cardinality(Appended) + 1]
         all  == entries[b] \cup {eid[p]}
         kept == IF Cardinality(all) > MaxPerBox THEN Newest(all, MaxPerBox, arr)
                                                 ELSE all
     IN /\ arrival' = arr
        /\ entries' = [entries EXCEPT ![b] = kept]
        /\ evicted' = evicted \cup (all \ kept)
  /\ Goto(p, "dSignal")
  /\ UNCHANGED <<store, changed, entrySeq, envelope, drains,
                 key, box, filter, eid, late, history>>

(* signal: a non-blocking send on a channel of capacity 1. *)
DeliverSignal(p) ==
  /\ pc[p] = "dSignal"
  /\ changed' = [changed EXCEPT ![box[p]] = TRUE]
  /\ Return(p)
  /\ UNCHANGED <<store, queue, entrySeq, envelope, history>>

-----------------------------------------------------------------------------
(* Drain(key): take everything. *)

Matches(env, f) == f.from \in {NoFilter, env.from} /\ f.type \in {NoFilter, env.type}
Matching(b, f)  == {i \in entries[b] : Matches(envelope[i], f)}

(* Mutants: the entries returned stay in the box; and the entries that do  *)
(* not match the filter are dropped instead of kept.                       *)
TakeCopies(b, S) ==
  /\ drains' = [i \in Ids |-> IF i \in S THEN drains[i] + 1 ELSE drains[i]]
  /\ UNCHANGED <<entries, arrival, evicted>>

TakeAndClear(b, S) ==
  /\ entries' = [entries EXCEPT ![b] = {}]
  /\ drains' = [i \in Ids |-> IF i \in S THEN drains[i] + 1 ELSE drains[i]]
  /\ UNCHANGED <<arrival, evicted>>

(* The critical section under Box.mu of Drain and of DrainMatching. *)
Take(b, S) ==
  /\ entries' = [entries EXCEPT ![b] = @ \ S]
  /\ drains' = [i \in Ids |-> IF i \in S THEN drains[i] + 1 ELSE drains[i]]
  /\ UNCHANGED <<arrival, evicted>>

DrainCall(p, k) ==
  /\ pc[p] = "idle"
  /\ key' = [key EXCEPT ![p] = k]
  /\ Goto(p, "rFind")
  /\ UNCHANGED <<store, queue, changed, entrySeq, envelope, box, filter, eid, late, history>>

DrainFind(p) ==
  \/ boxes[key[p]] # NoBox /\ FindBox(p, "rFind", "rTake", "rFind")
  \/ /\ pc[p] = "rFind" /\ boxes[key[p]] = NoBox
     /\ Return(p)
     /\ UNCHANGED <<store, queue, changed, entrySeq, envelope, history>>

DrainTake(p) ==
  /\ pc[p] = "rTake"
  /\ Take(box[p], entries[box[p]])
  /\ Return(p)
  /\ UNCHANGED <<store, changed, entrySeq, envelope, history>>

-----------------------------------------------------------------------------
(* DrainMatchingWait(key, from, msgType, wait): DrainMatching in a loop.    *)
(* late[p] says that the deadline has passed; a call with wait <= 0 starts  *)
(* with it set.                                                             *)

WaitCall(p, k, f, noWait) ==
  /\ pc[p] = "idle"
  /\ key' = [key EXCEPT ![p] = k]
  /\ filter' = [filter EXCEPT ![p] = f]
  /\ late' = [late EXCEPT ![p] = noWait]
  /\ Goto(p, "wFind")
  /\ UNCHANGED <<store, queue, changed, entrySeq, envelope, box, eid, history>>

WaitFind(p) == FindBox(p, "wFind", "wTake", "wCheck")

(* Take the matching entries; return them if there are any. *)
WaitTake(p) ==
  /\ pc[p] = "wTake"
  /\ LET m == Matching(box[p], filter[p]) IN
       /\ Take(box[p], m)
       /\ IF m # {} THEN Return(p)
                    ELSE Goto(p, "wCheck") /\ UNCHANGED <<key, box, filter, eid, late>>
  /\ UNCHANGED <<store, changed, entrySeq, envelope, history>>

(* remaining := time.Until(deadline) *)
WaitCheck(p) ==
  /\ pc[p] = "wCheck"
  /\ IF late[p] THEN Return(p)
                ELSE Goto(p, "wGet") /\ UNCHANGED <<key, box, filter, eid, late>>
  /\ UNCHANGED <<store, queue, changed, entrySeq, envelope, history>>

WaitGet(p)  == FindBox(p, "wGet", "wSelect", "wMake")
WaitMake(p) == MakeBox(p, "wMake", "wSelect")

(* select: the signal of this box, or the timer of at most mailboxPollTick. *)
WaitSignalled(p) ==
  /\ pc[p] = "wSelect"
  /\ changed[box[p]]
  /\ changed' = [changed EXCEPT ![box[p]] = FALSE]
  /\ Goto(p, "wFind")
  /\ UNCHANGED <<store, queue, entrySeq, envelope, key, box, filter, eid, late, history>>

(* Mutant: no re-check before the deadline. *)
WaitTickAtDeadline(p) ==
  /\ pc[p] = "wSelect" /\ late[p]
  /\ Goto(p, "wFind")
  /\ UNCHANGED <<store, queue, changed, entrySeq, envelope, key, box, filter, eid, late, history>>

WaitTick(p) ==
  /\ pc[p] = "wSelect"
  /\ Goto(p, "wFind")
  /\ UNCHANGED <<store, queue, changed, entrySeq, envelope, key, box, filter, eid, late, history>>

Waiting(p) == pc[p] \in {"wFind", "wTake", "wCheck", "wGet", "wMake", "wSelect"}

DeadlinePasses(p) ==
  /\ Waiting(p) /\ ~late[p]
  /\ late' = [late EXCEPT ![p] = TRUE]
  /\ UNCHANGED <<store, queue, changed, entrySeq, envelope, pc, key, box, filter, eid, history>>

-----------------------------------------------------------------------------
(* DeleteBox and DeleteSession, each one section under Store.mu.Lock.  The *)
(* guard keeps enough of MaxBoxes for every key to get a box again.        *)
Delete(K) ==
  LET gone == {boxes[k] : k \in K} \ {NoBox} IN
  /\ gone # {}
  /\ made + Cardinality({k \in Keys : k \in K \/ boxes[k] = NoBox}) <= MaxBoxes
  /\ boxes' = [k \in Keys |-> IF k \in K THEN NoBox ELSE boxes[k]]
  /\ removed' = removed \cup gone
  /\ UNCHANGED <<made, queue, changed, entrySeq, envelope, locals, dest>>

DeleteBox(k)     == Delete({k})
DeleteSession(S) == Delete(S)

-----------------------------------------------------------------------------
Deliver(p) == DeliverFind(p) \/ DeliverMake(p) \/ DeliverStamp(p)
              \/ DeliverAppend(p) \/ DeliverSignal(p)
Drain(p)   == DrainFind(p) \/ DrainTake(p)
Wait(p)    == WaitFind(p) \/ WaitTake(p) \/ WaitCheck(p) \/ WaitGet(p)
              \/ WaitMake(p) \/ WaitSignalled(p) \/ WaitTick(p)
Step(p)    == Deliver(p) \/ Drain(p) \/ Wait(p)

Next ==
  \/ \E p \in Procs : Step(p) \/ DeadlinePasses(p)
  \/ \E p \in Writers, k \in Keys, env \in [from : Senders, type : Types] :
       DeliverCall(p, k, env)
  \/ \E p \in Readers, k \in Keys : DrainCall(p, k)
  \/ \E p \in Readers, k \in Keys, noWait \in BOOLEAN :
       \E f \in Wanted[p] : WaitCall(p, k, f, noWait)
  \/ \E k \in Keys : DeleteBox(k)
  \/ \E S \in Sessions : DeleteSession(S)

(* The Go scheduler runs every goroutine that can run, and timers fire.  No *)
(* fairness is assumed of callers, of deletions or of DeadlinePasses.       *)
Spec == Init /\ [][Next]_vars /\ \A p \in Procs : WF_vars(Step(p))

-----------------------------------------------------------------------------
Queued == UNION {entries[b] : b \in BoxIds}

(* Destructive reads never return an entry twice, even with several drains *)
(* and long-polls on one mailbox at a time: an entry that was returned is  *)
(* neither queued any more nor counted as evicted.                         *)
DrainedOnce ==
  \A i \in Ids : drains[i] # 0 => drains[i] = 1 /\ i \notin Queued \cup evicted

(* No mail disappears: an appended entry that no reader got and that was    *)
(* not pushed out of a full box is still queued, in the box that the map    *)
(* has for the key it was sent to, or in a box that DeleteBox or            *)
(* DeleteSession removed.  A lost race in getOrCreateBox or a filtered wait *)
(* that destroys mail it did not want would break it.                       *)
NothingLost ==
  \A i \in Appended :
    drains[i] = 0 /\ i \notin evicted =>
      \E b \in BoxIds : i \in entries[b] /\ (boxes[dest[i]] = b \/ b \in removed)

(* A box never holds more than maxPer entries, and to make room the trim in *)
(* Deliver drops only an entry that maxPer later ones for that key follow.  *)
EvictsOldest ==
  /\ \A b \in BoxIds : Cardinality(entries[b]) <= MaxPerBox
  /\ \A i \in evicted :
       Cardinality({j \in Appended : dest[j] = dest[i] /\ arrival[j] > arrival[i]}) >= MaxPerBox

(* A long-poll whose mailbox holds mail it wants does not sleep on: it      *)
(* returns, or another reader or a deletion takes that mail, without any    *)
(* need for its deadline to pass.  Signals coalesce and may wake the wrong  *)
(* waiter, so this rests on the mailboxPollTick re-check.                   *)
MailFor(p) == boxes[key[p]] # NoBox /\ Matching(boxes[key[p]], filter[p]) # {}

WaiterServed ==
  \A p \in Readers : (Waiting(p) /\ MailFor(p)) ~> (~Waiting(p) \/ ~MailFor(p))

(* The store implements the ledger: for each message the detailed steps of  *)
(* deliveries, reads and deletions amount to the stages of MailLedger.      *)
Status(i) ==
  IF drains[i] # 0 THEN "read"
  ELSE IF i \in evicted THEN "evicted"
  ELSE IF ~ \E b \in BoxIds : i \in entries[b] THEN "new"
  ELSE IF \E b \in removed : i \in entries[b] THEN "dropped" ELSE "queued"

Ledger == INSTANCE MailLedger WITH Messages <- Ids, status <- [i \in Ids |-> Status(i)]

ImplementsLedger == Ledger!LedgerSpec
=============================================================================
