\* A sender on one mailbox of capacity 1 that may be deleted once, and two
\* readers that drain it or wait for the mail of one agent each.
SPECIFICATION Spec
CONSTANTS
  k1 = k1
  w1 = w1
  r1 = r1
  r2 = r2
  Keys = {k1}
  Sessions <- OneSession
  Writers = {w1}
  Readers = {r1, r2}
  Senders = {"s1", "s2"}
  Types = {"t1"}
  Wanted <- OwnFilter
  NoFilter = NoFilter
  NoBox = NoBox
  MaxPerBox = 1
  MaxEntries = 2
  MaxBoxes = 2
CHECK_DEADLOCK FALSE
INVARIANTS TypeOK DrainedOnce NothingLost EvictsOldest
PROPERTIES ImplementsLedger WaiterServed
