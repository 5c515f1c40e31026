\* Two emitters, two mailboxes, one stream whose channel holds one event, and
\* a client that pages through a history of two, one entry at a time.
SPECIFICATION Spec
CONSTANTS
  m1 = m1
  m2 = m2
  e1 = e1
  e2 = e2
  s1 = s1
  Members = {m1, m2}
  Emitters = {e1, e2}
  Streams = {s1}
  MaxHistory = 2
  ChanCap = 1
  MaxWatchers = 1
  PageSize = 1
  MaxSeq = 3
CHECK_DEADLOCK FALSE
SYMMETRY Symmetry
INVARIANTS TypeOK HistoryOrdered NoGapInStream MailBeforeNews CatchUpComplete
