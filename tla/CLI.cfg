\* Two emitters, the client's mailbox and one stream that is cut at any time;
\* two events, a history and a channel of one.
SPECIFICATION CLISpec
CONSTANTS
  m1 = m1
  m2 = m2
  e1 = e1
  e2 = e2
  s1 = s1
  NoStream = NoStream
  Me = m1
  Members = {m1, m2}
  Emitters = {e1, e2}
  Streams = {s1}
  MaxHistory = 1
  ChanCap = 1
  MaxWatchers = 1
  PageSize = 1
  MaxSeq = 2
CHECK_DEADLOCK FALSE
INVARIANT MailShown
PROPERTY HistoryReached
