\* One message and every kind of fault: a crash, a clean shutdown, a failing
\* flush and the deletion of the session.
SPECIFICATION Spec
CONSTANTS
  MaxMessages = 1
  MaxCrashes = 1
  MaxShutdowns = 1
  MaxFailures = 1
  MaxCloses = 1
  NoSnapshot = NoSnapshot
CHECK_DEADLOCK FALSE
INVARIANTS TypeOK LossWindow CounterAboveHistory RereadOnlyAfterRestart
PROPERTY MailBecomesDurable
