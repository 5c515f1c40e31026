\* A clean shutdown while the periodic flush is under way.
SPECIFICATION Spec
CONSTANTS
  MaxMessages = 1
  MaxCrashes = 0
  MaxShutdowns = 1
  MaxFailures = 0
  MaxCloses = 0
  NoSnapshot = NoSnapshot
CHECK_DEADLOCK FALSE
INVARIANT CleanRestartLosesNothing
