\* One message, no fault: it arrives while the stream is being set up.
SPECIFICATION Spec
CONSTANTS
  MaxMessages = 1
  MaxFaults = 0
  HistLimit = 50
  ChanCap = 64
CHECK_DEADLOCK FALSE
PROPERTY MissedNeverFinal
