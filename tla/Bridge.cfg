\* Two messages and two faults; history page and channel hold one.
SPECIFICATION Spec
CONSTANTS
  MaxMessages = 2
  MaxFaults = 2
  HistLimit = 1
  ChanCap = 1
CHECK_DEADLOCK FALSE
INVARIANT WakeUpPending
PROPERTIES WokenUnlessMissed StreamRestored
