\* The watchdog kills a guest that makes a call at that moment.
CONSTANTS
  N = 1
  HasWatchdog = TRUE
SPECIFICATION Spec
INVARIANTS
  EndRecorded
CHECK_DEADLOCK FALSE
