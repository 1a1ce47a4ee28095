\* Three vCPUs and the watchdog: parks, wakes, Host calls, starts and ends.
CONSTANTS
  N = 3
  HasWatchdog = TRUE
SPECIFICATION Spec
INVARIANTS
  TypeOK
  RunningCount
  ParkBounded
  HostExclusive
  HaltReaches
  ExitAlone
  EndUnlessKilled
  DestroyedLast
\* All parked with no deadline, the guest is idle for ever; a torn down
\* machine takes no step.
CHECK_DEADLOCK FALSE
