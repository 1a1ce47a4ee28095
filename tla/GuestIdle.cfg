\* Two vCPUs, any guest with the watchdog, or one with the board: parks end,
\* wakes are not lost, idle vCPUs look again, a halted run stops.
SPECIFICATION IdleSpec
CONSTANTS
  N = 2
  HasWatchdog = TRUE
  MaxReady = 1
INVARIANTS IdleTypeOK StopSeen
PROPERTIES ParksEnd Stops WorkFound WorldStops
CHECK_DEADLOCK FALSE
