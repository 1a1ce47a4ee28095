SPECIFICATION Spec
CONSTANTS
  Clients = {c0, c1}
  Blobs = {b0}
  None = None
  Faults = FALSE
INVARIANT RefAnswered
CHECK_DEADLOCK FALSE
