SPECIFICATION Spec
CONSTANTS
  Clients = {c0, c1}
  Blobs = {b0, b1}
  None = None
  Faults = TRUE
INVARIANTS TypeOK RefWhole
PROPERTY TxnsIsolated
CHECK_DEADLOCK FALSE
