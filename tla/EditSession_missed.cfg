SPECIFICATION Spec
CONSTANTS
  Bufs = {b1, b2}
  Forms = {f1, f2}
  Contents = {x, y}
  Plain = {}
  AtStart = {f1}
  Gone = Gone
  Half = Half
  MaxEdits = 1
INVARIANT PrintsCurrent
CHECK_DEADLOCK FALSE
