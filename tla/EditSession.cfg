SPECIFICATION Spec
CONSTANTS
  Bufs = {b1, b2}
  Forms = {f1, f2}
  Contents = {x, y}
  Plain = {f2}
  AtStart = {f1}
  Gone = Gone
  Half = Half
  MaxEdits = 2
SYMMETRY BufSymmetry
INVARIANTS TypeOK UndoneToTheFirst CachesCurrent
PROPERTIES OnlyTyped PendingKept
CHECK_DEADLOCK FALSE
