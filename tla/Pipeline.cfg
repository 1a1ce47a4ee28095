SPECIFICATION Spec
CONSTANTS
  Last = 4
  GraphPhases = {0, 1, 4}
  TextEnds = {0}
  NoSource = {2}
  Declared = {1}
  Refusing = {3}
  Broken = {4}
  Inputs = {"one", "two"}
  Kinds = {"to", "from", "keepgoing", "noforms"}
  Jobs = 2
  MaxEdits = 2
  MaxCommands = 3
  None = None
INVARIANTS TypeOK SealedWhole CheckSound NamesTheChanged LogInOrder
CHECK_DEADLOCK FALSE
