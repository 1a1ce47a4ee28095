SPECIFICATION FairSpec
CONSTANTS
  Bytes = {"a", "b"}
  Rooms = {250}
  InputBytes = 250
  MaxTyped = 2
  ChanCap = 1
  MaxSent = 2
  MaxSize = 1
INVARIANTS TypeOK NoLostWakeup ToldIsThere
PROPERTIES TtyInOrder WaitsOn ResizeSeen DeathComes
CHECK_DEADLOCK FALSE
