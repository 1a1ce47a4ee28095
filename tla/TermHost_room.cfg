SPECIFICATION HostSpec
CONSTANTS
  Bytes = {"a"}
  Rooms = {31, 250}
  MaxTyped = 1
  ChanCap = 1
  MaxSent = 1
  MaxSize = 1
PROPERTY ResizeReported
CHECK_DEADLOCK FALSE
