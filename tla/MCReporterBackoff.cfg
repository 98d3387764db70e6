CONSTANTS
  QCap = 4
  Rate = 1
  RoomCap = 1
  BaseBackoff = 2
  MaxBackoff = 8
  MaxMsgs = 10
  MaxFaults = 3
  Batch = 3
  BufCap = 3
SPECIFICATION Spec
PROPERTY DrainsWhileBackingOff
CHECK_DEADLOCK FALSE
