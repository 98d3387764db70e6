CONSTANTS
  QCap = 4
  Rate = 2
  RoomCap = 1
  BaseBackoff = 1
  MaxBackoff = 3
  MaxMsgs = 5
  MaxFaults = 2
  Batch = 3
  BufCap = 3
SPECIFICATION FairSpec
INVARIANTS UplinkInv
PROPERTIES OnceAndInOrder SpacedRetries KeepsUp ReporterStops SendsOn
CHECK_DEADLOCK FALSE
