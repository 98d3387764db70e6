CONSTANTS
  RingCap = 2
  HistoryCap = 2
  Interval = 2
  Width = 16
  QueueCap = 2
  Cooldown = 2
  OpenTries = 2
  FirstStamp = 3
  ShmStamps = {2, 4, 5}
  MaxSamples = 4
  MaxWall = 4
  MaxLate = 3
SPECIFICATION SideSpec
INVARIANTS ViewsInOrder HistoryIsSampled
PROPERTIES ViewsCatchUp AlarmsOnTime
