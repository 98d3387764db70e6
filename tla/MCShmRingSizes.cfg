CONSTANTS
  canReader = canReader
  shmWriter = shmWriter
  dashboard = dashboard
  Writers <- OneWriter
  Readers <- OneReader
  Capacity = 2
  MaxRegions = 1
  MaxSent = 3
  MaxPops = 4
  MaxCrashes = 0
  MaxCloses = 0
SPECIFICATION Spec
PROPERTY FullMeansFull
CHECK_DEADLOCK FALSE
