CONSTANTS
  canReader = canReader
  shmWriter = shmWriter
  dashboard = dashboard
  Writers <- OneWriter
  Readers <- OneReader
  Capacity = 2
  MaxRegions = 2
  MaxSent = 3
  MaxPops = 4
  MaxCrashes = 1
  MaxCloses = 2
SPECIFICATION FairSpec
PROPERTY PublishedIsRead
CHECK_DEADLOCK FALSE
