CONSTANTS
  canReader = canReader
  shmWriter = shmWriter
  dashboard = dashboard
  Writers <- TwoWriters
  Readers <- OneReader
  Capacity = 2
  MaxRegions = 2
  MaxSent = 3
  MaxPops = 4
  MaxCrashes = 1
  MaxCloses = 1
SPECIFICATION Spec
INVARIANTS ShmInv ReadsWhatWasPut
PROPERTIES UnlinksOwnRegion ImplementsTicketQueue
SYMMETRY Alike
CHECK_DEADLOCK FALSE
