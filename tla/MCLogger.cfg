CONSTANTS
  p1 = p1
  p2 = p2
  f1 = f1
  main = main
  m1 = m1
  NoThread = NoThread
  Flusher <- f1
  Main <- main
  Producers <- TwoThreads
  Consumers <- OneFlusher
  Stoppers <- OneMain
  Values <- OneMessage
  Capacity = 2
  MaxPut = 3
  Timeout = 1
  MaxLives = 2
SPECIFICATION FairLogSpec
INVARIANTS LogInv FileInOrder
PROPERTIES ShutdownReturns EntriesAreWritten ShutdownFlushes
CHECK_DEADLOCK FALSE
