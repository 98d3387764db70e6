CONSTANTS
  t1 = t1
  t2 = t2
  p1 = p1
  p2 = p2
  q1 = q1
  Values <- TwoTopics
  Publishers <- TwoPublishers
  Queues <- OneQueue
  Capacity = 2
  QueueCapacity = 1
  MaxPut = 2
  MaxSubs = 2
SPECIFICATION FairSpec
INVARIANTS BusInv GivenInOrder NoSilentLoss
PROPERTIES OnlyTheStraggler StopDrains DeliveryEnds EventuallyDispatched
