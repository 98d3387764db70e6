CONSTANTS
  p1 = p1
  p2 = p2
  c1 = c1
  c2 = c2
  s1 = s1
  m1 = m1
  NoThread = NoThread
  Producers <- OneProducer
  Consumers <- TwoConsumers
  Stoppers <- OneStopper
  Values <- OneValue
  Capacity = 2
  MaxPut = 4
  Timeout = 1
SPECIFICATION FairSpec
INVARIANTS NoLostWakeup NobodyWaitsAfterStop
PROPERTIES Delivery StopReturns
