CONSTANTS
  p1 = p1
  p2 = p2
  c1 = c1
  c2 = c2
  s1 = s1
  m1 = m1
  NoThread = NoThread
  Producers <- TwoProducers
  Consumers <- TwoConsumers
  Stoppers <- NoStopper
  Values <- OneValue
  Capacity = 2
  MaxPut = 3
  Timeout = 0
SPECIFICATION Spec
INVARIANT NoLostWakeup
