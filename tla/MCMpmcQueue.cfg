CONSTANTS
  p1 = p1
  p2 = p2
  c1 = c1
  c2 = c2
  m1 = m1
  m2 = m2
  NoValue = NoValue
  Producers <- TwoProducers
  Consumers <- TwoConsumers
  Values <- TwoValues
  Alive <- AliveThreads
  Capacity = 2
  MaxPut = 3
SPECIFICATION FairSpec
INVARIANTS SlotExclusive IInv
PROPERTIES CallsReturn RefusalsAreReal ImplementsTicketQueue
