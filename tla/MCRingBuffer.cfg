CONSTANTS
  a = a
  b = b
  Values <- TwoValues
  Zero = a
  Size = 3
  MaxSent = 6
SPECIFICATION FairSpec
INVARIANTS RingInv
PROPERTIES EverythingArrives RefusalsAreReal ImplementsTicketQueue
