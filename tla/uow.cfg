SPECIFICATION FairSpec
CONSTANTS
  b1 = b1 b2 = b2 b3 = b3 o1 = o1 o2 = o2
  None = None
  Blocks <- ThreeBlocks
  Uows <- TwoUows
  UowOf <- Shared
  Cancellable <- OnlyAlone
  Faults <- AllFaults
INVARIANTS UowInv BackgroundCloses
PROPERTIES ImplementsAtomic SessionsEnd
CHECK_DEADLOCK FALSE
