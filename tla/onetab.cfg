SPECIFICATION Spec
CONSTANTS
  r1 = r1 t1 = t1 t2 = t2 t3 = t3 m1 = m1 m2 = m2
  None = None
  Requests <- OneTab
  Tasks <- TwoTasks
  Messages <- TwoMessages
  Ops <- AllOps
  Faults <- AllFaults
  Polite = FALSE
SYMMETRY Symmetric
INVARIANTS IInv DiscardedNeverRuns RunAtMostOnce ClaimIsHeld
PROPERTIES ImplementsMailbox
