SPECIFICATION FairSpec
CONSTANTS
  r1 = r1 t1 = t1 t2 = t2 t3 = t3 m1 = m1 m2 = m2
  None = None
  Requests <- OneTab
  Tasks <- ThreeTasks
  Messages <- TwoMessages
  Ops <- CalmOps
  Faults <- Nothing
  Polite = TRUE
INVARIANTS StatusIsAuthoritative OneDone ArchivedIsAtRest
PROPERTIES RunEnds AcceptedIsRun
