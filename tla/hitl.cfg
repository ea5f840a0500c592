SPECIFICATION FairSpec
CONSTANTS
  Turns = {t1}
  Resumes = {r1, r2}
  Aborts = {a1}
  Limit = 2
  None = None
INVARIANTS
  OneOutcome
PROPERTIES
  PausedEnds
  DriversEnd
CHECK_DEADLOCK FALSE
