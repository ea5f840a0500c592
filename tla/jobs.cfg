SPECIFICATION Spec
CONSTANTS
  Turns = {t1, t2}
  Resumes = {r1}
  Aborts = {a1}
  Limit = 2
  None = None
INVARIANTS
  JobsInv
  SoleDriver
  SlotsNotLeaked
PROPERTIES
  TerminalIsFinal
CHECK_DEADLOCK FALSE
