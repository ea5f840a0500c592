SPECIFICATION Spec
CONSTANTS
  MaxRuns = 2
  MaxSteps = 2
  MaxQueues = 0
  MaxFaults = 1
  Ops = {}
  Faults = {"drop", "reload", "crash", "lost", "fails", "raise"}
INVARIANTS
  NoHole ResumesFromOutput
PROPERTY Converges
CHECK_DEADLOCK FALSE
