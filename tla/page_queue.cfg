SPECIFICATION Spec
CONSTANTS
  MaxRuns = 2
  MaxSteps = 0
  MaxQueues = 1
  MaxFaults = 1
  Ops = {"ask", "queue", "next"}
  Faults = {"crash", "raise"}
INVARIANTS
  PageInv DoneIsTrue
CHECK_DEADLOCK FALSE
