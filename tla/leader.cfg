SPECIFICATION FairSpec
CONSTANTS
  Servers = {s1, s2}
  Callers = {k1}
  Lease = 5
  Interval = 2
  Attempts = 1
  MaxFaults = 2
  None = None
INVARIANTS
  LeaderInv
PROPERTIES
  NoLapse
  ToldHolds
  LeaderEmerges
CHECK_DEADLOCK FALSE
