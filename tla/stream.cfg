SPECIFICATION Spec
CONSTANTS
  Replicas = {A, B}
  Owner = A
  Clients = {c1, c2}
  Resuming = {c2}
  Sticky = TRUE
  Aborters = {B}
  N = 2
  NAborted = 1
  NFailing = 0
  MaxBuffer = 2
  Starts = {0}
INVARIANTS
  StreamLaneInv
  LiveInOrder
  FirstSeesAll
  DoneIsHeard
CHECK_DEADLOCK FALSE
