SPECIFICATION SweptSpec
CONSTANTS
  Replicas = {A, B}
  Owner = A
  Clients = {c1}
  Resuming = {}
  Sticky = TRUE
  Aborters = {}
  N = 1
  NAborted = 1
  NFailing = 0
  MaxBuffer = 2
  Starts = {0}
PROPERTIES
  OpenIsTold
CHECK_DEADLOCK FALSE
