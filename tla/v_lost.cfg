SPECIFICATION Spec
CONSTANTS
  NSHELL = 2
  NPROC = 3
  AltKeys = {1, 2}
  KeysInKernel = FALSE
  Statuses = {0}
  MaxDepth = 2
INVARIANT NeverLost
CHECK_DEADLOCK FALSE
