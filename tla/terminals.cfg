SPECIFICATION Spec
CONSTANTS
  NSHELL = 2
  NPROC = 4
  AltKeys = {2}
  KeysInKernel = TRUE
  Statuses = {0}
  MaxDepth = 3
INVARIANTS GlobalsAgree FirstStartHasItsSlot
CHECK_DEADLOCK FALSE
