SPECIFICATION OneTerminalFairSpec
CONSTANTS
  NSHELL = 3
  NPROC = 6
  AltKeys = {1}
  KeysInKernel = TRUE
  Statuses = {0, 1}
  MaxDepth = 4
INVARIANTS TypeOK IInv RunsInItsOwnPage RunningOwnsSlotAndStack ForegroundNode ReturnPathIntact SlotsAccounted NeverLost
PROPERTIES ImplementsCalls SyscallsComplete
