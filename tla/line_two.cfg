SPECIFICATION FairSpec
CONSTANTS
  BUF = 1
  Cols = 1
  Rows = 1
  Cells = 2
  NTERM = 2
  AltKeys = {1, 2}
  Syms = {"a"}
  Prints = {"newline"}
  Sizes = {0}
PROPERTIES ReadEnds
CHECK_DEADLOCK FALSE
