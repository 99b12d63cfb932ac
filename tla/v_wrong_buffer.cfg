SPECIFICATION Spec
CONSTANTS
  BUF = 3
  Cols = 3
  Rows = 2
  Cells = 8
  NTERM = 2
  AltKeys = {1, 2}
  Syms = {"a"}
  Prints = {"char", "newline", "backspace"}
  Sizes = {3}
INVARIANT TypedHere
CHECK_DEADLOCK FALSE
