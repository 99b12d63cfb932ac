SPECIFICATION Spec
CONSTANTS
  BUF = 3
  Cols = 3
  Rows = 2
  Cells = 8
  NTERM = 1
  AltKeys = {}
  Syms = {"a", "b"}
  Prints = {"char", "newline", "backspace"}
  Sizes = {1, 3}
INVARIANTS TypeOK BufferInBounds
PROPERTIES EchoInPlace ImplementsEditor
CHECK_DEADLOCK FALSE
