SPECIFICATION Spec
CONSTANTS
  NTERM = 3
  Pictures = {"a", "b"}
INVARIANTS TypeOK Coherent
PROPERTY ScreensKept
