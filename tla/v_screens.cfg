SPECIFICATION Spec
CONSTANTS
  NTERM = 3
  Pictures = {"a", "b"}
PROPERTY IndependentScreens
