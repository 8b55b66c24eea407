SPECIFICATION Spec
CONSTANTS
  Modes = {"bundled", "external", "direct"}
  Lines = {o1, o2}
  MaxBundles = 3
  MaxFaults = 2
CHECK_DEADLOCK FALSE
INVARIANTS   SharedLinesKept
PROPERTY StackWaitsForFiles
