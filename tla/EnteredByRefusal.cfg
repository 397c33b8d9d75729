CONSTANTS
  NumThreads = 1
  Apps = {main, a, b}
  a = a
  b = b
  Main = main
  Banned = {}
  Null = null
  Programs <- ContendedPrograms
SPECIFICATION Spec
INVARIANT MutualExclusion
CHECK_DEADLOCK FALSE
