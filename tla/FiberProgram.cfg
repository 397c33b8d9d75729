CONSTANTS
  NumThreads = 2
  Apps = {main, a, b}
  a = a
  b = b
  Main = main
  Banned = {}
  Null = null
  Programs <- SafePrograms
SPECIFICATION UnrefusedSpec
INVARIANTS NoAssertFails OneThreadPerFiber NoFiberLost MutualExclusion SingleConsumer JoinGetsResult ClearIsAnswered FreedIsUnused NobodyLeavesEarly
CHECK_DEADLOCK FALSE
