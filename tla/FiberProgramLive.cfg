CONSTANTS
  NumThreads = 1
  Apps = {main, a, b}
  a = a
  b = b
  Main = main
  Banned = {}
  Null = null
  Programs <- LivePrograms
SPECIFICATION FairSpec
INVARIANTS NoAborts
PROPERTIES EveryFiberReclaimed
