CONSTANTS
  Threads = {t1, t2}
  Nodes = {n1, n2, n3, n4}
  Null = null
  RetireAt = 1
SPECIFICATION Spec
SYMMETRY Symmetry
INVARIANTS NoUseAfterFree
PROPERTIES ImplementsQueue
