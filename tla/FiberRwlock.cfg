CONSTANTS
  Fibers = {f1, f2, f3, f4}
  Counters = 5
SPECIFICATION FairSpec
INVARIANTS Exclusion WordInv NobodyWaitsForFreeLock
PROPERTIES WriterIsServed
