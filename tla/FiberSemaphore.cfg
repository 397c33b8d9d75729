CONSTANTS
  Fibers = {f1, f2, f3, f4}
  Value = 2
SPECIFICATION SemFairSpec
INVARIANTS WithinValue CounterInv
PROPERTIES WaitIsGranted
