CONSTANTS
  Fibers = {f1, f2, f3, f4}
  Nobody = Nobody
SPECIFICATION FairSpec
INVARIANTS CountInv
PROPERTIES NoStolenWakeup CallsReturn
CHECK_DEADLOCK FALSE
