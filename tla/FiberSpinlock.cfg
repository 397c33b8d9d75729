CONSTANTS
  Threads = {t1, t2, t3}
  Modulus = 3
SPECIFICATION SpinSpec
INVARIANTS MutualExclusion TicketInv
PROPERTIES FirstComeFirstServed LockIsGranted
