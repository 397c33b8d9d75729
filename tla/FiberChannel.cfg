CONSTANTS
  Senders = {s1, s2}
  Receivers = {r1, r2}
  Receiver = r1
  Null = null
  Size = 2
  MaxSends = 2
SPECIFICATION FairSpec
INVARIANTS WokenOnce SlotsHaveOneOwner OneWorker
PROPERTIES InOrder AllReceived
CHECK_DEADLOCK FALSE
