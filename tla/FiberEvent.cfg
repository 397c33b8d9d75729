CONSTANTS
  Readers = {r1}
  Writers = {w1}
  Acceptors = {}
  Connectors = {k1}
  Closers = {c1}
  Pollers = {p1, p2}
  Thread = p1
  Racing = FALSE
  Sleepers = {f1, f2, f3}
  LightSleepers = {f1}
  Nil = Nil
  Requests <- SmallRequests
  Kilo = 2
  Word = 8
  MaxTicks = 2
  MaxTime = 5
  Parallel = FALSE
SPECIFICATION FairSpec
INVARIANTS NobodyForgotten NoneOverdue
PROPERTIES ReadyIsNoticed NotEarly
CHECK_DEADLOCK FALSE
