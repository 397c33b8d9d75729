CONSTANTS
  Fibers = {f1, f2, f3}
  TaggedFibers = {f1, f2}
  Poppers = {p1, p2}
  Consumer = p1
  Stub = stub
  Null = null
SPECIFICATION Spec
INVARIANTS NodesAreConserved
PROPERTIES ImplementsQueue
