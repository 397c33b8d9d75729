CONSTANTS
  Owner = owner
  Thieves = {t1, t2}
  Null = null
  LogSize = 1
  MaxItems = 4
SPECIFICATION Spec
INVARIANTS NoStaleSlot
PROPERTIES ImplementsDeque
