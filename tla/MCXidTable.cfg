SPECIFICATION Spec
CONSTANTS
  Entries = {e1, e2}
  MaxXid = 3
  NULL = NULL
CHECK_DEADLOCK FALSE
INVARIANTS
  DeletedFromBoth
