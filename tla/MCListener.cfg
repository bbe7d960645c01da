SPECIFICATION Spec
CONSTANTS
  Conns = {c1, c2, c3}
  MaxFd = 4
  FdSetSize = 3
  AcceptFd = 3
  Parent = parent
CHECK_DEADLOCK FALSE
INVARIANTS
  OnlyOwnConnection
  SelectsItsConnection
  NoSecondListener
PROPERTIES
  ZombiesReaped
