SPECIFICATION SafeSpec
CONSTANTS
  Conns = {c1, c2}
  MaxFd = 5
  FdSetSize = 4
  AcceptFd = 3
  Parent = parent
CHECK_DEADLOCK FALSE
SYMMETRY Symmetry
INVARIANTS
  ChannelIsItsConnection
