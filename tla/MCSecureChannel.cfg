SPECIFICATION Spec
CONSTANTS
  Workers = 2
  MaxReads = 3
  BufferSize = 3
  HeaderSize = 2
  SizeModulus = 8
  FlushLimit = 2
  AppMsgs = {a1, a2}
  NULL = NULL
CHECK_DEADLOCK FALSE
INVARIANTS
  JobCarriesOwnMessage
  WireInOrder
PROPERTIES
  TeardownEnds
