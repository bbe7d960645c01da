SPECIFICATION WireSpec
CONSTANTS
  Bodies = {0, 1, 16, 24, 48, 88, 96, 176}
  ItemLengths = {0, 4, 8, 16, 24, 88, 91, 96, 104, 65472}
  MaxItems = 2
  PartLengths = {8, 16, 65472}
  WholeLengths = {8, 16, 24, 88, 91, 96, 104, 65472}
  DataLengths = {0, 64, 65519, 65540}
  Counts = {0, 2, 1365, 65536}
  MaxActions = 2
  Shapes <- MCShapes
CHECK_DEADLOCK FALSE
INVARIANTS
  AcceptedIsWhole
  AcceptedAddsUp
  StuckOnlyByItsLengths
  ErrorHasOneAnswer
  ConvertedWhole
  WritesStayInside
  CreatedIsAccepted
  AcceptedIsReadRight
PROPERTIES
  CheckEnds
