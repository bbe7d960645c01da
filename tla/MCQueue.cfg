SPECIFICATION Spec
CONSTANTS
  Queues = {q1, q2}
  Cells = {c1, c2, c3, c4, c5}
  Msgs = {m1, m2, m3, m4}
  NULL = NULL
SYMMETRY Symmetry
CHECK_DEADLOCK FALSE
INVARIANTS
  TypeOK
  ListWellFormed
  DeliveredInOrder
PROPERTIES
  ImplementsMessageQueue
