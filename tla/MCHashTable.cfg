SPECIFICATION Spec
CONSTANTS
  k1 = k1 k2 = k2 k3 = k3 b1 = b1 b2 = b2 b3 = b3
  Keys = {k1, k2, k3, k4}
  Values = {v1, v2}
  Buckets = {b1, b2, b3}
  BucketOf <- MCBucketOf
  NULL = NULL
SYMMETRY Symmetry
INVARIANTS
  TableConsistent
  SavedIsAlive
  ForeachVisitsOnce
  IteratorReturnsAll
PROPERTIES
  ImplementsKeyedTable
