SPECIFICATION Spec
CONSTANTS
  Threads = {w1, w2}
  Serializers = {s1, s2}
  Tasks = {k1, k2, k3}
  NULL = NULL
  Clear = Clear
  MaxProcessTaskCount = 2
  Nested = TRUE
  Destroyers = {w1, w2}
  Copy <- AsWritten
SYMMETRY Symmetry
INVARIANT TypeOK
INVARIANT StartOrder
INVARIANT DrainedOnReturn
INVARIANT DeletionLosesNothing
INVARIANT FaultsHaveCause
CHECK_DEADLOCK FALSE
