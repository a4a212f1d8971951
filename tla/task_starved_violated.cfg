SPECIFICATION FairSpec
CONSTANTS
  Threads = {w1, w2}
  Serializers = {s1}
  Tasks = {k1, k2}
  NULL = NULL
  Clear = Clear
  MaxProcessTaskCount = 3
  Nested = FALSE
  Destroyers = {}
  Copy <- AsWritten
PROPERTY AllExecuted
