SPECIFICATION Spec
CONSTANTS
  ThreadCount = 3
  Bits = 10
  MaxRequests = 1024
INVARIANT RoundRobin
CHECK_DEADLOCK FALSE
