SPECIFICATION Spec
CONSTANTS
  ThreadCount = 3
  SessionCount = 2
  Backlog = 2
  QueueDepth = 5
  Conns = {c1, c2}
  MaxMessages = 1
  Senders = {c1, c2}
  Chunks = 1
  MaxFd = 1
  Resetting = {c1}
  HalfClosing = {}
  PoolMayFail = FALSE
  ListenMayFail = FALSE
  NULL = NULL
  Workers = {0, 1, 2}
  Ops <- Operations
  Results <- Outcomes
  Closing <- CloseOperations
INVARIANT EchoToClient
