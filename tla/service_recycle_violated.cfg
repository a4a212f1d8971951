SPECIFICATION FairSpec
CONSTANTS
  ThreadCount = 2
  SessionCount = 1
  Backlog = 1
  QueueDepth = 5
  Conns = {c1}
  MaxMessages = 1
  Senders = {c1}
  Chunks = 1
  MaxFd = 1
  Resetting = {c1}
  HalfClosing = {}
  PoolMayFail = FALSE
  ListenMayFail = FALSE
  NULL = NULL
  Workers = {0, 1}
  Ops <- Operations
  Results <- Outcomes
  Closing <- CloseOperations
PROPERTY SessionRecycled
