SPECIFICATION Spec
CONSTANTS
  ThreadCount = 2
  SessionCount = 2
  Backlog = 2
  QueueDepth = 2
  Conns = {c1, c2}
  MaxMessages = 2
  Senders = {c1}
  Chunks = 1
  MaxFd = 1
  Resetting = {c1}
  HalfClosing = {c1}
  PoolMayFail = TRUE
  ListenMayFail = TRUE
  NULL = NULL
  Workers = {0, 1}
  Ops <- Operations
  Results <- Outcomes
  Closing <- CloseOperations
INVARIANT TypeOK
INVARIANT SessionExclusive
INVARIANT EchoOnce
INVARIANT NullEntryNeedsBurst
PROPERTY LifecycleFollowed
CHECK_DEADLOCK FALSE
