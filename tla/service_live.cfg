SPECIFICATION FairSpec
CONSTANTS
  ThreadCount = 2
  SessionCount = 2
  Backlog = 1
  QueueDepth = 6
  Conns = {c1, c2}
  MaxMessages = 1
  Senders = {c1}
  Chunks = 2
  MaxFd = 2
  Resetting = {}
  HalfClosing = {}
  PoolMayFail = FALSE
  ListenMayFail = FALSE
  NULL = NULL
  Workers = {0, 1}
  Ops <- Operations
  Results <- Outcomes
  Closing <- CloseOperations
INVARIANT EchoToClient
PROPERTY Admitted
PROPERTY Answered
PROPERTY UsesRing
