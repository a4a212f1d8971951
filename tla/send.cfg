SPECIFICATION FairSpec
CONSTANTS
  Workers = {w1, w2}
  Ops = {s1, s2, r1}
  Closing = {}
  Receives = {r1}
  Results = {done}
  QueueDepth = 3
  Buffers = {1, 2, 3}
  MaxMessageSize = 3
  ChunkSize = 2
  HeaderSize = 3
  Totals = {1, 5}
  Recipients = 2
  MaxCalls = 1
  None = None
INVARIANT SendTypeOK
INVARIANT OneReference
INVARIANT BufferCounted
INVARIANT SentIntact
INVARIANT AnswerTiled
PROPERTY RequestReachesKernel
PROPERTY BuffersReclaimed
