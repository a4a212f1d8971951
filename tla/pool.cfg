SPECIFICATION FairSpec
CONSTANTS
  Threads = {t1, t2}
  InitialCount = 1
  ChunkSize = 2
  TlsCacheSize = 3
  BatchSize = 2
  BufferSize = 2
  Retries = 2
  MaxSlots = 5
  CtorMayThrow = TRUE
INVARIANT TypeOK
INVARIANT OneOwner
INVARIANT CacheGivesBack
INVARIANT AllocationExclusive
PROPERTY FlagReleased
