SPECIFICATION FairSpec
CONSTANTS
  MaxReceiveBufferSize = 4
  HeaderSize = 2
  Sizes <- AnySize
  MessageTypes = {echo, other}
  Registered = {echo}
  MaxSent = 3
  MayFail = TRUE
  PoolMayFail = TRUE
  MayEnd = TRUE
INVARIANT TypeOK
INVARIANT BytesConserved
INVARIANT RoomToReceive
PROPERTY StreamOfMessages
PROPERTY AllTaken
CHECK_DEADLOCK FALSE
