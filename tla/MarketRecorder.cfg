CONSTANTS
  p1 = p1
  Partitions = {p1}
  LogLength = 3
  Content <- Ticks
  MaxRestarts = 1
  NoMessage = NoMessage
  MaxSize = 1
  MaxRetries = 1
  FinalRetries = 2
  DbFails = TRUE
  Adders = {a1, a2}
  BufMessages = {m1, m2, m3}
  BufMaxSize = 2
  BufMaxRetries = 2
  BufFinalRetries = 1
  Calls = {u1, u2, u3}
  u1 = u1
  UploadRetries = 2
  MaxSecond = 1
  Nobody = Nobody
SPECIFICATION MCSpec
CHECK_DEADLOCK FALSE
INVARIANTS
  EveryOffsetAccounted
  BufferIsSound
  RowsExact
  ArchiveIsTrue
PROPERTIES
  EventuallyTaken
