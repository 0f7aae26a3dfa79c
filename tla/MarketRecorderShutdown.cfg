CONSTANTS
  p1 = p1
  Partitions = {p1}
  LogLength = 2
  Content <- Books
  MaxRestarts = 0
  NoMessage = NoMessage
  MaxSize = 2
  MaxRetries = 1
  FinalRetries = 1
  DbFails = FALSE
  Adders = {a1}
  BufMessages = {m1}
  BufMaxSize = 1
  BufMaxRetries = 2
  BufFinalRetries = 1
  Calls = {u1, u2, u3}
  u1 = u1
  UploadRetries = 2
  MaxSecond = 1
  Nobody = Nobody
SPECIFICATION MCSpec
CHECK_DEADLOCK FALSE
INVARIANTS
  ShutdownFlushesAll
