CONSTANTS
  MaxConns = 3
  MaxAttempts = 2
  BufferSize = 1
  k1 = k1
  k2 = k2
  Frames <- SomeFrames
  InputSize = 2
  ResultSize = 1
  RetryMax = 1
  Nothing = Nothing
SPECIFICATION IngestionSpec
CHECK_DEADLOCK FALSE
INVARIANTS
  OneConnection
  OncePerTopicInOrder
  EveryMessageAccounted
PROPERTIES
  FailureNoticed
  ServiceStops
