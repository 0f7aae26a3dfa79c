CONSTANTS
  LogLength = 1
  Kind <- OneValid
  Symbols <- TwoOrders
  MaxFailures = 2
  MaxEpochs = 1
SPECIFICATION Spec
CHECK_DEADLOCK FALSE
INVARIANTS
  ShutdownClosesPositions
