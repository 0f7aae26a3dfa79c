CONSTANTS
  LogLength = 5
  Kind <- OneOfEach
  Symbols <- TwoThenNone
  MaxFailures = 2
  MaxEpochs = 1
SPECIFICATION LiveSpec
CHECK_DEADLOCK FALSE
INVARIANTS
  EveryStrategyAccounted
  OrdersMatchPositions
  ShutdownStopsAll
PROPERTIES
  EveryStrategySettled
