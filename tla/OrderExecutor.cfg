CONSTANTS
  Orders = {o1}
  Cancellers = {c1, c2}
  NoOrder = NoOrder
  MaxRetries = 2
  LearnsFrom = "events"
  TableOrders = {o1, o2}
  TableCancellers = {c1}
  TableNone = NoOrder
  TableRetries = 1
SPECIFICATION MCSpec
CHECK_DEADLOCK FALSE
INVARIANTS
  TableIsTrue
  ExposureBounded
  CancelReachesBroker
  AnyCallerIsSafe
PROPERTIES
  KeepsLifecycle
  ExecuteReturns
