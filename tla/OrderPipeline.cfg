CONSTANTS
  r1 = r1
  r2 = r2
  s1 = s1
  s2 = s2
  s3 = s3
  u1 = u1
  u2 = u2
  b1 = b1
  Orders = {r1, r2}
  Streams = {s1, s2, s3}
  Users = {u1, u2}
  TokenUser = u1
  Bodies = {b1}
  StreamOf <- TwoStreams
  BodyOf <- SameBody
  HeaderOf <- Tokens
  ClaimOf <- Claims
  RiskEnabled = TRUE
  Cancellers = {}
  NoOrder = NoOrder
  MaxRetries = 0
  LearnsFrom = "events"
SPECIFICATION Spec
CHECK_DEADLOCK FALSE
INVARIANTS
  AcceptedIsReal
  RepeatsHaveACause
