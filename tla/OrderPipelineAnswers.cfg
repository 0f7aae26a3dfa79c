CONSTANTS
  r1 = r1
  r2 = r2
  s1 = s1
  s2 = s2
  s3 = s3
  u1 = u1
  u2 = u2
  b1 = b1
  Orders = {r1}
  Streams = {s1}
  Users = {u1}
  TokenUser = u1
  Bodies = {b1}
  StreamOf <- FirstStream
  BodyOf <- FirstBody
  HeaderOf <- NoHeader
  ClaimOf <- Claim
  RiskEnabled = FALSE
  Cancellers = {c1}
  NoOrder = NoOrder
  MaxRetries = 1
  LearnsFrom = "table"
SPECIFICATION LiveSpec
CHECK_DEADLOCK FALSE
INVARIANTS
  AcceptedIsRecorded
  
PROPERTIES
  EveryRequestAnswered
