CONSTANTS
  Callers = {c1, c2}
  Rate = 2
  Burst = 2
  TicksPerSec = 3
  TTL = 3
  Asks = {1, 2}
  MaxClock = 4
  Workers = {w1, w2}
  LoginLimit = 2
  LockoutLimit = 3
  Window = 1
  LockoutTime = 2
  MaxFaults = 2
  Procs = {p1, p2, p3}
  Orphan = o
  MaxTries = 2
  Clients = {g1, g2}
  CounterLimit = 2
  CounterWidth = 2
  CounterTime = 3
  MaxRequests = 4
  Askers = {a1, a2}
  SlidingLimit = 2
  SlidingWidth = 2
  SlidingTime = 3
  MaxCalls = 4
SPECIFICATION MCSpec
CHECK_DEADLOCK FALSE
INVARIANTS
  RateBound
  GuessesBounded
  FailuresAreForgotten
  OverlapNeedsExpiry
  WindowsHold
PROPERTIES
  RefusalsAreDue
  LockoutEnds
