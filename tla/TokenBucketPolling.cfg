CONSTANTS
  Callers = {c1}
  Rate = 2
  Burst = 1
  TicksPerSec = 4
  TTL = 100
  Asks = {1}
  MaxClock = 8
SPECIFICATION Spec
CHECK_DEADLOCK FALSE
PROPERTIES
  ServedWithinASecond
