SPECIFICATION LimiterSpec
CONSTANTS
  User = {u1}
  Unit = 8
  Gain = 2
  Burst = 2
  Millisecond = 2
  Second = 3
  NoBucket = NoBucket
  NoPromise = NoPromise
  MaxClock = 20
INVARIANTS
  RateIsBounded
  RetryAfterIsEnough
CHECK_DEADLOCK FALSE
