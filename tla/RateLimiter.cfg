\* A ring of two, limits below, at and above its size, a second of two ticks.
\* The clock is bounded: the model may stop.
SPECIFICATION Spec
CONSTANTS
  RingSize = 2
  Limits = {1, 2, 3}
  Second = 2
  MaxCounted = 4
  MaxTime = 6
INVARIANTS TypeOK RateLimited RefusedOnlyAtLimit
CHECK_DEADLOCK FALSE
