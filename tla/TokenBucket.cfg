SPECIFICATION Spec
CONSTANTS
  Threads = {t1, t2, t3}
  Period = 2
  Burst = 2
  MaxTime = 6
INVARIANTS
  RateBounded
  SpacedIsGranted
CHECK_DEADLOCK FALSE
