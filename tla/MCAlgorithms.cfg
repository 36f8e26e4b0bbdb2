SPECIFICATION Spec
CONSTANTS
  Buckets = 3
  MaxClock = 7
  MaxFrames = 2
  Ids = {0, 7}
  Codes <- SomeCodes
  Stamps = {0, 9}
  Texts = {"", "t"}
  Delays = {0, 1, 500, 3000, 30000}
  Percents = {0, 3, 30, 99, 100}
  Attempts = {0, 1, 2, 3, 4, 5, 6, 7}
INVARIANTS
  ToldApart
  CodesDecide
  BackoffInRange
  WindowExact
CHECK_DEADLOCK FALSE
