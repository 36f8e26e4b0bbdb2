SPECIFICATION FairSpec
CONSTANTS
  Users = {u1, u2}
  Worker = worker
  Control = control
  Modes = {"Dispatched", "Inline"}
  MaxCalls = 2
  MaxCloses = 2
  MaxCallbacks = 2
INVARIANTS
  SetOnce
  NoneForgotten
  CloseIsFinal
PROPERTIES
  CallsReturn
  CloseReturns
CHECK_DEADLOCK FALSE
