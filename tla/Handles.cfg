SPECIFICATION Spec
CONSTANTS
  Handles = {h1, h2, h3}
  None = None
  MaxUnsubs = 2
  MaxLosses = 1
INVARIANTS
  NoOrphan
  EndedIsOff
  OwnSlotOnly
  RobotTold
CHECK_DEADLOCK FALSE
