SPECIFICATION Spec
CONSTANTS
  task = task
  state = state
  NoTopic = NoTopic
  Topics = {state}
  EventTopics = {}
  MaxAttempts <- NoLimit
  MaxFaults = 2
  MaxOps = 1
INVARIANTS
  NeverCrashes
CHECK_DEADLOCK FALSE
