SPECIFICATION FairSpec
CONSTANTS
  task = task
  state = state
  NoTopic = NoTopic
  Topics = {state}
  EventTopics = {}
  MaxAttempts <- NoLimit
  MaxFaults = 1
  MaxOps = 0
PROPERTIES
  ConnectingEnds
CHECK_DEADLOCK FALSE
