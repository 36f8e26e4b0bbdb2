SPECIFICATION FairSpec
CONSTANTS
  task = task
  state = state
  NoTopic = NoTopic
  Topics = {state}
  EventTopics = {}
  MaxAttempts <- NoLimit
  MaxFaults = 1
  MaxOps = 2
PROPERTIES
  ReconnectingEnds
CHECK_DEADLOCK FALSE
