SPECIFICATION FairSpec
CONSTANTS
  task = task
  state = state
  NoTopic = NoTopic
  Topics = {task, state}
  EventTopics = {task}
  MaxAttempts = 1
  MaxFaults = 2
  MaxOps = 2
PROPERTIES
  RetryHappens
  SubscribeSettles
  CallsComplete
CHECK_DEADLOCK FALSE
