SPECIFICATION Spec
CONSTANTS
  task = task
  state = state
  NoTopic = NoTopic
  Topics = {task, state}
  EventTopics = {task}
  MaxAttempts = 1
  MaxFaults = 3
  MaxOps = 3
INVARIANTS
  SessionInv
  EStopConfirmedWhenReady
  AttemptsWithinLimit
  TransientFailureRetries
  AckAwaitedHasDeadline
  TerminalReleasesAll
PROPERTIES
  NoEarlyReady
  ImplementsLifecycle
CHECK_DEADLOCK FALSE
