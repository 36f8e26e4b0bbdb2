SPECIFICATION Spec
CONSTANTS
  HeartbeatInterval = 4
  PingTimeout = 2
  MaxMissedPings = 3
  MaxRestore = 3
  MaxSilence = 20
INVARIANTS
  DetectedInTime
PROPERTIES
  NoHastyVerdict
