SPECIFICATION FairSpec
CONSTANTS
  MaxMsgs = 2
  MaxReads = 2
INVARIANTS
  OneOfEach
  WrittenInOrder
  EndsOnce
  OnlyConnectOpens
  SendTellsTruth
PROPERTIES
  ImplementsSocket
  CallsEnd
  EndReported
CHECK_DEADLOCK FALSE
