SPECIFICATION FairSpec
CONSTANTS
  MaxFrameLength = 3
  ControlLength = 2
  MaxRequests = 5
INVARIANTS
  AnswersMatch
  ExecutedAsSent
PROPERTIES
  StopEnds
  RecoveryEnds
CHECK_DEADLOCK FALSE
