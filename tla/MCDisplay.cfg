SPECIFICATION FairSpec
CONSTANTS
  MaxSeconds = 2
  MaxEvents = 5
INVARIANT
  DisplayFollowsBus
PROPERTIES
  BlinkEnds
  WorkerEnds
CHECK_DEADLOCK FALSE
