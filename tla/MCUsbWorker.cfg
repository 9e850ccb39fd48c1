SPECIFICATION FairSpec
CONSTANT
  MaxEvents = 4
INVARIANTS
  QuiescedIsQuiet
  RecordsAreExpected
PROPERTIES
  QuiesceIsAnswered
  PresenceConverges
CHECK_DEADLOCK FALSE
