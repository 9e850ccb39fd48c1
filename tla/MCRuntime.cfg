SPECIFICATION FairSpec
CONSTANTS
  p1 = p1
  p2 = p2
  c1 = c1
  c2 = c2
  None = None
  Processes <- TwoProcesses
  Clients <- TwoClients
  MaxEpoch = 2
  MaxMutations = 2
INVARIANTS
  EpochsOrderImages
  StoppedMeansSaved
PROPERTIES
  KeepsPromise
  DiskMovesForward
  RequestsEnd
  ReportedBecomesDurable
