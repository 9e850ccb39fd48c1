SPECIFICATION Spec
CONSTANTS
  Ids = {1, 2}
  Capabilities <- AuthorityCapabilities
  Domains = {1, 2}
  Headers <- AuthorityHeaders
  SequenceModulus = 3
  MaxGeneration = 3
  Commands <- AuthorityCommands
  LogCapacity = 1
  MaxNumber = 3
  MaxUnlogged = 1
  MaxAppends = 3
  MaxSessions = 2
  Timeout = 1
  CommandAuditUpdates = {}
  AlgorithmUpdates = {}
  FipsUpdates = {}
  ForceAuditUpdates = {}
INVARIANTS
  TypeOK
  SequencesIdentifyWrites
PROPERTIES
  AuthorityNeverGrows
  ObjectsStayBelowCeiling
  GenerationsAdvance
  OnlyLiveSessionsChangeState
