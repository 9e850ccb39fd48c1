SPECIFICATION Spec
CONSTANTS
  Ids = {1}
  Capabilities <- AuditCapabilities
  Domains = {1}
  Headers = {}
  SequenceModulus = 256
  MaxGeneration = 1
  Commands <- AuditCommands
  LogCapacity = 2
  MaxNumber = 3
  MaxUnlogged = 1
  MaxAppends = 4
  MaxSessions = 1
  Timeout = 1
  CommandAuditUpdates <- AuditUpdates
  AlgorithmUpdates <- ToggleUpdates
  FipsUpdates = {0, 2}
  ForceAuditUpdates = {0, 1, 2}
INVARIANT
  LogIsChainTail
PROPERTIES
  AuditedChangesAreLogged
  AuthenticationsAreAccounted
  DurableChangesAreAnnounced
  FixedOptionsStay
