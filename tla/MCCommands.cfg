SPECIFICATION Spec
CONSTANTS
  Ids = {1, 2}
  Capabilities <- SomeCapabilities
  Domains = {1}
  Headers <- HostHeaders
  SequenceModulus = 256
  MaxGeneration = 1
  Commands <- HostCommands
  LogCapacity = 1
  MaxNumber = 3
  MaxUnlogged = 1
  MaxAppends = 0
  MaxSessions = 1
  Timeout = 1
  CommandAuditUpdates = {}
  AlgorithmUpdates <- SwitchMostOff
  FipsUpdates = {1}
  ForceAuditUpdates = {}
INVARIANT
  DisabledAlgorithmsHaveNoKeys
