SPECIFICATION Spec
CONSTANTS
  Hosts = {h1, h2}
  Asymmetric = {h2}
  MaxSessions = 2
  MaxHandshakes = 3
  MaxCommands = 2
INVARIANT
  SessionsInStep
PROPERTY
  KeepsOrder
CHECK_DEADLOCK FALSE
