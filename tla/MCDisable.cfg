SPECIFICATION Spec
CONSTANT
  MaxEvents = 2
INVARIANT
  DisableEndsSessions
CHECK_DEADLOCK FALSE
