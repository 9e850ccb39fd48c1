SPECIFICATION Spec
CONSTANTS
  SessionIds = {s, t}
  Handles = {a, b, c}
  MaxObjects = 2
  Grants <- MCGrants
  PersistentKeys <- MCKeys
  FlagSets <- MCFlagSets
  Headers <- MCHeaders
  Lengths = {17}
  MaxMade = 3
  MaxOpened = 2
  Width = 3
  MaxBase = 3
SYMMETRY Symmetric
INVARIANTS
  SealedValuesStay
  ObjectsStayInSession
  ObjectsAreWhole
  RootsWereAuthorized
CHECK_DEADLOCK FALSE
