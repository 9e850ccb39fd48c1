SPECIFICATION Spec
CONSTANTS
  HostAlgorithms <- Algorithms
  Sizes <- EverySize
  Serials = {1, 2}
  LogCapacity = 2
  MaxObjects = 1
INVARIANTS
  OwnFileLoads
  ExportsImportBack
  LengthsAsDocumented
PROPERTY
  ComesBackWhole
