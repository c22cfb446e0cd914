SPECIFICATION Spec
CONSTANTS
  MaxConnections = 2
  MaxCommands = 3
  MaxPieces = 2
  MaxBatches = 2
  MaxRaces = 2
  QueueDepth = 1
  MaxSequence = 4
INVARIANTS
  HeardIsTrue
  NeverStuck
PROPERTIES
  ScanEnds
CHECK_DEADLOCK FALSE
