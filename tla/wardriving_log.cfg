SPECIFICATION FairSpec
CONSTANTS
  NumSectors = 3
  SlotsPerSector = 2
  MaxBatch = 2
  GenMod = 64
  CountMod = 100
  MaxAppends = 4
  Faults = {}
INVARIANTS
  NoSilentLoss
  RamAgrees
PROPERTIES
  IsStoreAndForward
  EveryCaptureLeaves
