SPECIFICATION Spec
CONSTANTS
  NumSectors = 3
  SlotsPerSector = 2
  MaxBatch = 2
  GenMod = 64
  CountMod = 100
  MaxAppends = 5
  Faults = {"append_error"}
INVARIANTS
  NoSilentLoss
  LoopsAgree
