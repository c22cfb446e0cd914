SPECIFICATION Spec
CONSTANTS
  NumAddresses = 3
  Slots = 2
  Strengths = {0, 5, 6}
  Places = {0, 1}
  Gain = 6
  Distance = 1
  ExportDistance = 1
  FailureLimit = 2
  MaxSightings = 3
  MaxPass = 2
  Faults = {"append_error", "write_error"}
  ExportSlots = 1
  SyncEvery = 2
  MaxBatch = 2
  MaxExported = 2
  MaxEvents = 2
INVARIANTS
  FilteredIsLogged
  FiltersAreSound
  FileIsSound
  NothingMissing
CHECK_DEADLOCK FALSE
