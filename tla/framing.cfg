SPECIFICATION MCSpec
CONSTANTS
  MaxRecord = 4
  MaxFragments = 3
  IdMod = 3
  Timeout = 1
  TimeMod = 4
  Capacities = {1, 2, 3}
  WireCap = 1
  MaxRecords = 3
  Lossy = TRUE
  ReceiverResets = TRUE
CHECK_DEADLOCK FALSE
INVARIANTS
  NeverMixed
  IntactDelivered
  ReassemblyHolds
