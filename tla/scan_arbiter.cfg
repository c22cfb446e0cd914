SPECIFICATION Spec
CONSTANTS
  MaxRequests = 2
  MaxEvents = 2
  Races = {}
INVARIANTS
  KeepsLookingForPeer
  DutyCycleAlive
  WardrivingIsWhole
  BusyIsReleased
  AnswersOwnScan
  AnswersLiveRequest
