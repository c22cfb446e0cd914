SPECIFICATION Spec
CONSTANTS
  MaxCommands = 2
  MaxSessions = 2
  MaxUnasked = 1
  MaxRaces = 1
  MaxInAir = 2
  QueueDepth = 2

INVARIANTS
  SendsInStep
  ScreensAreTrue
  AnswersFindTheirCommand
PROPERTIES
  ScansEnd
