SPECIFICATION Spec
CONSTANTS
    Strengths = {30, 90}
    Texts = {0, 35}
    RequestIds = {1, 24}
    WifiRawMax = 5
    BleRawMax = 3
    MaxEntries = 4
    MaxPayload = 348
    Headroom = 32
    MaxFound = 6
    MaxHeard = 4
    MaxLogged = 4
INVARIANTS
  AnswerIsWhole
  RecordsAreSized
PROPERTIES
  ResultsEnd
