SPECIFICATION Spec
CONSTANTS
    Strengths = {60}
    Texts = {19}
    RequestIds = {1}
    WifiRawMax = 64
    BleRawMax = 64
    MaxEntries = 32
    MaxPayload = 512
    Headroom = 32
    MaxFound = 7
    MaxHeard = 2
    MaxLogged = 0
INVARIANTS
    BatchFits
