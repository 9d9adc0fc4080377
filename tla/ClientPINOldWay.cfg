SPECIFICATION Spec
CONSTANTS
    Pins <- MCPins
    RightPin = 1
    Protocols = {1, 2, 7}
    PermSets = {0, 1}
    TokenRPs = {0, 1}
    UseRPs = {1}
    PinUvAuthToken = FALSE
    TokenLens <- MCLens
    BadKeys = TRUE
    MaxRetries = 4
    AtStart <- MCAtStart
    KeepsKey = FALSE
    MaxCalls = 4
    MaxTimeouts = 0
    MaxOutside = 0
INVARIANTS
    AskedItsWay
CHECK_DEADLOCK FALSE
