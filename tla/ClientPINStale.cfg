SPECIFICATION Spec
CONSTANTS
    Pins <- MCPins
    RightPin = 1
    Protocols = {1}
    PermSets = {0, 1}
    TokenRPs = {0, 1}
    UseRPs = {1}
    PinUvAuthToken = TRUE
    TokenLens <- MCLens
    BadKeys = FALSE
    MaxRetries = 4
    AtStart <- MCAtStart
    KeepsKey = TRUE
    MaxCalls = 4
    MaxTimeouts = 2
    MaxOutside = 0
INVARIANTS
    TokenOfThisExchange
CHECK_DEADLOCK FALSE
