SPECIFICATION Spec
CONSTANTS
    Pins <- MCPins
    RightPin = 1
    Protocols = {1, 2, 7}
    PermSets = {0, 1}
    TokenRPs = {0, 1}
    UseRPs = {1, 2}
    PinUvAuthToken = TRUE
    TokenLens <- MCLens
    BadKeys = TRUE
    MaxRetries = 4
    AtStart <- MCAtStart
    KeepsKey = FALSE
    MaxCalls = 3
    MaxTimeouts = 1
    MaxOutside = 1
INVARIANTS
    TypeOK
    TokenOfThisExchange
    TokenAuthorises
    RetriesAreCurrent
PROPERTIES
    RightPINIsFree
    AdviceHelps
    OneAttemptEach
CHECK_DEADLOCK FALSE
