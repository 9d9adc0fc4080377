SPECIFICATION Spec
CONSTANTS
    ReportSize = 10
    HighBit = 64
    BroadcastChannel = 9
    PingLens <- MCPings
    KeyCaps <- MCCaps
    ReplyKinds <- MCFaults
    Unreliable = TRUE
    MaxCalls = 3
    MaxInbox = 3
    MaxKeepalives = 1
    MaxForeign = 1
INVARIANTS
    TypeOK
    OneAnswer
    Released
    OwnChannel
PROPERTIES
    SilentAfterClose
    AnswersInOrder
CHECK_DEADLOCK FALSE
