SPECIFICATION FairSpec
CONSTANTS
    ReportSize = 10
    HighBit = 64
    BroadcastChannel = 9
    PingLens <- MCPings
    KeyCaps <- MCCaps
    ReplyKinds = {"good"}
    Unreliable = FALSE
    MaxCalls = 4
    MaxInbox = 3
    MaxKeepalives = 2
    MaxForeign = 2
INVARIANTS
    PingEchoes
PROPERTIES
    CallsReturn
CHECK_DEADLOCK FALSE
