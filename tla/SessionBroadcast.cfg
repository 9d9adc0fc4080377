SPECIFICATION Spec
CONSTANTS
    ReportSize = 10
    HighBit = 64
    BroadcastChannel = 9
    PingLens <- MCPings
    KeyCaps <- MCCaps
    ReplyKinds = {"good", "broadcast"}
    Unreliable = FALSE
    MaxCalls = 3
    MaxInbox = 3
    MaxKeepalives = 0
    MaxForeign = 0
INVARIANTS
    OnlyInitOnBroadcast
CHECK_DEADLOCK FALSE
