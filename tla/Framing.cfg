SPECIFICATION Spec
CONSTANTS
    ReportSize = 8
    HighBit = 4
    BroadcastChannel = 9
    Channel = 1
    OtherChannel = 2
    Commands = {1, 3}
    Payloads <- MCPayloads
INVARIANTS
    TypeOK
    InStep
    Unchanged
