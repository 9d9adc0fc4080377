SPECIFICATION Spec
CONSTANTS
    ReportSize = 8
    HighBit = 2
    BroadcastChannel = 9
    Channel = 1
    Reports <- MCReports
INVARIANTS
    TypeOK
    CountedBytes
    WithinFraming
    NeverHoldsBack
PROPERTIES
    RefusalChangesNothing
