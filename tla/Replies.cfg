SPECIFICATION Spec
CONSTANTS
    Accounts <- MCAccounts
    AlgLists <- MCAlgLists
    Supported <- MCSupported
    OptionSets <- MCOptionSets
    Tokens <- MCTokens
    tok <- MCtok
    Points <- MCPoints
    P256Size = 2
    Curve <- MCCurve
    Shapes <- MCShapes
    BadShapes <- MCBadShapes
    MaxCalls = 3
    MaxBad = 1
INVARIANTS
    KeptIsMade
    OwnKind
    VerifiedMeansPIN
    AssertionVerifies
    OneCredentialEach
    NothingEmptySent
CHECK_DEADLOCK FALSE
