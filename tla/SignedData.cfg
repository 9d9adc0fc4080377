SPECIFICATION Spec
CONSTANTS
    Written <- MCWritten
    Bytes <- MCBytes
    Ints <- MCInts
    P256Size = 2
    Curve <- MCCurve
    MaxDamage = 2
INVARIANTS
    ReadsBack
    EveryByteAccounted
    KeysReadBack
    KeyAsStated
CHECK_DEADLOCK FALSE
