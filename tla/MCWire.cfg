CONSTANTS
    Radix = 4
    EPOCH_USEC = 300
    EPOCH_JDATE = 30
    DAY = 10
    MSEC = 2
    YEAR = 12
    FEB29 = 3
    EPOCH_YEAR = 5
    FloatBits = 3
    DoubleBits = 11
    Today = 77
    Values <- MCValues
    MaxReads = 2
SPECIFICATION Spec
CHECK_DEADLOCK FALSE
INVARIANTS
    RoundTrip
    NumbersKept
    InstantKept
