CONSTANTS
    DEC_DIGITS = 2
    Bits = 16
    Literals <- MCLiterals
    MaxOps = 2
    MaxMantissa = 40000
    FracDigits = {0, 2}
SPECIFICATION MSpec
CHECK_DEADLOCK FALSE
INVARIANTS
    NormalForm
    ComparesValues
    MoneyOrder
PROPERTIES
    ExactArithmetic
    TextRoundTrip
    IntegerExact
    MoneyKept
