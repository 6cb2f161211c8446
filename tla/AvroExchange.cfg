CONSTANTS
    None = None
    Group = 4
    INT_MAX_VALUE = 7
    LONG_MAX_VALUE = 31
    Exact <- MCExact
    Largest <- MCLargest
    WritersTexts <- MCAllWritersTexts
    ReadersTexts <- MCReadersTexts
    Data <- MCData
    ProtocolTexts <- MCProtocolTexts
SPECIFICATION Spec
INVARIANTS PrintsBack ValidatedIsWritten ReadResolves 
CHECK_DEADLOCK FALSE
