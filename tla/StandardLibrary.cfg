SPECIFICATION LibrarySpec
CONSTANTS
    Modulus = 37
    Size = 2
    Elements = {0, 1}
    RawEntries <- MC_RawEntries
    InputValues = {0, 1, 6, 36}
    ExponentBits = 3
    HalfBits = 3
    MAX_NO_WRAP_INTEGER_BIT_LENGTH = 4
    Scalings <- MC_Scalings
    ConstantValues = {0, 1, 3}
    MaxCalls = 1
INVARIANTS RefusalsAreReported GadgetsAreSound GadgetsAreComplete
PROPERTIES ArrayIsList TableKeepsItsCells ServesLegalCalls
CHECK_DEADLOCK FALSE
