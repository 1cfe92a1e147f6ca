SPECIFICATION MemSpec
CONSTANTS
    Modulus = 11
    IndexModulus = 4
    ArraySize = 2
    IndexInputs = {0, 1, 5}
    ValueInputs = {1}
    MaxIndices = 1
    MaxValues = 1
    MaxRecords <- MC_MaxRecords
    NumPublic = 1
INVARIANTS HonestAccepted RomReadsTheCell RamReadsLastWrite
PROPERTIES RomCircuitIsFixed
CHECK_DEADLOCK FALSE
