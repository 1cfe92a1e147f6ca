SPECIFICATION PermSpec
CONSTANTS
    Values = {0, 1}
    MaxVariables = 3
    MaxTag = 8
    MaxPublic = 2
    ProgramWidth = 3
    MaxGates = 1
    MappedVariables = 2
    MappedPublic = 1
    MappedTag = 4
    CircuitSize = 2
    CellValues = {0, 1}
    Generalized = TRUE
INVARIANTS ChainIsClass OneValuePerClass ArgumentIsExact HonestWitnessPasses
PROPERTIES TagsKept RefinesPartition
CHECK_DEADLOCK FALSE
