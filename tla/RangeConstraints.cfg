SPECIFICATION RangeSpec
CONSTANTS
    Values <- FieldElements
    MaxVariables = 16
    MaxTag = 8
    MaxPublic = 0
    UserValues = {2, 4, 10}
    MaxUsers = 2
    MaxCopies = 1
    Targets = {2, 5}
    LimbSize = 8
    MayMergeTagged = FALSE
INVARIANTS RangeChecksSatisfiable RequestEnforced
CHECK_DEADLOCK FALSE
