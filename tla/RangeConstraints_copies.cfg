SPECIFICATION RangeSpec
CONSTANTS
    Values <- FieldElements
    MaxVariables = 16
    MaxTag = 8
    MaxPublic = 0
    UserValues = {2}
    MaxUsers = 2
    MaxCopies = 1
    Targets = {2, 5}
    LimbSize = 8
    MayMergeTagged = TRUE
INVARIANTS RangeChecksSatisfiable
CHECK_DEADLOCK FALSE
