SPECIFICATION TreeSpec
CONSTANTS
    Nullifiers = {0, 1, 2, 3, 5, 6}
    MaxLeaves = 6
    Depth = 3
    NoValue = NoValue
INVARIANTS LinksSound NoFalseNonMembership NonMembersCovered TreesMatchList
