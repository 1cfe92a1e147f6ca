SPECIFICATION MerkleSpec
CONSTANTS
    NoValue = NoValue
    Depth = 3
    ZeroLeaf <- NewLeaf
    Updates <- DistinctUpdates
    MaxUpdates = 4
    MaxCommits = 1
INVARIANTS RootMatches PathsMatch NodesAuthentic
