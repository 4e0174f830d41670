SPECIFICATION FairSpec
CONSTANTS
    Graphs <- MCGraphs
    MaxEdges = 5
    BITSET_NODE_LIMIT = 8192
INVARIANTS
    NodesAreEquivalenceClasses
    DirectEdgesAreCovers
    RejectsOnlyCycles
PROPERTIES
    Terminates
