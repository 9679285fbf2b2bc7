SPECIFICATION FairSpec
CONSTANTS
    Start = 0
    Goal = 5
    Node = {0, 1, 2, 3, 4, 5}
    NoNode = NoNode
    NeighborLists <- MCLists
    Estimate <- MCEstimate
    MaxVisited = 6
INVARIANTS HeapIndexed Relaxed PathSound NoPathIsMissed
PROPERTIES SearchEnds
CHECK_DEADLOCK FALSE
