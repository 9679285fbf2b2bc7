SPECIFICATION Spec
CONSTANTS
    Start = 0
    Goal = 4
    Node = {0, 1, 2, 3, 4, 5, 6, 7}
    NoNode = NoNode
    NeighborLists <- HeapLists
    Estimate <- HeapEstimate
    MaxVisited = 1000
INVARIANT HeapOrdered
CHECK_DEADLOCK FALSE
