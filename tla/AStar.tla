------------------------------- MODULE AStar -------------------------------
(***************************************************************************)
(* ASPathCreate of AStar.c: the search for a path over a graph that the    *)
(* caller's nodeNeighbors lists node by node.  One action is one round of  *)
(* a loop of the code: the main loop, the loop over the neighbours, the    *)
(* two loops that restore the heap of open nodes, and the walk along the   *)
(* parents that builds the path.                                           *)
(*                                                                         *)
(* A record's key, hence its estimate and its neighbours, is fixed when    *)
(* the record is made (GetNode keeps the first key of a node); what they   *)
(* are is left to the constants.  The rectangle search lists every node    *)
(* among its own neighbours, at no cost.                                   *)
(***************************************************************************)
EXTENDS Integers, Sequences, FiniteSets

CONSTANTS
    Node, Start, Goal,
    NoNode,         \* NodeNull
    NeighborLists,  \* the lists that nodeNeighbors may make for each node
    Estimate,       \* pathCostHeuristic(node, goal)
    MaxVisited      \* the records at which earlyExit gives up (1000)

Edge == [to : Node, cost : Nat]

ASSUME SearchAssumption ==
    /\ Start \in Node /\ Goal \in Node /\ NoNode \notin Node
    /\ \A n \in Node : \A l \in NeighborLists[n] : l \in Seq(Edge)
    /\ Estimate \in [Node -> Nat]
    /\ MaxVisited \in Nat

VARIABLES
    searched,       \* the nodes whose neighbours were listed,
    graph,          \* and the lists
    visited,        \* the nodes that have a record (nodeRecords)
    open, closed,   \* isOpen, isClosed
    cost, parent,   \* of each record
    openIndex,      \* of each record: its place in openNodes
    openNodes,      \* the heap, over 0 .. openNodesCount - 1
    openNodesCount,
    current,        \* the node that is being expanded
    next,           \* the place in its list of neighbours
    index,          \* the place in the heap that is being moved
    path,           \* the path as far as it is copied, its end first
    pc              \* the loop that runs

records == <<visited, open, closed, cost, parent>>
heap == <<openIndex, openNodes, openNodesCount>>
search == <<searched, graph>>
vars == <<search, records, heap, current, next, index, path, pc>>

Init ==
    /\ searched = {} /\ graph = [n \in Node |-> <<>>]
    /\ visited = {Start, Goal}
    /\ open = {Start} /\ closed = {}
    /\ cost = [n \in Node |-> 0]
    /\ parent = [n \in Node |-> NoNode]
    /\ openIndex = [n \in Node |-> 0]
    /\ openNodes = [i \in 0 .. 0 |-> Start] /\ openNodesCount = 1
    /\ current = Start /\ next = 1 /\ index = 0
    /\ path = <<>>
    /\ pc = "select"

----------------------------------------------------------------------------
(* The open set. *)

Rank(n) == Estimate[n] + cost[n]

\* Mutant: the place after the removed node's is given up.
Vacate_Next(n) ==
    IF openIndex[n] + 1 < openNodesCount THEN openIndex[n] + 1 ELSE openIndex[n]

\* the place that the last open node takes when n is removed
Vacate(n) == openIndex[n]

\* RemoveNodeFromOpenSet up to the loop that moves the replacement down
RemoveFromOpenSet(n) ==
    LET i == Vacate(n)
        last == openNodesCount - 1
        m == openNodes[last]
    IN  /\ open' = open \ {n}
        /\ openNodesCount' = last
        /\ openNodes' = [k \in 0 .. (last - 1) |-> IF k = i THEN m ELSE openNodes[k]]
        /\ openIndex' = [openIndex EXCEPT ![m] = i, ![n] = last]
        /\ index' = i
        /\ pc' = "down"

\* Mutant: the records do not learn their new places.
Swap_KeepsIndexes(i, j) ==
    /\ openNodes' = [openNodes EXCEPT ![i] = openNodes[j], ![j] = openNodes[i]]
    /\ UNCHANGED <<openIndex, openNodesCount>>

Swap(i, j) ==
    /\ openNodes' = [openNodes EXCEPT ![i] = openNodes[j], ![j] = openNodes[i]]
    /\ openIndex' = [openIndex EXCEPT ![openNodes[i]] = j, ![openNodes[j]] = i]
    /\ UNCHANGED openNodesCount

\* of a place and a child, if there is one, the one of lower rank
Lower(child, i) ==
    IF child < openNodesCount /\ Rank(openNodes[child]) < Rank(openNodes[i])
    THEN child ELSE i

Smallest(i) == Lower(2 * i + 2, Lower(2 * i + 1, i))

MoveDown ==
    /\ pc = "down"
    /\ LET s == Smallest(index)
       IN  IF s = index
           THEN pc' = "relax" /\ UNCHANGED <<heap, index>>
           ELSE Swap(index, s) /\ index' = s /\ UNCHANGED pc
    /\ UNCHANGED <<search, records, current, next, path>>

Above(i) == (i - 1) \div 2

\* the loop of the insertion stops at the top or below a lower rank
Placed(i) ==
    i = 0 \/ Rank(openNodes[Above(i)]) < Rank(openNodes[i])

MoveUp ==
    /\ pc = "up"
    /\ IF Placed(index)
       THEN pc' = "relax" /\ UNCHANGED <<heap, index>>
       ELSE Swap(Above(index), index) /\ index' = Above(index) /\ UNCHANGED pc
    /\ UNCHANGED <<search, records, current, next, path>>

----------------------------------------------------------------------------
(* The main loop. *)

Top == openNodes[0]
TooMany == Cardinality(visited) >= MaxVisited

\* No open node is left, or earlyExit gives up: there is no path.
GiveUp ==
    /\ pc = "select"
    /\ openNodesCount > 0 => Top # Goal /\ TooMany
    /\ current' = IF openNodesCount > 0 THEN Top ELSE current
    /\ pc' = "done"
    /\ UNCHANGED <<search, records, heap, next, index, path>>

Found ==
    /\ pc = "select"
    /\ openNodesCount > 0 /\ Top = Goal
    /\ current' = Goal
    /\ path' = <<Goal>>
    /\ pc' = "trace"
    /\ UNCHANGED <<search, records, heap, next, index>>

\* The same node always has the same neighbours.
List(n, l) ==
    /\ n \in searched => l = graph[n]
    /\ searched' = searched \cup {n}
    /\ graph' = [graph EXCEPT ![n] = l]

Expand ==
    /\ pc = "select"
    /\ openNodesCount > 0 /\ Top # Goal /\ ~TooMany
    /\ RemoveFromOpenSet(Top)
    /\ closed' = closed \cup {Top}
    /\ current' = Top
    /\ \E l \in NeighborLists[Top] : List(Top, l)
    /\ next' = 1
    /\ UNCHANGED <<visited, cost, parent, path>>

----------------------------------------------------------------------------
(* The loop over the neighbours. *)

\* Mutant: the loop begins with the second neighbour.
Neighbors_AllButFirst ==
    IF graph[current] = <<>> THEN <<>> ELSE Tail(graph[current])

Neighbors == graph[current]
Neighbor == Neighbors[next].to

\* Mutant: the edge costs nothing.
NewCost_Free == cost[current]

NewCost == cost[current] + Neighbors[next].cost
Listed == pc = "relax" /\ next <= Len(Neighbors)

\* Mutant: a node keeps the cost of the first way to it.
Cheaper_Never == FALSE

\* Mutant: a way of equal cost replaces the old one.
Cheaper_Equal == NewCost <= cost[Neighbor]

\* whether the new way to a node that has been reached replaces the old one
Cheaper == NewCost < cost[Neighbor]

\* An open neighbour is taken out first and comes back as a new one.
Withdraw ==
    /\ Listed
    /\ Neighbor \in open /\ Cheaper
    /\ RemoveFromOpenSet(Neighbor)
    /\ UNCHANGED <<search, visited, closed, cost, parent, current, next, path>>

\* A new neighbour, or a closed one that is opened again.
Insert ==
    /\ Listed
    /\ Neighbor \notin open
    /\ Neighbor \in closed => Cheaper
    /\ visited' = visited \cup {Neighbor}
    /\ closed' = closed \ {Neighbor}
    /\ open' = open \cup {Neighbor}
    /\ cost' = [cost EXCEPT ![Neighbor] = NewCost]
    /\ parent' = [parent EXCEPT ![Neighbor] = current]
    /\ openIndex' = [openIndex EXCEPT ![Neighbor] = openNodesCount]
    /\ openNodes' = [k \in 0 .. openNodesCount |->
                        IF k = openNodesCount THEN Neighbor ELSE openNodes[k]]
    /\ openNodesCount' = openNodesCount + 1
    /\ next' = next + 1
    /\ index' = openNodesCount
    /\ pc' = "up"
    /\ UNCHANGED <<search, current, path>>

Skip ==
    /\ Listed
    /\ Neighbor \in open \cup closed /\ ~Cheaper
    /\ next' = next + 1
    /\ UNCHANGED <<search, records, heap, current, index, path, pc>>

NextRound ==
    /\ pc = "relax" /\ next > Len(Neighbors)
    /\ pc' = "select"
    /\ UNCHANGED <<search, records, heap, current, next, index, path>>

----------------------------------------------------------------------------
\* From the goal back along the parents.
Trace ==
    /\ pc = "trace"
    /\ IF parent[Head(path)] = NoNode
       THEN pc' = "done" /\ UNCHANGED path
       ELSE path' = <<parent[Head(path)]>> \o path /\ UNCHANGED pc
    /\ UNCHANGED <<search, records, heap, current, next, index>>

Next ==
    \/ GiveUp \/ Found \/ Expand
    \/ Withdraw \/ Insert \/ Skip \/ NextRound
    \/ MoveDown \/ MoveUp
    \/ Trace

Spec == Init /\ [][Next]_vars

\* The search is a loop of one thread: while it can take a step, it does.
FairSpec == Spec /\ WF_vars(Next)

----------------------------------------------------------------------------
(* Properties. *)

\* Every variable has its type; there is a record of every node that is in a
\* set, has a parent or was searched.
TypeOK ==
    /\ searched \subseteq visited
    /\ graph \in [Node -> Seq(Edge)]
    /\ \A n \in Node \ searched : graph[n] = <<>>
    /\ visited \subseteq Node /\ {Start, Goal} \subseteq visited
    /\ open \subseteq visited /\ closed \subseteq visited
    /\ cost \in [Node -> Nat]
    /\ parent \in [Node -> visited \cup {NoNode}]
    /\ openIndex \in [Node -> Nat]
    /\ openNodesCount \in Nat
    /\ openNodes \in [0 .. (openNodesCount - 1) -> open]
    /\ current \in visited /\ next \in Nat \ {0} /\ index \in Nat
    /\ path \in Seq(visited)
    /\ pc \in {"select", "relax", "down", "up", "trace", "done"}

\* The heap holds exactly the open nodes, each where its record says, and no
\* node is open and closed: AStar.c keeps openIndex and the array in step
\* through every swap, and a node that is closed is never looked up by it.
HeapIndexed ==
    /\ \A i \in 0 .. (openNodesCount - 1) :
            openNodes[i] \in open /\ openIndex[openNodes[i]] = i
    /\ \A n \in open :
            openIndex[n] < openNodesCount /\ openNodes[openIndex[n]] = n
    /\ open \cap closed = {}

IsEdge(n, m, c) == \E k \in 1 .. Len(graph[n]) : graph[n][k] = [to |-> m, cost |-> c]

\* m was reached by way of n, at a cost that n's own cost still allows.
Leads(n, m) == \E c \in 0 .. cost[m] : IsEdge(n, m, c) /\ cost[n] + c <= cost[m]

\* Every node but the first has a parent through which it was reached, and
\* that did not get more expensive since; a node that is reopened lowers its
\* cost under children that keep theirs.
ParentsLead ==
    /\ \A n \in (open \cup closed) \ {Start} : parent[n] # NoNode
    /\ \A n \in Node : parent[n] # NoNode => Leads(parent[n], n)

\* The k-th neighbour of a closed node has been dealt with.
Done(n, k) == n # current \/ k < next

\* The neighbour that was withdrawn because of a cheaper way and is not yet back.
Withdrawn(m) ==
    /\ pc \in {"down", "relax"}
    /\ next <= Len(Neighbors) /\ m = Neighbor /\ Cheaper

\* No way through a closed node is overlooked: whatever it lists has been
\* reached, at no more than the cost of that way, even if the node or its
\* neighbours were opened again in between.
Relaxed ==
    \A n \in closed : \A k \in 1 .. Len(graph[n]) :
        Done(n, k) =>
            LET e == graph[n][k]
            IN  /\ e.to \in open \cup closed \/ Withdrawn(e.to)
                /\ cost[e.to] <= cost[n] + e.cost

\* A path that is returned goes from the start to the goal along listed edges,
\* and the reported cost is not lower than what they cost.
PathSound ==
    pc = "done" /\ path # <<>> =>
        /\ path[1] = Start /\ path[Len(path)] = Goal
        /\ \A i \in 1 .. (Len(path) - 1) : Leads(path[i], path[i + 1])

\* Without a path, below the limit of visits, there is none: the nodes that
\* were searched hold the start, not the goal, and every node they list.
NoPathIsMissed ==
    pc = "done" /\ path = <<>> /\ ~TooMany =>
        /\ Start \in searched /\ Goal \notin searched
        /\ \A n \in searched : \A k \in 1 .. Len(graph[n]) : graph[n][k].to \in searched

\* The search ends, also if the estimate makes it open closed nodes again and
\* if edges cost nothing.
SearchEnds == <>(pc = "done")

\* What AStar.c:72 says of openNodes: a binary heap, sorted by rank.
HeapOrdered ==
    pc = "select" =>
        \A i \in 1 .. (openNodesCount - 1) :
            Rank(openNodes[Above(i)]) <= Rank(openNodes[i])
=============================================================================
