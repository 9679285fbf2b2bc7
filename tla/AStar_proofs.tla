---------------------------- MODULE AStar_proofs ----------------------------
(***************************************************************************)
(* Safety of the search for every set of nodes, every graph, every         *)
(* estimate and every limit of visits.  The invariant joins the heap's two *)
(* directions, the parents, the neighbours that are dealt with, and what   *)
(* the loops rely on (SearchOK, PathOK).                                   *)
(***************************************************************************)
EXTENDS AStar, TLAPS

Reached == open \cup closed

\* What the loops rely on: the start is never left, the goal is never searched,
\* a searched node is only out of both sets while it is withdrawn, the node that
\* is expanded is closed and its list is used up between two rounds.
SearchOK ==
    /\ Start \in Reached /\ cost[Start] = 0 /\ parent[Start] = NoNode
    /\ Goal \notin searched
    /\ closed \subseteq searched
    /\ \A n \in searched : n \in Reached \/ Withdrawn(n)
    /\ pc \in {"relax", "down", "up"} => current \in closed
    /\ pc \in {"select", "trace", "done"} /\ current \in closed => next > Len(graph[current])
    /\ pc = "up" => index < openNodesCount

PathOK ==
    /\ pc \notin {"trace", "done"} => path = <<>>
    /\ pc = "trace" => path # <<>>
    /\ path # <<>> =>
          /\ path[Len(path)] = Goal
          /\ \A i \in 1 .. Len(path) : path[i] \in Reached
          /\ \A i \in 1 .. (Len(path) - 1) : Leads(path[i], path[i + 1])
    /\ pc = "done" /\ path # <<>> => path[1] = Start
    /\ pc = "done" /\ path = <<>> /\ ~TooMany => open = {}

AStarInv ==
    /\ TypeOK /\ HeapIndexed /\ ParentsLead /\ Relaxed
    /\ SearchOK /\ PathOK

HeapTyped ==
    /\ openIndex \in [Node -> Nat]
    /\ openNodesCount \in Nat
    /\ openNodes \in [0 .. (openNodesCount - 1) -> open]

----------------------------------------------------------------------------
(* The operations of the heap. *)

\* Exchanging two places keeps the heap and the records in step.
LEMMA SwapKeeps ==
    ASSUME TypeOK, HeapIndexed,
           NEW i \in 0 .. (openNodesCount - 1), NEW j \in 0 .. (openNodesCount - 1), i # j,
           Swap(i, j), UNCHANGED <<open, closed>>
    PROVE  HeapTyped' /\ HeapIndexed'
<1>0. /\ openNodesCount \in Nat /\ open \subseteq Node
      /\ openIndex \in [Node -> Nat] /\ openNodes \in [0 .. (openNodesCount - 1) -> open]
      /\ \A q \in open : openIndex[q] \in 0 .. (openNodesCount - 1) /\ openNodes[openIndex[q]] = q
      /\ \A k \in 0 .. (openNodesCount - 1) : openNodes[k] \in open /\ openIndex[openNodes[k]] = k
  <2>1. /\ openNodesCount \in Nat /\ open \subseteq Node
        /\ openIndex \in [Node -> Nat] /\ openNodes \in [0 .. (openNodesCount - 1) -> open]
    BY DEF TypeOK
  <2> QED
    BY <2>1 DEF HeapIndexed
<1> DEFINE x == openNodes[i]
           y == openNodes[j]
<1>1. /\ x \in open /\ y \in open /\ x \in Node /\ y \in Node
      /\ openIndex[x] = i /\ openIndex[y] = j /\ x # y
  BY <1>0
<1>2. openIndex' = [openIndex EXCEPT ![x] = j, ![y] = i]
  BY DEF Swap
<1>3. /\ openIndex' \in [Node -> Nat] /\ openIndex'[x] = j /\ openIndex'[y] = i
      /\ \A n \in Node \ {x, y} : openIndex'[n] = openIndex[n]
  BY <1>1, <1>2 DEF TypeOK
<1>4. openNodes' = [openNodes EXCEPT ![i] = y, ![j] = x] /\ openNodesCount' = openNodesCount
  BY DEF Swap
<1>5. /\ openNodes' \in [0 .. (openNodesCount - 1) -> open]
      /\ openNodes'[i] = y /\ openNodes'[j] = x
      /\ \A k \in 0 .. (openNodesCount - 1) : k # i /\ k # j => openNodes'[k] = openNodes[k]
  BY <1>1, <1>4 DEF TypeOK
<1>6. HeapTyped'
  BY <1>3, <1>4, <1>5 DEF HeapTyped, TypeOK
<1>7. ASSUME NEW k \in 0 .. (openNodesCount - 1)
      PROVE  openNodes'[k] \in open /\ openIndex'[openNodes'[k]] = k
  <2>1. CASE k = i
    BY <2>1, <1>1, <1>3, <1>5
  <2>2. CASE k = j
    BY <2>2, <1>1, <1>3, <1>5
  <2>3. CASE k # i /\ k # j
    <3>1. openNodes'[k] = openNodes[k] /\ openNodes[k] \in open /\ openIndex[openNodes[k]] = k
      BY <2>3, <1>5 DEF HeapIndexed
    <3>2. openNodes[k] \in Node \ {x, y}
      BY <2>3, <3>1, <1>1 DEF TypeOK
    <3> QED
      BY <3>1, <3>2, <1>3
  <2> QED
    BY <2>1, <2>2, <2>3
<1>8. ASSUME NEW n \in open
      PROVE  openIndex'[n] < openNodesCount /\ openNodes'[openIndex'[n]] = n
  <2>1. CASE n = x
    BY <2>1, <1>0, <1>3, <1>5
  <2>2. CASE n = y
    BY <2>2, <1>0, <1>3, <1>5
  <2>3. CASE n # x /\ n # y
    <3>1. n \in Node /\ openIndex'[n] = openIndex[n]
      BY <2>3, <1>3 DEF TypeOK
    <3>2. openIndex[n] \in 0 .. (openNodesCount - 1) /\ openNodes[openIndex[n]] = n
      BY <3>1, <1>0
    <3>3. openIndex[n] # i /\ openIndex[n] # j
      BY <3>2, <2>3
    <3> QED
      BY <3>1, <3>2, <3>3, <1>0, <1>5
  <2> QED
    BY <2>1, <2>2, <2>3
<1> QED
  BY <1>4, <1>6, <1>7, <1>8 DEF HeapIndexed

\* Taking a node out of the heap, be it in the middle, does so too.
LEMMA RemoveKeeps ==
    ASSUME TypeOK, HeapIndexed, NEW n \in open, RemoveFromOpenSet(n),
           closed' \subseteq closed \cup {n}
    PROVE  HeapTyped' /\ HeapIndexed'
<1>0. /\ openNodesCount \in Nat /\ open \subseteq Node
      /\ openIndex \in [Node -> Nat] /\ openNodes \in [0 .. (openNodesCount - 1) -> open]
      /\ \A q \in open : openIndex[q] \in 0 .. (openNodesCount - 1) /\ openNodes[openIndex[q]] = q
      /\ \A k \in 0 .. (openNodesCount - 1) : openNodes[k] \in open /\ openIndex[openNodes[k]] = k
  <2>1. /\ openNodesCount \in Nat /\ open \subseteq Node
        /\ openIndex \in [Node -> Nat] /\ openNodes \in [0 .. (openNodesCount - 1) -> open]
    BY DEF TypeOK
  <2> QED
    BY <2>1 DEF HeapIndexed
<1> DEFINE i == openIndex[n]
           last == openNodesCount - 1
           m == openNodes[last]
<1>1. n \in Node /\ i \in 0 .. last /\ openNodes[i] = n /\ last \in Nat
  BY <1>0
<1>2. m \in open /\ m \in Node /\ openIndex[m] = last
  BY <1>0, <1>1
<1>3. /\ open' = open \ {n} /\ openNodesCount' = last
      /\ openNodes' = [k \in 0 .. (last - 1) |-> IF k = i THEN m ELSE openNodes[k]]
      /\ openIndex' = [openIndex EXCEPT ![m] = i, ![n] = last]
  BY DEF RemoveFromOpenSet, Vacate
<1>4. openIndex' \in [Node -> Nat] /\ \A q \in Node \ {m, n} : openIndex'[q] = openIndex[q]
  BY <1>1, <1>2, <1>3 DEF TypeOK
<1>5. m # n => openIndex'[m] = i
  BY <1>1, <1>2, <1>3 DEF TypeOK
<1>6. ASSUME NEW k \in 0 .. (last - 1)
      PROVE  openNodes'[k] \in open' /\ openIndex'[openNodes'[k]] = k
  <2>1. openNodes'[k] = IF k = i THEN m ELSE openNodes[k]
    BY <1>3
  <2>2. CASE k = i
    <3>1. m # n
      BY <2>2, <1>1, <1>2
    <3> QED
      BY <2>1, <2>2, <3>1, <1>2, <1>3, <1>5
  <2>3. CASE k # i
    <3>1. openNodes[k] \in open /\ openIndex[openNodes[k]] = k
      BY <1>0, <1>1
    <3>2. openNodes[k] \in Node \ {m, n}
      BY <3>1, <2>3, <1>0, <1>1, <1>2
    <3> QED
      BY <2>1, <2>3, <3>1, <3>2, <1>3, <1>4
  <2> QED
    BY <2>2, <2>3
<1>7. ASSUME NEW q \in open'
      PROVE  openIndex'[q] < last /\ openNodes'[openIndex'[q]] = q
  <2>1. q \in open /\ q # n /\ q \in Node
    BY <1>3 DEF TypeOK
  <2>2. openIndex[q] \in 0 .. last /\ openNodes[openIndex[q]] = q
    BY <2>1, <1>0, <1>1
  <2>3. openIndex[q] # i
    BY <2>1, <2>2, <1>1
  <2>4. CASE q = m
    <3>1. openIndex'[q] = i /\ i # last
      BY <2>1, <2>3, <2>4, <1>2, <1>5
    <3> QED
      BY <3>1, <2>4, <1>1, <1>3
  <2>5. CASE q # m
    <3>1. openIndex'[q] = openIndex[q] /\ openIndex[q] # last
      BY <2>1, <2>2, <2>5, <1>4
    <3> QED
      BY <3>1, <2>2, <2>3, <1>1, <1>3
  <2> QED
    BY <2>4, <2>5
<1>8. openNodes' \in [0 .. (openNodesCount' - 1) -> open']
  BY <1>3, <1>6
<1>9. open' \cap closed' = {}
  BY <1>3 DEF HeapIndexed
<1>10. HeapTyped'
  BY <1>1, <1>3, <1>4, <1>8 DEF HeapTyped
<1>11. HeapIndexed'
  <2>1. \A k \in 0 .. (openNodesCount' - 1) :
            openNodes'[k] \in open' /\ openIndex'[openNodes'[k]] = k
    BY <1>3, <1>6
  <2>2. \A q \in open' : openIndex'[q] < openNodesCount' /\ openNodes'[openIndex'[q]] = q
    BY <1>3, <1>7
  <2> QED
    BY <2>1, <2>2, <1>9 DEF HeapIndexed
<1> QED
  BY <1>10, <1>11

\* So does adding a node at the end.
LEMMA InsertKeeps ==
    ASSUME TypeOK, HeapIndexed, NEW n \in Node \ open,
           open' = open \cup {n}, closed' = closed \ {n},
           openIndex' = [openIndex EXCEPT ![n] = openNodesCount],
           openNodes' = [k \in 0 .. openNodesCount |->
                            IF k = openNodesCount THEN n ELSE openNodes[k]],
           openNodesCount' = openNodesCount + 1
    PROVE  HeapTyped' /\ HeapIndexed'
<1>0. /\ openNodesCount \in Nat /\ open \subseteq Node
      /\ openIndex \in [Node -> Nat] /\ openNodes \in [0 .. (openNodesCount - 1) -> open]
      /\ \A q \in open : openIndex[q] \in 0 .. (openNodesCount - 1) /\ openNodes[openIndex[q]] = q
      /\ \A k \in 0 .. (openNodesCount - 1) : openNodes[k] \in open /\ openIndex[openNodes[k]] = k
  <2>1. /\ openNodesCount \in Nat /\ open \subseteq Node
        /\ openIndex \in [Node -> Nat] /\ openNodes \in [0 .. (openNodesCount - 1) -> open]
    BY DEF TypeOK
  <2> QED
    BY <2>1 DEF HeapIndexed
<1>1. /\ openIndex' \in [Node -> Nat] /\ openIndex'[n] = openNodesCount
      /\ \A q \in Node \ {n} : openIndex'[q] = openIndex[q]
  BY DEF TypeOK
<1>2. openNodesCount' - 1 = openNodesCount /\ openNodesCount \in Nat
  BY DEF TypeOK
<1>3. ASSUME NEW k \in 0 .. openNodesCount
      PROVE  openNodes'[k] \in open' /\ openIndex'[openNodes'[k]] = k
  <2>1. CASE k = openNodesCount
    BY <2>1, <1>1
  <2>2. CASE k # openNodesCount
    <3>1. openNodes[k] \in open /\ openIndex[openNodes[k]] = k /\ openNodes'[k] = openNodes[k]
      BY <2>2, <1>2 DEF HeapIndexed
    <3>2. openNodes[k] \in Node \ {n}
      BY <3>1 DEF TypeOK
    <3> QED
      BY <3>1, <3>2, <1>1
  <2> QED
    BY <2>1, <2>2
<1>4. ASSUME NEW q \in open'
      PROVE  openIndex'[q] < openNodesCount' /\ openNodes'[openIndex'[q]] = q
  <2>1. CASE q = n
    BY <2>1, <1>1, <1>2
  <2>2. CASE q # n
    <3>1. q \in open /\ q \in Node \ {n} /\ openIndex'[q] = openIndex[q]
      BY <2>2, <1>1 DEF TypeOK
    <3>2. openIndex[q] \in 0 .. (openNodesCount - 1) /\ openNodes[openIndex[q]] = q
      BY <3>1, <1>0
    <3> QED
      BY <3>1, <3>2, <1>2
  <2> QED
    BY <2>1, <2>2
<1>5. openNodes' \in [0 .. (openNodesCount' - 1) -> open']
  BY <1>2, <1>3
<1>6. open' \cap closed' = {}
  BY DEF HeapIndexed
<1> QED
  BY <1>1, <1>2, <1>3, <1>4, <1>5, <1>6 DEF HeapTyped, HeapIndexed

----------------------------------------------------------------------------
(* The steps. *)

\* A loop of the heap leaves everything else alone.
LEMMA HeapStep ==
    ASSUME AStarInv, pc \in {"up", "down"},
           pc' \in {pc, "relax"},
           UNCHANGED <<search, records, current, next, path>>,
           HeapTyped', HeapIndexed', index' \in Nat,
           pc' = "up" => index' < openNodesCount'
    PROVE  AStarInv'
<1>1. TypeOK'
  BY DEF AStarInv, TypeOK, HeapTyped, search, records
<1>2. ParentsLead'
  BY DEF AStarInv, ParentsLead, Leads, IsEdge, search, records
<1>3. ASSUME NEW m \in Node, Withdrawn(m) PROVE Withdrawn(m)'
  BY <1>3 DEF Withdrawn, Neighbors, Neighbor, Cheaper, NewCost, search, records
<1>4. Relaxed'
  <2> SUFFICES ASSUME NEW n \in closed, NEW k \in 1 .. Len(graph[n]), Done(n, k)
               PROVE  LET e == graph[n][k]
                      IN  /\ e.to \in open \cup closed \/ Withdrawn(e.to)'
                          /\ cost[e.to] <= cost[n] + e.cost
    BY DEF Relaxed, Done, search, records
  <2>1. n \in Node /\ graph[n][k] \in Edge /\ graph[n][k].to \in Node
    <3>1. n \in Node /\ graph[n] \in Seq(Edge)
      BY DEF AStarInv, TypeOK
    <3>2. graph[n][k] \in Edge
      BY <3>1
    <3> QED
      BY <3>1, <3>2 DEF Edge
  <2>2. /\ graph[n][k].to \in open \cup closed \/ Withdrawn(graph[n][k].to)
        /\ cost[graph[n][k].to] <= cost[n] + graph[n][k].cost
    BY DEF AStarInv, Relaxed
  <2>3. graph' = graph
    BY DEF search
  <2> QED
    BY <2>1, <2>2, <2>3, <1>3
<1>5. SearchOK'
  <2>1. \A n \in searched : n \in Node
    BY DEF AStarInv, TypeOK
  <2> QED
    BY <2>1, <1>3 DEF AStarInv, SearchOK, Reached, search, records
<1>6. PathOK'
  BY DEF AStarInv, PathOK, Leads, IsEdge, Reached, search, records
<1> QED
  BY <1>1, <1>2, <1>4, <1>5, <1>6 DEF AStarInv

LEMMA MoveDownStep == ASSUME AStarInv, MoveDown PROVE AStarInv'
<1> DEFINE s == Smallest(index)
<1>1. index \in Nat /\ openNodesCount \in Nat
  BY DEF AStarInv, TypeOK
<1>2. s = index \/ (s \in 0 .. (openNodesCount - 1) /\ index < s)
  BY <1>1 DEF Smallest, Lower
<1>3. CASE s = index
  <2>1. pc' = "relax" /\ UNCHANGED <<heap, index>>
    BY <1>3 DEF MoveDown
  <2>2. HeapTyped' /\ HeapIndexed'
    BY <2>1 DEF AStarInv, MoveDown, HeapTyped, TypeOK, HeapIndexed, heap, records
  <2> QED
    BY <2>1, <2>2, <1>1, HeapStep DEF MoveDown
<1>4. CASE s # index
  <2>1. Swap(index, s) /\ index' = s /\ pc' = pc /\ UNCHANGED <<open, closed>>
    BY <1>4 DEF MoveDown, records
  <2>2. index \in 0 .. (openNodesCount - 1) /\ s \in 0 .. (openNodesCount - 1)
    BY <1>1, <1>2, <1>4
  <2>3. HeapTyped' /\ HeapIndexed'
    BY <2>1, <2>2, <1>4, SwapKeeps DEF AStarInv
  <2> QED
    BY <2>1, <2>2, <2>3, HeapStep DEF MoveDown
<1> QED
  BY <1>3, <1>4

LEMMA MoveUpStep == ASSUME AStarInv, MoveUp PROVE AStarInv'
<1>1. index \in 0 .. (openNodesCount - 1) /\ openNodesCount \in Nat
  BY DEF AStarInv, TypeOK, SearchOK, MoveUp
<1>2. CASE Placed(index)
  <2>1. pc' = "relax" /\ UNCHANGED <<heap, index>>
    BY <1>2 DEF MoveUp
  <2>2. HeapTyped' /\ HeapIndexed'
    BY <2>1 DEF AStarInv, MoveUp, HeapTyped, TypeOK, HeapIndexed, heap, records
  <2> QED
    BY <2>1, <2>2, <1>1, HeapStep DEF MoveUp
<1>3. CASE ~Placed(index)
  <2>1. /\ Swap(Above(index), index) /\ index' = Above(index) /\ pc' = pc
        /\ UNCHANGED <<open, closed>>
    BY <1>3 DEF MoveUp, records
  <2>2. Above(index) \in 0 .. (openNodesCount - 1) /\ Above(index) # index
    BY <1>1, <1>3 DEF Placed, Above
  <2>3. HeapTyped' /\ HeapIndexed'
    BY <2>1, <2>2, <1>1, SwapKeeps DEF AStarInv
  <2>4. openNodesCount' = openNodesCount
    BY <2>1 DEF Swap
  <2>5. index' \in Nat /\ index' < openNodesCount'
    BY <2>1, <2>2, <2>4, <1>1
  <2>6. pc \in {"up", "down"} /\ UNCHANGED <<search, records, current, next, path>>
    BY DEF MoveUp
  <2> QED
    BY <2>1, <2>3, <2>5, <2>6, HeapStep
<1> QED
  BY <1>2, <1>3

\* Between two rounds nothing is withdrawn, so that every searched node is in
\* one of the sets.
LEMMA NothingWithdrawn ==
    ASSUME AStarInv, pc \in {"select", "trace", "done"}
    PROVE  /\ searched \subseteq Reached
           /\ \A n \in closed : \A k \in 1 .. Len(graph[n]) :
                 /\ Done(n, k)
                 /\ graph[n][k].to \in Reached
                 /\ cost[graph[n][k].to] <= cost[n] + graph[n][k].cost
<1>1. \A m : ~Withdrawn(m)
  BY DEF Withdrawn
<1>2. searched \subseteq Reached
  BY <1>1 DEF AStarInv, SearchOK
<1>3. ASSUME NEW n \in closed, NEW k \in 1 .. Len(graph[n])
      PROVE  Done(n, k)
  <2>1. CASE n = current
    <3>1. next > Len(graph[n])
      BY <2>1 DEF AStarInv, SearchOK
    <3>2. n \in Node /\ graph[n] \in Seq(Edge) /\ next \in Nat
      BY DEF AStarInv, TypeOK
    <3> QED
      BY <3>1, <3>2 DEF Done
  <2>2. CASE n # current
    BY <2>2 DEF Done
  <2> QED
    BY <2>1, <2>2
<1> QED
  BY <1>1, <1>2, <1>3 DEF AStarInv, Relaxed, Reached

LEMMA GiveUpStep == ASSUME AStarInv, GiveUp PROVE AStarInv'
<1> USE DEF search, records, heap
<1>0. pc = "select" /\ pc' = "done" /\ current' \in visited
  <2>1. openNodesCount > 0 => Top \in visited
    BY DEF AStarInv, TypeOK, Top
  <2> QED
    BY <2>1 DEF GiveUp, AStarInv, TypeOK
<1>1. TypeOK'
  BY <1>0 DEF GiveUp, AStarInv, TypeOK
<1>2. HeapIndexed' /\ ParentsLead'
  BY DEF GiveUp, AStarInv, HeapIndexed, ParentsLead, Leads, IsEdge
<1>3. Relaxed'
  BY <1>0, NothingWithdrawn DEF GiveUp, Relaxed, Reached
<1>4. current' \in closed => next > Len(graph[current'])
  <2>1. openNodesCount > 0 => Top \in open
    BY DEF AStarInv, TypeOK, Top
  <2>2. CASE openNodesCount > 0
    BY <2>1, <2>2 DEF GiveUp, AStarInv, HeapIndexed
  <2>3. CASE ~(openNodesCount > 0)
    BY <2>3, <1>0 DEF GiveUp, AStarInv, SearchOK
  <2> QED
    BY <2>2, <2>3
<1>5. SearchOK'
  BY <1>0, <1>4, NothingWithdrawn DEF GiveUp, AStarInv, SearchOK, Reached
<1>6. ~TooMany => open = {}
  <2>1. SUFFICES ASSUME ~TooMany, NEW n \in open PROVE FALSE
    OBVIOUS
  <2>2. ~(openNodesCount > 0)
    BY <2>1 DEF GiveUp
  <2>3. openIndex[n] < openNodesCount /\ openIndex[n] \in Nat /\ openNodesCount \in Nat
    BY DEF AStarInv, TypeOK, HeapIndexed
  <2> QED
    BY <2>2, <2>3
<1>7. PathOK'
  <2>1. path = <<>> /\ path' = <<>>
    BY <1>0 DEF GiveUp, AStarInv, PathOK
  <2> QED
    BY <1>0, <1>6, <2>1 DEF GiveUp, PathOK, TooMany
<1> QED
  BY <1>1, <1>2, <1>3, <1>5, <1>7 DEF AStarInv

LEMMA FoundStep == ASSUME AStarInv, Found PROVE AStarInv'
<1> USE DEF search, records, heap
<1>0. /\ pc = "select" /\ pc' = "trace" /\ current' = Goal /\ path' = <<Goal>>
      /\ Goal \in open /\ Goal \in visited /\ Goal \notin closed
  <2>1. openNodesCount > 0 /\ Top = Goal
    BY DEF Found
  <2>2. Top \in open
    BY <2>1 DEF AStarInv, TypeOK, Top
  <2> QED
    BY <2>1, <2>2 DEF Found, AStarInv, TypeOK, HeapIndexed
<1>1. TypeOK'
  BY <1>0 DEF Found, AStarInv, TypeOK
<1>2. HeapIndexed' /\ ParentsLead'
  BY DEF Found, AStarInv, HeapIndexed, ParentsLead, Leads, IsEdge
<1>3. Relaxed'
  BY <1>0, NothingWithdrawn DEF Found, Relaxed, Reached
<1>4. SearchOK'
  BY <1>0, NothingWithdrawn DEF Found, AStarInv, SearchOK, Reached
<1>5. PathOK'
  BY <1>0 DEF Found, PathOK, Reached
<1> QED
  BY <1>1, <1>2, <1>3, <1>4, <1>5 DEF AStarInv

LEMMA TraceStep == ASSUME AStarInv, Trace PROVE AStarInv'
<1> USE DEF search, records, heap
<1> DEFINE h == Head(path)
           p == parent[h]
<1>0. /\ pc = "trace" /\ path # <<>> /\ path \in Seq(visited)
      /\ h = path[1] /\ h \in Reached /\ h \in Node /\ Len(path) \in Nat \ {0}
  BY DEF Trace, AStarInv, PathOK, TypeOK
<1>1. CASE p = NoNode
  <2>1. pc' = "done" /\ UNCHANGED <<search, records, heap, current, next, index, path>>
    BY <1>1 DEF Trace
  <2>2. h = Start
    BY <1>0, <1>1 DEF AStarInv, ParentsLead, Reached
  <2>3. TypeOK' /\ HeapIndexed' /\ ParentsLead'
    BY <2>1 DEF AStarInv, TypeOK, HeapIndexed, ParentsLead, Leads, IsEdge
  <2>4. Relaxed'
    BY <1>0, <2>1, NothingWithdrawn DEF Relaxed, Reached
  <2>5. SearchOK'
    BY <1>0, <2>1, NothingWithdrawn DEF AStarInv, SearchOK, Reached
  <2>6. PathOK'
    BY <1>0, <2>1, <2>2 DEF AStarInv, PathOK, Reached, Leads, IsEdge
  <2> QED
    BY <2>3, <2>4, <2>5, <2>6 DEF AStarInv
<1>2. CASE p # NoNode
  <2>1. pc' = pc /\ path' = <<p>> \o path /\ UNCHANGED <<search, records, heap, current, next, index>>
    BY <1>2 DEF Trace
  <2>2. Leads(p, h) /\ p \in visited /\ p \in Node
    BY <1>0, <1>2 DEF AStarInv, ParentsLead, TypeOK
  <2>3. p \in Reached
    <3>1. p \in searched
      BY <2>2 DEF Leads, IsEdge, AStarInv, TypeOK
    <3> QED
      BY <1>0, <3>1, NothingWithdrawn
  <2>4. /\ path' \in Seq(visited) /\ Len(path') = Len(path) + 1
        /\ path'[1] = p /\ \A i \in 1 .. Len(path) : path'[i + 1] = path[i]
    BY <1>0, <2>1, <2>2
  <2>5. TypeOK' /\ HeapIndexed' /\ ParentsLead'
    BY <2>1, <2>4 DEF AStarInv, TypeOK, HeapIndexed, ParentsLead, Leads, IsEdge
  <2>6. Relaxed'
    BY <1>0, <2>1, NothingWithdrawn DEF Relaxed, Reached
  <2>7. SearchOK'
    BY <1>0, <2>1, NothingWithdrawn DEF AStarInv, SearchOK, Reached
  <2>8. PathOK'
    <3>1. path'[Len(path')] = Goal
      BY <1>0, <2>4 DEF AStarInv, PathOK
    <3>2. ASSUME NEW i \in 1 .. Len(path') PROVE path'[i] \in Reached
      <4>1. CASE i = 1
        BY <4>1, <2>3, <2>4
      <4>2. CASE i # 1
        <5>1. i - 1 \in 1 .. Len(path) /\ path'[i] = path[i - 1]
          BY <4>2, <1>0, <2>4
        <5> QED
          BY <5>1, <1>0 DEF AStarInv, PathOK
      <4> QED
        BY <4>1, <4>2
    <3>3. ASSUME NEW i \in 1 .. (Len(path') - 1) PROVE Leads(path'[i], path'[i + 1])
      <4>1. CASE i = 1
        BY <4>1, <1>0, <2>2, <2>4
      <4>2. CASE i # 1
        <5>1. /\ i - 1 \in 1 .. (Len(path) - 1)
              /\ path'[i] = path[i - 1] /\ path'[i + 1] = path[(i - 1) + 1]
          BY <4>2, <1>0, <2>4
        <5> QED
          BY <5>1, <1>0 DEF AStarInv, PathOK
      <4> QED
        BY <4>1, <4>2
    <3>4. path' # <<>> /\ pc' = "trace"
      BY <1>0, <2>1, <2>4
    <3> QED
      BY <2>1, <3>1, <3>2, <3>3, <3>4 DEF PathOK, Reached, Leads, IsEdge
  <2> QED
    BY <2>5, <2>6, <2>7, <2>8 DEF AStarInv
<1> QED
  BY <1>1, <1>2

LEMMA NextRoundStep == ASSUME AStarInv, NextRound PROVE AStarInv'
<1> USE DEF search, records, heap
<1>0. pc = "relax" /\ pc' = "select" /\ next > Len(graph[current])
  BY DEF NextRound, Neighbors
<1>1. \A m : ~Withdrawn(m)
  <2>1. next \in Nat /\ Len(graph[current]) \in Nat
    BY DEF AStarInv, TypeOK
  <2> QED
    BY <1>0, <2>1 DEF Withdrawn, Neighbors
<1>2. TypeOK' /\ HeapIndexed' /\ ParentsLead'
  BY <1>0 DEF NextRound, AStarInv, TypeOK, HeapIndexed, ParentsLead, Leads, IsEdge
<1>3. Relaxed'
  BY <1>0, <1>1 DEF NextRound, AStarInv, Relaxed, Done
<1>4. SearchOK'
  BY <1>0, <1>1 DEF NextRound, AStarInv, SearchOK, Reached
<1>5. PathOK'
  BY <1>0 DEF NextRound, AStarInv, PathOK, Reached, Leads, IsEdge
<1> QED
  BY <1>2, <1>3, <1>4, <1>5 DEF AStarInv

LEMMA ExpandStep == ASSUME AStarInv, Expand PROVE AStarInv'
<1> DEFINE t == Top
<1>0. /\ pc = "select" /\ openNodesCount > 0 /\ t # Goal /\ RemoveFromOpenSet(t)
      /\ closed' = closed \cup {t} /\ current' = t /\ next' = 1
      /\ UNCHANGED <<visited, cost, parent, path>>
  BY DEF Expand
<1>1. t \in open /\ t \in Node /\ t \in visited
  BY <1>0 DEF AStarInv, TypeOK, Top
<1>2. PICK l \in NeighborLists[t] : List(t, l)
  BY DEF Expand
<1>3. /\ l \in Seq(Edge) /\ (t \in searched => l = graph[t])
      /\ searched' = searched \cup {t} /\ graph' = [graph EXCEPT ![t] = l]
  BY <1>1, <1>2, SearchAssumption DEF List
<1>4. /\ open' = open \ {t} /\ pc' = "down" /\ index' = openIndex[t]
  BY <1>0 DEF RemoveFromOpenSet, Vacate
<1>5. HeapTyped' /\ HeapIndexed'
  BY <1>0, <1>1, RemoveKeeps DEF AStarInv
<1>6. graph \in [Node -> Seq(Edge)] /\ \A n \in Node \ searched : graph[n] = <<>>
  BY DEF AStarInv, TypeOK
<1>7. /\ graph' \in [Node -> Seq(Edge)] /\ \A n \in Node \ {t} : graph'[n] = graph[n]
      /\ \A n \in Node \ searched' : graph'[n] = <<>>
  BY <1>1, <1>3, <1>6
<1>8. ASSUME NEW n \in Node, NEW m, NEW c, IsEdge(n, m, c) PROVE IsEdge(n, m, c)'
  <2>1. CASE n = t /\ t \notin searched
    BY <2>1, <1>1, <1>6, <1>8 DEF IsEdge
  <2>2. CASE n # t \/ t \in searched
    <3>1. graph'[n] = graph[n]
      BY <2>2, <1>1, <1>3, <1>6
    <3> QED
      BY <3>1, <1>8 DEF IsEdge
  <2> QED
    BY <2>1, <2>2
<1>9. TypeOK'
  <2>1. index' \in Nat
    BY <1>1, <1>4 DEF AStarInv, TypeOK
  <2>2. open' \subseteq visited' /\ closed' \subseteq visited' /\ searched' \subseteq visited'
    BY <1>0, <1>1, <1>3, <1>4 DEF AStarInv, TypeOK
  <2>3. /\ {Start, Goal} \subseteq visited' /\ visited' \subseteq Node
        /\ cost' \in [Node -> Nat] /\ parent' \in [Node -> visited' \cup {NoNode}]
        /\ path' \in Seq(visited')
    BY <1>0 DEF AStarInv, TypeOK
  <2>4. current' \in visited' /\ next' \in Nat \ {0} /\ pc' = "down"
    BY <1>0, <1>1, <1>4
  <2> QED
    BY <1>5, <1>7, <2>1, <2>2, <2>3, <2>4 DEF TypeOK, HeapTyped
<1>10. ParentsLead'
  <2>1. \A n \in (open' \cup closed') \ {Start} : parent'[n] # NoNode
    BY <1>0, <1>1, <1>4 DEF AStarInv, ParentsLead
  <2>2. ASSUME NEW n \in Node, parent[n] # NoNode PROVE Leads(parent[n], n)'
    <3>1. Leads(parent[n], n) /\ parent[n] \in Node
      BY <2>2 DEF AStarInv, ParentsLead, TypeOK
    <3> QED
      BY <3>1, <1>0, <1>8 DEF Leads
  <2> QED
    BY <2>1, <2>2, <1>0 DEF ParentsLead
<1>11. Relaxed'
  <2> SUFFICES ASSUME NEW n \in closed', NEW k \in 1 .. Len(graph'[n]), Done(n, k)'
               PROVE  /\ graph'[n][k].to \in open' \cup closed'
                      /\ cost[graph'[n][k].to] <= cost[n] + graph'[n][k].cost
    BY <1>0 DEF Relaxed
  <2>1. n # t
    BY <1>0 DEF Done
  <2>2. n \in closed /\ n \in Node /\ graph'[n] = graph[n]
    BY <2>1, <1>0, <1>7 DEF AStarInv, TypeOK
  <2> QED
    BY <2>2, <1>0, <1>4, NothingWithdrawn DEF Reached
<1>12. SearchOK'
  <2>1. searched' \subseteq open' \cup closed'
    BY <1>0, <1>3, <1>4, NothingWithdrawn DEF Reached
  <2> QED
    BY <2>1, <1>0, <1>3, <1>4 DEF AStarInv, SearchOK, Reached
<1>13. PathOK'
  BY <1>0, <1>4 DEF AStarInv, PathOK
<1> QED
  BY <1>5, <1>9, <1>10, <1>11, <1>12, <1>13 DEF AStarInv

\* What is known of the neighbour that is looked at: a cheaper way to it cannot
\* exist if it is the start or the node that is expanded.
LEMMA NeighborFacts ==
    ASSUME AStarInv, Listed
    PROVE  /\ current \in closed /\ current \in Node /\ next \in 1 .. Len(graph[current])
           /\ graph[current] \in Seq(Edge)
           /\ graph[current][next] = [to |-> Neighbor, cost |-> graph[current][next].cost]
           /\ graph[current][next].cost \in Nat
           /\ Neighbor \in Node /\ Neighbor = graph[current][next].to
           /\ NewCost = cost[current] + graph[current][next].cost /\ NewCost \in Nat
           /\ cost[Neighbor] \in Nat /\ cost[current] \in Nat
           /\ Cheaper => Neighbor # Start /\ Neighbor # current
           /\ \A q : Withdrawn(q) <=> (q = Neighbor /\ Cheaper)
<1>1. current \in closed /\ current \in Node
  BY DEF AStarInv, SearchOK, TypeOK, Listed
<1>2. graph[current] \in Seq(Edge) /\ next \in 1 .. Len(graph[current])
  BY <1>1 DEF AStarInv, TypeOK, Listed, Neighbors
<1>3. graph[current][next] \in Edge
  BY <1>2
<1>4. /\ graph[current][next] = [to |-> graph[current][next].to, cost |-> graph[current][next].cost]
      /\ graph[current][next].to \in Node /\ graph[current][next].cost \in Nat
  BY <1>3 DEF Edge
<1>5. Neighbor = graph[current][next].to /\ NewCost = cost[current] + graph[current][next].cost
  BY DEF Neighbor, NewCost, Neighbors
<1>6. cost[current] \in Nat /\ cost[Neighbor] \in Nat /\ NewCost \in Nat
  BY <1>1, <1>4, <1>5 DEF AStarInv, TypeOK
<1>7. Cheaper => Neighbor # Start /\ Neighbor # current
  BY <1>4, <1>5, <1>6 DEF Cheaper, AStarInv, SearchOK
<1>8. \A q : Withdrawn(q) <=> (q = Neighbor /\ Cheaper)
  BY DEF Withdrawn, Listed
<1> QED
  BY <1>1, <1>2, <1>4, <1>5, <1>6, <1>7, <1>8

LEMMA SkipStep == ASSUME AStarInv, Skip PROVE AStarInv'
<1> USE DEF search, records, heap
<1>0. /\ Listed /\ pc = "relax" /\ pc' = "relax" /\ next' = next + 1
      /\ Neighbor \in Reached /\ ~Cheaper
      /\ UNCHANGED <<search, records, heap, current, index, path>>
  BY DEF Skip, Listed, Reached
<1>1. \A m : ~Withdrawn(m)
  BY <1>0, NeighborFacts
<1>2. TypeOK' /\ HeapIndexed' /\ ParentsLead'
  <2>1. next' \in Nat \ {0}
    BY <1>0 DEF AStarInv, TypeOK
  <2>2. TypeOK'
    BY <1>0, <2>1 DEF AStarInv, TypeOK
  <2> QED
    BY <1>0, <2>2 DEF AStarInv, HeapIndexed, ParentsLead, Leads, IsEdge
<1>3. Relaxed'
  <2> SUFFICES ASSUME NEW n \in closed, NEW k \in 1 .. Len(graph[n]), Done(n, k)'
               PROVE  /\ graph[n][k].to \in open \cup closed
                      /\ cost[graph[n][k].to] <= cost[n] + graph[n][k].cost
    BY <1>0 DEF Relaxed
  <2>1. CASE Done(n, k)
    BY <2>1, <1>1 DEF AStarInv, Relaxed
  <2>2. CASE ~Done(n, k)
    <3>1. n = current /\ k = next
      BY <2>2, <1>0, NeighborFacts DEF Done
    <3> QED
      BY <3>1, <1>0, NeighborFacts DEF Cheaper, Reached
  <2> QED
    BY <2>1, <2>2
<1>4. SearchOK'
  BY <1>0, <1>1 DEF AStarInv, SearchOK, Reached
<1>5. PathOK'
  BY <1>0 DEF AStarInv, PathOK
<1> QED
  BY <1>2, <1>3, <1>4, <1>5 DEF AStarInv

LEMMA WithdrawStep == ASSUME AStarInv, Withdraw PROVE AStarInv'
<1> DEFINE m == Neighbor
<1> USE DEF search
<1>0. /\ Listed /\ pc = "relax" /\ m \in open /\ Cheaper /\ RemoveFromOpenSet(m)
      /\ UNCHANGED <<search, visited, closed, cost, parent, current, next, path>>
  BY DEF Withdraw, Listed
<1>1. open' = open \ {m} /\ pc' = "down" /\ index' = openIndex[m]
  BY <1>0 DEF RemoveFromOpenSet, Vacate
<1>2. HeapTyped' /\ HeapIndexed'
  BY <1>0, RemoveKeeps DEF AStarInv
<1>3. ASSUME NEW q, q \in Reached \/ Withdrawn(q)
      PROVE  q \in open' \cup closed' \/ Withdrawn(q)'
  <2>1. CASE q = m
    BY <2>1, <1>0, <1>1, NeighborFacts DEF Withdrawn, Neighbor, Neighbors, Cheaper, NewCost
  <2>2. CASE q # m
    BY <2>2, <1>0, <1>1, <1>3, NeighborFacts DEF Reached
  <2> QED
    BY <2>1, <2>2
<1>4. TypeOK'
  <2>1. index' \in Nat /\ open' \subseteq visited'
    BY <1>0, <1>1, NeighborFacts DEF AStarInv, TypeOK
  <2> QED
    BY <2>1, <1>0, <1>1, <1>2 DEF AStarInv, TypeOK, HeapTyped
<1>5. ParentsLead'
  BY <1>0, <1>1 DEF AStarInv, ParentsLead, Leads, IsEdge
<1>6. Relaxed'
  <2>1. ASSUME NEW n \in closed, NEW k \in 1 .. Len(graph[n]), Done(n, k), NEW q, q = graph[n][k].to
        PROVE  (q \in open' \cup closed' \/ Withdrawn(q)') /\ cost[q] <= cost[n] + graph[n][k].cost
    BY <1>3, <2>1 DEF AStarInv, Relaxed, Reached
  <2> QED
    BY <2>1, <1>0 DEF Relaxed, Done
<1>7. SearchOK'
  <2>1. \A n \in searched : n \in open' \cup closed' \/ Withdrawn(n)'
    BY <1>3 DEF AStarInv, SearchOK
  <2>2. m # Start
    BY <1>0, NeighborFacts
  <2> QED
    BY <2>1, <2>2, <1>0, <1>1 DEF AStarInv, SearchOK, Reached
<1>8. PathOK'
  BY <1>0, <1>1 DEF AStarInv, PathOK
<1> QED
  BY <1>2, <1>4, <1>5, <1>6, <1>7, <1>8 DEF AStarInv

LEMMA InsertStep == ASSUME AStarInv, Insert PROVE AStarInv'
<1> DEFINE m == Neighbor
           c == graph[current][next].cost
<1>0. /\ Listed /\ pc = "relax" /\ pc' = "up" /\ m \notin open /\ (m \in closed => Cheaper)
      /\ visited' = visited \cup {m} /\ closed' = closed \ {m} /\ open' = open \cup {m}
      /\ cost' = [cost EXCEPT ![m] = NewCost] /\ parent' = [parent EXCEPT ![m] = current]
      /\ openIndex' = [openIndex EXCEPT ![m] = openNodesCount]
      /\ openNodes' = [k \in 0 .. openNodesCount |->
                          IF k = openNodesCount THEN m ELSE openNodes[k]]
      /\ openNodesCount' = openNodesCount + 1 /\ next' = next + 1 /\ index' = openNodesCount
      /\ searched' = searched /\ graph' = graph /\ current' = current /\ path' = path
  BY DEF Insert, Listed, search
<1>1. /\ m \in Node /\ m # Start /\ m # current /\ current \in closed /\ current \in Node
      /\ NewCost = cost[current] + c /\ c \in Nat /\ NewCost \in Nat /\ cost[current] \in Nat
      /\ next \in 1 .. Len(graph[current]) /\ graph[current][next] = [to |-> m, cost |-> c]
  <2>1. m # Start /\ m # current
    BY <1>0, NeighborFacts DEF AStarInv, SearchOK, Reached
  <2> QED
    BY <2>1, <1>0, NeighborFacts
<1>2. /\ cost' \in [Node -> Nat] /\ cost'[m] = NewCost
      /\ \A n \in Node \ {m} : cost'[n] = cost[n]
      /\ parent' \in [Node -> visited' \cup {NoNode}] /\ parent'[m] = current
      /\ \A n \in Node \ {m} : parent'[n] = parent[n]
  <2>1. cost \in [Node -> Nat] /\ parent \in [Node -> visited \cup {NoNode}] /\ current \in visited
    BY DEF AStarInv, TypeOK
  <2> QED
    BY <2>1, <1>0, <1>1
<1>3. HeapTyped' /\ HeapIndexed'
  BY <1>0, <1>1, InsertKeeps DEF AStarInv
\* A node that was reached before gets cheaper.
<1>4. m \in Reached \/ Withdrawn(m) => NewCost < cost[m]
  BY <1>0, NeighborFacts DEF Reached, Cheaper
<1>5. ASSUME NEW q, q \in Reached \/ Withdrawn(q) PROVE q \in open' \cup closed'
  BY <1>0, <1>5, NeighborFacts DEF Reached
<1>6. TypeOK'
  <2>1. /\ {Start, Goal} \subseteq visited' /\ visited' \subseteq Node
        /\ open' \subseteq visited' /\ closed' \subseteq visited' /\ searched' \subseteq visited'
    BY <1>0, <1>1 DEF AStarInv, TypeOK
  <2>2. /\ graph' \in [Node -> Seq(Edge)] /\ \A n \in Node \ searched' : graph'[n] = <<>>
    BY <1>0 DEF AStarInv, TypeOK
  <2>3. path' \in Seq(visited')
    <3>1. path \in Seq(visited) /\ visited \subseteq visited'
      BY <1>0 DEF AStarInv, TypeOK
    <3> QED
      BY <3>1, <1>0
  <2>4. current' \in visited' /\ next' \in Nat \ {0} /\ index' \in Nat /\ pc' = "up"
    BY <1>0 DEF AStarInv, TypeOK
  <2> QED
    BY <1>2, <1>3, <2>1, <2>2, <2>3, <2>4 DEF TypeOK, HeapTyped
<1>7. ParentsLead'
  <2>1. \A n \in (open' \cup closed') \ {Start} : parent'[n] # NoNode
    <3>1. current # NoNode
      BY <1>1, SearchAssumption
    <3>2. open' \cup closed' \subseteq Node
      BY <1>6 DEF TypeOK
    <3> QED
      BY <3>1, <3>2, <1>0, <1>2 DEF AStarInv, ParentsLead
  <2>2. ASSUME NEW n \in Node, NEW p, p = parent'[n], p # NoNode
        PROVE  Leads(p, n)'
    <3>1. CASE n = m
      <4>1. p = current /\ cost'[n] = NewCost /\ cost'[p] = cost[current]
        BY <2>2, <3>1, <1>1, <1>2
      <4>2. cost'[p] + c <= cost'[n] /\ c \in 0 .. cost'[n]
        BY <4>1, <1>1
      <4>3. next \in 1 .. Len(graph'[p]) /\ graph'[p][next] = [to |-> n, cost |-> c]
        BY <4>1, <3>1, <1>0, <1>1
      <4> QED
        BY <4>2, <4>3 DEF Leads, IsEdge
    <3>2. CASE n # m
      <4>1. p = parent[n] /\ Leads(p, n) /\ p \in Node
        BY <2>2, <3>2, <1>2 DEF AStarInv, ParentsLead, TypeOK
      <4>2. PICK d \in 0 .. cost[n] : IsEdge(p, n, d) /\ cost[p] + d <= cost[n]
        BY <4>1 DEF Leads
      <4>3. p \in searched
        BY <4>1, <4>2 DEF IsEdge, AStarInv, TypeOK
      <4>4. cost'[p] <= cost[p] /\ cost[p] \in Nat /\ cost'[p] \in Nat
        <5>1. p \in Reached \/ Withdrawn(p)
          BY <4>3 DEF AStarInv, SearchOK
        <5>2. cost[p] \in Nat
          BY <4>1 DEF AStarInv, TypeOK
        <5> QED
          BY <5>1, <5>2, <4>1, <1>1, <1>2, <1>4
      <4>5. cost'[n] = cost[n] /\ IsEdge(p, n, d)' /\ cost'[p] + d <= cost'[n]
        BY <3>2, <4>2, <4>4, <1>0, <1>2 DEF IsEdge
      <4> QED
        BY <4>5 DEF Leads
    <3> QED
      BY <3>1, <3>2
  <2> QED
    BY <2>1, <2>2 DEF ParentsLead
<1>8. Relaxed'
  <2>1. ASSUME NEW n \in closed', NEW k \in 1 .. Len(graph[n]), Done(n, k)', NEW q, q = graph[n][k].to
        PROVE  q \in open' \cup closed' /\ cost'[q] <= cost'[n] + graph[n][k].cost
    <3>1. n \in closed /\ n # m /\ n \in Node /\ cost'[n] = cost[n] /\ cost[n] \in Nat
      BY <1>0, <1>2 DEF AStarInv, TypeOK
    <3>2. CASE Done(n, k)
      <4>1. (q \in Reached \/ Withdrawn(q)) /\ cost[q] <= cost[n] + graph[n][k].cost
        BY <2>1, <3>1, <3>2 DEF AStarInv, Relaxed, Reached
      <4>2. graph[n][k].cost \in Nat /\ q \in Node /\ cost[q] \in Nat
        <5>1. graph[n] \in Seq(Edge) /\ cost \in [Node -> Nat]
          BY <3>1 DEF AStarInv, TypeOK
        <5>2. graph[n][k] \in Edge
          BY <5>1
        <5> QED
          BY <5>1, <5>2, <2>1 DEF Edge
      <4>3. cost'[q] <= cost[q] /\ cost'[q] \in Nat
        BY <4>1, <4>2, <1>1, <1>2, <1>4
      <4> QED
        BY <4>1, <4>2, <4>3, <3>1, <1>5
    <3>3. CASE ~Done(n, k)
      <4>1. n = current /\ k = next
        BY <3>3, <2>1, <1>0, <1>1, NeighborFacts DEF Done
      <4>2. q = m /\ graph[n][k].cost = c
        BY <4>1, <2>1, <1>1
      <4> QED
        BY <4>1, <4>2, <3>1, <1>0, <1>1, <1>2
    <3> QED
      BY <3>2, <3>3
  <2> QED
    BY <2>1, <1>0 DEF Relaxed
<1>9. SearchOK'
  <2>1. searched' \subseteq open' \cup closed'
    BY <1>0, <1>5 DEF AStarInv, SearchOK
  <2>2. Start \in open' \cup closed' /\ cost'[Start] = 0 /\ parent'[Start] = NoNode
    BY <1>0, <1>1, <1>2, SearchAssumption DEF AStarInv, SearchOK, Reached
  <2>3. closed' \subseteq searched' /\ Goal \notin searched' /\ current' \in closed'
    BY <1>0, <1>1 DEF AStarInv, SearchOK
  <2>4. index' < openNodesCount'
    BY <1>0 DEF AStarInv, TypeOK
  <2> QED
    BY <2>1, <2>2, <2>3, <2>4, <1>0 DEF SearchOK, Reached
<1>10. PathOK'
  BY <1>0 DEF AStarInv, PathOK
<1> QED
  BY <1>3, <1>6, <1>7, <1>8, <1>9, <1>10 DEF AStarInv

----------------------------------------------------------------------------

LEMMA InitOK == Init => AStarInv
<1> SUFFICES ASSUME Init PROVE AStarInv
  OBVIOUS
<1>1. TypeOK
  BY SearchAssumption DEF Init, TypeOK
<1>2. HeapIndexed
  <2>1. /\ open = {Start} /\ closed = {} /\ openNodesCount = 1
        /\ openNodes[0] = Start /\ openIndex[Start] = 0
    BY SearchAssumption DEF Init
  <2>2. \A i \in 0 .. (openNodesCount - 1) : i = 0
    BY <2>1
  <2> QED
    BY <2>1, <2>2 DEF HeapIndexed
<1>3. ParentsLead /\ Relaxed /\ SearchOK /\ PathOK
  BY SearchAssumption DEF Init, ParentsLead, Relaxed, SearchOK, Reached, PathOK
<1> QED
  BY <1>1, <1>2, <1>3 DEF AStarInv

LEMMA StepOK == AStarInv /\ [Next]_vars => AStarInv'
<1> SUFFICES ASSUME AStarInv, [Next]_vars PROVE AStarInv'
  OBVIOUS
<1>1. CASE GiveUp
  BY <1>1, GiveUpStep
<1>2. CASE Found
  BY <1>2, FoundStep
<1>3. CASE Expand
  BY <1>3, ExpandStep
<1>4. CASE Withdraw
  BY <1>4, WithdrawStep
<1>5. CASE Insert
  BY <1>5, InsertStep
<1>6. CASE Skip
  BY <1>6, SkipStep
<1>7. CASE NextRound
  BY <1>7, NextRoundStep
<1>8. CASE MoveDown
  BY <1>8, MoveDownStep
<1>9. CASE MoveUp
  BY <1>9, MoveUpStep
<1>10. CASE Trace
  BY <1>10, TraceStep
<1>11. CASE UNCHANGED vars
  <2> USE <1>11 DEF vars, search, records, heap
  <2>1. TypeOK'
    BY DEF AStarInv, TypeOK
  <2>2. HeapIndexed' /\ ParentsLead' /\ PathOK'
    BY DEF AStarInv, HeapIndexed, ParentsLead, Leads, IsEdge, PathOK, Reached, TooMany
  <2>3. Relaxed' /\ SearchOK'
    BY DEF AStarInv, Relaxed, Done, SearchOK, Reached, Withdrawn, Neighbors, Neighbor,
           Cheaper, NewCost
  <2> QED
    BY <2>1, <2>2, <2>3 DEF AStarInv
<1> QED
  BY <1>1, <1>2, <1>3, <1>4, <1>5, <1>6, <1>7, <1>8, <1>9, <1>10, <1>11 DEF Next

\* The parts of the invariant hold together in every reachable state.
THEOREM AStarInvariant == Spec => []AStarInv
  BY InitOK, StepOK, PTL DEF Spec

\* The heap and the records agree, whatever is removed from its middle.
THEOREM HeapAgrees == Spec => []HeapIndexed
<1>1. AStarInv => HeapIndexed
  BY DEF AStarInv
<1> QED
  BY <1>1, AStarInvariant, PTL

\* No way through a closed node is overlooked, however often it is reopened.
THEOREM NoWayOverlooked == Spec => []Relaxed
<1>1. AStarInv => Relaxed
  BY DEF AStarInv
<1> QED
  BY <1>1, AStarInvariant, PTL

\* A path that is returned is one, and costs at most what is reported.
THEOREM PathsAreSound == Spec => []PathSound
<1>1. AStarInv => PathSound
  BY DEF AStarInv, PathOK, PathSound
<1> QED
  BY <1>1, AStarInvariant, PTL

\* A search that ends without a path, below the limit, has closed a set of nodes
\* that the edges do not leave, with the start and without the goal.
THEOREM NoPathMissed == Spec => []NoPathIsMissed
<1>1. ASSUME AStarInv PROVE NoPathIsMissed
  <2> SUFFICES ASSUME pc = "done", path = <<>>, ~TooMany
               PROVE  /\ Start \in searched /\ Goal \notin searched
                      /\ \A n \in searched : \A k \in 1 .. Len(graph[n]) : graph[n][k].to \in searched
    BY DEF NoPathIsMissed
  <2>1. open = {}
    BY <1>1 DEF AStarInv, PathOK
  <2>2. searched = closed
    BY <1>1, <2>1, NothingWithdrawn DEF AStarInv, SearchOK, Reached
  <2> QED
    BY <1>1, <2>1, <2>2, NothingWithdrawn DEF AStarInv, SearchOK, Reached
<1> QED
  BY <1>1, AStarInvariant, PTL
=============================================================================
