------------------------------ MODULE MCAStar ------------------------------
(***************************************************************************)
(* The graphs that TLC searches: a family over six nodes for the           *)
(* properties, and the one graph that the finding about the heap needs.    *)
(***************************************************************************)
EXTENDS AStar

e(m, c) == [to |-> m, cost |-> c]

\* a place in a list: an edge of one of the costs, or none
Option(m, costs) == {<<e(m, c)>> : c \in costs} \cup {<<>>}

\* Node 0 is the start and 5 the goal; 1, 2 and 3 are between them and 4 is
\* beyond, where a search comes to its limit of visits.  A node may list itself,
\* and edges may cost nothing.
MCLists ==
    [n \in Node |->
        CASE n = 0 -> {<<e(0, 0)>> \o x \o y \o z :
                          x \in Option(1, {1, 3}), y \in Option(2, {1, 3}), z \in Option(5, {3})}
          [] n = 1 -> {w \o <<e(1, 0)>> \o x \o y \o z :
                          w \in Option(2, {0, 1}), x \in Option(3, {1}), y \in Option(5, {1, 3}), z \in Option(0, {0})}
          [] n = 2 -> {w \o x \o y \o z :
                          w \in Option(3, {0, 1}), x \in Option(1, {0, 1}), y \in Option(5, {1, 3}), z \in Option(0, {1})}
          [] n = 3 -> {w \o x \o y \o z :
                          w \in Option(4, {1}), x \in Option(5, {0}), y \in Option(1, {0}), z \in Option(2, {1})}
          [] n = 4 -> {x \o y : x \in Option(5, {1}), y \in Option(2, {0})}
          [] n = 5 -> {<<>>}]

\* A node off the way looks worse than it is: nodes are closed too early and
\* opened again.
MCEstimate == [n \in Node |-> IF n = 1 THEN 3 ELSE 0]

\* One graph whose open nodes fill three levels of the heap: the second node
\* lowers the cost of one in the middle, and the last one that replaces it is
\* lower than the one above.
HeapLists ==
    [n \in Node |->
        CASE n = 0 -> {<<e(1, 1), e(2, 10), e(3, 2), e(4, 11), e(5, 12), e(6, 3), e(7, 4)>>}
          [] n = 1 -> {<<e(4, 5)>>}
          [] OTHER -> {<<>>}]

HeapEstimate == [n \in Node |-> 0]
=============================================================================
