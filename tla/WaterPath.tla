----------------------------- MODULE WaterPath -----------------------------
(***************************************************************************)
(* Waypoints over the sea (sea_static.cpp, astarrtree.cpp).  The water is  *)
(* a set of rectangles of pixels; at the start those that hang together    *)
(* with the origin are marked as sea.  A request snaps its two pixels to   *)
(* water, searches a path of rectangles, and then a path of pixels that    *)
(* enters and leaves each rectangle on the border that faces its           *)
(* neighbour.                                                              *)
(*                                                                         *)
(* Both searches are AStar's, of which only this is used: a path that is   *)
(* returned follows the neighbours that were listed, and there may be none.*)
(***************************************************************************)
EXTENDS Integers, Sequences, Rects

CONSTANTS
    Water,          \* the rectangles of the r-tree of water
    Pixel,          \* the pixels that are asked for
    MaxCells        \* bound of the model: the rectangles of a path

\* The dump that the r-tree is made from has rectangles of at least one pixel
\* that do not overlap; without any water a request aborts the process.
ASSUME WaterAssumption ==
    /\ Water # {} /\ Water \subseteq Rectangle
    /\ \A r \in Water : r.x0 < r.x1 /\ r.y0 < r.y1
    /\ \A r, s \in Water : r # s => Apart(r, s)
    /\ Pixel \subseteq Point
    /\ MaxCells \in Nat

VARIABLES
    sea,            \* sea_water_set
    visited,        \* visited_set of the flood
    frontier,       \* open_set of the flood
    from, to,       \* the ends of the request, as far as they are snapped
    cells,          \* the path of rectangles
    node,           \* the pixel node that is expanded
    pc

flood == <<sea, visited, frontier>>
call == <<from, to, cells, node>>
vars == <<flood, call, pc>>

----------------------------------------------------------------------------
(* Rectangles. *)

IsWater(p) == \E r \in Water : Holds(r, p)

Directions == {"down", "up", "right", "left"}

\* the eight relations; every other combination is RR_UNKNOWN
Known(S) == /\ S # {}
            /\ ~({"down", "up"} \subseteq S) /\ ~({"right", "left"} \subseteq S)

\* on which sides of r the rectangle s lies (rect_relation)
Sides(r, s) ==
    { d \in Directions : CASE d = "down" -> r.y1 <= s.y0
                           [] d = "up" -> s.y1 <= r.y0
                           [] d = "right" -> r.x1 <= s.x0
                           [] d = "left" -> s.x1 <= r.x0 }

\* Mutant: the last row of r is taken for the border below it.
Meets_Inclusive(r, s) ==
    { d \in Directions : CASE d = "down" -> r.y1 - 1 = s.y0
                           [] d = "up" -> s.y1 = r.y0
                           [] d = "right" -> r.x1 = s.x0
                           [] d = "left" -> s.x1 = r.x0 }

\* at which of its sides r meets s (rect_neighbor_relation)
Meets(r, s) ==
    { d \in Directions : CASE d = "down" -> r.y1 = s.y0
                           [] d = "up" -> s.y1 = r.y0
                           [] d = "right" -> r.x1 = s.x0
                           [] d = "left" -> s.x1 = r.x0 }

----------------------------------------------------------------------------
(* The flood of mark_sea_water. *)

Origin == [x |-> 0, y |-> 0]

\* what the search over pixels starts from
Start(p) == [p |-> p, i |-> 1, ee |-> "enter"]

Init ==
    /\ sea = {r \in Water : Touch(r, Box(Origin))}
    /\ visited = {}
    /\ frontier = sea
    /\ from = Origin /\ to = Origin
    /\ cells = <<>>
    /\ node = Start(Origin)
    /\ pc = "flood"

Touched == {r \in Water : \E s \in frontier : Touch(s, r)} \ visited

FloodRound ==
    /\ pc = "flood" /\ frontier # {}
    /\ visited' = visited \cup Touched
    /\ sea' = sea \cup Touched
    /\ frontier' = Touched
    /\ UNCHANGED <<call, pc>>

\* Mutant: the flood ends after any round.
FloodDone_Early ==
    /\ pc = "flood"
    /\ pc' = "ready"
    /\ UNCHANGED <<flood, call>>

FloodDone ==
    /\ pc = "flood" /\ frontier = {}
    /\ pc' = "ready"
    /\ UNCHANGED <<flood, call>>

----------------------------------------------------------------------------
(* The request. *)

Gap(a0, a1, b0, b1) == IF a1 < b0 THEN b0 - a1 ELSE IF b1 < a0 THEN a0 - b1 ELSE 0

\* the square of the distance between two boxes
Distance(r, s) ==
    LET dx == Gap(r.x0, r.x1, s.x0, s.x1)
        dy == Gap(r.y0, r.y1, s.y0, s.y1)
    IN  dx * dx + dy * dy

Nearest(p) == {r \in Water : \A s \in Water : Distance(r, Box(p)) <= Distance(s, Box(p))}

\* Mutant: the column behind the last one is taken.
Inside_Border(r, p) ==
    LET S == Sides(r, Box(p))
    IN  [x |-> IF "right" \in S THEN r.x1 ELSE IF "left" \in S THEN r.x0 ELSE p.x,
         y |-> IF "down" \in S THEN r.y1 - 1 ELSE IF "up" \in S THEN r.y0 ELSE p.y]

\* the pixel of r next to p, from the side that p is on
Inside(r, p) ==
    LET S == Sides(r, Box(p))
    IN  [x |-> IF "right" \in S THEN r.x1 - 1 ELSE IF "left" \in S THEN r.x0 ELSE p.x,
         y |-> IF "down" \in S THEN r.y1 - 1 ELSE IF "up" \in S THEN r.y0 ELSE p.y]

\* find_nearest_point_if_empty
Snapped(p) == IF IsWater(p) THEN {p} ELSE {Inside(r, p) : r \in Nearest(p)}

\* where it aborts the process instead: the pixel is on none of the eight sides
Unsnappable(p) == ~IsWater(p) /\ \E r \in Nearest(p) : ~Known(Sides(r, Box(p)))

IsSea(p) == \E r \in sea : Holds(r, p)

Request(p, q) ==
    /\ pc = "ready"
    /\ ~Unsnappable(p) /\ ~Unsnappable(q)
    /\ from' \in Snapped(p) /\ to' \in Snapped(q)
    /\ IF IsSea(from') /\ IsSea(to')
       THEN /\ \E r \in Water : Holds(r, from') /\ cells' = <<r>>
            /\ pc' = "cells"
       ELSE /\ pc' = "refused"
            /\ UNCHANGED cells
    /\ UNCHANGED <<flood, node>>

----------------------------------------------------------------------------
(* The search over rectangles: some path of neighbours, or none. *)

Last == cells[Len(cells)]

\* Mutant: the rectangle itself, which intersects itself, is a neighbour.
ExtendCells_Self ==
    /\ pc = "cells"
    /\ ~Holds(Last, to)
    /\ Len(cells) < MaxCells
    /\ \E r \in Water : Touch(Last, r) /\ cells' = Append(cells, r)
    /\ UNCHANGED <<flood, from, to, node, pc>>

ExtendCells ==
    /\ pc = "cells"
    /\ ~Holds(Last, to)
    /\ Len(cells) < MaxCells
    /\ \E r \in Water :
          /\ Touch(Last, r)
          /\ \A i \in 1 .. Len(cells) : cells[i] # r
          /\ cells' = Append(cells, r)
    /\ UNCHANGED <<flood, from, to, node, pc>>

\* the call returns, without a path or with one; its variables go
Return ==
    /\ from' = Origin /\ to' = Origin
    /\ cells' = <<>>
    /\ node' = Start(Origin)
    /\ pc' = "ready"
    /\ UNCHANGED flood

\* no path, or too many visits
NoCells == pc = "cells" /\ ~Holds(Last, to) /\ Return

CellsFound ==
    /\ pc = "cells"
    /\ Holds(Last, to)
    /\ node' = Start(from)
    /\ pc' = "pixels"
    /\ UNCHANGED <<flood, from, to, cells>>

----------------------------------------------------------------------------
(* The search over pixels. *)

Higher(a, b) == IF a < b THEN b ELSE a
Lesser(a, b) == IF a < b THEN a ELSE b

\* Mutant: the end is taken for the last pixel.
Clamped_End(v, beg, end) == IF v < beg THEN beg ELSE IF v >= end THEN end ELSE v

Clamped(v, beg, end) == IF v < beg THEN beg ELSE IF v >= end THEN end - 1 ELSE v

\* The pixels of s on its border that meets r: one column or row, cut to what
\* the two share, or one pixel at a corner (AddNeighborByRectRelation).
Border(r, s) ==
    LET S == Meets(r, s)
    IN  [x0 |-> IF "right" \in S THEN s.x0 ELSE IF "left" \in S THEN s.x1 - 1 ELSE Higher(r.x0, s.x0),
         x1 |-> IF "right" \in S THEN s.x0 + 1 ELSE IF "left" \in S THEN s.x1 ELSE Lesser(r.x1, s.x1),
         y0 |-> IF "down" \in S THEN s.y0 ELSE IF "up" \in S THEN s.y1 - 1 ELSE Higher(r.y0, s.y0),
         y1 |-> IF "down" \in S THEN s.y0 + 1 ELSE IF "up" \in S THEN s.y1 ELSE Lesser(r.y1, s.y1)]

\* all of them, and the one nearest to p
Facing(r, s) ==
    LET b == Border(r, s)
    IN  {[x |-> x, y |-> y] : x \in b.x0 .. (b.x1 - 1), y \in b.y0 .. (b.y1 - 1)}

FacingNearest(r, s, p) ==
    LET b == Border(r, s)
    IN  [x |-> Clamped(p.x, b.x0, b.x1), y |-> Clamped(p.y, b.y0, b.y1)]

\* the rectangle the node faces, and the one its neighbours lie in
Across(n) == IF n.ee = "enter" THEN cells[n.i + 1] ELSE cells[n.i]
Own(n) == IF n.ee = "enter" THEN cells[n.i] ELSE cells[n.i + 1]

AtLast(n) == n.i = Len(cells) /\ n.ee = "enter"

\* of the first rectangle every exit is tried, of the others the nearest one
NearestOnly(n) == ~(n.i = 1 /\ n.ee = "enter")

Chosen(n) ==
    IF NearestOnly(n) THEN {FacingNearest(Across(n), Own(n), n.p)}
                      ELSE Facing(Across(n), Own(n))

Faced(n) ==
    IF AtLast(n) THEN {[p |-> to, i |-> n.i, ee |-> "exit"]}
    ELSE IF n.ee = "enter" THEN {[p |-> q, i |-> n.i, ee |-> "exit"] : q \in Chosen(n)}
    ELSE {[p |-> q, i |-> n.i + 1, ee |-> "enter"] : q \in Chosen(n)}

\* A node that is its own exit becomes the exit, and lists what the exit does
\* (AddNeighborWithLog).
Exit(n) == [n EXCEPT !.ee = "exit"]

Listed(n) ==
    IF Exit(n) \in Faced(n)
    THEN (Faced(n) \ {Exit(n)}) \cup Faced(Exit(n))
    ELSE Faced(n)

\* The relation is unknown, or a clamp has no pixel to choose: abort().  A node
\* that aborts has no step.
CannotFace(n) ==
    LET b == Border(Across(n), Own(n))
    IN  \/ ~Known(Meets(Across(n), Own(n)))
        \/ NearestOnly(n) /\ (b.x0 >= b.x1 \/ b.y0 >= b.y1)

Aborts(n) ==
    /\ ~AtLast(n)
    /\ CannotFace(n) \/ (Exit(n) \in Faced(n) /\ CannotFace(Exit(n)))

\* Records are looked up by the pixel alone (RTreePixelPathNodeComparator): the
\* record that is found may have been made as the exit or as the entrance of
\* the rectangle, if the pixel is one.
IsExit(n) == n.i < Len(cells) /\ n.p \in Facing(cells[n.i + 1], cells[n.i])

IsEntrance(n) == IF n.i = 1 THEN n.p = from ELSE n.p \in Facing(cells[n.i - 1], cells[n.i])

Records(n) ==
    {n} \cup { m \in {[n EXCEPT !.ee = e] : e \in {"enter", "exit"}} :
                 IF m.ee = "exit" THEN IsExit(n) ELSE IsEntrance(n) }

Walk ==
    /\ pc = "pixels" /\ node.p # to /\ ~Aborts(node)
    /\ \E n \in Listed(node) : node' \in Records(n)
    /\ UNCHANGED <<flood, from, to, cells, pc>>

\* an end is not on the sea
Refused == pc = "refused" /\ Return

Arrived == pc = "pixels" /\ node.p = to /\ Return

Next ==
    \/ FloodRound \/ FloodDone
    \/ \E p, q \in Pixel : Request(p, q)
    \/ Refused
    \/ ExtendCells \/ NoCells \/ CellsFound
    \/ Walk \/ Arrived

Spec == Init /\ [][Next]_vars

----------------------------------------------------------------------------
(* Properties. *)

\* Every variable has its type; the path of rectangles has no repetition and
\* each touches the next; the node lies in a rectangle of the path, and only
\* the pixel that is asked for is an exit of the last one.
TypeOK ==
    /\ sea \subseteq Water /\ visited \subseteq sea /\ frontier \subseteq sea
    /\ from \in Point /\ to \in Point
    /\ cells \in Seq(Water)
    /\ \A i \in 1 .. (Len(cells) - 1) : Touch(cells[i], cells[i + 1]) /\ cells[i] # cells[i + 1]
    /\ node \in [p : Point, i : Nat \ {0}, ee : {"enter", "exit"}]
    /\ pc \in {"flood", "ready", "refused", "cells", "pixels"}
    /\ pc = "cells" => cells # <<>>
    /\ pc = "pixels" =>
          /\ node.i \in 1 .. Len(cells)
          /\ node.ee = "exit" => node.i < Len(cells) \/ node.p = to

\* The abort() calls of the path finding are never reached, neither for a pixel
\* of a request nor for a node: two rectangles of the path always meet at a side
\* or a corner, and at a side they share a pixel.
NeverAborts ==
    /\ pc = "ready" => \A p \in Pixel : ~Unsnappable(p)
    /\ pc = "pixels" /\ node.p # to => ~Aborts(node)

\* A pixel outside the water is snapped to one inside it: a request is never
\* refused because the pixel that it was moved to is on land.
SnappedInWater ==
    pc \in {"refused", "cells", "pixels"} => IsWater(from) /\ IsWater(to)

\* The marked rectangles are those that hang together with the origin: they
\* have all that touch one of them, and no more than any such set has.
SeaIsComponent ==
    /\ pc # "flood" => \A r \in sea, s \in Water : Touch(r, s) => s \in sea
    /\ \A S \in SUBSET Water :
          /\ \A r \in Water : Touch(r, Box(Origin)) => r \in S
          /\ \A r \in S, s \in Water : Touch(r, s) => s \in S
          => sea \subseteq S

Adjacent(p, q) == p.x - q.x \in -1 .. 1 /\ p.y - q.y \in -1 .. 1

\* A ship that sails from a waypoint straight to the next stays on the sea: both
\* lie in one rectangle of it, or next to each other across a border.
StaysInSea ==
    [][pc = "pixels" /\ node' # node /\ pc' = "pixels" =>
         \/ \E r \in sea : Holds(r, node.p) /\ Holds(r, node'.p)
         \/ IsSea(node.p) /\ IsSea(node'.p) /\ Adjacent(node.p, node'.p)]_vars
=============================================================================
