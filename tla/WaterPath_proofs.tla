-------------------------- MODULE WaterPath_proofs --------------------------
(***************************************************************************)
(* Waypoints never leave the marked sea, and finding them never aborts.    *)
(***************************************************************************)
EXTENDS WaterPath, TLAPS

----------------------------------------------------------------------------
(* Two rectangles of the water that touch meet at a side, where they share *)
(* a pixel, or at a corner.                                                *)

\* r and s are rectangles of the water that may follow each other on a path.
Neighbours(r, s) ==
    /\ r \in Rectangle /\ r.x0 < r.x1 /\ r.y0 < r.y1
    /\ s \in Rectangle /\ s.x0 < s.x1 /\ s.y0 < s.y1
    /\ Apart(r, s) /\ Touch(r, s)

\* The direction of a relation, as arithmetic on the bounds.
LEMMA MeetsAt ==
  ASSUME NEW r, NEW s
  PROVE  /\ "down" \in Meets(r, s) <=> r.y1 = s.y0
         /\ "up" \in Meets(r, s) <=> s.y1 = r.y0
         /\ "right" \in Meets(r, s) <=> r.x1 = s.x0
         /\ "left" \in Meets(r, s) <=> s.x1 = r.x0
  BY DEF Meets, Directions

\* The same for the relation that snaps pixels.
LEMMA SidesAt ==
  ASSUME NEW r, NEW s
  PROVE  /\ "down" \in Sides(r, s) <=> r.y1 <= s.y0
         /\ "up" \in Sides(r, s) <=> s.y1 <= r.y0
         /\ "right" \in Sides(r, s) <=> r.x1 <= s.x0
         /\ "left" \in Sides(r, s) <=> s.x1 <= r.x0
  BY DEF Sides, Directions

\* The neighbour relation is symmetric, as the search enters the next
\* rectangle with the two exchanged.
LEMMA NeighboursSymmetric ==
  ASSUME NEW r, NEW s, Neighbours(r, s)
  PROVE  Neighbours(s, r)
  BY DEF Neighbours, Apart, Touch, Rectangle

\* The border is a row, a column or a pixel of s that is next to r.
LEMMA BorderAt ==
  ASSUME NEW r, NEW s, Neighbours(r, s)
  PROVE  /\ Border(r, s) \in Rectangle
         /\ Border(r, s).x0 < Border(r, s).x1 /\ Border(r, s).y0 < Border(r, s).y1
         /\ s.x0 <= Border(r, s).x0 /\ Border(r, s).x1 <= s.x1
         /\ s.y0 <= Border(r, s).y0 /\ Border(r, s).y1 <= s.y1
<1>. DEFINE b == Border(r, s)
<1>1. /\ b.x0 = IF r.x1 = s.x0 THEN s.x0 ELSE IF s.x1 = r.x0 THEN s.x1 - 1 ELSE Higher(r.x0, s.x0)
      /\ b.x1 = IF r.x1 = s.x0 THEN s.x0 + 1 ELSE IF s.x1 = r.x0 THEN s.x1 ELSE Lesser(r.x1, s.x1)
      /\ b.y0 = IF r.y1 = s.y0 THEN s.y0 ELSE IF s.y1 = r.y0 THEN s.y1 - 1 ELSE Higher(r.y0, s.y0)
      /\ b.y1 = IF r.y1 = s.y0 THEN s.y0 + 1 ELSE IF s.y1 = r.y0 THEN s.y1 ELSE Lesser(r.y1, s.y1)
      /\ b = [x0 |-> b.x0, x1 |-> b.x1, y0 |-> b.y0, y1 |-> b.y1]
  BY MeetsAt DEF Border
<1>. HIDE DEF b
<1>2. /\ b.x0 \in Int /\ b.x1 \in Int /\ b.x0 < b.x1 /\ s.x0 <= b.x0 /\ b.x1 <= s.x1
      /\ b.y0 \in Int /\ b.y1 \in Int /\ b.y0 < b.y1 /\ s.y0 <= b.y0 /\ b.y1 <= s.y1
  BY <1>1 DEF Neighbours, Apart, Touch, Rectangle, Higher, Lesser
<1>3. b \in Rectangle
  BY <1>1, <1>2 DEF Rectangle
<1>. QED  BY <1>2, <1>3 DEF b

\* Its pixels, as arithmetic on its bounds.
LEMMA FacingAt ==
  ASSUME NEW r, NEW s, Neighbours(r, s), NEW q
  PROVE  q \in Facing(r, s) <=> q \in Point /\ Holds(Border(r, s), q)
<1>. DEFINE b == Border(r, s)
<1>1. b \in Rectangle
  BY BorderAt
<1>2. Facing(r, s) = {[x |-> x, y |-> y] : x \in b.x0 .. (b.x1 - 1), y \in b.y0 .. (b.y1 - 1)}
  BY DEF Facing
<1>. HIDE DEF b
<1>3. ASSUME q \in Facing(r, s)  PROVE q \in Point /\ Holds(b, q)
  <2>1. PICK x \in b.x0 .. (b.x1 - 1), y \in b.y0 .. (b.y1 - 1) : q = [x |-> x, y |-> y]
    BY <1>2, <1>3
  <2>. QED  BY <1>1, <2>1 DEF Holds, Point, Rectangle
<1>4. ASSUME q \in Point, Holds(b, q)  PROVE q \in Facing(r, s)
  <2>1. q = [x |-> q.x, y |-> q.y] /\ q.x \in b.x0 .. (b.x1 - 1) /\ q.y \in b.y0 .. (b.y1 - 1)
    BY <1>1, <1>4 DEF Holds, Point, Rectangle
  <2>. QED  BY <1>2, <2>1
<1>. QED  BY <1>3, <1>4 DEF b

\* The pixels of s that face r lie in s.
LEMMA FacingInside ==
  ASSUME NEW r, NEW s, Neighbours(r, s), NEW q \in Facing(r, s)
  PROVE  q \in Point /\ Holds(s, q)
BY BorderAt, FacingAt DEF Holds, Point, Rectangle, Neighbours

\* The nearest of them is one of them.
LEMMA NearestFaces ==
  ASSUME NEW r, NEW s, Neighbours(r, s), NEW p \in Point
  PROVE  FacingNearest(r, s, p) \in Facing(r, s)
<1>. DEFINE b == Border(r, s)
<1>1. FacingNearest(r, s, p) = [x |-> Clamped(p.x, b.x0, b.x1), y |-> Clamped(p.y, b.y0, b.y1)]
  BY DEF FacingNearest
<1>2. b \in Rectangle /\ b.x0 < b.x1 /\ b.y0 < b.y1
  BY BorderAt
<1>. HIDE DEF b
<1>3. /\ Clamped(p.x, b.x0, b.x1) \in Int /\ b.x0 <= Clamped(p.x, b.x0, b.x1)
      /\ Clamped(p.x, b.x0, b.x1) < b.x1
      /\ Clamped(p.y, b.y0, b.y1) \in Int /\ b.y0 <= Clamped(p.y, b.y0, b.y1)
      /\ Clamped(p.y, b.y0, b.y1) < b.y1
  BY <1>2 DEF Rectangle, Point, Clamped
<1>4. FacingNearest(r, s, p) \in Point /\ Holds(b, FacingNearest(r, s, p))
  BY <1>1, <1>3 DEF Holds, Point
<1>. QED  BY <1>4, FacingAt DEF b

\* From a pixel on the border of r the nearest pixel of s is the next one.
LEMMA Crossing ==
  ASSUME NEW r, NEW s, Neighbours(r, s), NEW p \in Facing(s, r)
  PROVE  Adjacent(p, FacingNearest(r, s, p))
<1>. DEFINE b == Border(r, s)
            o == Border(s, r)
<1>1. /\ p.x \in Int /\ p.y \in Int
      /\ o.x0 <= p.x /\ p.x < o.x1 /\ o.y0 <= p.y /\ p.y < o.y1
  BY NeighboursSymmetric, FacingAt DEF Holds, Point
<1>2. /\ b.x0 = IF r.x1 = s.x0 THEN s.x0 ELSE IF s.x1 = r.x0 THEN s.x1 - 1 ELSE Higher(r.x0, s.x0)
      /\ b.x1 = IF r.x1 = s.x0 THEN s.x0 + 1 ELSE IF s.x1 = r.x0 THEN s.x1 ELSE Lesser(r.x1, s.x1)
      /\ b.y0 = IF r.y1 = s.y0 THEN s.y0 ELSE IF s.y1 = r.y0 THEN s.y1 - 1 ELSE Higher(r.y0, s.y0)
      /\ b.y1 = IF r.y1 = s.y0 THEN s.y0 + 1 ELSE IF s.y1 = r.y0 THEN s.y1 ELSE Lesser(r.y1, s.y1)
  BY MeetsAt DEF Border
<1>3. /\ o.x0 = IF s.x1 = r.x0 THEN r.x0 ELSE IF r.x1 = s.x0 THEN r.x1 - 1 ELSE Higher(s.x0, r.x0)
      /\ o.x1 = IF s.x1 = r.x0 THEN r.x0 + 1 ELSE IF r.x1 = s.x0 THEN r.x1 ELSE Lesser(s.x1, r.x1)
      /\ o.y0 = IF s.y1 = r.y0 THEN r.y0 ELSE IF r.y1 = s.y0 THEN r.y1 - 1 ELSE Higher(s.y0, r.y0)
      /\ o.y1 = IF s.y1 = r.y0 THEN r.y0 + 1 ELSE IF r.y1 = s.y0 THEN r.y1 ELSE Lesser(s.y1, r.y1)
  BY MeetsAt DEF Border
<1>4. FacingNearest(r, s, p) = [x |-> Clamped(p.x, b.x0, b.x1), y |-> Clamped(p.y, b.y0, b.y1)]
  BY DEF FacingNearest
<1>. HIDE DEF b, o
<1>5. p.x - Clamped(p.x, b.x0, b.x1) \in -1 .. 1
  BY <1>1, <1>2, <1>3 DEF Neighbours, Rectangle, Clamped, Higher, Lesser
<1>6. p.y - Clamped(p.y, b.y0, b.y1) \in -1 .. 1
  BY <1>1, <1>2, <1>3 DEF Neighbours, Rectangle, Clamped, Higher, Lesser
<1>. QED  BY <1>4, <1>5, <1>6 DEF Adjacent

----------------------------------------------------------------------------
(* Snapping. *)

\* Every pixel outside a rectangle is on one of its eight sides, and what is
\* taken for it lies inside.
LEMMA SnapsInside ==
  ASSUME NEW r \in Water, NEW p \in Point, ~Holds(r, p)
  PROVE  /\ Known(Sides(r, Box(p)))
         /\ Inside(r, p) \in Point
         /\ Holds(r, Inside(r, p))
<1>. DEFINE S == Sides(r, Box(p))
<1>1. /\ "down" \in S <=> r.y1 <= p.y
      /\ "up" \in S <=> p.y + 1 <= r.y0
      /\ "right" \in S <=> r.x1 <= p.x
      /\ "left" \in S <=> p.x + 1 <= r.x0
  BY SidesAt DEF Box
<1>2. /\ r \in Rectangle /\ r.x0 < r.x1 /\ r.y0 < r.y1
      /\ p.x \in Int /\ p.y \in Int
  BY WaterAssumption DEF Point
<1>3. Inside(r, p) =
        [x |-> IF "right" \in S THEN r.x1 - 1 ELSE IF "left" \in S THEN r.x0 ELSE p.x,
         y |-> IF "down" \in S THEN r.y1 - 1 ELSE IF "up" \in S THEN r.y0 ELSE p.y]
  BY DEF Inside
<1>. HIDE DEF S
<1>4. S # {} /\ ~({"down", "up"} \subseteq S) /\ ~({"right", "left"} \subseteq S)
  BY <1>1, <1>2 DEF Holds, Rectangle
<1>5. Inside(r, p) \in Point /\ Holds(r, Inside(r, p))
  BY <1>1, <1>2, <1>3 DEF Holds, Rectangle, Point
<1>. QED  BY <1>4, <1>5 DEF Known, S

LEMMA SnapsIntoWater ==
  ASSUME NEW p \in Point
  PROVE  /\ ~Unsnappable(p)
         /\ \A q \in Snapped(p) : q \in Point /\ IsWater(q)
<1>1. \A r \in Nearest(p) : r \in Water
  BY DEF Nearest
<1>2. ~IsWater(p) => \A r \in Water : ~Holds(r, p)
  BY DEF IsWater
<1>3. ~Unsnappable(p)
  BY <1>1, <1>2, SnapsInside DEF Unsnappable
<1>4. ASSUME NEW q \in Snapped(p)  PROVE q \in Point /\ IsWater(q)
  <2>1. CASE IsWater(p)
    BY <1>4, <2>1 DEF Snapped
  <2>2. CASE ~IsWater(p)
    <3>1. PICK r \in Nearest(p) : q = Inside(r, p)
      BY <1>4, <2>2 DEF Snapped
    <3>. QED  BY <3>1, <1>1, <1>2, <2>2, SnapsInside DEF IsWater
  <2>. QED  BY <2>1, <2>2
<1>. QED  BY <1>3, <1>4

\* A pixel is in one rectangle of the water only.
LEMMA OneHolder ==
  ASSUME NEW r \in Water, NEW s \in Water, NEW p \in Point, Holds(r, p), Holds(s, p)
  PROVE  r = s
BY WaterAssumption DEF Apart, Holds, Rectangle, Point

\* Rectangles of the water that touch may follow each other.
LEMMA WaterNeighbours ==
  ASSUME NEW r \in Water, NEW s \in Water, r # s, Touch(r, s)
  PROVE  Neighbours(r, s)
BY WaterAssumption DEF Neighbours

----------------------------------------------------------------------------
(* The inductive invariant. *)

\* The flood: what is marked and not in the frontier has its neighbours marked.
FloodOK ==
    /\ sea \subseteq Water /\ visited \subseteq sea /\ frontier \subseteq sea
    /\ \A r \in sea, s \in Water : Touch(r, s) => s \in sea \/ r \in frontier
    /\ pc # "flood" => frontier = {}

\* No set that is closed under touching misses what is marked.
FloodLeast ==
    \A S \in SUBSET Water :
        /\ \A r \in Water : Touch(r, Box(Origin)) => r \in S
        /\ \A r \in S, s \in Water : Touch(r, s) => s \in S
        => sea \subseteq S

\* The path of rectangles: from the pixel asked for, over the sea.
CellsOK ==
    /\ cells # <<>>
    /\ Holds(cells[1], from)
    /\ \A i \in 1 .. Len(cells) : cells[i] \in sea
    /\ \A i \in 1 .. (Len(cells) - 1) : Neighbours(cells[i], cells[i + 1])

\* A record of the search over pixels: it lies in its rectangle, and an exit
\* is on the border to the next one.
NodeOK(n) ==
    /\ n \in [p : Point, i : Nat \ {0}, ee : {"enter", "exit"}]
    /\ n.i \in 1 .. Len(cells)
    /\ Holds(cells[n.i], n.p)
    /\ n.ee = "exit" => n.p = to \/ IsExit(n)

CallOK ==
    /\ from \in Point /\ to \in Point
    /\ cells \in Seq(Water)
    /\ node \in [p : Point, i : Nat \ {0}, ee : {"enter", "exit"}]
    /\ pc \in {"flood", "ready", "refused", "cells", "pixels"}
    /\ pc \in {"flood", "ready", "refused"} => cells = <<>>
    /\ pc \in {"refused", "cells", "pixels"} => IsWater(from) /\ IsWater(to)
    /\ pc \in {"cells", "pixels"} => CellsOK
    /\ pc = "pixels" => Holds(Last, to) /\ NodeOK(node)

WaterInv == FloodOK /\ FloodLeast /\ CallOK

LEMMA InitWaterInv == Init => WaterInv
<1>. SUFFICES ASSUME Init PROVE WaterInv
  OBVIOUS
<1>1. Origin \in Point
  BY DEF Origin, Point
<1>2. FloodOK /\ FloodLeast
  BY DEF Init, FloodOK, FloodLeast
<1>3. CallOK
  BY <1>1 DEF Init, CallOK, Start
<1>. QED  BY <1>2, <1>3 DEF WaterInv

\* What a node lists is a record of the same path, in the same rectangle or
\* next to it, and no relation or clamp on the way fails.
Step(n, m) ==
    \/ Holds(cells[n.i], m.p)
    \/ Adjacent(n.p, m.p)

\* An entrance lists pixels of its rectangle, which are exits.
LEMMA EntranceLists ==
  ASSUME CallOK, pc = "pixels", sea \subseteq Water,
         NEW n, NodeOK(n), n.ee = "enter", NEW m \in Faced(n)
  PROVE  NodeOK(m) /\ m.i = n.i /\ m.ee = "exit"
<1>1. CellsOK /\ Holds(Last, to) /\ to \in Point /\ Len(cells) \in Nat
  BY DEF CallOK
<1>2. CASE AtLast(n)
  <2>1. m = [p |-> to, i |-> n.i, ee |-> "exit"]
    BY <1>2 DEF Faced
  <2>. QED  BY <2>1, <1>1, <1>2 DEF AtLast, Last, NodeOK
<1>3. CASE ~AtLast(n)
  <2>1. n.i \in 1 .. (Len(cells) - 1)
    BY <1>1, <1>3 DEF AtLast, NodeOK
  <2>2. Neighbours(cells[n.i + 1], cells[n.i])
    BY <1>1, <2>1, NeighboursSymmetric DEF CellsOK
  <2>3. PICK q \in Chosen(n) : m = [p |-> q, i |-> n.i, ee |-> "exit"]
    BY <1>3 DEF Faced
  <2>4. q \in Facing(cells[n.i + 1], cells[n.i])
    BY <2>2, NearestFaces DEF Chosen, Across, Own, NodeOK
  <2>5. q \in Point /\ Holds(cells[n.i], q)
    BY <2>2, <2>4, FacingInside
  <2>. QED  BY <1>1, <2>1, <2>3, <2>4, <2>5 DEF NodeOK, IsExit
<1>. QED  BY <1>2, <1>3

\* An exit lists the pixel across the border.
LEMMA ExitLists ==
  ASSUME CallOK, pc = "pixels", sea \subseteq Water,
         NEW n, NodeOK(n), n.ee = "exit", n.p # to, NEW m \in Faced(n)
  PROVE  NodeOK(m) /\ m.ee = "enter" /\ Adjacent(n.p, m.p)
<1>1. CellsOK /\ Len(cells) \in Nat
  BY DEF CallOK
<1>2. n.i \in 1 .. (Len(cells) - 1) /\ n.p \in Facing(cells[n.i + 1], cells[n.i])
  BY <1>1 DEF NodeOK, IsExit
<1>3. Neighbours(cells[n.i], cells[n.i + 1])
  BY <1>1, <1>2 DEF CellsOK
<1>4. PICK q \in Chosen(n) : m = [p |-> q, i |-> n.i + 1, ee |-> "enter"]
  BY DEF Faced, AtLast
<1>5. q = FacingNearest(cells[n.i], cells[n.i + 1], n.p)
  BY <1>4 DEF Chosen, NearestOnly, Across, Own
<1>6. n.p \in Point
  BY DEF NodeOK
<1>7. q \in Facing(cells[n.i], cells[n.i + 1])
  BY <1>3, <1>5, <1>6, NearestFaces
<1>8. q \in Point /\ Holds(cells[n.i + 1], q)
  BY <1>3, <1>7, FacingInside
<1>9. Adjacent(n.p, q)
  BY <1>2, <1>3, <1>5, Crossing
<1>. QED  BY <1>1, <1>2, <1>4, <1>8, <1>9 DEF NodeOK

\* So does an entrance that is its own exit, and what it lists is never farther.
LEMMA ListedOK ==
  ASSUME CallOK, pc = "pixels", sea \subseteq Water,
         NEW n, NodeOK(n), n.p # to, NEW m \in Listed(n)
  PROVE  NodeOK(m) /\ Step(n, m)
<1>. DEFINE x == Exit(n)
<1>1. x.p = n.p /\ x.i = n.i /\ x.ee = "exit"
  BY DEF Exit, NodeOK
<1>2. CASE n.ee = "enter" /\ m \in Faced(n)
  BY <1>2, EntranceLists DEF NodeOK, Step
<1>3. CASE n.ee = "exit" /\ m \in Faced(n)
  BY <1>3, ExitLists DEF Step
<1>4. CASE m \notin Faced(n)
  <2>1. x \in Faced(n) /\ m \in Faced(x)
    BY <1>4 DEF Listed
  <2>2. n.ee = "enter"
    BY <2>1, <1>1, ExitLists DEF NodeOK
  <2>3. NodeOK(x)
    BY <2>1, <2>2, EntranceLists
  <2>4. NodeOK(m) /\ Adjacent(x.p, m.p)
    BY <1>1, <2>1, <2>3, ExitLists
  <2>. QED  BY <1>1, <2>4 DEF Step
<1>. QED  BY <1>2, <1>3, <1>4 DEF NodeOK

\* The record that is found for a pixel is one of the path.
LEMMA RecordsOK ==
  ASSUME NEW n, NodeOK(n), NEW m \in Records(n)
  PROVE  NodeOK(m) /\ m.p = n.p /\ m.i = n.i
<1>1. CASE m = n
  BY <1>1
<1>2. CASE m # n
  <2>1. PICK e \in {"enter", "exit"} : m = [n EXCEPT !.ee = e]
    BY <1>2 DEF Records
  <2>2. m.ee = "exit" => IsExit(n)
    BY <1>2 DEF Records
  <2>3. m.p = n.p /\ m.i = n.i /\ m.ee = e
    BY <2>1 DEF NodeOK
  <2>. QED  BY <2>1, <2>2, <2>3 DEF NodeOK, IsExit
<1>. QED  BY <1>1, <1>2

\* No relation of the rectangles that a record faces is unknown.
LEMMA NodeFaces ==
  ASSUME CallOK, pc = "pixels", NEW n, NodeOK(n), n.i < Len(cells)
  PROVE  ~CannotFace(n)
<1>1. Neighbours(cells[n.i], cells[n.i + 1])
  BY DEF CallOK, CellsOK, NodeOK
<1>2. Neighbours(Across(n), Own(n))
  BY <1>1, NeighboursSymmetric DEF Across, Own
<1>3. Known(Meets(Across(n), Own(n)))
  BY <1>2, MeetsAt DEF Known, Neighbours, Apart, Touch, Rectangle
<1>. DEFINE b == Border(Across(n), Own(n))
<1>4. b \in Rectangle /\ b.x0 < b.x1 /\ b.y0 < b.y1
  BY <1>2, BorderAt
<1>. HIDE DEF b
<1>5. ~(b.x0 >= b.x1) /\ ~(b.y0 >= b.y1)
  BY <1>4 DEF Rectangle
<1>. QED  BY <1>3, <1>5 DEF CannotFace, b

LEMMA NoAbort ==
  ASSUME CallOK, pc = "pixels", sea \subseteq Water, NEW n, NodeOK(n), n.p # to
  PROVE  ~Aborts(n)
<1>. SUFFICES ASSUME Aborts(n) PROVE FALSE
  OBVIOUS
<1>. DEFINE x == Exit(n)
<1>1. x.p = n.p /\ x.i = n.i /\ x.ee = "exit"
  BY DEF Exit, NodeOK
<1>2. Len(cells) \in Nat
  BY DEF CallOK
<1>3. n.i < Len(cells)
  BY <1>2 DEF Aborts, AtLast, NodeOK, IsExit
<1>4. x \in Faced(n) /\ CannotFace(x)
  BY <1>3, NodeFaces DEF Aborts
<1>5. n.ee = "enter"
  BY <1>1, <1>4, ExitLists DEF NodeOK
<1>6. NodeOK(x)
  BY <1>4, <1>5, EntranceLists
<1>. QED  BY <1>1, <1>3, <1>4, <1>6, NodeFaces

----------------------------------------------------------------------------
(* The steps. *)

LEMMA FloodRoundStep ==
  ASSUME WaterInv, FloodRound  PROVE WaterInv'
<1>. USE DEF WaterInv
<1>1. Touched \subseteq Water
  BY DEF Touched
<1>2. FloodOK'
  <2>1. sea' \subseteq Water /\ visited' \subseteq sea' /\ frontier' \subseteq sea'
    BY <1>1 DEF FloodRound, FloodOK
  <2>2. ASSUME NEW r \in sea', NEW s \in Water, Touch(r, s)
        PROVE  s \in sea' \/ r \in frontier'
    <3>1. CASE r \in Touched
      BY <3>1 DEF FloodRound
    <3>2. CASE r \in frontier
      BY <2>2, <3>2 DEF FloodRound, FloodOK, Touched
    <3>3. CASE r \notin Touched /\ r \notin frontier
      BY <2>2, <3>3 DEF FloodRound, FloodOK
    <3>. QED  BY <3>1, <3>2, <3>3
  <2>. QED  BY <2>1, <2>2 DEF FloodOK, FloodRound
<1>3. FloodLeast'
  BY DEF FloodLeast, FloodOK, FloodRound, Touched
<1>4. CallOK'
  BY DEF CallOK, FloodRound, call
<1>. QED  BY <1>2, <1>3, <1>4

LEMMA FloodDoneStep ==
  ASSUME WaterInv, FloodDone  PROVE WaterInv'
<1>1. FloodOK' /\ FloodLeast'
  BY DEF WaterInv, FloodOK, FloodLeast, FloodDone, flood
<1>2. CallOK'
  BY DEF WaterInv, CallOK, FloodDone, call
<1>. QED  BY <1>1, <1>2 DEF WaterInv

\* What the requests leave alone.
LEMMA FloodKept ==
  ASSUME WaterInv, UNCHANGED flood, pc # "flood"
  PROVE  FloodOK' /\ FloodLeast'
BY DEF WaterInv, FloodOK, FloodLeast, flood

LEMMA RequestStep ==
  ASSUME WaterInv, NEW p \in Pixel, NEW q \in Pixel, Request(p, q)  PROVE WaterInv'
<1>1. FloodOK' /\ FloodLeast'
  BY FloodKept DEF Request
<1>2. p \in Point /\ q \in Point
  BY WaterAssumption
<1>3. /\ from' \in Point /\ IsWater(from')
      /\ to' \in Point /\ IsWater(to')
  BY <1>2, SnapsIntoWater DEF Request
<1>4. /\ from' \in Point /\ (IsWater(from))'
      /\ to' \in Point /\ (IsWater(to))'
  BY <1>3 DEF IsWater
<1>5. CASE IsSea(from') /\ IsSea(to')
  <2>1. PICK r \in Water : Holds(r, from') /\ cells' = <<r>>
    BY <1>5 DEF Request
  <2>2. PICK s \in sea : Holds(s, from')
    BY <1>5 DEF IsSea
  <2>3. r \in sea
    BY <2>1, <2>2, <1>3, OneHolder DEF WaterInv, FloodOK
  <2>4. CellsOK'
    BY <2>1, <2>3 DEF CellsOK, Request, flood
  <2>. QED  BY <1>1, <1>4, <1>5, <2>1, <2>4 DEF WaterInv, CallOK, Request
<1>6. CASE ~(IsSea(from') /\ IsSea(to'))
  BY <1>1, <1>4, <1>6 DEF WaterInv, CallOK, Request
<1>. QED  BY <1>5, <1>6

LEMMA ExtendStep ==
  ASSUME WaterInv, ExtendCells  PROVE WaterInv'
<1>1. FloodOK' /\ FloodLeast'
  BY FloodKept DEF ExtendCells
<1>2. /\ cells \in Seq(Water) /\ CellsOK /\ Len(cells) \in Nat /\ Len(cells) # 0
      /\ sea \subseteq Water
  BY DEF WaterInv, CallOK, CellsOK, ExtendCells, FloodOK
<1>3. PICK r \in Water : /\ Touch(Last, r)
                         /\ \A i \in 1 .. Len(cells) : cells[i] # r
                         /\ cells' = Append(cells, r)
  BY DEF ExtendCells
<1>4. Last \in sea /\ Last \in Water /\ Last # r
  BY <1>2, <1>3 DEF Last, CellsOK
<1>5. r \in sea
  BY <1>3, <1>4 DEF WaterInv, FloodOK, ExtendCells
<1>6. Neighbours(Last, r)
  BY <1>3, <1>4, WaterNeighbours
<1>7. /\ cells' \in Seq(Water) /\ Len(cells') = Len(cells) + 1
      /\ \A i \in 1 .. Len(cells) : cells'[i] = cells[i]
      /\ cells'[Len(cells) + 1] = r
  BY <1>2, <1>3
<1>8. CellsOK'
  <2>1. cells' # <<>> /\ Holds(cells'[1], from')
    BY <1>2, <1>7 DEF CellsOK, ExtendCells
  <2>2. \A i \in 1 .. Len(cells') : cells'[i] \in sea'
    BY <1>2, <1>5, <1>7 DEF CellsOK, ExtendCells, flood
  <2>3. \A i \in 1 .. (Len(cells') - 1) : Neighbours(cells'[i], cells'[i + 1])
    BY <1>2, <1>6, <1>7 DEF CellsOK, Last
  <2>. QED  BY <2>1, <2>2, <2>3 DEF CellsOK
<1>9. CallOK'
  BY <1>7, <1>8 DEF WaterInv, CallOK, ExtendCells, IsWater
<1>. QED  BY <1>1, <1>9 DEF WaterInv

LEMMA ReturnStep ==
  ASSUME WaterInv, Return, pc # "flood"  PROVE WaterInv'
<1>1. FloodOK' /\ FloodLeast'
  BY FloodKept DEF Return
<1>2. Origin \in Point
  BY DEF Origin, Point
<1>3. CallOK'
  BY <1>2 DEF CallOK, Return, Start
<1>. QED  BY <1>1, <1>3 DEF WaterInv

LEMMA CellsFoundStep ==
  ASSUME WaterInv, CellsFound  PROVE WaterInv'
<1>1. FloodOK' /\ FloodLeast'
  BY FloodKept DEF CellsFound
<1>2. CellsOK /\ Len(cells) \in Nat /\ Len(cells) # 0 /\ from \in Point
  BY DEF WaterInv, CallOK, CellsOK, CellsFound
<1>3. CellsOK' /\ (Holds(Last, to))'
  BY <1>2 DEF CellsOK, Last, CellsFound, flood
<1>4. node' = [p |-> from, i |-> 1, ee |-> "enter"]
  BY DEF CellsFound, Start
<1>5. (NodeOK(node))'
  BY <1>2, <1>4 DEF NodeOK, CellsOK, CellsFound
<1>6. CallOK'
  BY <1>3, <1>4, <1>5, <1>2 DEF WaterInv, CallOK, CellsFound, IsWater
<1>. QED  BY <1>1, <1>6 DEF WaterInv

\* Where a step of the walk leads.
LEMMA Walked ==
  ASSUME WaterInv, Walk  PROVE NodeOK(node') /\ Step(node, node')
<1>1. CallOK /\ pc = "pixels" /\ sea \subseteq Water /\ NodeOK(node) /\ node.p # to
  BY DEF WaterInv, CallOK, FloodOK, Walk
<1>2. PICK n \in Listed(node) : node' \in Records(n)
  BY DEF Walk
<1>3. NodeOK(n) /\ Step(node, n)
  BY <1>1, <1>2, ListedOK
<1>4. NodeOK(node') /\ node'.p = n.p
  BY <1>2, <1>3, RecordsOK
<1>. QED  BY <1>3, <1>4 DEF Step

LEMMA WalkStep ==
  ASSUME WaterInv, Walk  PROVE WaterInv'
<1>1. FloodOK' /\ FloodLeast'
  BY FloodKept DEF Walk
<1>2. NodeOK(node')
  BY Walked
<1>3. (NodeOK(node))'
  BY <1>2 DEF NodeOK, IsExit, Walk
<1>4. CellsOK' /\ (Holds(Last, to))'
  BY DEF WaterInv, CallOK, CellsOK, Last, Walk, flood
<1>5. CallOK'
  BY <1>2, <1>3, <1>4 DEF WaterInv, CallOK, NodeOK, Walk, IsWater
<1>. QED  BY <1>1, <1>5 DEF WaterInv

LEMMA NextWaterInv == WaterInv /\ [Next]_vars => WaterInv'
<1>. SUFFICES ASSUME WaterInv, [Next]_vars PROVE WaterInv'
  OBVIOUS
<1>1. CASE FloodRound
  BY <1>1, FloodRoundStep
<1>2. CASE FloodDone
  BY <1>2, FloodDoneStep
<1>3. ASSUME NEW p \in Pixel, NEW q \in Pixel, Request(p, q)  PROVE WaterInv'
  BY <1>3, RequestStep
<1>4. CASE ExtendCells
  BY <1>4, ExtendStep
<1>5. CASE NoCells \/ Refused \/ Arrived
  BY <1>5, ReturnStep DEF NoCells, Refused, Arrived
<1>6. CASE CellsFound
  BY <1>6, CellsFoundStep
<1>7. CASE Walk
  BY <1>7, WalkStep
<1>8. CASE UNCHANGED vars
  BY <1>8 DEF vars, flood, call, WaterInv, FloodOK, FloodLeast, CallOK, CellsOK,
                NodeOK, IsExit, IsWater, Last
<1>. QED  BY <1>1, <1>2, <1>3, <1>4, <1>5, <1>6, <1>7, <1>8 DEF Next

----------------------------------------------------------------------------
(* The theorems. *)

\* The flood, the requests and both searches keep the invariant.
THEOREM WaterInvariant == Spec => []WaterInv
<1>1. Init => WaterInv
  BY InitWaterInv
<1>2. WaterInv /\ [Next]_vars => WaterInv'
  BY NextWaterInv
<1>. QED  BY <1>1, <1>2, PTL DEF Spec

\* Every reachable state is typed, the path of rectangles and its nodes included.
THEOREM WaterTypes == Spec => []TypeOK
<1>1. ASSUME WaterInv PROVE TypeOK
  <2>1. \A i \in 1 .. (Len(cells) - 1) : Touch(cells[i], cells[i + 1]) /\ cells[i] # cells[i + 1]
    <3>1. CASE pc \in {"cells", "pixels"}
      <4>. SUFFICES ASSUME NEW i \in 1 .. (Len(cells) - 1)
                    PROVE  Touch(cells[i], cells[i + 1]) /\ cells[i] # cells[i + 1]
        OBVIOUS
      <4>1. Neighbours(cells[i], cells[i + 1])
        BY <1>1, <3>1 DEF WaterInv, CallOK, CellsOK
      <4>. QED  BY <4>1 DEF Neighbours, Apart, Rectangle
    <3>2. CASE pc \notin {"cells", "pixels"}
      BY <1>1, <3>2 DEF WaterInv, CallOK
    <3>. QED  BY <3>1, <3>2
  <2>. QED  BY <1>1, <2>1 DEF WaterInv, FloodOK, CallOK, CellsOK, NodeOK, IsExit, TypeOK
<1>. QED  BY <1>1, WaterInvariant, PTL

\* Neither a relation of rectangles nor a clamp ever aborts the process, on any
\* map of rectangles that do not overlap and for any pixels.
THEOREM NothingAborts == Spec => []NeverAborts
<1>1. \A p \in Pixel : ~Unsnappable(p)
  BY SnapsIntoWater, WaterAssumption
<1>2. WaterInv /\ pc = "pixels" /\ node.p # to => ~Aborts(node)
  BY NoAbort DEF WaterInv, CallOK, FloodOK
<1>3. WaterInv => NeverAborts
  BY <1>1, <1>2 DEF NeverAborts
<1>. QED  BY <1>3, WaterInvariant, PTL

\* A pixel outside the water is always snapped into it.
THEOREM SnapsToWater == Spec => []SnappedInWater
<1>1. WaterInv => SnappedInWater
  BY DEF WaterInv, CallOK, SnappedInWater
<1>. QED  BY <1>1, WaterInvariant, PTL

\* The flood marks the component of the origin, whatever the map.
THEOREM MarkedSeaIsComponent == Spec => []SeaIsComponent
<1>1. WaterInv => SeaIsComponent
  BY DEF WaterInv, FloodOK, FloodLeast, SeaIsComponent
<1>. QED  BY <1>1, WaterInvariant, PTL

\* Straight from waypoint to waypoint a ship stays on the sea.
THEOREM WaysStayInSea == Spec => StaysInSea
<1>1. ASSUME WaterInv, [Next]_vars
      PROVE  [pc = "pixels" /\ node' # node /\ pc' = "pixels" =>
                \/ \E r \in sea : Holds(r, node.p) /\ Holds(r, node'.p)
                \/ IsSea(node.p) /\ IsSea(node'.p) /\ Adjacent(node.p, node'.p)]_vars
  <2>. SUFFICES ASSUME Next, pc = "pixels", node' # node, pc' = "pixels"
                PROVE  \/ \E r \in sea : Holds(r, node.p) /\ Holds(r, node'.p)
                       \/ IsSea(node.p) /\ IsSea(node'.p) /\ Adjacent(node.p, node'.p)
    BY <1>1
  <2>1. Walk
    BY DEF Next, FloodRound, FloodDone, Request, Refused, ExtendCells,
           NoCells, CellsFound, Arrived, Return
  <2>2. NodeOK(node) /\ NodeOK(node') /\ Step(node, node')
    BY <1>1, <2>1, Walked DEF WaterInv, CallOK
  <2>3. cells[node.i] \in sea /\ cells[node'.i] \in sea
    BY <1>1, <2>2 DEF WaterInv, CallOK, CellsOK, NodeOK
  <2>. QED  BY <2>2, <2>3 DEF NodeOK, Step, IsSea
<1>. QED  BY <1>1, WaterInvariant, PTL DEF Spec, StaysInSea
=============================================================================
