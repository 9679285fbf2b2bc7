------------------------------- MODULE Rects -------------------------------
(***************************************************************************)
(* Rectangles of pixels, as the r-trees of land and water hold them: the   *)
(* first pixel is in, the last is not.                                     *)
(***************************************************************************)
EXTENDS Integers

Rectangle == [x0 : Int, y0 : Int, x1 : Int, y1 : Int]
Point == [x : Int, y : Int]

Apart(r, s) == r.x1 <= s.x0 \/ s.x1 <= r.x0 \/ r.y1 <= s.y0 \/ s.y1 <= r.y0

\* the box of one pixel
Box(p) == [x0 |-> p.x, y0 |-> p.y, x1 |-> p.x + 1, y1 |-> p.y + 1]

\* bgi::intersects: a common border or corner is enough
Touch(r, s) == r.x0 <= s.x1 /\ s.x0 <= r.x1 /\ r.y0 <= s.y1 /\ s.y0 <= r.y1

\* bgi::contains(box of the pixel)
Holds(r, p) == r.x0 <= p.x /\ p.x < r.x1 /\ r.y0 <= p.y /\ p.y < r.y1
=============================================================================
