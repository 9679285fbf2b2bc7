---------------------------- MODULE MCWaterPath ----------------------------
(***************************************************************************)
(* A small map for TLC.  The first seven rectangles hang together, at      *)
(* sides and at corners and around a cycle; some are a single pixel wide.  *)
(* The last is a pond.                                                     *)
(***************************************************************************)
EXTENDS WaterPath

R(x0, y0, x1, y1) == [x0 |-> x0, y0 |-> y0, x1 |-> x1, y1 |-> y1]

MCWater == { R(0, 0, 2, 2), R(2, 1, 4, 4), R(1, 2, 2, 3), R(0, 3, 2, 5),
             R(4, 4, 6, 5), R(6, 2, 7, 4), R(3, 5, 4, 6), R(6, 0, 7, 1) }

MCPixel == [x : -1 .. 7, y : -1 .. 6]
=============================================================================
