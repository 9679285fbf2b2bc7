----------------------------- MODULE MCSeaport -----------------------------
(***************************************************************************)
(* Small instances of Seaport for TLC: two points, two ids and a file of   *)
(* names that knows one of the ids.  City c1 has both points in its        *)
(* square, city c2 has one of them.                                        *)
(***************************************************************************)
EXTENDS Seaport

CONSTANTS a, b, n0, n1

MCCity == {"c1", "c2"}
MCNear == [city \in MCCity |-> IF city = "c1" THEN {a, b} ELSE {b}]
MCTwoPorts == 0..1
MCOldPort ==
  {[point |-> a, id |-> 0], [point |-> a, id |-> 1], [point |-> b, id |-> 1]}
MCNameFile == [id \in {0} |-> n1]
=============================================================================
