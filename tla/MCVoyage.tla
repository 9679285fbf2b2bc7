------------------------------ MODULE MCVoyage ------------------------------
(***************************************************************************)
(* Small instances of Voyage for TLC: two ports, a and b, with the ids 0   *)
(* and 1, which is what a server that spawned both and restarted finds in  *)
(* the file; c is a point on which a third may be spawned.                 *)
(***************************************************************************)
EXTENDS Voyage, TLC

CONSTANTS a, b, c, s1, s2, r1, r2, r3

MCFile == {[point |-> a, id |-> 0], [point |-> b, id |-> 1]}
MCCity == {"city"}
MCNear == [city \in MCCity |-> {a}]
MCPorts == 0..1
MCLen == {1}
MCSymmetry == Permutations({s1, s2}) \cup Permutations(RouteKey)
MCLens == {1, 2}
=============================================================================
