------------------------------ MODULE MCServer ------------------------------
(***************************************************************************)
(* A small world for TLC: chunks of 4 by 4 cells at the scales 1, 2 and 4, *)
(* land that crosses their borders and is thinner than a scaled cell, a    *)
(* map of three areas with slanted borders and a hole, a city too large to *)
(* be told, two clients.                                                   *)
(***************************************************************************)
EXTENDS Server

R(x0, y0, x1, y1) == [x0 |-> x0, y0 |-> y0, x1 |-> x1, y1 |-> y1]
P(x, y) == [x |-> x, y |-> y]

MCLand == { R(-2, 1, 3, 2), R(1, 2, 7, 5), R(7, 0, 9, 7), R(2, 6, 3, 7), R(4, 7, 5, 11), R(9, 3, 14, 4) }
MCWater == { R(-2, -2, 9, 0), R(0, 5, 2, 9) }
MCSea == { R(-2, -2, 9, 0) }

MCPortAt == [p \in {P(-1, -1), P(2, 2), P(5, 3)} |-> CASE p = P(-1, -1) -> 0 [] p = P(2, 2) -> 1 [] OTHER -> 2]
MCPopulation == [p \in {P(2, 2), P(6, 7)} |-> IF p = P(2, 2) THEN 2 ^ 24 ELSE 2 ^ 25]
MCCityAt == [p \in {P(2, 2), P(6, 7)} |-> IF p = P(2, 2) THEN 0 ELSE 1]

MCShipAt == [i \in 1 .. 3 |-> P(i, i)]
MCShipOf == [k \in 1 .. 3 |-> IF k = 3 THEN 9 ELSE k]
MCRouteLength == [i \in {1, 9} |-> 3]

\* two areas that meet at corner c, and a lake in the left one
Shore == <<P(1, 4), P(3, 2), P(3, 6), P(1, 4)>>
Left(c) == [name |-> "left",
            rings |-> << <<P(0, 0), P(4, 0), c, P(3, 8), P(0, 8), P(0, 0)>>, Shore >>]
Right(c) == [name |-> "right", rings |-> << <<P(4, 0), P(9, 0), P(9, 8), P(3, 8), c, P(4, 0)>> >>]
Lake == [name |-> "lake", rings |-> <<Shore>>]
Map(c) == {Left(c), Right(c), Lake}
Strait == [name |-> "strait", rings |-> << <<P(4, 1), P(7, 1), P(7, 3), P(4, 3), P(4, 1)>> >>]

MCLayers == << {}, {Strait}, Map(P(6, 4)) >>

\* every point of every map with another corner
MCSurveyed == {Map(P(x, y)) : x \in 4 .. 8, y \in 1 .. 7} \X [x : 0 .. 9, y : 0 .. 8]

Key(x, y, m) == [xcc |-> x, ycc |-> y, msb |-> m]

\* what the buffer holds has all the fields, whichever of them the type uses
Flush == [type |-> "flush", at |-> P(2, 2), ex |-> 1, id |-> 0, key |-> 0,
          object |-> 0, chunk |-> Key(0, 0, 1)]
Ping(p, i, k) == [Flush EXCEPT !.type = "ping", !.at = p, !.id = i, !.key = k]
ChunkOf(o, k) == [Flush EXCEPT !.type = "chunk", !.object = o, !.chunk = k]

MCRequests ==
    [c1 |-> {Ping(p, 0, 1) : p \in {P(5, 4), P(2, 3), P(2, 4), P(5, 2)}} \cup
            {ChunkOf(1, k) : k \in {Key(1, 1, 0), Key(0, 0, 1), Key(1, 1, 1), Key(0, 0, 3)}} \cup
            {ChunkOf(o, Key(0, 0, 1)) : o \in {2, 3}} \cup {ChunkOf(3, Key(1, 1, 1))} \cup
            {[Flush EXCEPT !.type = "waypoints", !.key = 1], [Flush EXCEPT !.type = "cell"], Flush},
     c2 |-> {Ping(P(2, 2), 1, 1)}]

MCCommands == {[type |-> "spawn ship"], [type |-> "delete ship"]}
=============================================================================
