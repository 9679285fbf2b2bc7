------------------------------- MODULE Cells -------------------------------
(***************************************************************************)
(* What a client is shown (udp_server.cpp, sea_static.cpp, region.cpp,     *)
(* seaarea.cpp): the land, ports and cities of a chunk as scaled offsets   *)
(* from its centre, the name of the area around it, the ships near it, and *)
(* what is in a single cell.  The answers only read: the world is constant *)
(* here, and an answer that may be cut or found in any order is a set of   *)
(* possible answers.                                                       *)
(***************************************************************************)
EXTENDS Rects, FiniteSets, Sequences, FiniteSetsExt

CONSTANTS
    Extent,         \* LNGLAT_SEA_PING_EXTENT_IN_CELL_PIXELS
    MaxScale,       \* LNGLAT_VIEW_SCALE_PING_MAX
    MaxRects,       \* the rectangles an answer holds
    MaxPlaces,      \* the ports or the cities an answer holds
    MaxShips,       \* the ships an answer holds
    MaxWaypoints,   \* the waypoints an answer holds
    Land, Water, Sea,       \* rectangles; Sea are those of Water that are marked
    PortAt, CityAt,         \* the points of ports and cities, with their ids
    ShipAt,                 \* the ids of the ships, with their points
    ShipOf,                 \* the keys of the web server, with the ids they lead to
    RouteLength,            \* the ids of the ships on a route, with its waypoints
    Population,     \* the cities' points, with how many live there
    Layers,         \* intersect_, eezland_ and seaarea_: sequences of areas
    Rounding        \* how far the rounding of a quotient may move an edge

Scales == {2 ^ i : i \in 0 .. 6}

ASSUME CellsAssumption ==
    /\ Extent \in {2 ^ i : i \in 1 .. 5} /\ MaxScale \in Scales
    /\ {MaxRects, MaxPlaces, MaxShips, MaxWaypoints} \subseteq Nat \ {0}
    /\ Land \cup Water \subseteq Rectangle /\ Sea \subseteq Water
    /\ IsFiniteSet(Land)
    /\ \A r, s \in Land : r # s => Apart(r, s)
    /\ DOMAIN PortAt \cup DOMAIN CityAt \subseteq Point
    /\ Population \in [DOMAIN CityAt -> Int]
    /\ Rounding \in Nat

----------------------------------------------------------------------------
(* Chunks.  A chunk's key is its centre in units of its size. *)

\* LWTTLCHUNKKEY; the scale has four bits
ChunkKey == [xcc : Nat, ycc : Nat, msb : 0 .. 15]

Clamp(v, lo, hi) == IF v < lo THEN lo ELSE IF v > hi THEN hi ELSE v

\* 1 << view_scale_msb, clamped
ScaleOf(key) == Clamp(2 ^ key.msb, 1, MaxScale)

Chunk(key) ==
    [x |-> key.xcc * Extent * ScaleOf(key), y |-> key.ycc * Extent * ScaleOf(key),
     scale |-> ScaleOf(key)]

Half(k) == (Extent \div 2) * k.scale

ChunkBox(k) ==
    [x0 |-> k.x - Half(k), y0 |-> k.y - Half(k), x1 |-> k.x + Half(k), y1 |-> k.y + Half(k)]

\* Mutant: the pixel goes to the nearest multiple of the scale.
Scaled_Nearest(c, s) == ((c + s \div 2) \div s) * s

\* c & ~(s - 1)
Scaled(c, s) == (c \div s) * s

\* aligned_scaled_offset, with and without its clamp
Offset(c, base, s) == (Scaled(c, s) - base) \div s
ClampedOffset(c, base, k) == Clamp(Scaled(c, k.scale) - base, -Half(k), Half(k)) \div k.scale

----------------------------------------------------------------------------
(* Land. *)

Shrunk(r, k) ==
    [x0 |-> ClampedOffset(r.x0, k.x, k), y0 |-> ClampedOffset(r.y0, k.y, k),
     x1 |-> ClampedOffset(r.x1, k.x, k), y1 |-> ClampedOffset(r.y1, k.y, k)]

Degenerate(r) == r.x0 >= r.x1 \/ r.y0 >= r.y1

LandNear(k) == {r \in Land : Touch(r, ChunkBox(k)) /\ ~Degenerate(Shrunk(r, k))}

\* as many as an answer holds; the query's order decides which
Cut(S, n) == kSubset(Min({Cardinality(S), n}), S)

LandAnswers(k) == {[k |-> k, rects |-> {Shrunk(r, k) : r \in S}] : S \in Cut(LandNear(k), MaxRects)}

----------------------------------------------------------------------------
(* Ports and cities; the query's box is closed on all sides. *)

Near(k, at) == {p \in DOMAIN at : Touch([x0 |-> p.x, y0 |-> p.y, x1 |-> p.x, y1 |-> p.y], ChunkBox(k))}

Place(p, k) == [x |-> Offset(p.x, k.x, k.scale), y |-> Offset(p.y, k.y, k.scale)]

PlaceAnswers(k, at) ==
    {[k |-> k, of |-> S, places |-> {Place(p, k) : p \in S}] : S \in Cut(Near(k, at), MaxPlaces)}

\* A city's population is told as a level of one byte, and the conversion of one
\* that does not fit throws.
Level(p) == Population[p] \div 2 ^ 17
Tellable(a) == \A p \in a.of : Level(p) \in 0 .. 255

----------------------------------------------------------------------------
(* Ships. *)

\* query_near_lng_lat_to_packet
ShipsNear(p, ex) ==
    {i \in DOMAIN ShipAt : ShipAt[i].x - p.x \in -ex .. ex /\ ShipAt[i].y - p.y \in -ex .. ex}

\* get_object_by_type: the ships under a key, at most one
ShipsUnder(key) == {i \in DOMAIN ShipAt : key \in DOMAIN ShipOf /\ ShipOf[key] = i}

\* find_route_map_by_ship_id
RoutesUnder(key) == ShipsUnder(key) \cap DOMAIN RouteLength

\* send_dynamic_state: ships near the point, and whether they are on a route
ShipAnswers(p, ex) ==
    {[ships |-> {[id |-> i, routed |-> i \in DOMAIN RouteLength] : i \in S}] :
        S \in Cut(ShipsNear(p, ex), MaxShips)}

\* send_track_object_coords: the id that was asked for if its ship is found,
\* and no answer if both were given; 0 is none
Tracked(id, key) ==
    CASE id # 0 /\ key # 0 -> {}
      [] id # 0 /\ key = 0 -> {[id |-> IF id \in DOMAIN ShipAt THEN id ELSE 0]}
      [] OTHER -> {[id |-> IF ShipsUnder(key) # {} THEN key ELSE 0]}

\* send_waypoints: none if the key's ship is gone or on no route
WaypointAnswers(key) ==
    {[key |-> key, count |-> Min({RouteLength[i], MaxWaypoints})] : i \in RoutesUnder(key)}

----------------------------------------------------------------------------
(* Areas: a name and the rings of a polygon, each ending where it begins. *)

\* The edge from a to b passes the height of p.
Straddles(a, b, p) == (a.y > p.y) # (b.y > p.y)

\* How far to the right of p it does so, in units of its own height.  The
\* quotient of the code is multiplied out, which turns it if b is below a.
Ahead(a, b, p) ==
    LET d == (b.x - a.x) * (p.y - a.y) - (p.x - a.x) * (b.y - a.y)
    IN  IF b.y > a.y THEN d ELSE -d

\* Mutant: a corner at the height of the point counts for both its edges.
Crosses_Twice(a, b, p) == (a.y >= p.y) # (b.y > p.y) /\ Ahead(a, b, p) > 0

\* The edge crosses the ray from p to the right.
Crosses(a, b, p) == Straddles(a, b, p) /\ Ahead(a, b, p) > 0

\* The code computes the quotient in floating point, for the two directions of
\* a border between two areas by two computations.  Where the edge is as close
\* to p as rounding goes, p may turn out on either side of it, unless nothing
\* is rounded: on an upright edge, and level with the edge's first end.
Doubtful(a, b, p) ==
    /\ Straddles(a, b, p)
    /\ a.x # b.x /\ a.y # p.y
    /\ LET height == IF b.y > a.y THEN b.y - a.y ELSE a.y - b.y
       IN  Ahead(a, b, p) \in -(Rounding * height) .. Rounding * height

Edges(area) ==
    UNION {{<<area.rings[i][j], area.rings[i][j + 1]>> : j \in 1 .. (Len(area.rings[i]) - 1)} :
              i \in DOMAIN area.rings}

\* contains_point_in_polygon, what it may return: a part counts as a hole in
\* another.  (No two edges of an area are the same.)
ContainsPoint(area, p) ==
    IF \E e \in Edges(area) : Doubtful(e[1], e[2], p) THEN BOOLEAN
    ELSE {Cardinality({e \in Edges(area) : Crosses(e[1], e[2], p)}) % 2 = 1}

\* bgi::contains of a point, which a border does not contain
InBox(area, p) ==
    LET corners == UNION {Range(area.rings[i]) : i \in DOMAIN area.rings}
    IN  /\ \E a, b \in corners : a.x < p.x /\ p.x < b.x
        /\ \E a, b \in corners : a.y < p.y /\ p.y < b.y

\* the areas that certainly contain a point, and those that may
Claims(layer, p) == {area \in layer : InBox(area, p) /\ ContainsPoint(area, p) = {TRUE}}
MayClaim(layer, p) == {area \in layer : InBox(area, p) /\ TRUE \in ContainsPoint(area, p)}

NoName == "none"

\* region::query_tree: the first layer that has an area there, and in it the
\* first area that is found
AreaAnswers(p) ==
    LET claimed == {i \in DOMAIN Layers : Claims(Layers[i], p) # {}}
        reached == {i \in DOMAIN Layers : \A j \in claimed : i <= j}
        found == UNION {{a.name : a \in MayClaim(Layers[i], p)} : i \in reached}
    IN  [at : {p}, name : IF claimed = {} THEN found \cup {NoName} ELSE found]

----------------------------------------------------------------------------
(* A single cell. *)

Attributes(p) ==
    {a \in {"land", "water", "sea"} :
        \E r \in (CASE a = "land" -> Land [] a = "water" -> Water [] a = "sea" -> Sea) : Holds(r, p)}

\* -1 is none
Found(at, p) == IF p \in DOMAIN at THEN at[p] ELSE -1

CellAnswers(p) == {[attr |-> Attributes(p), port |-> Found(PortAt, p), city |-> Found(CityAt, p)]}
=============================================================================
