----------------------------- MODULE ChunkCache -----------------------------
(***************************************************************************)
(* The chunks of ports and of cities that clients keep.  A client asks     *)
(* over UDP for a chunk (a square of cells at one of several scales) with  *)
(* the timestamp of the copy it has; the server answers only if the chunk  *)
(* is newer.  seaport and city each keep a timestamp per chunk: the uptime *)
(* when it was first touched, incremented whenever it is touched again.    *)
(* Ports come and go, cities do not.                                       *)
(*                                                                         *)
(* The replies sent since the machine started are kept, so any of them may *)
(* be what some client has: requests and replies may be lost, repeated,    *)
(* delayed and reordered, and clients outlive the server.  They outlive    *)
(* the machine too: a request carries any timestamp at all.                *)
(*                                                                         *)
(* One coordinate is modelled; the other is treated alike.                 *)
(***************************************************************************)
EXTENDS Integers, FiniteSets

CONSTANTS
  Point,       \* the cells where ports may be
  City,        \* the cells of the cities in cities.dat
  Extent,      \* LNGLAT_SEA_PING_EXTENT_IN_CELL_PIXELS, 16 in the code
  PingMax,     \* log2 of LNGLAT_VIEW_SCALE_PING_MAX, 6 in the code
  RequestKey,  \* the chunk keys that clients ask for
  MaxClock     \* bound of the model: no port commands or restarts beyond

ASSUME ChunkAssumption ==
  /\ Point \subseteq Nat /\ IsFiniteSet(Point)
  /\ City \subseteq Nat /\ IsFiniteSet(City)
  /\ Extent \in Nat \ {0} /\ Extent % 2 = 0
  /\ PingMax \in Nat
  /\ \A msb \in 0..PingMax : 2 ^ msb \in Nat \ {0}
  /\ RequestKey \subseteq [cc : Nat, msb : Nat]
  /\ MaxClock \in Nat

VARIABLES
  rtree,          \* the cells that have a port, or a city; kept in two files
  chunk_key_ts,   \* for each of the two, chunk key -> timestamp
  clock,          \* the uptime of the machine
  sent            \* history: the replies since the machine started

vars == <<rtree, chunk_key_ts, clock, sent>>

Layer == {"port", "city"}   \* static_object 2 and 3 of a request
Cell == Point \cup City

-----------------------------------------------------------------------------
(***************************************************************************)
(* Chunks and their keys (lwlnglat.h).  A chunk of scale 2^msb is centred  *)
(* on a multiple of its width.                                             *)
(***************************************************************************)
Width(msb) == Extent * 2 ^ msb
HalfWidth(msb) == Width(msb) \div 2

AlignedChunkIndex(cell, msb) ==
  ((cell + HalfWidth(msb)) \div Width(msb)) * Width(msb)

ChunkKey(cell, msb) == [cc |-> AlignedChunkIndex(cell, msb) \div Width(msb),
                        msb |-> msb]

\* The keys that update_chunk_key_ts touches, one for each scale.
HomeKeys_AllButLast(cell) ==   \* mutant: `while (view_scale > 1)'
  {ChunkKey(cell, msb) : msb \in 1..PingMax}
HomeKeys(cell) == {ChunkKey(cell, msb) : msb \in 0..PingMax}

\* The chunk that a request is answered with: its scale is clamped.
Served(key) == [cc |-> key.cc, msb |-> IF key.msb > PingMax THEN PingMax ELSE key.msb]

\* The query's box is closed on both sides.
Covered(key) ==
  {cell \in Cell :
     /\ Served(key).cc * Width(Served(key).msb) - HalfWidth(Served(key).msb) <= cell
     /\ cell <= Served(key).cc * Width(Served(key).msb) + HalfWidth(Served(key).msb)}

Contents(layer, key) == rtree[layer] \cap Covered(key)

Reply == [layer : Layer, asked : RequestKey, ts : Nat, cells : SUBSET Cell]

AllHomeKeys(cells) == UNION {HomeKeys(cell) : cell \in cells}

\* A timestamp of 0 stands for no timestamp, so none that is kept is 0.
TypeOK ==
  /\ rtree \in [Layer -> SUBSET Cell]
  /\ rtree["port"] \subseteq Point
  /\ DOMAIN chunk_key_ts = Layer
  /\ \A layer \in Layer :
        /\ DOMAIN chunk_key_ts[layer] \subseteq AllHomeKeys(Cell) \cup RequestKey
        /\ chunk_key_ts[layer] \in [DOMAIN chunk_key_ts[layer] -> Nat \ {0}]
  /\ clock \in Nat
  /\ sent \subseteq Reply

-----------------------------------------------------------------------------
(***************************************************************************)
(* The uptime is in nanoseconds: it passes by at least one unit while a    *)
(* command is handled.                                                     *)
(***************************************************************************)
Touched_Twice(ts, keys) ==   \* mutant: a new entry is incremented too
  [key \in DOMAIN ts \cup keys |->
     IF key \notin DOMAIN ts THEN clock + 2
     ELSE IF key \in keys THEN ts[key] + 1 ELSE ts[key]]
Touched(ts, keys) ==
  [key \in DOMAIN ts \cup keys |->
     IF key \notin DOMAIN ts THEN clock + 1
     ELSE IF key \in keys THEN ts[key] + 1 ELSE ts[key]]

TouchPorts(keys) ==
  chunk_key_ts' = [chunk_key_ts EXCEPT !["port"] = Touched(@, keys)]

\* seaport::spawn on a free point, and despawn.  The point of the id that is
\* deleted is in the tree (PointsIndexed of Ports).
Spawn(point) ==
  /\ clock < MaxClock
  /\ point \notin rtree["port"]
  /\ rtree' = [rtree EXCEPT !["port"] = @ \cup {point}]
  /\ TouchPorts(HomeKeys(point))
  /\ clock' = clock + 1
  /\ UNCHANGED sent

Despawn(point) ==
  /\ clock < MaxClock
  /\ point \in rtree["port"]
  /\ rtree' = [rtree EXCEPT !["port"] = @ \ {point}]
  /\ TouchPorts(HomeKeys(point))
  /\ clock' = clock + 1
  /\ UNCHANGED sent

\* The constructors touch the chunks of each port, then of each city, of the files.
Touches(cells, key) == Cardinality({cell \in cells : key \in HomeKeys(cell)})

Constructed(cells, now) ==
  [key \in AllHomeKeys(cells) |-> now + Touches(cells, key)]

StartAt(now) ==
  /\ chunk_key_ts' =
       [layer \in Layer |->
          Constructed(rtree[layer],
                      IF layer = "port" THEN now ELSE now + Cardinality(rtree["port"]))]
  /\ clock' = now + Cardinality(rtree["port"]) + Cardinality(rtree["city"]) + 1
  /\ UNCHANGED rtree

Restart == clock < MaxClock /\ StartAt(clock) /\ UNCHANGED sent

\* The machine starts anew, and with it its uptime.
Reboot == StartAt(0) /\ sent' = {}

(***************************************************************************)
(* A request for a chunk.  A chunk of ports that nothing touched since the *)
(* start gets the present as its timestamp; one of cities has none.  The   *)
(* reply carries the timestamp of the chunk it shows, which is another one *)
(* if the scale was clamped.                                               *)
(***************************************************************************)
TsOf(layer, key) ==
  IF key \in DOMAIN chunk_key_ts[layer] THEN chunk_key_ts[layer][key] ELSE 0

Latest(layer, key) ==
  IF layer = "port" /\ TsOf(layer, key) = 0 THEN clock + 1 ELSE TsOf(layer, key)

\* The timestamp in a reply, of the chunk that it shows.
ShownTs(layer, key) ==
  IF Served(key) = key THEN Latest(layer, key) ELSE TsOf(layer, Served(key))

\* The reply, if a client that has the timestamp ts gets one.  It holds up to 128
\* ports or cities; the model has no chunk with more.
Answer(layer, key, ts) ==
  IF Latest(layer, key) > ts
    THEN {[layer |-> layer, asked |-> key,
           ts |-> ShownTs(layer, key), cells |-> Contents(layer, key)]}
    ELSE {}

PingPorts_Reads(key, ts) ==   \* mutant: the look-up is a [], which makes an entry of 0
  /\ chunk_key_ts' = [chunk_key_ts EXCEPT !["port"] =
                         [k \in DOMAIN @ \cup {key} |-> TsOf("port", k)]]
  /\ sent' = sent \cup Answer("port", key, ts)
  /\ UNCHANGED <<rtree, clock>>
PingPorts(key, ts) ==
  /\ TouchPorts({key} \ DOMAIN chunk_key_ts["port"])
  /\ clock' = IF TsOf("port", key) = 0 THEN clock + 1 ELSE clock
  /\ sent' = sent \cup Answer("port", key, ts)
  /\ UNCHANGED rtree

PingCities(key, ts) ==
  /\ sent' = sent \cup Answer("city", key, ts)
  /\ UNCHANGED <<rtree, chunk_key_ts, clock>>

\* A client asks with nothing, with what a reply told it, or with a timestamp
\* from before a reboot: all that are ahead of the clock are answered alike.
Request ==
  \E key \in RequestKey, ts \in 0..(clock + 1) : PingPorts(key, ts) \/ PingCities(key, ts)

\* The file of cities is filled once, when it is found empty: if the process was
\* killed while it did so, a part of them is there for ever.
Init ==
  /\ \E left \in SUBSET City :
       rtree = [port |-> {}, city |-> IF left = {} THEN City ELSE left]
  /\ chunk_key_ts = [port |-> Constructed({}, 0), city |-> Constructed(rtree["city"], 0)]
  /\ clock = Cardinality(rtree["city"]) + 1
  /\ sent = {}

Next ==
  \/ \E point \in Point : Spawn(point) \/ Despawn(point)
  \/ Restart
  \/ Reboot
  \/ Request

Spec == Init /\ [][Next]_vars

-----------------------------------------------------------------------------
\* What a client has: a reply of this start of the machine, or nothing.
Copies == sent \cup [layer : Layer, asked : RequestKey, ts : {0}, cells : {{}}]

\* The cells that are a chunk's own: all that it shows but its upper border,
\* which the next chunk shows too.
Own(key) ==
  {cell \in Covered(key) : cell # key.cc * Width(key.msb) + HalfWidth(key.msb)}

\* A client whose copy of a chunk differs from the chunk in the chunk's own
\* cells gets a new one when it asks again, and one that has none is shown what
\* there is: the timestamp of the copy is older than the chunk's.  It says that
\* no edit, restart, first request, lost or repeated packet lets an outdated
\* copy pass for the present one (udp_server.cpp:552-554 wants the timestamps
\* to "invalidate client cache data if needed"), and that no city is in a chunk
\* without a timestamp.  It speaks of the scales that are served: the key of a
\* larger one is not that of the chunk which its reply shows.
StaleIsRefreshed ==
  \A copy \in Copies :
    /\ copy.asked.msb <= PingMax
    /\ copy.cells \cap Own(copy.asked) # rtree[copy.layer] \cap Own(copy.asked)
    => copy.ts < Latest(copy.layer, copy.asked)

\* A chunk's timestamp is never ahead of the clock, although every edit
\* increments it: it is why the present, used for a chunk that nothing touched
\* since a restart, is newer than any copy of before.
NeverAhead ==
  /\ \A layer \in Layer : \A key \in DOMAIN chunk_key_ts[layer] :
        chunk_key_ts[layer][key] <= clock
  /\ \A reply \in sent : reply.ts <= clock
=============================================================================
