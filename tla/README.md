# sea-server: specification, model checking and proofs

This directory is the verification project of sea-server, the server of an
online world of ships and ports. The server is a single process with a single
thread: one `io_service.run()` (`sea_server.cpp`) executes every timer handler
and every datagram handler to its end before the next, so a handler is one
atomic step of the specifications. What makes it hard is not parallelism but
what lies *between* handlers: five seconds of a docking during which ids are
reused, ports deleted and routes replaced; replies that reach clients in any
order; a file of ports that outlives the process and maps that do not. The
repository also holds LZ4, which compresses every larger reply; its streams and
frames, whose histories move between buffers, are modelled too.

1. [The system](#1-the-system)
2. [Modules](#2-modules)
3. [What the runs check](#3-what-the-runs-check)
4. [Bounds](#4-bounds) and [fairness](#5-fairness)
5. [Findings and disagreements](#6-findings-and-disagreements)
6. [What is proved](#7-what-is-proved)
7. [Abstractions, and what is not modelled](#8-abstractions-and-what-is-not-modelled)
8. [What could be added](#9-what-could-be-added)

## 1. The system

| component | state | operations | talks to |
|---|---|---|---|
| `sea` (`sea.cpp`) | ships by id; web-server key to id; guid to id; r-tree of positions | spawn by key and by guid, despawn, travel, teleport, `update` (free travel), `update_route` (routes and docking) | routes of `udp_server`, cargo of `seaport`, two timers per docking |
| `sea_object` | state (sailing, unloading, loading), hold, cargo origin, position, velocity, destination | `add_cargo`, `remove_cargo`, `set_xy` | the r-tree, by `set_xy` |
| `route` | way points, `param`, direction | `update`, `reverse`, `get_pos`, `get_docked_seaport_id` | shared by the route map and by timer handlers |
| `seaport` (`seaport.cpp`) | persistent r-tree of ports; maps from the id to point, name, owner, waiting, unloaded and loaded cargo; chunk timestamps | spawn, name, despawn, `add_cargo`, `remove_cargo`, one-second conversion, chunk queries | its file outlives the process |
| `city` (`city.cpp`) | cities (read only) | one-second cargo production for the ports near each city | `seaport::add_cargo` |
| `udp_admin_server` | socket, receive buffer, remote end point | commands 1 to 8 of the web server: spawn, travel, teleport, ship and port commands | `sea`, `seaport`, `udp_server::set_route` |
| `udp_server` | route map, client end points with the time of their last ping, socket, receive buffer, remote end point | the 75 ms tick, client requests for cells, chunks and way points, gold notifications, expiry of end points | all of the above |
| `region`, `seaarea` | polygons of areas in memory-mapped files | the area around a point | asked by `udp_server` |
| `sea_static` | r-trees of land and water rectangles, the set of marked sea rectangles | marks the sea at the start, snaps pixels, computes way points | A* |
| `AStar.c`, `astarrtree.cpp` | the records and the heap of one search | path over rectangles, then over pixels | callbacks into each other |
| lz4 blocks (`lz4.c`, `lz4hc.c`) | hash tables and chains of positions, the dictionary they point into; where the decoder's history is | compress, compress to fill a destination, streams, dictionaries loaded and saved; decompress in full, in part, with a history elsewhere | `udp_server` and `udp_admin_server` call the block functions |
| lz4 frames (`lz4frame.c`) | a context on each side with buffers that hold history and incomplete blocks | begin, update, flush, end; decompress any piece into any room | the block functions |
| `tcp_server`, line clipping, lz4's programs, xxhash | none | I/O, arithmetic | nothing |

How they interact: the web server's command 4 spawns a ship (`sea`), asks
`sea_static` for way points between two ports (`seaport`) and gives the ship a
route (`udp_server`). Every 75 ms the tick moves the routed ships. One that
arrives docks: `sea::update_route` arms a five-second timer whose handler
unloads the ship into the port and arms it again; the second handler loads,
reverses the route and lets the ship sail. Both handlers captured the ship's
*id* and the *route object*, and look the ship up again by id.

What makes each part correct, and what is hard about it:

* **Docking** (interleaving, stale captures, liveness): no ship is stuck in the
  dock; a ship docks once at a time, at the right end, and carries only cargo of
  the other end; no handler loses or creates cargo.
* **Registries** (id reuse, partial updates, restart): all maps and trees that
  refer to one ship or port agree; nothing of a deleted one is left to the next
  of its id. Both registries use *size + 1* or *size* as the next id, so a
  deletion makes the ids of live objects come up again.
* **Chunk cache** (lost, repeated, reordered datagrams, restart): a client's
  outdated copy never passes for the present one.
* **Servers** (one buffer and one end point for all datagrams, sends that outlive
  their handler, receive errors, expiry): an answer goes to who asked and says
  what the world is, a live client is not dropped, a datagram is handled.
* **Compression** (histories that are overwritten or moved, copies in steps of
  eight bytes, any split of input and output): what is decoded is what was
  encoded, no copy leaves its buffer, the promised bounds suffice.
* **Search** (mutable heap, re-opened nodes): the heap and the records agree,
  no way is overlooked, a path that is returned is one, and the search ends.
* **Way points** (geometry at boundaries, keys that a callback changes): no
  relation of rectangles reaches an `abort()`, the ship never leaves the sea.

`PROJECT.json` lists under `hazards` each place where one of these bites, with
the property that watches it.

## 2. Modules

| module | models | composed of |
|---|---|---|
| `Cargo` | the clamping arithmetic of all holds and stores | |
| `Ports` | the four maps of `seaport` that ships depend on, with every operation on them, and the production of `city` | `Cargo` |
| `Seaport` | class `seaport`: `Ports` with names, owners, loaded counts, under every command, call, timer and restart | `Ports` |
| `Voyage` | ships, routes, the two docking timers, the tick and the commands, over the ports | `Ports` |
| `Ferry` | the abstract promise of a ship on a route: sail, unload, load, at alternating ends | implemented by `Voyage` |
| `Sea` | class `sea`: ids, keys, guids, r-tree, destinations; the guid commands | |
| `ChunkCache` | chunk keys of ports and of cities, timestamps, replies, lost and repeated datagrams, restarts | |
| `AStar` | `ASPathCreate` step by step, with its indexed heap | |
| `WaterPath` | the flood of `mark_sea_water`, snapping, the neighbours of both searches | `Rects`; uses what `AStar` guarantees |
| `Rects` | rectangles of pixels as the r-trees hold them | |
| `Cells` | what each answer of `udp_server` shows: land, ports, cities, ships, area, single cell | `Rects` |
| `Server` | the receive loops, handlers, sends and end points of both UDP servers | `Cells` |
| `Lz4Format` | the limits of a block and a block as its sequences | |
| `Lz4Fast` | the fast compressor and its streams (`lz4.c`) | `Lz4Format` |
| `Lz4HC` | the high compressors and their streams (`lz4hc.c`) | `Lz4Fast` |
| `Lz4Decode` | the decompressor and its streams (`lz4.c`) | `Lz4Format` |
| `Lz4Stream` | programs that send blocks through rings, double buffers, dictionaries | `Lz4HC`, `Lz4Decode` |
| `Lz4fCompress` | the compressing half of `lz4frame.c` | `Lz4HC` |
| `Lz4fDecompress` | its decompressing half | `Lz4Decode` |
| `Lz4Frames` | programs that send frames in pieces | `Lz4fCompress`, `Lz4fDecompress` |
| `Lz4` | either kind of program, and the properties | `Lz4Stream`, `Lz4Frames` |

**Voyage.** `sea_objects`, `sea_object_id_by_type`, `route_map` and `routes` are
the maps of the code; a route object has an abstract name, so that sharing
between the route map and a handler is visible, and disappears with its last
reference as a `shared_ptr` does. `timers` is the set of pending deadline timers,
each with what its handler captured. `Tick` is `udp_server::update` with
`update_route` for every ship; `UnloadDone` and `LoadDone` are the two lambdas of
`sea.cpp:281-341`; `TimerOfMissingShip` is their early return. The timers of
different ships may fire in any order, since each runs on the settable wall
clock. `issued` and `reused` are history variables: some promises hold only for
ships whose id was handed out once, and the properties say so by `Owned`.

**Ports, Seaport.** A hash map is a function whose domain is its set of keys.
The tree is what survives `Restart`. The constructor (`PortsInit`, `RestartPorts`)
keeps of the values at one point the first that its iteration meets and removes the
others from the tree (`Surviving`), and rebuilds `id_point` from those it keeps;
the order is the tree's and left open, which matters once values share a point or an
id. `Seaport` starts from any file made of `OldPort`, whose values share points
and ids as the disabled dump of `seaport.cpp:31-37` left them. Actions are the
public methods; the delayed conversion and the city's pass are actions of their
own because they are timers of their own.

**Sea.** The r-tree is a bag of (id, position); a removal takes out one equal
value *if there is one*, which is what makes stale values possible. `Tick` is the
whole of `sea::update` followed by the part of `update_route` that moves ships.

**ChunkCache.** `rtree` and `chunk_key_ts` are pairs, of `seaport` and of `city`,
whose code is alike; cities are never edited, and a city chunk without a timestamp
gets none by being asked for. `sent` keeps every reply since the machine started; a
request carries any timestamp at all. This covers loss, delay, duplication,
reordering, clients that outlive the server (`Restart`) and those that outlive the
uptime (`Reboot`: the clock starts anew, and what clients had is only present as
arbitrary timestamps). A chunk shows the cells of a closed interval (`Covered`), while
an edit touches one chunk per scale: `Own` leaves out the upper border. The file of cities
may hold any part of them from the start, as a kill during its first filling
leaves it. A reply has room for 128 objects; chunks with more are not modelled.

**AStar.** One action per loop iteration; the neighbour lists are chosen when a
node is expanded (the callbacks compute them then) and then fixed for that node.

**WaterPath.** `sea`, `visited`, `frontier` are the sets of the flood. A request
snaps its ends (`Snapped`), picks a rectangle path one neighbour at a time
(`ExtendCells`, *some* path or none: what `AStar` promises), then walks pixels.
`Listed` includes what `AddNeighborWithLog` does when an entrance is its own
exit: the callback changes the node it is expanding. `Records` is the look-up by
pixel alone, which may return the entrance or the exit record of one pixel.

**Ferry** is what a client can rely on, without timers, route objects or maps.
`Voyage` implements it by the mapping `FerryOf`: the phase is the ship's state,
the end is the one at which the route's position and direction say it is or will
be, and only ships whose id is their own are ferries. Ships that share an id may
do anything; the ferries next to them may not notice.

**Server.** A behaviour is one of either server; they share the thread and nothing
else that is modelled here. A datagram goes through `inbox` (the kernel), `remote`
and `buffer` (the members that the next receive overwrites), `asked` (a ghost: the
datagram whose handler runs) and `todo` (the calls the handler has still to make).
The handler is split at its calls so that a receive that is armed too early could
be seen to overwrite the members; in the code it is not armed. `Send` performs a
prefix of the sends and queues the rest, which keep their destination and lose
their bytes, since `async_send_to` was given a pointer into a stack frame.
`Crash` loses everything, and so does `Throw`: a city whose population does not fit the
byte of an answer ends `main` by an exception (`udp_server.cpp:459`,
`sea_server.cpp:56`). `silence` is a ghost that remembers the last handled
ping independently of the map of end points.

**Cells.** Every answer is a function from the constant world to the set of
answers that the code may give: several where the r-tree's order decides what is
cut. `Scaled` rounds as the code's integer arithmetic does, for seven scales in the
code and three in the run; `ContainsPoint` is the ray cast of `seaarea.cpp` with its
asymmetric comparisons. The code divides in floating point, and two areas
that share a slanted border compute its crossing from opposite ends: where the exact
crossing is within `Rounding` of the point (`Doubtful`), each area may answer either
way, independently. The comparisons of latitudes, an upright edge and a point level
with the first end of the edge involve no rounded quotient. `Claims` are the areas that
certainly hold a point, `MayClaim` those that may.

**LZ4.** Memory is an array of bytes, addresses are numbers, and the copies write
what the code writes, including the bytes past the end that a later copy
overwrites. A block is kept as its sequences with the sizes they would have; a
checksum is what it was computed from. The search for matches is modelled with
the table or the chains as they are, stale entries included. One step is one
round of a search, one sequence, or one stage of the frame decoder. Wherever the
code's behaviour depends on 64 KB, `Window` stands for it.

The map from each definition to its source lines is `map` in `PROJECT.json`.

## 3. What the runs check

Every `MC*.tla` module gives the constants of one component's instances. All
numbers are those of TLC's complete searches.

| run | instance | shows |
|---|---|---|
| `VoyageReuse` | one ship id, two keys, two ports, up to two timers, routes of two lengths; 143 182 states | `NeverStranded`; under fairness `LeavesDock`, `VoyagesContinue` |
| `VoyageCollide` | two ship ids under two keys, shared ports, ports re-named; 2.4 million states with symmetry | a collision of ids hurts only the ships that share the id: `OneDocking`, `DockedAtEnd`, `CargoFromOtherEnd`, and `ActsAsFerry`: the server implements `Ferry` |
| `VoyageCargo` | one ship, a city, all commands and restarts; 441 908 states | `NoCargoFromNowhere`, `DockingConserves` |
| `Seaport` | two points, two ids, two cities, stores that overflow, files whose ports share points and ids; 207 999 states | `PointsDistinct`, `PointsIndexed`, `NothingInherited`, `LoadsAreCounted`, `ConversionConserves` |
| `SeaRegistry` | two ids, keys, guids, positions; 68 191 states | `ShipsIndexed`, `OneValueEach`, `KeysAgree`, `DestinationKnown` |
| `ChunkCache` | two points, two cities, one of the points on a border, two scales and one that is not served, any timestamp, restarts and reboots, six ticks of the clock; 339 356 states | `StaleIsRefreshed`, `NeverAhead` |
| `AStar` | all graphs of a family over six nodes, with cycles, free edges and a misleading estimate; 551 702 states | `HeapIndexed`, `Relaxed`, `PathSound`, `NoPathIsMissed`, `SearchEnds` |
| `WaterPath` | eight rectangles, all pairs of 72 pixels; 8 467 states | `NeverAborts`, `SnappedInWater`, `SeaIsComponent`, `StaysInSea`, and no dead end |
| `Server` | both servers, two clients with 15 kinds of requests, a world whose land, ports and areas lie on borders, and 35 maps of areas surveyed at 90 points each; 80 541 states | `AnswersGoHome`, `LandAsLastPixel`, `PlacesFit`, `OneArea`, `EndpointsCurrent`; under fairness `Served` |
| `Lz4` | a window of 24 bytes, 1 374 programs and jobs; 393 613 states | `RoundTrip`, `MatchesAreHistory`, `WritesFit`, `BoundsSuffice`, `FramesArrive` |
| `SeaOrphan`, `AStarHeap` | counterexamples | see section 6 |

What some of the properties say:

* `AnswersGoHome`: an answer that was sent or waits goes to the end point whose
  datagram it answers. `EndpointsCurrent`: a client that pinged within the expiry is
  never dropped, and a tick leaves no other. `Served`: a datagram that reached the
  socket is handled, unless the process ends or the admin server went deaf.
* `LandAsLastPixel`: a scaled cell is shown as land exactly if its last pixel is
  land, at every scale and next to every border; with too many rectangles cells may
  only be missing. `PlacesFit`: an offset is that of the scaled cell around the port
  and fits its byte. `OneArea`: where the areas tile the map, a point lies in exactly
  one, also level with corners, on upright borders and in the hole of another area;
  of a point so close to a slanted border that rounding decides, only that it lies in
  no third area. The survey asks this of every point of 35 maps, whatever is asked for.
* `PointsDistinct`: after every start, spawn and restart no two ports share a point,
  which is what the constructor aborts for. `NothingInherited`: an id without a port has
  no waiting or loaded count and no owner, and an unloaded count of at most an entry
  of 0, which the conversion makes by reading.
* `StaleIsRefreshed`: a copy that differs from its chunk in the chunk's own cells is
  older than the chunk. `NeverAhead`: no timestamp is ahead of the uptime.
* `RoundTrip`: each block decodes to its message, with every capacity, level,
  compressor and decompressor, whatever the blocks before it left in the buffers.
  `MatchesAreHistory`: a match only refers to bytes that the receiver has.
  `WritesFit`: copies in steps of eight stay within the buffers, histories leave
  room for the next block. `BoundsSuffice`: `LZ4_compressBound` and
  `LZ4F_compressBound` are enough. `FramesArrive`: frames cut into any pieces and
  decoded into any room arrive; a frame is complete only with all its content, and
  damage is found.

For every property of a passing run `PROJECT.json` names a mutant: an operator in
the module that changes the code the way a slip would, under which TLC finds the
property violated.

Deadlock is checked wherever the system runs for ever. It is switched off
for `AStar`, where the search ends, for `Lz4`, where a program ends, and for
`Server`, which can always step. In `WaterPath` it is a property: no node of
the pixel search is without a neighbour.

## 4. Bounds

All bounds are constants, named as such where they are declared.

* `MaxShips`: two ids are enough for a ship to collide with another and for a
  third key to take part. `NeverStranded`, `OneDocking`, `DockedAtEnd` and
  `CargoFromOtherEnd` are proved for any number.
* `Slot`: timers pending for one id. Two in `VoyageReuse`, so that a timer of a
  deleted ship and one of its successor are pending together; with one, a reused
  ship may not dock until the old timer fired.
* `RouteLen` in {1, 2} ticks: shorter and longer than the overshoot.
  `MaxOvershoot` = 2 is what a ship overshoots (`DockedAtEnd` states it); more is
  only reached by ships that share a route object or a reused id.
* `MaxCargo`, `LoadLot`, `CityCargo`: 1 000 000, 10 and 10 in the code. Small values keep
  the order (a lot fits, two do not always) so that both clamps are reached.
  `MaxTotal` stops the city, `MaxLoaded`, `MaxUnloaded`, `MaxDeficit` the counters.
* `MaxCopies`: equal values in the r-tree of ships; two are needed for a stale
  value on top of a right one.
* `MaxClock`: after it no edits and restarts, but requests and reboots go on. The
  constructors take the first two or three ticks; the rest suffices to touch, delete
  and restart. A timestamp of a request is at most one ahead of the clock: all that are
  ahead are answered alike.
* `MaxVisited`: 1000 in the code, 6 in the run, so that the early exit fires.
* `MaxCells` = 5: rectangles of a path. The longest simple path on the map that
  matters (around its cycle) fits.

* `Server`: `Expiry` = 1 unit of time instead of three seconds, ages are counted to
  one unit beyond. `MaxQueue` = 1 datagram that waits while another is handled,
  `MaxUnsent` = 0 sends that wait when a handler *starts* (a handler adds up to four,
  a notification one per client). `Extent` = 4 cells and scales 1, 2 and 4 instead of
  16 and seven; the answers hold four rectangles and two places, so that the world's
  chunks overflow them or not. `Rounding` = 0: coordinates are integers of a small map, where
  floating point is exact to far less than a unit, so that only points exactly on a
  slanted border are doubtful. The run passes with 1, too, where whole strips are.
* `Lz4`: `Window` = 24 bytes for 64 KB, eight slots of the hash table, so that nearly
  every position collides; the table is rescaled above `MaxOffset` = 60 instead of
  2^31, or when the offset exceeds the address of the source, which begins at
  `Origin` = 30, so that both conditions of `lz4.c:1045-1046` occur. All the other limits of the format (12 bytes at the end without a match, 5
  literals, steps of eight, 18 bytes beyond a token) are those of the code. The
  messages are chosen for the branches: overlapping matches, runs beyond 255 + 15,
  every capacity from 6 to 34 bytes, rings that wrap in the middle of the dictionary,
  dictionaries shorter than four bytes. The pieces and rooms of the frames are
  smaller and larger than each header, block and checksum.

## 5. Fairness

`VoyageReuse` assumes weak fairness of `Tick` and of each pending timer's handler,
and `AStar` of its only thread. Justification: `udp_server::update` re-arms its
timer in its first statements before anything can fail; docking timers are held
by their own handlers, are cancelled by nothing, and each handler is posted once
the deadline passed. Nothing is assumed of the web server's commands, of the
one-second timers or of any client.

`Server` assumes that a handler that is due runs and goes on to its end, and that a
queued send is performed: io_service runs what is posted. Strong fairness of
`Receive` and `Handle` says that errors do not for ever keep an armed receive from
its datagrams, nor other handlers a due one: an error completes the receive, the
clients' server arms it again at once, and the socket still holds the datagram; the
handlers of one io_service run in the order in which they became due. Nothing is
assumed of arrivals, so loss needs no action of its own.

`LeavesDock` holds even for reused ids; `VoyagesContinue` is stated up to the
first reuse, because after it the bound on `param` could stop the model's tick.

## 6. Findings and disagreements

Checked as violation runs:

* **`SeaOrphan`** `sea::spawn` treats a guid whose ship is gone as an orphan
  (`sea.cpp:52`). `despawn` leaves the guid and ids come up again, so the guid
  leads to another ship, which travel and teleport then move.
* **`AStarHeap`** `AStar.c:72` calls `openNodes` a binary heap sorted by rank.
  Removing a node from the middle only sifts its replacement down, which may
  leave it below a higher parent. A node that is not the lowest may be taken
  later, so a path is valid (`PathSound`, `Relaxed`) but perhaps not cheapest.

Met while modelling, stated here without a run (other constants of the same
modules show those that say so):

* `sea.cpp:320` ignores the result of `add_cargo` after `remove_cargo` has taken the
  cargo from the port, and `sea.cpp:324` reports what the port gave as loaded. A ship
  that was spawned under the id of one deleted while loading has origin -1 when the
  old timer finds it, refuses the cargo, and the port's cargo is gone.
* `udp_server.cpp:552-554` wants timestamps to invalidate client copies. The query's
  box is closed, the chunk keys are half open: a port on a chunk's upper border is
  sent with it but its deletion does not touch it, so a client may keep it in the
  neighbour's copy. `StaleIsRefreshed` compares the chunk's own cells (`Own`) for this
  reason; with all that a chunk shows in their place `ChunkCache` violates it.
* `lz4.h:318-320` says that a decoder's ring of exactly the encoder's size "can have
  any size, including very small ones". `Lz4` with such rings violates `RoundTrip`
  for `LZ4_decompress_safe_continue`: the decoder copies in steps of eight beyond the
  end of a block, over history that the next block still refers to. The real code
  does the same when compiled and run. `LZ4_decompress_fast_continue`, which
  stops eight bytes short of the end, keeps the rule, and so do the rings of the run.
* The rule for a ring of its own size, "64 KB + 8 bytes + maxBlockSize", fails for the
  same reason; with 14 instead of 8 the run passes.
* `examples/blockStreaming_doubleBuffer.c` keeps two adjacent buffers; a block shorter
  than its buffer followed by one that is copied past its end damages the history.
* `lz4hc.c:647` adds the *whole* source to the stream, although
  `LZ4_compress_HC_continue_destSize` may use only a part of it (`lz4hc.h:251-258`). If the
  next block is shorter than the rest, later matches refer to bytes that were never
  sent. The run's programs go on with the rest (`layout = "follow"`) of full length.
* `LZ4F_resetDecompressionContext` (`lz4frame.c:958`) leaves `frameRemainingSize`, although
  `lz4frame.h:390-394` lets it "abruptly stop any unfinished decompression, and start a new one".
* `LZ4F_flush` asks for `tmpInSize + 4` bytes (`lz4frame.c:827`) and writes four more with
  block checksums; `LZ4F_compressEnd` writes its mark and checksum without a test.
* `seaport.cpp:181` uses the tree's size as the next port id, so that after a
  deletion two ports can share an id: they then share count, name and owner, and
  the older one can never be deleted. The properties of `Seaport` hold all the
  same, since they speak of what the maps agree on.
* After a restart the ports of the file have points but no cargo counts; they
  take and give nothing until they are named again (`seaport.cpp:41-58`, `220-231`).
* `convert_cargo` does not stop at `MAX_CARGO`, and `add_cargo` computes the
  change of the unloaded count from a clamped waiting count (`seaport.cpp:281-295`),
  so the count, a "cargo count" by `seaport.hpp:42`, can fall below zero.
  `DockingConserves` states its condition `UnloadedAt(port) >= 0` for this reason.
* Chunk timestamps come from the uptime of the *machine*: if that restarts, a
  client's old copy is newer than anything the server will send for a while. The
  `Reboot` of `ChunkCache` takes such copies out of what `StaleIsRefreshed` speaks of;
  the requests that carry their timestamps remain.
* A request for a scale above 2^6 is answered with the clamped scale's ports
  (`udp_server.cpp:535`) but dated by a key that no edit touches. The comment in
  `lwlnglat.h:26` allows for more scales than the clamp serves. For the same
  scales a chunk of cities has no timestamp and is never sent. `StaleIsRefreshed`
  leaves these scales out; the run asks for one of them.
* `seaarea.cpp:16-17` computes the crossing of an edge from the end that the area lists
  first. Two areas list a border that they share in opposite directions, so a point
  within a rounding error of a slanted border may be in both or in none, and a
  client there is told no name. `OneArea` says only that it is in no third area.
* `udp_server.cpp:459` casts a city's population, divided by 2^17, to a byte with a check that
  throws. Nothing catches it before `main`: a city of more than 33 million would end
  the server when its chunk is asked for. The largest of the repository's
  cities.dat is two thirds of that.
* `city.cpp:36` fills the file of cities only if it is empty: a kill in the middle
  leaves a part of them for ever.
* `sea_static.cpp:121` writes the marked sea straight to the file that the next
  start trusts: after a crash in between, a truncated set is taken as complete.

## 7. What is proved

Each `*_proofs` module holds the theorems of one component, for all values of the
constants under the named assumption in the component's module (`PortsAssumption`
and so on: finite sets of cities, positive numbers, rectangles that do not
overlap). The bounds of section 4 are parameters of the proofs, so the theorems
hold for any of them.

* **Voyage** (`Voyage_proofs`, which begins with `Ports` and `Seaport`): `TypeCorrect` and `NoStrandedShip`. `NeverStranded`
  is inductive with `TypeOK`: a ship enters the dock only with a timer, each
  handler that takes a timer away moves the ship on, and a ship that inherits an
  id may rely on its predecessor's timer.
* **Docking** (`Voyage_proofs`): `OneDockingAtATime`, `DocksAtTheEnd`,
  `CargoComesFromOtherEnd`. The properties are not inductive by themselves. The
  invariant `VoyageInv` adds `IdsIssued` (an id never handed out left no timer and
  no route), `RoutesApart` (a route object belongs to one ship) and, for every
  ship whose id is its own, `ShipOK`, which ties state, timer phase, position,
  direction and hold together. `ShipOK` mentions no variable: the lemmas say what
  spawning, sailing, docking, unloading and loading do to one ship's values, and
  the actions only distribute them.
* **Refinement** (`Voyage_proofs`): `ShipsAreFerries`, that `Voyage`
  implements `Ferry` under the mapping, for any number of ships, ports and timers.
  Initial states map to initial states; each action is a step of one ferry, a launch,
  or a stutter, by the same lemmas about one ship's values, and two ships never move
  in one step except in a tick, which the proof maps to the arrival of one set of
  ferries.
* **Cargo** (`Voyage_proofs`, end): `OnlyCitiesMakeCargo`, that no step but a city's
  production lets the cargo of ports and ships grow, and `DockingLosesNothing`, that
  the two handlers of a docking keep the total, if the ship's id is its own and the
  port keeps a count without deficit and has room; for any number of ships and ports.
  Cargo is a sum over a map; the lemmas on sums (first part of the module:
  what a sum becomes when one key rises, falls or goes, and that it grows with its
  values) need an induction over finite sets, done without an induction rule: among
  the subsets of the finite domain that break the lemma there would be a smallest,
  and taking one key out of it gives a contradiction. `AllCargoByKey` then reduces
  the sum over ships and ports to one key at a time. They need `StoresStayFinite`: the
  maps that are summed have finite domains in every reachable state.
* **Seaport** (`Voyage_proofs`, first part): `PointsDistinct`, `PointsIndexed`,
  `NothingInherited`, `LoadsAreCounted` from one invariant of types, registry and
  cleanliness, with one lemma per operation of `Ports` (which the proofs about
  `Voyage` cite too); `ConversionMovesOnly`, that the one-second conversion keeps the
  sum of waiting and loaded cargo, from the same lemmas on sums.
* **Sea** (`Sea_proofs`): `ShipsIndexed`, `OneValueEach`, `KeysAgree`,
  `DestinationKnown`. The strengthening: keys name issued ids (`KeysIssued`), only
  ships spawned by key have routes while their id is their own (`RoutedByType`),
  and a ship that moves without a route was given a destination
  (`MovingDestined`).
* **ChunkCache** (`ChunkCache_proofs`): `NeverAhead` and `StaleIsRefreshed`, without a
  condition, for ports and cities on borders, keys of any scale, requests with any
  timestamp, restarts and reboots. `CopiesOrdered` strengthens them: a copy is
  never newer than its chunk and older if it differs in the chunk's own cells;
  `CitiesTouched`: exactly the chunks that have a city have a timestamp of cities.
  `OwnIsTouched` is the geometry: an edit in one of a chunk's own cells touches the chunk. What the property
  itself leaves out (the border that belongs to the next chunk, scales above the
  largest, copies of before a reboot) fails in the code: section 6.
* **AStar** (`AStar_proofs`): `HeapIndexed`, `Relaxed`, `PathSound`,
  `NoPathIsMissed` for every graph, every estimate and every limit. The invariant
  adds what holds in the middle of an update (a neighbour that was withdrawn is in
  no set while the heap is repaired) and that the path grown from the goal follows
  parents.
* **WaterPath** (`WaterPath_proofs`): `NeverAborts`, `SnappedInWater`,
  `SeaIsComponent`, `StaysInSea` and the types, for any map of rectangles that do
  not overlap, of any size. The geometry is in lemmas about two rectangles that
  touch (`BorderAt`: the border they share is never empty; `Crossing`: across it
  the nearest pixel is adjacent). The invariant says that an exit lies on the
  border to the next rectangle, whichever record the look-up by pixel found.

* **Server** (`Server_proofs`): `AnswersReachAskers`, `CurrentEndpoints` and the types,
  for any clients, requests, expiry and queues. `AnswersGoHome` is not inductive: the
  strengthening `HandlerOK` says that while calls are left no receive is armed, hence
  `remote` is still the end point of `asked`, and that only a client's ping registers;
  `SendsOK`, that what waits kept its destination; `ClockOK`, that an entry is exactly
  as old as the last ping of its client.
* **What a client is shown** (`Server_proofs`, last part): `LandLooksAlike`, that a
  cell of an answer that was not cut is shown as land exactly if its last pixel is land
  (and one that was cut shows no more), and `PlacesAlwaysFit`, that the offset of a port or
  city is that of the scaled cell around it and at most half a chunk. Both
  hold of every set of disjoint rectangles, every point and every
  scale. The arithmetic is in lemmas about one coordinate (`PixelInLine`,
  `BorderInLine`, `PlaceInLine`): `c & ~(s - 1)` is the floor of a division also for
  negative `c`, and the clamp of an offset acts only outside of the box. The invariant
  `ShownOK` says that whatever waits to be answered asks for a chunk with a served scale
  and what is answered is an answer of `Cells`.

* **The fast compressor of LZ4** (`Lz4_proofs`): `FastMatchesAreHistory`, that what a
  match of a block refers to is what the stream said at that distance;
  `FastBoundsSuffice`, that `LZ4_compressBound` bytes are enough and a call that fills
  its destination succeeds; `FastWritesFit`, that no write of the compressor goes past
  its destination, the copies in steps of eight included. They hold for any window,
  table, hash function, acceleration, capacity and messages, in the programs that
  `FastProgram` lists: one call, or calls that continue each other with the messages in
  a ring of more than two of them, in a double buffer, one after the other, with
  `LZ4_saveDict`, or with a dictionary that was loaded.
    * `FastInv` is the invariant of a call, with a part per concern and a case per label
      of the code: `PositionOK` (the positions and the table), `OutputOK` (what the tests
      of the room left), `BlockOK` (each sequence says what the text says). The *text*
      is the dictionary with the source right after it, wherever the two are in memory;
      that a match may begin in an external dictionary and go on in the source, or is
      compared backwards, is a lemma about the text (`CountFromDictionary`, `BackIs`).
    * `ProgramInv` is the invariant between the calls: the dictionary is the end of what
      was said, except for the bytes that the next message has overwritten
      (`Remembers`); the table has no position after the offset (`Settled`); and the next
      message never overwrites the end of the dictionary without its beginning
      (`Clear`), which is why a shorter dictionary is enough to forget what is gone
      (`TrimmedIs`). `RenormedIs` is about the rescaling of the table.
    * How long a block is, is a fold over its sequences: `TotalGrows` and its lemmas
      prove what one more sequence adds, again by a smallest counterexample.
    * Hypotheses: `HashOK`, that the hash of four or five bytes is an index of the table.
      `FastProgram` asks that messages are not empty and fit where they are written.
      Without a dictionary the first of several messages has four bytes or more: a
      shorter one becomes an external dictionary that this version compares past its end.
      `FastWritesFit` asks that a source with a capacity of the caller's has at most
      128 KB (`Largest`): the test of the room counts a byte of a long match for every
      256 bytes of it while one is written for every 255, and what the test
      reserves for the last literals makes up for the difference up to there.
* **The receiver** (`Lz4Receiver_proofs`): `FastRoundTrip`, that every decompressor
  returns what was said, and `FastCopiesFit`, that neither side writes past its
  destination, even one exactly as long as the message. They hold of the programs
  above whose receiver is `Receivable`: it has room for the message, and its past lies
  in front of it, in a dictionary beside it, or in a ring of at least the window, 13
  bytes and a message. Blocks of `LZ4_compress_destSize` are among them, with a
  destination as long as the longest message.
    * *Copies.* The decoder copies in steps of eight: it writes up to 14 bytes too many,
      and reads bytes that the same copy wrote. `Copied` says what is right afterwards
      and up to where the rest is touched; a lemma for each way to copy
      (`ElsewhereCopied`, `NearEndCopied`, `ShortcutCopied`, `DictionaryCopied`) shows
      that what repeats at a distance repeats at its multiples, which is what the tables
      for distances below eight rely on.
    * *Ends.* `EndOK` is an invariant of the compressor: the last match starts twelve
      bytes before the end of a block and five literals follow it. For a call that fills
      its destination, whose last literals are cut, that was not obvious: a short match
      leaves room for eight literals, a longer one needs no more than five. With it no
      copy in steps of eight passes the end (`EndIsRight`).
    * *A call.* `DecodeOK`: what was decoded so far is the message, and whatever a later
      match may still refer to is where the decoder looks (`PastIn`), also if the message
      has begun to overwrite the ring: what it writes, too many bytes included, only
      reaches the past that is too far back for any later match (`PastStays`).
    * *Between the calls.* `RingOK` relates the prefix and the external dictionary that
      `LZ4_streamDecode_t` remembers to the end of what was said.
    * Not covered: the run's receivers with a ring as small as the sender's ("exactly the
      same size") or with a double buffer, which `Receivable` leaves out, and blocks that
      `LZ4_compress_destSize` made, received with their exact size (the block may be empty).

The type invariants (`TypeOK` of `Voyage`, `WaterPath`, `Server`, and as parts of
the invariants of the others) are proved and checked by no run of their own: a
run's time goes to what a type does not say.

Only model-checked: liveness (`LeavesDock`, `VoyagesContinue`, `SearchEnds`, `Served`),
which needs fairness and is beyond the prover; `OneArea`, which holds of the run's
areas and not of every sequence of polygons (the files of areas decide whether they
overlap), so that there is no theorem to state; and of LZ4 the high compressor and the
frames: `RoundTrip` of the blocks of the one, `FramesArrive` and the buffers in
`WritesFit` of the other.

## 8. Abstractions, and what is not modelled

* A position on a route is counted in ticks, a position on the map is a member of
  a small set, and where a free travel leads is a choice: the float arithmetic of
  `sea::update` and `route` is left out, including whether a free travel ever
  falls within 0.001 of its destination.
* `Sea` and `Voyage` each model the part of `sea` that their properties need and
  leave the other part open (`Sea` lets a routed ship go anywhere).
* Chunks have one coordinate; the other is treated alike by the code. A reply
  holds all ports of a chunk, while the code cuts it at the size of a packet.
* Costs of `AStar` are naturals instead of floats. Lists and estimates are fixed
  per node; the pixel search's callback that changes its node is the subject of
  `WaterPath`, where which path is found is left open.
* In `WaterPath`, requests ask for pixels of a rectangular window; without water
  the code aborts, which `WaterAssumption` excludes. The crash while the dump of
  the sea is written is not modelled.
* Names are values without structure; the file of names is a constant.

* In `Server` the admin commands only have their reply; what they change is in
  `Voyage`, `Seaport` and `Sea`. The bytes of a send that waited are arbitrary.
  Expiry and waiting are counted in units. `Cells` is a constant world: the answers
  read in one step, so nothing is lost by it.
* In the `Lz4` modules the compressed bytes are sequences, so the decoder only meets
  malformed input where a job damages a frame. Pointers do not overflow.
* Where the run's programs avoid a rule of the header that does not hold (section 6),
  `MCLz4` says so.

### Not modelled

* `tcp_server`: the time of day and a log of what it reads, pure I/O.
* Line clipping, convex hull and smoothing: floating point, called by nothing that runs.
* The loading of data files, the layout of packets, conversions between degrees and
  cells, and whether a free travel ever lands within 0.001 of its destination
  (`sea.cpp:224`): decided by floating-point rounding.
* The crash while the dump of the sea is written (`sea_static.cpp:121`): the next start
  takes what is there and nothing repairs it, so a model of it says only that.
* LZ4: the allocation of contexts, `LZ4_compress_forceExtDict` and the obsolete functions,
  the frame functions' answers to a destination that is too small; `xxhash.c`
  (arithmetic without a property to state); the command line tool with its file I/O
  and benchmarks (`programs`), which the server does not use.

## 9. What could be added

* A link of `WaterPath` to `AStar` as an instance: a path of `WaterPath` is one of
  `AStar`'s graph. The pixel search's callback changes the graph while it is searched,
  so `AStar` would need graphs that do.
* Chunks with more ports than a reply holds (`udp_server.cpp:419`): what is cut depends on
  the order of the r-tree's query.
* Theorems about LZ4's high compressor and its frames. The decoder's half of a round
  trip is proved from `BlockArrives` and `EndOK`, which mention no compressor: what is
  missing for `lz4hc.c` is that its blocks keep them, and for frames that the two
  histories do.
