-------------------------------- MODULE Sea --------------------------------
(***************************************************************************)
(* Class sea: the ships by id, by the web server's key and by guid, and    *)
(* the r-tree of their positions, which the replies to clients are queried *)
(* from.  The commands 1 to 5 of the admin server and the 75 ms tick act   *)
(* on it.  What a ship does on its route is the subject of Voyage; here    *)
(* the tick takes a routed ship to any position, with or without velocity. *)
(*                                                                         *)
(* Where a free travel leads is floating-point arithmetic: here the tick   *)
(* takes a travelling ship to any position, or finds that it has arrived.  *)
(***************************************************************************)
EXTENDS Integers, FiniteSets, Functions

CONSTANTS
  MaxShips,      \* bound of the model: live ships
  ShipType,      \* the web server's keys of the ships
  GuidType,      \* the one key of all ships spawned by guid, 1 in the code
  Guid,          \* the guids of the test commands
  NoGuid,        \* the empty guid of a ship spawned by key
  Pos,           \* positions
  MaxCopies      \* bound of the model: equal values in the r-tree

ShipId == 1..MaxShips

ASSUME SeaAssumption ==
  /\ MaxShips \in Nat
  /\ GuidType \in ShipType
  /\ NoGuid \notin Guid
  /\ MaxCopies \in Nat \ {0}

VARIABLES
  sea_objects,             \* id -> ship
  sea_object_id_by_type,   \* the web server's key -> id
  sea_guid_to_id,          \* guid -> id
  rtree,                   \* id, position -> the number of such values in the tree
  routed,                  \* the domain of udp_server's route_map_
  issued,                  \* history: the ids handed out
  reused                   \* history: those handed out more than once

keys == <<sea_object_id_by_type, sea_guid_to_id>>
history == <<issued, reused>>
vars == <<sea_objects, keys, rtree, routed, history>>

\* `moving' is a velocity other than 0; `destined' says that dest_fx and
\* dest_fy, which no constructor sets, have been written.
Ship == [pos : Pos, type : ShipType, guid : Guid \cup {NoGuid},
         moving : BOOLEAN, destined : BOOLEAN]

Live == DOMAIN sea_objects

TypeOK ==
  /\ Live \subseteq ShipId
  /\ sea_objects \in [Live -> Ship]
  /\ DOMAIN sea_object_id_by_type \subseteq ShipType
  /\ sea_object_id_by_type \in [DOMAIN sea_object_id_by_type -> ShipId]
  /\ DOMAIN sea_guid_to_id \subseteq Guid
  /\ sea_guid_to_id \in [DOMAIN sea_guid_to_id -> ShipId]
  /\ rtree \in [ShipId -> [Pos -> Nat]]
  /\ issued \subseteq ShipId
  /\ reused \subseteq issued
  /\ routed \subseteq issued
  /\ Live \subseteq issued

Empty == [x \in {} |-> x]
Put(f, x, y) == [z \in DOMAIN f \cup {x} |-> IF z = x THEN y ELSE f[z]]
Erase(f, x) == Restrict(f, DOMAIN f \ {x})

Nowhere == [pos \in Pos |-> 0]

Init ==
  /\ sea_objects = Empty
  /\ sea_object_id_by_type = Empty
  /\ sea_guid_to_id = Empty
  /\ rtree = [id \in ShipId |-> Nowhere]
  /\ routed = {}
  /\ issued = {}
  /\ reused = {}

-----------------------------------------------------------------------------
(***************************************************************************)
(* The r-tree.  A removal takes out one value equal to the argument, if    *)
(* there is one.  `values' are the values that have one ship's id.         *)
(***************************************************************************)
Insert(values, pos) == [values EXCEPT ![pos] = @ + 1]
Remove(values, pos) == [values EXCEPT ![pos] = IF @ > 0 THEN @ - 1 ELSE 0]

\* Every relocation removes the old value, sets position and value, inserts.
Relocate_Late(values, from, to) ==   \* mutant: the removal after set_xy
  Insert(Remove(values, to), to)
Relocate_Forgotten(values, from, to) ==   \* mutant: set_xy leaves the value alone
  Insert(Remove(values, from), from)
Relocate(values, from, to) == Insert(Remove(values, from), to)

WithinBound(values) == \A pos \in Pos : values[pos] <= MaxCopies

-----------------------------------------------------------------------------
(***************************************************************************)
(* The two spawns.  The id is the number of live ships plus 1: emplace     *)
(* does nothing if a live ship has it, but the key, the guid and the       *)
(* r-tree are written all the same.                                        *)
(***************************************************************************)
NewShipId == Cardinality(Live) + 1

\* spawn(type, ..) and, if a guid is given, set_guid on whatever has the id.
Enter_Swapped(type, guid, pos) ==   \* mutant: the key map is written id -> type
  LET id == NewShipId
  IN  /\ id \in ShipId
      /\ sea_objects' = Put(sea_objects, id,
                            [pos |-> pos, type |-> type, guid |-> guid,
                             moving |-> FALSE, destined |-> FALSE])
      /\ sea_object_id_by_type' = Put(sea_object_id_by_type, id, type)
      /\ rtree' = [rtree EXCEPT ![id] = Insert(@, pos)]
      /\ issued' = issued \cup {id}
      /\ UNCHANGED reused
Enter(type, guid, pos) ==
  LET id    == NewShipId
      fresh == [pos |-> pos, type |-> type, guid |-> NoGuid,
                moving |-> FALSE, destined |-> FALSE]
      ship  == IF id \in Live THEN sea_objects[id] ELSE fresh
  IN  /\ id \in ShipId
      /\ sea_objects' =
           Put(sea_objects, id, IF guid = NoGuid THEN ship ELSE [ship EXCEPT !.guid = guid])
      /\ sea_object_id_by_type' = Put(sea_object_id_by_type, type, id)
      /\ rtree' = [rtree EXCEPT ![id] = Insert(@, pos)]
      /\ WithinBound(rtree'[id])
      /\ issued' = issued \cup {id}
      /\ reused' = reused \cup ({id} \cap issued)

\* Admin command 4.  Without a path between the ports no route is set, and the
\* route of an earlier ship of the id stays for what is left of the tick.
SpawnShip(type, pos, hasPath) ==
  /\ Enter(type, NoGuid, pos)
  /\ routed' = IF hasPath THEN routed \cup {NewShipId} ELSE routed
  /\ UNCHANGED sea_guid_to_id

\* Admin command 1.  A guid whose ship lives is answered with its id; the
\* entry of one whose ship is gone is replaced.
SpawnByGuid_Late(guid, pos) ==   \* mutant: the size is read after the insertion
  /\ guid \in DOMAIN sea_guid_to_id => sea_guid_to_id[guid] \notin Live
  /\ Enter(GuidType, guid, pos)
  /\ Cardinality(DOMAIN sea_objects') + 1 \in ShipId
  /\ sea_guid_to_id' = Put(sea_guid_to_id, guid, Cardinality(DOMAIN sea_objects') + 1)
  /\ UNCHANGED routed
SpawnByGuid(guid, pos) ==
  /\ guid \in DOMAIN sea_guid_to_id => sea_guid_to_id[guid] \notin Live
  /\ Enter(GuidType, guid, pos)
  /\ sea_guid_to_id' = Put(sea_guid_to_id, guid, NewShipId)
  /\ UNCHANGED routed

\* Admin command 5, despawn.  The guid of the ship stays where it is.
Despawn(type) ==
  LET id == sea_object_id_by_type[type]
  IN  /\ type \in DOMAIN sea_object_id_by_type
      /\ sea_objects' = Erase(sea_objects, id)
      /\ rtree' = IF id \in Live
                    THEN [rtree EXCEPT ![id] = Remove(@, sea_objects[id].pos)]
                    ELSE rtree
      /\ sea_object_id_by_type' = Erase(sea_object_id_by_type, type)
      /\ UNCHANGED <<sea_guid_to_id, routed, history>>

-----------------------------------------------------------------------------
(***************************************************************************)
(* Travel.  The ship of a guid is the one that has the id now.             *)
(***************************************************************************)
Named(guid) ==
  /\ guid \in DOMAIN sea_guid_to_id
  /\ sea_guid_to_id[guid] \in Live

\* Admin command 2, travel_to.  Its removal and insertion in the r-tree are of
\* the same value.  The velocity is 0 if the ship is already there.
TravelTo_NoDestination(guid, moving) ==   \* mutant: without set_destination
  /\ Named(guid)
  /\ sea_objects' = [sea_objects EXCEPT ![sea_guid_to_id[guid]].moving = moving]
  /\ UNCHANGED <<keys, rtree, routed, history>>
TravelTo(guid, moving) ==
  /\ Named(guid)
  /\ sea_objects' = [sea_objects EXCEPT ![sea_guid_to_id[guid]].moving = moving,
                                        ![sea_guid_to_id[guid]].destined = TRUE]
  /\ UNCHANGED <<keys, rtree, routed, history>>

\* Admin command 3, teleport_to, which stops the ship.
TeleportTo(guid, pos) ==
  LET id == sea_guid_to_id[guid]
  IN  /\ Named(guid)
      /\ sea_objects' = [sea_objects EXCEPT ![id].pos = pos, ![id].moving = FALSE]
      /\ rtree' = [rtree EXCEPT ![id] = Relocate(@, sea_objects[id].pos, pos)]
      /\ WithinBound(rtree'[id])
      /\ UNCHANGED <<keys, routed, history>>

Travelling == {id \in Range(sea_guid_to_id) \cap Live : sea_objects[id].moving}
GuidsOf(id) == {guid \in DOMAIN sea_guid_to_id : sea_guid_to_id[guid] = id}
Moved == Travelling \cup (routed \cap Live)

(***************************************************************************)
(* The tick.  For every guid, the ship it leads to goes on or stops because *)
(* it is near its destination; a ship that two guids lead to may do both.  *)
(* Then every ship with a route is put where the route is, unless it is in *)
(* the dock, and the routes of missing ships are dropped.  Of the several   *)
(* relocations of a ship the first removal and the last insertion remain.  *)
(***************************************************************************)
Tick ==
  /\ Travelling \cup routed # {}
  /\ \E stopped \in SUBSET Moved, to \in [Moved -> Pos] :
       /\ \A id \in stopped \ routed :
            Cardinality(GuidsOf(id)) = 1 => to[id] = sea_objects[id].pos
       /\ sea_objects' =
            [id \in Live |->
               IF id \in Moved
                 THEN [sea_objects[id] EXCEPT !.pos = to[id], !.moving = id \notin stopped]
                 ELSE sea_objects[id]]
       /\ rtree' =
            [id \in ShipId |->
               IF id \in Moved
                 THEN Relocate(rtree[id], sea_objects[id].pos, to[id]) ELSE rtree[id]]
  /\ \A id \in ShipId : WithinBound(rtree'[id])
  /\ routed' = routed \cap Live
  /\ UNCHANGED <<keys, history>>

Command ==
  \/ \E type \in ShipType, pos \in Pos, hasPath \in BOOLEAN : SpawnShip(type, pos, hasPath)
  \/ \E guid \in Guid, pos \in Pos : SpawnByGuid(guid, pos)
  \/ \E type \in ShipType : Despawn(type)
  \/ \E guid \in Guid, moving \in BOOLEAN : TravelTo(guid, moving)
  \/ \E guid \in Guid, pos \in Pos : TeleportTo(guid, pos)

Next == Command \/ Tick

Spec == Init /\ [][Next]_vars

-----------------------------------------------------------------------------
\* Every ship can be found where it is, also after its id was handed out to
\* others while it lived: the position kept in the ship and the values of the
\* r-tree never part, so the removal that starts a relocation or a despawn
\* always finds its value.
ShipsIndexed ==
  \A id \in Live : rtree[id][sea_objects[id].pos] > 0

\* What a query returns is ships: an id that was handed out once has exactly
\* the one value of its ship, and none after the ship is gone.  (A value left by
\* the clash of two ids is never removed; query_near_to_packet then fills its
\* reply up with ships that do not exist, sea.cpp:193-203.)
OneValueEach ==
  \A id \in ShipId \ reused :
    rtree[id] = IF id \in Live THEN Insert(Nowhere, sea_objects[id].pos) ELSE Nowhere

\* The keys lead to the ships they were given to: as long as its id was handed
\* out once, the ship found by a type or by a guid is the one spawned under it.
\* It is what keeps a despawn or a test command from hitting another ship.
KeysAgree ==
  /\ \A type \in DOMAIN sea_object_id_by_type :
       LET id == sea_object_id_by_type[type]
       IN  id \in Live \ reused => sea_objects[id].type = type
  /\ \A guid \in DOMAIN sea_guid_to_id :
       LET id == sea_guid_to_id[guid]
       IN  id \in Live \ reused => sea_objects[id].guid = guid

\* The tick asks a ship for the distance to its destination only if it moves.
\* No constructor initialises the destination (sea_object.hpp:115), so a ship
\* that a guid leads to and that moves must have been told where to, not put in
\* motion by a route.  An id that was handed out again escapes this: the tick
\* then reads what was never written (see GuidsLeadHome).
DestinationKnown ==
  \A id \in Travelling \ reused : sea_objects[id].destined

\* What the code takes for granted: a guid whose ship is gone leads nowhere, so
\* that spawn recognises it ("Orphan entry found in sea_guid_to_id", sea.cpp:52)
\* and the other commands report that there is no such ship.
GuidsLeadHome ==
  \A guid \in DOMAIN sea_guid_to_id :
    Named(guid) => sea_objects[sea_guid_to_id[guid]].guid = guid
=============================================================================
