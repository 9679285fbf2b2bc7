------------------------------- MODULE Ports -------------------------------
(***************************************************************************)
(* The part of class seaport that the voyages of the ships depend on: the  *)
(* r-tree of ports, which lives in a memory-mapped file and survives the   *)
(* process, and the hash maps from a port's id to its position, its cargo  *)
(* and the cargo unloaded there, which do not.                             *)
(*                                                                         *)
(* The operators below are the operations of the class, written as actions *)
(* on these four variables.  Module Seaport adds the other maps and is the *)
(* component's own specification; module Voyage composes the operations    *)
(* with the ships.                                                         *)
(***************************************************************************)
EXTENDS Cargo, FiniteSets, Functions

CONSTANTS
  Point,          \* the water cells on which ports may be spawned
  City,           \* the cities, each producing cargo
  Near,           \* Near[c] is the set of points within the square of city c
  CityCargo,      \* what a city produces per second, 10 in the code
  PortArg,        \* the port ids that commands and ships name
  LoadLot,        \* what a ship loads, 10 in the code
  MaxDeficit      \* bound of the model: how far an unloaded count may go below 0

PortId == Nat

ASSUME PortsAssumption ==
  /\ IsFiniteSet(City)
  /\ Near \in [City -> SUBSET Point]
  /\ CityCargo \in Nat \ {0}
  /\ PortArg \subseteq PortId
  /\ LoadLot \in Nat
  /\ MaxDeficit \in Nat

VARIABLES
  rtree,              \* the persistent set of (point, port id) values
  id_point,           \* port id -> position
  id_cargo,           \* port id -> cargo that waits to be loaded
  id_cargo_unloaded   \* port id -> cargo unloaded and not yet converted

portVars == <<rtree, id_point, id_cargo, id_cargo_unloaded>>

PortValue == [point : Point, id : PortId]

\* A hash map without an entry, with an entry written, and with one erased.
Empty == [k \in {} |-> 0]
Put(f, k, v) == [x \in DOMAIN f \cup {k} |-> IF x = k THEN v ELSE f[x]]
Erase(f, k) == Restrict(f, DOMAIN f \ {k})

PortsTypeOK ==
  /\ rtree \subseteq PortValue
  /\ IsFiniteSet(rtree)
  /\ DOMAIN id_point \subseteq PortId
  /\ id_point \in [DOMAIN id_point -> Point]
  /\ DOMAIN id_cargo \subseteq PortId
  /\ id_cargo \in [DOMAIN id_cargo -> Nat]
  /\ DOMAIN id_cargo_unloaded \subseteq PortId
  /\ id_cargo_unloaded \in [DOMAIN id_cargo_unloaded -> Int]

-----------------------------------------------------------------------------
(***************************************************************************)
(* Start of the process: the constructor reads the tree of the file.  Of   *)
(* the values with one point it keeps the one that the iteration meets     *)
(* first and removes the others, and it rebuilds id_point from those that  *)
(* it keeps: of two with one id the last that the iteration meets wins.    *)
(* The order is the tree's, so every choice is possible.  (A file that     *)
(* held one value twice is that value once: the second copy is removed.)   *)
(***************************************************************************)
Surviving(file) ==
  {kept \in SUBSET file :
     /\ \A v \in file : \E w \in kept : w.point = v.point
     /\ \A v, w \in kept : v.point = w.point => v = w}

PointsFrom(tree) ==
  LET ids == {v.id : v \in tree}
  IN  {f \in [ids -> {v.point : v \in tree}] :
         \A i \in ids : [point |-> f[i], id |-> i] \in tree}

PortsInit_KeepsDuplicates(file) ==   \* mutant: noticed but not removed
  /\ rtree = file
  /\ \E kept \in Surviving(file) : id_point \in PointsFrom(kept)
  /\ id_cargo = Empty
  /\ id_cargo_unloaded = Empty
PortsInit(file) ==
  /\ rtree \in Surviving(file)
  /\ id_point \in PointsFrom(rtree)
  /\ id_cargo = Empty
  /\ id_cargo_unloaded = Empty

RestartPorts ==
  /\ rtree' \in Surviving(rtree)
  /\ id_point' \in PointsFrom(rtree')
  /\ id_cargo' = Empty
  /\ id_cargo_unloaded' = Empty

-----------------------------------------------------------------------------
(***************************************************************************)
(* spawn, set_name and despawn.  A spawn on a point that has a port only   *)
(* answers that port's id; a name for an unknown id and a despawn of one   *)
(* only log: none of them changes the state.  The new id is the size of    *)
(* the tree, which may be the id of a port that is still there.            *)
(***************************************************************************)
PortAt(pt) == {v \in rtree : v.point = pt}

NewPortId == Cardinality(rtree)

SpawnPort(pt) ==
  /\ PortAt(pt) = {}
  /\ rtree' = rtree \cup {[point |-> pt, id |-> NewPortId]}
  /\ id_point' = Put(id_point, NewPortId, pt)
  /\ id_cargo' = Put(id_cargo, NewPortId, 0)
  /\ UNCHANGED id_cargo_unloaded

NamePort_Unchecked(id) ==   \* mutant: without the look-up in id_point
  /\ id_cargo' = Put(id_cargo, id, 0)
  /\ UNCHANGED <<rtree, id_point, id_cargo_unloaded>>
NamePort(id) ==
  /\ id \in DOMAIN id_point
  /\ id_cargo' = Put(id_cargo, id, 0)
  /\ UNCHANGED <<rtree, id_point, id_cargo_unloaded>>

DespawnPort_KeepsPoint(id) ==   \* mutant: the position is not erased
  /\ id \in DOMAIN id_point
  /\ rtree' = rtree \ {[point |-> id_point[id], id |-> id]}
  /\ id_cargo' = Erase(id_cargo, id)
  /\ id_cargo_unloaded' = Erase(id_cargo_unloaded, id)
  /\ UNCHANGED id_point
DespawnPort_KeepsUnloaded(id) ==   \* mutant: one map is not cleaned up
  /\ id \in DOMAIN id_point
  /\ rtree' = rtree \ {[point |-> id_point[id], id |-> id]}
  /\ id_point' = Erase(id_point, id)
  /\ id_cargo' = Erase(id_cargo, id)
  /\ UNCHANGED id_cargo_unloaded
DespawnPort(id) ==
  /\ id \in DOMAIN id_point
  /\ rtree' = rtree \ {[point |-> id_point[id], id |-> id]}
  /\ id_point' = Erase(id_point, id)
  /\ id_cargo' = Erase(id_cargo, id)
  /\ id_cargo_unloaded' = Erase(id_cargo_unloaded, id)

-----------------------------------------------------------------------------
(***************************************************************************)
(* The cargo.  A port without an entry in id_cargo takes and gives         *)
(* nothing.  Unloaded cargo goes to a store of its own, by the amount that *)
(* id_cargo would have had room for, and the one-second timer moves it     *)
(* over one unit at a time.                                                *)
(***************************************************************************)
CargoAt(id) == IF id \in DOMAIN id_cargo THEN id_cargo[id] ELSE 0
UnloadedAt(id) ==
  IF id \in DOMAIN id_cargo_unloaded THEN id_cargo_unloaded[id] ELSE 0

\* add_cargo(id, amount, false): the cargo a ship brought.
AddUnloaded(id, amount) ==
  LET added == AfterAdd(CargoAt(id), amount) - CargoAt(id)
  IN  /\ IF id \in DOMAIN id_cargo
           THEN /\ UnloadedAt(id) + added >= -MaxDeficit
                /\ id_cargo_unloaded' =
                     Put(id_cargo_unloaded, id, UnloadedAt(id) + added)
           ELSE UNCHANGED id_cargo_unloaded
      /\ UNCHANGED <<rtree, id_point, id_cargo>>

\* remove_cargo(id, amount, false): what it hands over, and what it leaves.
Removed_Asked(id, amount) == Clamp(amount)   \* mutant: not what was there
Removed(id, amount) == CargoAt(id) - AfterRemove(CargoAt(id), amount)

RemoveCargo(id, amount) ==
  /\ id_cargo' = IF id \in DOMAIN id_cargo
                   THEN [id_cargo EXCEPT ![id] = AfterRemove(@, amount)]
                   ELSE id_cargo
  /\ UNCHANGED <<rtree, id_point, id_cargo_unloaded>>

\* convert_cargo visits every value of the tree: an id that two values share
\* is converted twice.  Nothing here looks at MaxCargo.
Converted(id) ==
  LET visits == Cardinality({v \in rtree : v.id = id})
  IN  IF UnloadedAt(id) < 0 THEN 0
      ELSE IF UnloadedAt(id) < visits THEN UnloadedAt(id) ELSE visits

ConvertCargo_Capped ==   \* mutant: the store stops at MaxCargo
  LET ids == {v.id : v \in rtree}
  IN  /\ id_cargo_unloaded' =
           [i \in DOMAIN id_cargo_unloaded \cup ids |->
              UnloadedAt(i) - (IF i \in ids THEN Converted(i) ELSE 0)]
      /\ id_cargo' =
           [i \in DOMAIN id_cargo \cup {j \in ids : Converted(j) > 0} |->
              AfterAdd(CargoAt(i), IF i \in ids THEN Converted(i) ELSE 0)]
      /\ UNCHANGED <<rtree, id_point>>
ConvertCargo ==
  LET ids == {v.id : v \in rtree}
  IN  /\ id_cargo_unloaded' =
           [i \in DOMAIN id_cargo_unloaded \cup ids |->
              UnloadedAt(i) - (IF i \in ids THEN Converted(i) ELSE 0)]
      /\ id_cargo' =
           [i \in DOMAIN id_cargo \cup {j \in ids : Converted(j) > 0} |->
              CargoAt(i) + (IF i \in ids THEN Converted(i) ELSE 0)]
      /\ UNCHANGED <<rtree, id_point>>

(***************************************************************************)
(* city::generate_cargo, which calls add_cargo(id, share, true).  A city   *)
(* splits its cargo over the n ports near it, rounding to the nearest      *)
(* integer and giving each at least 1.  The additions of one pass only     *)
(* grow an amount up to MaxCargo, so their order does not matter.          *)
(***************************************************************************)
PortsNear(c) == {v \in rtree : v.point \in Near[c]}

Share(n) ==
  LET rounded == (2 * CityCargo + n) \div (2 * n)
  IN  IF rounded < 1 THEN 1 ELSE rounded

\* The cities that reach a port's id, once for every value with that id, and
\* the units of cargo that they add there, as a set.
Visits(id) ==
  {visit \in City \X rtree :
     visit[2].id = id /\ visit[2] \in PortsNear(visit[1])}

UnitsFor(id) ==
  {unit \in Visits(id) \X (1..CityCargo) :
     unit[2] <= Share(Cardinality(PortsNear(unit[1][1])))}

ReceivedAt(id) == Cardinality(UnitsFor(id))

GenerateCargo ==
  /\ id_cargo' = [i \in DOMAIN id_cargo |->
                    IF Visits(i) = {} THEN id_cargo[i]
                    ELSE IF id_cargo[i] + ReceivedAt(i) > MaxCargo THEN MaxCargo
                    ELSE id_cargo[i] + ReceivedAt(i)]
  /\ UNCHANGED <<rtree, id_point, id_cargo_unloaded>>

-----------------------------------------------------------------------------
(***************************************************************************)
(* Properties of the registry and the stores.                              *)
(***************************************************************************)

\* No two ports share a point, whatever values the file of an older server
\* held: the constructor leaves one value of each point, a spawn adds none to
\* a taken one, and so the size check of the constructor (seaport.cpp:65-70),
\* which aborts the process, never fails, now or at any later start.
PointsDistinct ==
  \A v, w \in rtree : v.point = w.point => v = w

\* The position kept for an id is a position the tree holds under that id,
\* whatever reuse of ids has happened: the rtree remove of a despawn
\* (seaport.cpp:211) always finds its value.
PointsIndexed ==
  \A id \in DOMAIN id_point : [point |-> id_point[id], id |-> id] \in rtree

\* Cargo that waits to be converted belongs to a port that has a cargo count:
\* the conversion (seaport.cpp:346-350) never creates a count by its ++.
UnloadedHasCount ==
  \A id \in DOMAIN id_cargo_unloaded :
    id_cargo_unloaded[id] > 0 => id \in DOMAIN id_cargo

\* A cargo count belongs to a port that has a position (despawn and the
\* restart clear the maps together).
CountHasPort ==
  DOMAIN id_cargo \subseteq DOMAIN id_point
=============================================================================
