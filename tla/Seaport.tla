------------------------------ MODULE Seaport ------------------------------
(***************************************************************************)
(* Class seaport as a component of its own: the operations of module Ports *)
(* with the maps that only the replies to clients use (names, owners and   *)
(* the count of loaded cargo), under the commands of the admin server, the *)
(* calls of docked ships, the timers of seaport and city, and restarts.    *)
(***************************************************************************)
EXTENDS Ports

CONSTANTS
  ShipAmount,     \* the amounts that a ship unloads
  MaxLoaded,      \* bound of the model: the count of loaded cargo of a port
  MaxUnloaded,    \* bound of the model: the count of unloaded cargo of a port
  Owner,          \* owner ids
  OldPort,        \* the values that the file of an older server may hold
  NameFile,       \* port id -> name, the contents of seaports.dat
  Name,           \* the names; NoName is the empty one
  NoName

ASSUME SeaportAssumption ==
  /\ ShipAmount \subseteq Nat
  /\ MaxLoaded \in Nat
  /\ MaxUnloaded \in Nat
  /\ OldPort \subseteq PortValue
  /\ IsFiniteSet(OldPort)
  /\ DOMAIN NameFile \subseteq PortId
  /\ NameFile \in [DOMAIN NameFile -> Name]
  /\ NoName \in Name

VARIABLES
  id_cargo_loaded,   \* port id -> cargo that ships took away, only counted
  id_name,           \* port id -> name
  id_owner_id        \* port id -> owner

labels == <<id_name, id_owner_id>>
seaportVars == <<portVars, id_cargo_loaded, labels>>

SeaportTypeOK ==
  /\ PortsTypeOK
  /\ DOMAIN id_cargo_loaded \subseteq PortId
  /\ id_cargo_loaded \in [DOMAIN id_cargo_loaded -> Nat]
  /\ id_name \in [DOMAIN id_name -> Name]
  /\ id_owner_id \in [DOMAIN id_owner_id -> Owner]

\* The file is new, or an older server left it: one that filled an empty tree
\* from seaports.dat without looking for a port at the point (the commented
\* out insertion of the constructor), so its values may share points and ids.
SeaportInit ==
  /\ \E file \in SUBSET OldPort : PortsInit(file)
  /\ id_cargo_loaded = Empty
  /\ id_name = NameFile
  /\ id_owner_id = Empty

\* The constructor again, on the tree that the file kept.
SeaportRestart ==
  /\ RestartPorts
  /\ id_cargo_loaded' = Empty
  /\ id_name' = NameFile
  /\ id_owner_id' = Empty

-----------------------------------------------------------------------------
\* A port that is spawned without a name keeps what seaports.dat says of its
\* id, if anything.
Spawn(pt, name, owner) ==
  /\ SpawnPort(pt)
  /\ id_name' = IF name = NoName THEN id_name ELSE Put(id_name, NewPortId, name)
  /\ id_owner_id' = Put(id_owner_id, NewPortId, owner)
  /\ UNCHANGED id_cargo_loaded

SetName(id, name, owner) ==
  /\ NamePort(id)
  /\ id_name' = Put(id_name, id, name)
  /\ id_owner_id' = Put(id_owner_id, id, owner)
  /\ UNCHANGED id_cargo_loaded

Despawn(id) ==
  /\ DespawnPort(id)
  /\ id_cargo_loaded' = Erase(id_cargo_loaded, id)
  /\ id_name' = Erase(id_name, id)
  /\ id_owner_id' = Erase(id_owner_id, id)

LoadedAt(id) == IF id \in DOMAIN id_cargo_loaded THEN id_cargo_loaded[id] ELSE 0

Unload(id, amount) ==
  /\ UnloadedAt(id) + amount <= MaxUnloaded
  /\ AddUnloaded(id, amount)
  /\ UNCHANGED <<id_cargo_loaded, labels>>

Load(id) ==
  /\ LoadedAt(id) + Removed(id, LoadLot) <= MaxLoaded
  /\ RemoveCargo(id, LoadLot)
  /\ id_cargo_loaded' =
       IF id \in DOMAIN id_cargo
         THEN Put(id_cargo_loaded, id, LoadedAt(id) + Removed(id, LoadLot))
         ELSE id_cargo_loaded
  /\ UNCHANGED labels

SeaportConvert == ConvertCargo /\ UNCHANGED <<id_cargo_loaded, labels>>
SeaportGenerate == GenerateCargo /\ UNCHANGED <<id_cargo_loaded, labels>>

SeaportNext ==
  \/ \E pt \in Point, name \in Name, owner \in Owner : Spawn(pt, name, owner)
  \/ \E id \in PortArg, name \in Name, owner \in Owner : SetName(id, name, owner)
  \/ \E id \in PortArg : Despawn(id)
  \/ \E id \in PortArg, amount \in ShipAmount : Unload(id, amount)
  \/ \E id \in PortArg : Load(id)
  \/ SeaportConvert
  \/ SeaportGenerate
  \/ SeaportRestart

SeaportSpec == SeaportInit /\ [][SeaportNext]_seaportVars

-----------------------------------------------------------------------------
\* Ships take away only what was there: a load moves cargo from the count of
\* waiting cargo to the count of loaded cargo one for one, and no other
\* operation of the port moves it that way.
LoadsAreCounted ==
  [][\A id \in DOMAIN id_cargo_loaded' :
       id_cargo_loaded'[id] > LoadedAt(id) =>
         /\ id \in DOMAIN id_cargo
         /\ id_cargo_loaded'[id] - LoadedAt(id) = id_cargo[id] - id_cargo'[id]
    ]_seaportVars

\* The one-second timer moves cargo between the two stores without making or
\* losing any, also where two values of the tree share an id and where a
\* deficit was left behind.
StoredCargo == SumFunction(id_cargo) + SumFunction(id_cargo_unloaded)

ConversionConserves == [][SeaportConvert => StoredCargo' = StoredCargo]_seaportVars

\* The maps that hold what was done to a port (cargo, statistics, owner) have
\* no entry for an id without a port: a deleted port leaves nothing behind
\* that the next port of that id would inherit, and neither a ship at the
\* dock of a deleted port nor the conversion, which visits the values of the
\* tree, makes a new entry (seaport.cpp:346-350, 358-405).  The entries of
\* value 0 that reading id_cargo_unloaded with [] makes (seaport.cpp:346) do
\* not count, and names are left out: those of seaports.dat are kept by id.
NothingInherited ==
  /\ CountHasPort
  /\ DOMAIN id_owner_id \subseteq DOMAIN id_point
  /\ DOMAIN id_cargo_loaded \subseteq DOMAIN id_point
  /\ \A id \in DOMAIN id_cargo_unloaded \ DOMAIN id_point : id_cargo_unloaded[id] = 0
=============================================================================
