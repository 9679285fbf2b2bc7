------------------------------- MODULE Voyage -------------------------------
(***************************************************************************)
(* The voyages: the ships (class sea and sea_object), the routes they sail *)
(* (class route and udp_server::route_map_), the two timers of a docking,  *)
(* the ports (module Ports) and the commands of the admin server that      *)
(* create and delete ships and ports under them.                           *)
(*                                                                         *)
(* The server is one thread running an io_service: every handler is one    *)
(* step.  A ship docks in the 75 ms tick of udp_server, which starts a     *)
(* five second timer; that timer's handler unloads and re-arms it; the     *)
(* second handler loads, reverses the route and lets the ship sail.  The   *)
(* handlers find the ship again by its id, five seconds after it was       *)
(* captured, and hold on to the route object they were started with.       *)
(*                                                                         *)
(* A ship's position on the map is left out (module Sea has the registry   *)
(* and its r-tree): here it is the position along its route, `param', in   *)
(* units of the distance sailed in one tick.                               *)
(***************************************************************************)
EXTENDS Ports

CONSTANTS
  MaxShips,        \* bound of the model: live ships
  ShipType,        \* the web server's keys of the ships
  RouteKey,        \* names for route objects, which have no name in the code
  RouteLen,        \* the possible lengths of a route, in ticks
  MaxOvershoot,    \* bound of the model: how far param leaves 0..len
  Slot,            \* bound of the model: timers of one ship id at a time
  MaxTotal,        \* bound of the model: all the cargo there is
  File,            \* what the seaport file holds when the first process starts
  AdminCommands    \* the commands that the web server sends in this instance

Commands == {"SpawnShip", "DeleteShip", "SpawnPort", "NamePort", "DeletePort",
             "Restart"}

ShipId == 1..MaxShips

ASSUME VoyageAssumption ==
  /\ MaxShips \in Nat
  /\ RouteLen \subseteq Nat \ {0}
  /\ MaxOvershoot \in Nat \ {0, 1}
  /\ MaxTotal \in Nat
  /\ File \subseteq PortValue
  /\ IsFiniteSet(File)
  /\ AdminCommands \subseteq Commands

VARIABLES
  sea_objects,             \* id -> ship
  sea_object_id_by_type,   \* the web server's key -> id
  route_map,               \* id -> route object
  routes,                  \* route object -> its fields
  timers,                  \* the pending deadline timers
  issued,                  \* history: the ids handed out by this process
  reused                   \* history: those handed out more than once

shipVars == <<sea_objects, sea_object_id_by_type>>
routeVars == <<route_map, routes>>
history == <<issued, reused>>
vars == <<portVars, shipVars, routeVars, timers, history>>

ShipState == {"SAILING", "LOADING", "UNLOADING"}
NoOrigin == -1

Ship == [state : ShipState, cargo : 0..MaxCargo, origin : PortId \cup {NoOrigin}]
Route == [p1 : PortId, p2 : PortId, len : RouteLen, param : Int,
          reversed : BOOLEAN]
Timer == [id : ShipId, route : RouteKey, phase : {"UNLOADING", "LOADING"},
          slot : Slot]

Live == DOMAIN sea_objects

\* Type correctness.  The references between the maps are part of it: a route
\* object exists exactly while the route map or a timer points to it.
InUse(rm, ts) == Range(rm) \cup {t.route : t \in ts}

TypeOK ==
  /\ PortsTypeOK
  /\ Live \subseteq ShipId
  /\ sea_objects \in [Live -> Ship]
  /\ DOMAIN sea_object_id_by_type \subseteq ShipType
  /\ sea_object_id_by_type \in [DOMAIN sea_object_id_by_type -> ShipId]
  /\ DOMAIN route_map \subseteq ShipId
  /\ route_map \in [DOMAIN route_map -> RouteKey]
  /\ routes \in [InUse(route_map, timers) -> Route]
  /\ timers \subseteq Timer
  /\ issued \subseteq ShipId
  /\ reused \subseteq issued
  /\ Live \subseteq issued

-----------------------------------------------------------------------------
(***************************************************************************)
(* class route.  A ship sailing forward has arrived when param has passed  *)
(* the length of the route, one sailing back when it is at or before 0.    *)
(* get_docked_seaport_id names the port by the direction alone.            *)
(***************************************************************************)
Finished_AnyEnd(r) == r.param <= 0 \/ r.param > r.len   \* mutant: no direction
Finished(r) == IF r.reversed THEN r.param <= 0 ELSE r.param > r.len

DockedPort(r) == IF r.reversed THEN r.p1 ELSE r.p2

Advance_Forward(r) == [r EXCEPT !.param = @ + 1]   \* mutant: no else branch
Advance(r) == [r EXCEPT !.param = IF r.reversed THEN @ - 1 ELSE @ + 1]

Reverse(r) == [r EXCEPT !.reversed = ~@]

\* The shared pointers: a route object goes with the last reference to it.
Kept_Leaks(rs, rm, ts) == rs   \* mutant: a reference is never given up
Kept(rs, rm, ts) == Restrict(rs, InUse(rm, ts))

-----------------------------------------------------------------------------
(***************************************************************************)
(* class sea_object: the hold.  An origin of 0 stands for "no origin" and  *)
(* is also the id of the first port; a new ship's origin is -1.            *)
(***************************************************************************)
AcceptsCargoFrom_Same(ship, port) == ship.origin = port   \* mutant: no "none"
AcceptsCargoFrom(ship, port) == ship.origin \in {0, port}

AddCargo(ship, amount, port) ==
  IF AcceptsCargoFrom(ship, port)
    THEN [ship EXCEPT !.cargo = AfterAdd(@, amount), !.origin = port]
    ELSE ship

AcceptsUnloadAt(ship, port) == ship.origin # port

RemoveAllCargo_KeepsOrigin(ship, port) ==   \* mutant: origin not reset
  IF AcceptsUnloadAt(ship, port)
    THEN [ship EXCEPT !.cargo = AfterRemove(@, MaxCargo)] ELSE ship
RemoveAllCargo(ship, port) ==
  IF AcceptsUnloadAt(ship, port)
    THEN [ship EXCEPT !.cargo = AfterRemove(@, MaxCargo),
                      !.origin = IF AfterRemove(ship.cargo, MaxCargo) = 0
                                   THEN 0 ELSE @]
    ELSE ship

NewShip == [state |-> "SAILING", cargo |-> 0, origin |-> NoOrigin]

-----------------------------------------------------------------------------
(***************************************************************************)
(* Admin command 4, spawn ship, and udp_server::set_route.  The new id is  *)
(* the number of live ships plus 1.  If a live ship has that id, emplace   *)
(* leaves it alone, and the command goes on with the other ship's id.      *)
(* Whether there is a path between the ports is a property of the map; a   *)
(* port that does not exist stands for the point (-1,-1), so there is none *)
(* between two of those, and none from a port to itself.                   *)
(***************************************************************************)
NewShipId == Cardinality(Live) + 1

IssueId(id) ==
  /\ issued' = issued \cup {id}
  /\ reused' = reused \cup ({id} \cap issued)

SpawnShip(type) ==
  /\ "SpawnShip" \in AdminCommands
  /\ NewShipId \in ShipId
  /\ sea_objects' = IF NewShipId \in Live THEN sea_objects
                    ELSE Put(sea_objects, NewShipId, NewShip)
  /\ sea_object_id_by_type' = Put(sea_object_id_by_type, type, NewShipId)
  /\ IssueId(NewShipId)
  /\ UNCHANGED <<timers, portVars>>

SpawnUnroutedShip(type) ==
  /\ SpawnShip(type)
  /\ UNCHANGED routeVars

SpawnRoutedShip(type, p1, p2, len) ==
  /\ SpawnShip(type)
  /\ p1 # p2
  /\ {p1, p2} \cap DOMAIN id_point # {}
  /\ \E key \in RouteKey \ InUse(route_map, timers) :
       /\ route_map' = Put(route_map, NewShipId, key)
       /\ routes' = Kept(Put(routes, key,
                             [p1 |-> p1, p2 |-> p2, len |-> len, param |-> 0,
                              reversed |-> FALSE]),
                         route_map', timers)

\* Admin command 5, delete ship.  The route stays in the map until the next
\* tick, and timers that captured the ship's id stay pending.
DeleteShip(type) ==
  /\ "DeleteShip" \in AdminCommands
  /\ type \in DOMAIN sea_object_id_by_type
  /\ sea_objects' = Erase(sea_objects, sea_object_id_by_type[type])
  /\ sea_object_id_by_type' = Erase(sea_object_id_by_type, type)
  /\ UNCHANGED <<portVars, routeVars, timers, history>>

\* Admin commands 6, 7 and 8.
PortCommand ==
  /\ \/ "SpawnPort" \in AdminCommands /\ \E pt \in Point : SpawnPort(pt)
     \/ "NamePort" \in AdminCommands /\ \E id \in PortArg : NamePort(id)
     \/ "DeletePort" \in AdminCommands /\ \E id \in PortArg : DespawnPort(id)
  /\ UNCHANGED <<shipVars, routeVars, timers, history>>

-----------------------------------------------------------------------------
(***************************************************************************)
(* udp_server::update, the tick: update_route for every entry of the route *)
(* map, then the entries whose ship is gone are erased.  The entries have  *)
(* different ships and different routes, so their order does not matter.   *)
(* A ship that arrives still advances its route once more.                 *)
(***************************************************************************)
Routed == DOMAIN route_map \cap Live
Sailing == {id \in Routed : sea_objects[id].state = "SAILING"}
Docking_AnyState ==   \* mutant: without `state == SOS_SAILING' in line 261
  {id \in Routed : Finished(routes[route_map[id]])}
Docking == {id \in Sailing : Finished(routes[route_map[id]])}

FreeSlots(id) == {s \in Slot : \A t \in timers : t.id = id => t.slot # s}

UnloadingTimer(id) ==
  [id |-> id, route |-> route_map[id], phase |-> "UNLOADING",
   slot |-> CHOOSE s \in FreeSlots(id) : TRUE]

WithinOvershoot(r) ==
  -MaxOvershoot <= r.param /\ r.param <= r.len + MaxOvershoot

Tick ==
  /\ \A id \in Docking : FreeSlots(id) # {}
  /\ \A id \in Sailing : WithinOvershoot(Advance(routes[route_map[id]]))
  /\ sea_objects' = [id \in Live |->
                       IF id \in Docking
                         THEN [sea_objects[id] EXCEPT !.state = "UNLOADING"]
                         ELSE sea_objects[id]]
  /\ timers' = timers \cup {UnloadingTimer(id) : id \in Docking}
  /\ route_map' = Restrict(route_map, Routed)
  /\ routes' = Kept([key \in DOMAIN routes |->
                       IF \E id \in Sailing : route_map[id] = key
                         THEN Advance(routes[key]) ELSE routes[key]],
                    route_map', timers')
  /\ UNCHANGED <<portVars, sea_object_id_by_type, history>>

(***************************************************************************)
(* The handlers of the two timers, sea.cpp:281-345.  Timers fire in any    *)
(* order: all run for five seconds of the wall clock, which can be set.    *)
(***************************************************************************)
\* The ship is gone: the handler returns, and with it goes the timer.
TimerOfMissingShip(t) ==
  /\ t.id \notin Live
  /\ timers' = timers \ {t}
  /\ routes' = Kept(routes, route_map, timers')
  /\ UNCHANGED <<portVars, shipVars, route_map, history>>

\* The same timer object, armed for the loading.
Rearm_Forgotten(t) == timers \ {t}   \* mutant: no second async_wait
Rearm_Fresh(t) ==   \* mutant: a second timer, and the first is still armed
  timers \cup {[t EXCEPT !.phase = "LOADING"]}
Rearm(t) == (timers \ {t}) \cup {[t EXCEPT !.phase = "LOADING"]}

UnloadDone(t) ==
  LET ship     == sea_objects[t.id]
      port     == DockedPort(routes[t.route])
      unloaded == RemoveAllCargo(ship, port)
  IN  /\ t.phase = "UNLOADING"
      /\ t.id \in Live
      /\ sea_objects' = [sea_objects EXCEPT
                           ![t.id] = [unloaded EXCEPT !.state = "LOADING"]]
      /\ AddUnloaded(port, ship.cargo - unloaded.cargo)
      /\ timers' = Rearm(t)
      /\ UNCHANGED <<sea_object_id_by_type, routeVars, history>>

\* What the port hands over is removed from it whether or not the ship takes it.
LoadDone(t) ==
  LET ship   == sea_objects[t.id]
      port   == DockedPort(routes[t.route])
      loaded == AddCargo(ship, Removed(port, LoadLot), port)
  IN  /\ t.phase = "LOADING"
      /\ t.id \in Live
      /\ RemoveCargo(port, LoadLot)
      /\ sea_objects' = [sea_objects EXCEPT
                           ![t.id] = [loaded EXCEPT !.state = "SAILING"]]
      /\ timers' = timers \ {t}
      /\ routes' = Kept([routes EXCEPT ![t.route] = Reverse(@)],
                        route_map, timers')
      /\ UNCHANGED <<sea_object_id_by_type, route_map, history>>

-----------------------------------------------------------------------------
\* The one-second timers of class seaport and class city.
PortCargo ==
  SumFunction(id_cargo)
    + SumFunction([id \in DOMAIN id_cargo_unloaded |->
                     IF id_cargo_unloaded[id] > 0 THEN id_cargo_unloaded[id] ELSE 0])
ShipCargo == SumFunction([id \in Live |-> sea_objects[id].cargo])
TotalCargo == PortCargo + ShipCargo

Convert ==
  /\ ConvertCargo
  /\ UNCHANGED <<shipVars, routeVars, timers, history>>

Generate ==
  /\ TotalCargo < MaxTotal
  /\ GenerateCargo
  /\ UNCHANGED <<shipVars, routeVars, timers, history>>

\* The process ends (sea_server.cpp:57-59, or any crash) and starts again:
\* only the file of the ports is left.
Restart ==
  /\ "Restart" \in AdminCommands
  /\ RestartPorts
  /\ sea_objects' = Empty
  /\ sea_object_id_by_type' = Empty
  /\ route_map' = Empty
  /\ routes' = Empty
  /\ timers' = {}
  /\ issued' = {}
  /\ reused' = {}

Init ==
  /\ PortsInit(File)
  /\ sea_objects = Empty
  /\ sea_object_id_by_type = Empty
  /\ route_map = Empty
  /\ routes = Empty
  /\ timers = {}
  /\ issued = {}
  /\ reused = {}

ShipCommand ==
  \E type \in ShipType :
    \/ SpawnUnroutedShip(type)
    \/ \E p1, p2 \in PortArg, len \in RouteLen : SpawnRoutedShip(type, p1, p2, len)
    \/ DeleteShip(type)

TimerHandler(t) == TimerOfMissingShip(t) \/ UnloadDone(t) \/ LoadDone(t)

Next ==
  \/ ShipCommand
  \/ PortCommand
  \/ Tick
  \/ \E t \in timers : TimerHandler(t)
  \/ Convert
  \/ Generate
  \/ Restart

Spec == Init /\ [][Next]_vars

(***************************************************************************)
(* Fairness: the tick re-arms itself before it does anything else, and a   *)
(* deadline timer that nothing cancels expires and its handler runs.       *)
(* Nothing is assumed of the commands or of the cargo timers.              *)
(***************************************************************************)
FairSpec ==
  /\ Spec
  /\ WF_vars(Tick)
  /\ \A t \in Timer : WF_vars(t \in timers /\ TimerHandler(t))

-----------------------------------------------------------------------------
(***************************************************************************)
(* Safety.  The first property holds for every ship; the others for the    *)
(* ships whose id was handed out once.  A ship that inherits an id may     *)
(* inherit timers and a route with it, and none of them holds of it.       *)
(***************************************************************************)
Owned == (Live \ reused) \cap DOMAIN route_map
RouteOf(id) == routes[route_map[id]]
TimersOf(id) == {t \in timers : t.id = id}

\* A ship that is unloading or loading has a timer that will take it on.
\* The timer may be one that an earlier ship of the same id left behind: what
\* keeps the ship from being stuck in the dock (update_route skips it there)
\* is only that some pending handler will find its id.
NeverStranded ==
  \A id \in Live : sea_objects[id].state # "SAILING" => TimersOf(id) # {}

\* One docking at a time: a ship has no timer while it sails, and in the dock
\* one, in the phase that the ship's state says, holding the ship's route.
OneDocking ==
  /\ \A t, u \in timers : t.id = u.id /\ t.id \in Owned => t = u
  /\ \A t \in timers :
       t.id \in Owned => /\ t.phase = sea_objects[t.id].state
                         /\ t.route = route_map[t.id]

\* A ship in the dock is at the end of its route where the port lies that
\* get_docked_seaport_id names, and no ship is ever further out than what the late reading of
\* param in update_route explains.
DockedAtEnd ==
  \A id \in Owned :
    /\ sea_objects[id].state # "SAILING" =>
         IF DockedPort(RouteOf(id)) = RouteOf(id).p1
           THEN RouteOf(id).param <= 0
           ELSE RouteOf(id).param > RouteOf(id).len
    /\ RouteOf(id).param \in -1 .. RouteOf(id).len + 2

\* Cargo under way comes from the other end of the route, so remove_cargo
\* never refuses it as "inconsistent"; when loading starts the hold is empty
\* and accepts the port's cargo, so the result that sea.cpp:320 ignores is
\* what the port gave.
CargoFromOtherEnd ==
  \A id \in Owned :
    LET ship == sea_objects[id]
        r    == RouteOf(id)
    IN  IF ship.state = "LOADING"
          THEN ship.cargo = 0 /\ AcceptsCargoFrom(ship, DockedPort(r))
          ELSE ship.cargo > 0 =>
                 ship.origin # DockedPort(r) /\ ship.origin \in {r.p1, r.p2}

\* Cargo comes from the cities only: whatever is deleted, reused, renamed or
\* restarted, no other step makes the total grow.
NoCargoFromNowhere == [][TotalCargo' > TotalCargo => Generate]_vars

\* The two handlers of a docking move cargo without losing any, if the port
\* keeps a count, has room and no deficit (unloaded cargo below zero, which a conversion
\* beyond MAX_CARGO leads to),
\* and the ship's id was not handed out twice.
DockingConserves ==
  [][\A t \in timers :
       LET port == DockedPort(routes[t.route])
       IN  /\ UnloadDone(t) \/ LoadDone(t)
           /\ t.id \in Owned
           /\ port \in DOMAIN id_cargo
           /\ UnloadedAt(port) >= 0
           /\ CargoAt(port) + sea_objects[t.id].cargo <= MaxCargo
           => TotalCargo' = TotalCargo]_vars

\* Liveness: no ship stays in the dock for ever, not even one that shares its
\* id and its timers with an earlier ship.
LeavesDock ==
  \A id \in ShipId :
    (id \in Live /\ sea_objects[id].state # "SAILING")
      ~> (id \in Live => sea_objects[id].state = "SAILING")

\* Liveness: a ship with a route sails, unloads and loads, in this order and
\* again and again, until it is deleted.  Stated for behaviours that hand out
\* no id twice: after that the bound on param may stop the tick of the model.
Ended(id) == id \notin Live \/ reused # {}
InState(id, state) == id \in Owned /\ sea_objects[id].state = state

VoyagesContinue ==
  \A id \in ShipId :
    /\ InState(id, "SAILING") ~> Ended(id) \/ InState(id, "UNLOADING")
    /\ InState(id, "UNLOADING") ~> Ended(id) \/ InState(id, "LOADING")
    /\ InState(id, "LOADING") ~> Ended(id) \/ InState(id, "SAILING")

(***************************************************************************)
(* The ferry that each ship is whose id is its own (module Ferry).         *)
(***************************************************************************)
FerryOf(id) ==
  LET ship == sea_objects[id]
      r    == RouteOf(id)
  IN  [phase |-> ship.state,
       here  |-> DockedPort(r),
       there |-> IF r.reversed THEN r.p2 ELSE r.p1,
       hold  |-> ship.cargo,
       from  |-> IF ship.cargo = 0 THEN NoOrigin ELSE ship.origin]

Abstract ==
  INSTANCE Ferry WITH
    ShipIds <- ShipId, Ports <- PortArg, Capacity <- MaxCargo, Nowhere <- NoOrigin,
    ferries <- [id \in Owned |-> FerryOf(id)], launched <- issued

\* However ids are shared and timers of deleted ships linger, a ship whose id
\* is its own goes through arrivals, unloading and loading like a ferry: the
\* ticks, the two handlers and the commands that meet it are steps of Ferry.
ActsAsFerry == Abstract!Spec
=============================================================================
