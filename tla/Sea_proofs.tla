----------------------------- MODULE Sea_proofs -----------------------------
(***************************************************************************)
(* The theorems about the registry of ships and its r-tree, for any number *)
(* of ships, keys, guids and positions, and ids handed out in any order.   *)
(***************************************************************************)
EXTENDS Sea, TLAPS

\* Every id that a key leads to was handed out, so a ship that gets an id which
\* an old key still leads to has a reused id.
KeysIssued ==
  /\ \A type \in DOMAIN sea_object_id_by_type : sea_object_id_by_type[type] \in issued
  /\ \A guid \in DOMAIN sea_guid_to_id : sea_guid_to_id[guid] \in issued

\* A ship that was spawned by guid, under an id of its own, has no route, and
\* nothing but travel_to sets it in motion.
RoutedByType ==
  \A id \in Live \ reused : sea_objects[id].guid # NoGuid => id \notin routed
MovingDestined ==
  \A id \in Live \ reused :
    sea_objects[id].guid # NoGuid /\ sea_objects[id].moving => sea_objects[id].destined

SeaInv ==
  /\ TypeOK
  /\ ShipsIndexed
  /\ OneValueEach
  /\ KeysAgree
  /\ KeysIssued
  /\ RoutedByType
  /\ MovingDestined

-----------------------------------------------------------------------------
\* The operations on the values of one id.
LEMMA ValuesTypes ==
  ASSUME NEW values \in [Pos -> Nat], NEW p \in Pos, NEW q \in Pos
  PROVE  /\ Insert(values, p) \in [Pos -> Nat]
         /\ Insert(values, p)[p] > 0
         /\ values[q] > 0 => Insert(values, p)[q] > 0
         /\ Remove(values, p) \in [Pos -> Nat]
         /\ Relocate(values, p, q) \in [Pos -> Nat]
         /\ Relocate(values, p, q)[q] > 0
  BY DEF Insert, Remove, Relocate

LEMMA OneValueMoves ==
  ASSUME NEW p \in Pos, NEW q \in Pos
  PROVE  /\ Nowhere \in [Pos -> Nat]
         /\ Remove(Insert(Nowhere, p), p) = Nowhere
         /\ Relocate(Insert(Nowhere, p), p, q) = Insert(Nowhere, q)
  <1>1. Nowhere \in [Pos -> Nat]
    BY DEF Nowhere
  <1>2. Remove(Insert(Nowhere, p), p) = Nowhere
    BY DEF Nowhere, Insert, Remove
  <1> QED
    BY <1>1, <1>2 DEF Relocate

-----------------------------------------------------------------------------
LEMMA InitSeaInv == Init => SeaInv
  <1> SUFFICES ASSUME Init PROVE SeaInv
    OBVIOUS
  <1>1. DOMAIN Empty = {} /\ Empty \in [{} -> Ship] /\ Empty \in [{} -> ShipId]
    BY DEF Empty
  <1>2. Nowhere \in [Pos -> Nat]
    BY DEF Nowhere
  <1>3. TypeOK
    BY <1>1, <1>2 DEF Init, TypeOK, Live
  <1>4. ShipsIndexed /\ OneValueEach /\ KeysAgree /\ KeysIssued
                   /\ RoutedByType /\ MovingDestined
    BY <1>1 DEF Init, Live, ShipsIndexed, OneValueEach, KeysAgree, KeysIssued, RoutedByType,
               MovingDestined
  <1> QED
    BY <1>3, <1>4 DEF SeaInv

\* A spawn, of either kind: guid is NoGuid or one whose ship is gone.
LEMMA EnterKeepsInv ==
  ASSUME SeaInv, NEW type \in ShipType, NEW guid \in Guid \cup {NoGuid}, NEW pos \in Pos,
         Enter(type, guid, pos),
         IF guid = NoGuid THEN sea_guid_to_id' = sea_guid_to_id
                          ELSE sea_guid_to_id' = Put(sea_guid_to_id, guid, NewShipId),
         routed' = routed \/ (guid = NoGuid /\ routed' = routed \cup {NewShipId})
  PROVE  SeaInv'
  <1> DEFINE id == NewShipId
             ship == sea_objects'[id]
  <1>1. /\ id \in ShipId
        /\ sea_object_id_by_type' = Put(sea_object_id_by_type, type, id)
        /\ rtree' = [rtree EXCEPT ![id] = Insert(@, pos)]
        /\ issued' = issued \cup {id}
        /\ reused' = reused \cup ({id} \cap issued)
    BY DEF Enter
  <1>2. /\ Live' = Live \cup {id}
        /\ \A i \in Live : i # id => sea_objects'[i] = sea_objects[i]
        /\ sea_objects' \in [Live' -> Ship]
        /\ id \in Live => ship.pos = sea_objects[id].pos
        /\ id \notin Live => /\ ship.pos = pos /\ ship.type = type
                           /\ ship.guid = guid /\ ~ship.moving
        /\ guid # NoGuid => ship.guid = guid
    <2> DEFINE fresh == [pos |-> pos, type |-> type, guid |-> NoGuid,
                         moving |-> FALSE, destined |-> FALSE]
               old == IF id \in Live THEN sea_objects[id] ELSE fresh
               new == IF guid = NoGuid THEN old ELSE [old EXCEPT !.guid = guid]
    <2>1. sea_objects' = Put(sea_objects, id, new)
      BY DEF Enter
    <2>2. fresh \in Ship
      BY DEF Ship
    <2>3. /\ old \in Ship
          /\ id \notin Live => old = fresh
      BY <2>2 DEF SeaInv, TypeOK
    <2>4. /\ new \in Ship /\ new.pos = old.pos /\ new.type = old.type
          /\ new.moving = old.moving /\ new.destined = old.destined
          /\ guid # NoGuid => new.guid = guid
      BY <2>3 DEF Ship
    <2>5. Live' = Live \cup {id} /\ ship = new
          /\ \A i \in Live : i # id => sea_objects'[i] = sea_objects[i]
      BY <2>1 DEF Live, Put
    <2>6. sea_objects' \in [Live' -> Ship]
      BY <2>1, <2>4, <2>5 DEF SeaInv, TypeOK, Put, Live
    <2> QED
      BY <2>3, <2>4, <2>5, <2>6
  <1>3. /\ rtree' \in [ShipId -> [Pos -> Nat]]
        /\ rtree'[id] = Insert(rtree[id], pos)
        /\ \A i \in ShipId : i # id => rtree'[i] = rtree[i]
    BY <1>1, ValuesTypes DEF SeaInv, TypeOK
  <1>4. /\ sea_guid_to_id' \in [DOMAIN sea_guid_to_id' -> ShipId]
        /\ DOMAIN sea_guid_to_id' \subseteq Guid
        /\ \A g \in DOMAIN sea_guid_to_id' :
             \/ g = guid /\ guid # NoGuid /\ sea_guid_to_id'[g] = id
             \/ g \in DOMAIN sea_guid_to_id /\ sea_guid_to_id'[g] = sea_guid_to_id[g]
    <2>1. CASE guid = NoGuid
      BY <2>1 DEF SeaInv, TypeOK
    <2>2. CASE guid # NoGuid
      BY <1>1, <2>2 DEF SeaInv, TypeOK, Put
    <2> QED
      BY <2>1, <2>2
  <1>5. /\ sea_object_id_by_type' \in [DOMAIN sea_object_id_by_type' -> ShipId]
        /\ DOMAIN sea_object_id_by_type' \subseteq ShipType
        /\ \A t \in DOMAIN sea_object_id_by_type' :
             \/ t = type /\ sea_object_id_by_type'[t] = id
             \/ /\ t \in DOMAIN sea_object_id_by_type
                /\ sea_object_id_by_type'[t] = sea_object_id_by_type[t]
    BY <1>1 DEF SeaInv, TypeOK, Put
  <1>6. TypeOK'
    BY <1>1, <1>2, <1>3, <1>4, <1>5 DEF SeaInv, TypeOK
  <1>7. ShipsIndexed'
    <2> SUFFICES ASSUME NEW i \in Live' PROVE rtree'[i][sea_objects'[i].pos] > 0
      BY DEF ShipsIndexed
    <2>1. CASE i # id
      BY <1>2, <1>3, <2>1 DEF SeaInv, TypeOK, ShipsIndexed
    <2>2. CASE i = id /\ id \in Live
      <3>1. rtree[id][ship.pos] > 0 /\ ship.pos \in Pos /\ rtree[id] \in [Pos -> Nat]
        BY <1>1, <1>2, <2>2 DEF SeaInv, TypeOK, ShipsIndexed, Ship
      <3> QED
        BY <1>3, <2>2, <3>1, ValuesTypes
    <2>3. CASE i = id /\ id \notin Live
      BY <1>1, <1>2, <1>3, <2>3, ValuesTypes DEF SeaInv, TypeOK
    <2> QED
      BY <2>1, <2>2, <2>3, <1>2
  <1>8. OneValueEach'
    <2> SUFFICES ASSUME NEW i \in ShipId, i \notin reused'
                 PROVE  rtree'[i] = IF i \in Live' THEN Insert(Nowhere, sea_objects'[i].pos)
                                    ELSE Nowhere
      BY DEF OneValueEach, Nowhere, Insert
    <2>1. CASE i # id
      BY <1>1, <1>2, <1>3, <2>1 DEF SeaInv, OneValueEach
    <2>2. CASE i = id
      <3>1. id \notin issued /\ id \notin Live /\ id \notin reused
        BY <1>1, <2>2 DEF SeaInv, TypeOK
      <3>2. rtree[id] = Nowhere
        BY <1>1, <3>1 DEF SeaInv, OneValueEach
      <3> QED
        BY <1>2, <1>3, <2>2, <3>1, <3>2
    <2> QED
      BY <2>1, <2>2
  <1>9. KeysAgree'
    <2>1. ASSUME NEW t \in DOMAIN sea_object_id_by_type',
                 sea_object_id_by_type'[t] \in Live', sea_object_id_by_type'[t] \notin reused'
          PROVE  sea_objects'[sea_object_id_by_type'[t]].type = t
      <3>1. CASE sea_object_id_by_type'[t] = id
        <4>1. id \notin issued /\ id \notin Live
          BY <1>1, <2>1, <3>1 DEF SeaInv, TypeOK
        <4>2. t = type
          BY <1>5, <3>1, <4>1 DEF SeaInv, KeysIssued
        <4> QED
          BY <1>2, <3>1, <4>1, <4>2
      <3>2. CASE sea_object_id_by_type'[t] # id
        BY <1>1, <1>2, <1>5, <2>1, <3>2 DEF SeaInv, KeysAgree
      <3> QED
        BY <3>1, <3>2
    <2>2. ASSUME NEW g \in DOMAIN sea_guid_to_id',
                 sea_guid_to_id'[g] \in Live', sea_guid_to_id'[g] \notin reused'
          PROVE  sea_objects'[sea_guid_to_id'[g]].guid = g
      <3>1. CASE sea_guid_to_id'[g] = id
        <4>1. id \notin issued
          BY <1>1, <2>2, <3>1
        <4>2. g = guid /\ guid # NoGuid
          BY <1>4, <3>1, <4>1 DEF SeaInv, KeysIssued
        <4> QED
          BY <1>2, <3>1, <4>2
      <3>2. CASE sea_guid_to_id'[g] # id
        BY <1>1, <1>2, <1>4, <2>2, <3>2 DEF SeaInv, KeysAgree
      <3> QED
        BY <3>1, <3>2
    <2> QED
      BY <2>1, <2>2 DEF KeysAgree
  <1>10. KeysIssued'
    BY <1>1, <1>4, <1>5 DEF SeaInv, KeysIssued
  <1>11. RoutedByType' /\ MovingDestined'
    <2> SUFFICES ASSUME NEW i \in Live', i \notin reused', sea_objects'[i].guid # NoGuid
                 PROVE  i \notin routed' /\ (sea_objects'[i].moving => sea_objects'[i].destined)
      BY DEF RoutedByType, MovingDestined
    <2>1. CASE i # id
      BY <1>1, <1>2, <2>1 DEF SeaInv, RoutedByType, MovingDestined
    <2>2. CASE i = id
      <3>1. id \notin issued /\ id \notin Live /\ id \notin routed
        BY <1>1, <2>2 DEF SeaInv, TypeOK
      <3>2. guid # NoGuid
        BY <1>2, <2>2, <3>1
      <3> QED
        BY <1>2, <2>2, <3>1, <3>2
    <2> QED
      BY <2>1, <2>2
  <1> QED
    BY <1>6, <1>7, <1>8, <1>9, <1>10, <1>11 DEF SeaInv

LEMMA DespawnKeepsInv ==
  ASSUME SeaInv, NEW type \in ShipType, Despawn(type)
  PROVE  SeaInv'
  <1> DEFINE id == sea_object_id_by_type[type]
  <1>1. /\ id \in ShipId
        /\ sea_objects' = Erase(sea_objects, id)
        /\ sea_object_id_by_type' = Erase(sea_object_id_by_type, type)
        /\ sea_guid_to_id' = sea_guid_to_id /\ issued' = issued /\ reused' = reused
        /\ routed' = routed
    BY DEF Despawn, SeaInv, TypeOK, history
  <1>2. /\ Live' = Live \ {id}
        /\ \A i \in Live' : sea_objects'[i] = sea_objects[i]
        /\ sea_objects' \in [Live' -> Ship]
    BY <1>1 DEF SeaInv, TypeOK, Live, Erase, Restrict
  <1>3. /\ rtree' \in [ShipId -> [Pos -> Nat]]
        /\ \A i \in ShipId : i # id => rtree'[i] = rtree[i]
        /\ id \notin Live => rtree'[id] = rtree[id]
        /\ id \in Live => rtree'[id] = Remove(rtree[id], sea_objects[id].pos)
    <2>1. CASE id \in Live
      <3>1. rtree' = [rtree EXCEPT ![id] = Remove(@, sea_objects[id].pos)]
        BY <2>1 DEF Despawn
      <3>2. rtree[id] \in [Pos -> Nat] /\ sea_objects[id].pos \in Pos
        BY <1>1, <2>1 DEF SeaInv, TypeOK, Ship
      <3> QED
        BY <1>1, <2>1, <3>1, <3>2, ValuesTypes DEF SeaInv, TypeOK
    <2>2. CASE id \notin Live
      BY <2>2 DEF Despawn, SeaInv, TypeOK
    <2> QED
      BY <2>1, <2>2
  <1>4. /\ sea_object_id_by_type' \in [DOMAIN sea_object_id_by_type' -> ShipId]
        /\ DOMAIN sea_object_id_by_type' \subseteq DOMAIN sea_object_id_by_type
        /\ \A t \in DOMAIN sea_object_id_by_type' :
             sea_object_id_by_type'[t] = sea_object_id_by_type[t]
    BY <1>1 DEF SeaInv, TypeOK, Erase, Restrict
  <1>5. TypeOK'
    BY <1>1, <1>2, <1>3, <1>4 DEF SeaInv, TypeOK
  <1>6. ShipsIndexed'
    BY <1>2, <1>3 DEF SeaInv, TypeOK, ShipsIndexed
  <1>7. OneValueEach'
    <2> SUFFICES ASSUME NEW i \in ShipId, i \notin reused
                 PROVE  rtree'[i] = IF i \in Live' THEN Insert(Nowhere, sea_objects'[i].pos)
                                    ELSE Nowhere
      BY <1>1 DEF OneValueEach, Nowhere, Insert
    <2>1. CASE i = id /\ id \in Live
      <3>1. rtree[id] = Insert(Nowhere, sea_objects[id].pos) /\ sea_objects[id].pos \in Pos
        BY <2>1 DEF SeaInv, TypeOK, OneValueEach, Ship
      <3> QED
        BY <1>2, <1>3, <2>1, <3>1, OneValueMoves
    <2>2. CASE ~(i = id /\ id \in Live)
      BY <1>2, <1>3, <2>2 DEF SeaInv, OneValueEach
    <2> QED
      BY <2>1, <2>2
  <1>8. KeysAgree'
    BY <1>1, <1>2, <1>4 DEF SeaInv, KeysAgree
  <1>9. KeysIssued' /\ RoutedByType' /\ MovingDestined'
    BY <1>1, <1>2, <1>4 DEF SeaInv, KeysIssued, RoutedByType, MovingDestined
  <1> QED
    BY <1>5, <1>6, <1>7, <1>8, <1>9 DEF SeaInv

\* Travel, of any kind: the ships change position, velocity and destination
\* only, and the tree moves with them.
TravelStep ==
  /\ UNCHANGED <<keys, history>>
  /\ routed' \subseteq routed
  /\ sea_objects' \in [Live -> Ship]
  /\ rtree' \in [ShipId -> [Pos -> Nat]]
  /\ \A id \in ShipId : rtree'[id] = rtree[id] \/ id \in Live
  /\ \A id \in Live :
       \/ rtree'[id] = Relocate(rtree[id], sea_objects[id].pos, sea_objects'[id].pos)
       \/ rtree'[id] = rtree[id] /\ sea_objects'[id].pos = sea_objects[id].pos
  /\ \A id \in Live : /\ sea_objects'[id].type = sea_objects[id].type
                       /\ sea_objects'[id].guid = sea_objects[id].guid
  /\ \A id \in Live \ routed :
       /\ sea_objects'[id].moving => (sea_objects[id].moving \/ sea_objects'[id].destined)
       /\ sea_objects[id].destined => sea_objects'[id].destined

LEMMA TravelKeepsInv ==
  ASSUME SeaInv, TravelStep
  PROVE  SeaInv'
  <1> USE DEF TravelStep
  <1>1. /\ sea_object_id_by_type' = sea_object_id_by_type
        /\ sea_guid_to_id' = sea_guid_to_id
        /\ issued' = issued /\ reused' = reused
        /\ Live' = Live
    BY DEF keys, history, Live
  <1>2. TypeOK'
    BY <1>1 DEF SeaInv, TypeOK
  <1>3. \A id \in Live :
          /\ id \in ShipId /\ rtree[id] \in [Pos -> Nat]
          /\ sea_objects[id].pos \in Pos /\ sea_objects'[id].pos \in Pos
    BY DEF SeaInv, TypeOK, Ship
  <1>4. ShipsIndexed'
    <2> SUFFICES ASSUME NEW id \in Live PROVE rtree'[id][sea_objects'[id].pos] > 0
      BY <1>1 DEF ShipsIndexed
    <2>1. rtree[id][sea_objects[id].pos] > 0
      BY DEF SeaInv, ShipsIndexed
    <2> QED
      BY <1>3, <2>1, ValuesTypes
  <1>5. OneValueEach'
    <2> SUFFICES ASSUME NEW id \in ShipId, id \notin reused
                 PROVE  rtree'[id] = IF id \in Live THEN Insert(Nowhere, sea_objects'[id].pos)
                                     ELSE Nowhere
      BY <1>1 DEF OneValueEach, Nowhere, Insert
    <2>1. CASE id \in Live
      <3>1. rtree[id] = Insert(Nowhere, sea_objects[id].pos)
        BY <2>1 DEF SeaInv, OneValueEach
      <3> QED
        BY <1>3, <2>1, <3>1, OneValueMoves
    <2>2. CASE id \notin Live
      BY <2>2 DEF SeaInv, OneValueEach
    <2> QED
      BY <2>1, <2>2
  <1>6. KeysAgree' /\ KeysIssued' /\ RoutedByType'
    BY <1>1 DEF SeaInv, KeysAgree, KeysIssued, RoutedByType
  <1>7. MovingDestined'
    <2> SUFFICES ASSUME NEW id \in Live, id \notin reused, sea_objects'[id].guid # NoGuid,
                        sea_objects'[id].moving
                 PROVE  sea_objects'[id].destined
      BY <1>1 DEF MovingDestined
    <2>1. sea_objects[id].guid # NoGuid /\ id \notin routed
      BY DEF SeaInv, RoutedByType
    <2>2. sea_objects[id].moving => sea_objects[id].destined
      BY <2>1 DEF SeaInv, MovingDestined
    <2>3. /\ sea_objects[id].moving \/ sea_objects'[id].destined
          /\ sea_objects[id].destined => sea_objects'[id].destined
      BY <2>1
    <2> QED
      BY <2>2, <2>3
  <1> QED
    BY <1>2, <1>4, <1>5, <1>6, <1>7 DEF SeaInv

LEMMA NextSeaInv == SeaInv /\ [Next]_vars => SeaInv'
  <1> SUFFICES ASSUME SeaInv, [Next]_vars PROVE SeaInv'
    OBVIOUS
  <1>1. ASSUME NEW type \in ShipType, NEW pos \in Pos, NEW hasPath \in BOOLEAN,
               SpawnShip(type, pos, hasPath)
        PROVE  SeaInv'
    BY <1>1, EnterKeepsInv DEF SpawnShip
  <1>2. ASSUME NEW guid \in Guid, NEW pos \in Pos, SpawnByGuid(guid, pos) PROVE SeaInv'
    <2>1. guid # NoGuid /\ GuidType \in ShipType
      BY SeaAssumption
    <2> QED
      BY <1>2, <2>1, EnterKeepsInv DEF SpawnByGuid
  <1>3. ASSUME NEW type \in ShipType, Despawn(type) PROVE SeaInv'
    BY <1>3, DespawnKeepsInv
  <1>4. ASSUME NEW guid \in Guid, NEW moving \in BOOLEAN, TravelTo(guid, moving)
        PROVE  SeaInv'
    <2> DEFINE id == sea_guid_to_id[guid]
    <2>1. id \in Live /\ UNCHANGED <<keys, rtree, routed, history>>
      BY <1>4 DEF TravelTo, Named
    <2>2. sea_objects' = [sea_objects EXCEPT ![id].moving = moving, ![id].destined = TRUE]
      BY <1>4 DEF TravelTo
    <2>3. sea_objects' \in [Live -> Ship]
      BY <2>2 DEF SeaInv, TypeOK, Ship
    <2>4. \A i \in Live :
            /\ sea_objects'[i].type = sea_objects[i].type
            /\ sea_objects'[i].guid = sea_objects[i].guid
            /\ sea_objects'[i].pos = sea_objects[i].pos
            /\ sea_objects'[i].moving => sea_objects[i].moving \/ sea_objects'[i].destined
            /\ sea_objects[i].destined => sea_objects'[i].destined
      BY <2>1, <2>2 DEF SeaInv, TypeOK, Ship
    <2>5. rtree' \in [ShipId -> [Pos -> Nat]]
      BY <2>1 DEF SeaInv, TypeOK
    <2> QED
      BY <2>1, <2>3, <2>4, <2>5, TravelKeepsInv DEF TravelStep
  <1>5. ASSUME NEW guid \in Guid, NEW pos \in Pos, TeleportTo(guid, pos) PROVE SeaInv'
    <2> DEFINE id == sea_guid_to_id[guid]
    <2>1. id \in Live /\ id \in ShipId /\ UNCHANGED <<keys, routed, history>>
      BY <1>5 DEF TeleportTo, Named, SeaInv, TypeOK
    <2>2. /\ sea_objects' = [sea_objects EXCEPT ![id].pos = pos, ![id].moving = FALSE]
          /\ rtree' = [rtree EXCEPT ![id] = Relocate(@, sea_objects[id].pos, pos)]
      BY <1>5 DEF TeleportTo
    <2>3. sea_objects' \in [Live -> Ship]
      BY <2>2 DEF SeaInv, TypeOK, Ship
    <2>4. \A i \in Live :
            /\ sea_objects'[i].type = sea_objects[i].type
            /\ sea_objects'[i].guid = sea_objects[i].guid
            /\ sea_objects'[i].moving => sea_objects[i].moving
            /\ sea_objects[i].destined => sea_objects'[i].destined
            /\ sea_objects'[i].pos = IF i = id THEN pos ELSE sea_objects[i].pos
      BY <2>1, <2>2 DEF SeaInv, TypeOK, Ship
    <2>5. rtree[id] \in [Pos -> Nat] /\ sea_objects[id].pos \in Pos
      BY <2>1 DEF SeaInv, TypeOK, Ship
    <2>6. /\ rtree' \in [ShipId -> [Pos -> Nat]]
          /\ rtree'[id] = Relocate(rtree[id], sea_objects[id].pos, pos)
          /\ \A i \in ShipId : i # id => rtree'[i] = rtree[i]
      BY <2>1, <2>2, <2>5, ValuesTypes DEF SeaInv, TypeOK
    <2>7. \A i \in Live : i \in ShipId
      BY DEF SeaInv, TypeOK
    <2> HIDE DEF id
    <2> QED
      BY <2>1, <2>3, <2>4, <2>6, <2>7, TravelKeepsInv DEF TravelStep
  <1>6. CASE Tick
    <2>1. PICK stopped \in SUBSET Moved, to \in [Moved -> Pos] :
            /\ sea_objects' =
                 [id \in Live |->
                    IF id \in Moved
                      THEN [sea_objects[id] EXCEPT !.pos = to[id], !.moving = id \notin stopped]
                      ELSE sea_objects[id]]
            /\ rtree' =
                 [id \in ShipId |->
                    IF id \in Moved
                      THEN Relocate(rtree[id], sea_objects[id].pos, to[id]) ELSE rtree[id]]
      BY <1>6 DEF Tick
    <2>2. /\ UNCHANGED <<keys, history>> /\ routed' \subseteq routed
          /\ Moved \subseteq Live /\ Live \subseteq ShipId
          /\ \A id \in Moved : id \in routed \/ sea_objects[id].moving
      BY <1>6 DEF Tick, Moved, Travelling, SeaInv, TypeOK
    <2>3. sea_objects' \in [Live -> Ship]
      BY <2>1, <2>2 DEF SeaInv, TypeOK, Ship
    <2>4. \A id \in Live :
            /\ sea_objects'[id].type = sea_objects[id].type
            /\ sea_objects'[id].guid = sea_objects[id].guid
            /\ sea_objects'[id].destined = sea_objects[id].destined
            /\ sea_objects'[id].pos = IF id \in Moved THEN to[id] ELSE sea_objects[id].pos
            /\ id \notin Moved => sea_objects'[id].moving = sea_objects[id].moving
      BY <2>1, <2>2 DEF SeaInv, TypeOK, Ship
    <2>5. \A id \in Live :
            \/ id \in routed
            \/ sea_objects'[id].moving => sea_objects[id].moving
      BY <2>2, <2>4
    <2>6. rtree' \in [ShipId -> [Pos -> Nat]]
      <3>1. \A id \in Moved :
              Relocate(rtree[id], sea_objects[id].pos, to[id]) \in [Pos -> Nat]
        BY <2>2, ValuesTypes DEF SeaInv, TypeOK, Ship
      <3> QED
        BY <2>1, <2>2, <3>1 DEF SeaInv, TypeOK
    <2>7. \A id \in ShipId :
            rtree'[id] = IF id \in Moved
                           THEN Relocate(rtree[id], sea_objects[id].pos, sea_objects'[id].pos)
                           ELSE rtree[id]
      BY <2>1, <2>2, <2>4
    <2>8. \A id \in Live :
            \/ rtree'[id] = Relocate(rtree[id], sea_objects[id].pos, sea_objects'[id].pos)
            \/ rtree'[id] = rtree[id] /\ sea_objects'[id].pos = sea_objects[id].pos
      BY <2>2, <2>4, <2>7
    <2>9. \A id \in ShipId : rtree'[id] = rtree[id] \/ id \in Live
      BY <2>2, <2>7
    <2>10. TravelStep
      BY <2>2, <2>3, <2>4, <2>5, <2>6, <2>8, <2>9 DEF TravelStep
    <2> QED
      BY <2>10, TravelKeepsInv
  <1>7. CASE UNCHANGED vars
    BY <1>7 DEF vars, keys, history, SeaInv, TypeOK, Live, ShipsIndexed, OneValueEach,
               KeysAgree, KeysIssued, RoutedByType, MovingDestined, Nowhere, Insert
  <1> QED
    BY <1>1, <1>2, <1>3, <1>4, <1>5, <1>6, <1>7 DEF Next, Command

-----------------------------------------------------------------------------
\* Types, index, keys and destinations of the ships together are inductive.
THEOREM SeaInvariant == Spec => []SeaInv
  <1> QED
    BY InitSeaInv, NextSeaInv, PTL DEF Spec

\* Every ship is in the r-tree at its position, whatever happened to its id.
THEOREM EveryShipIndexed == Spec => []ShipsIndexed
  <1>1. SeaInv => ShipsIndexed
    BY DEF SeaInv
  <1> QED
    BY <1>1, SeaInvariant, PTL

\* An id that was handed out once has one value in the r-tree while its ship
\* lives and none afterwards.
THEOREM NoGhosts == Spec => []OneValueEach
  <1>1. SeaInv => OneValueEach
    BY DEF SeaInv
  <1> QED
    BY <1>1, SeaInvariant, PTL

\* A type or guid leads to the ship that was spawned under it.
THEOREM KeysLeadHome == Spec => []KeysAgree
  <1>1. SeaInv => KeysAgree
    BY DEF SeaInv
  <1> QED
    BY <1>1, SeaInvariant, PTL

\* The tick never reads a destination that was not written.
THEOREM DestinationsWritten == Spec => []DestinationKnown
  <1>1. SeaInv => DestinationKnown
    <2> SUFFICES ASSUME SeaInv, NEW id \in Travelling, id \notin reused
                 PROVE  sea_objects[id].destined
      BY DEF DestinationKnown
    <2>1. PICK guid \in DOMAIN sea_guid_to_id : sea_guid_to_id[guid] = id
      BY DEF Travelling, Range
    <2>2. id \in Live /\ sea_objects[id].moving
      BY DEF Travelling
    <2>3. sea_objects[id].guid = guid /\ guid # NoGuid
      BY <2>1, <2>2, SeaAssumption DEF SeaInv, TypeOK, KeysAgree
    <2> QED
      BY <2>2, <2>3 DEF SeaInv, MovingDestined
  <1> QED
    BY <1>1, SeaInvariant, PTL
=============================================================================
