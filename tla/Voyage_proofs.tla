--------------------------- MODULE Voyage_proofs ----------------------------
(***************************************************************************)
(* Theorems of Seaport and of Voyage, for any number of ships, ports,      *)
(* routes and timers, and any points, cities and bounds.  Both are made of *)
(* the operations of module Ports, which the lemmas of the first part are  *)
(* about.  Then come the theorems about Seaport, whose own variables do    *)
(* not occur in Voyage, and those about Voyage.                            *)
(***************************************************************************)
EXTENDS Voyage, Seaport, TLAPS, FiniteSetTheorems

-----------------------------------------------------------------------------
(***************************************************************************)
(* What the operations of class seaport preserve, and Seaport.             *)
(***************************************************************************)
\* An amount, once clamped, lies between 0 and MaxCargo.
LEMMA ClampType ==
  ASSUME NEW amount \in Int
  PROVE  Clamp(amount) \in 0..MaxCargo
  BY MaxCargoAssumption DEF Clamp

\* Stores never hold more than MaxCargo after an addition and never less than
\* nothing after a removal, and a removal takes at most what was there.
LEMMA StoreTypes ==
  ASSUME NEW before \in Nat, NEW amount \in Int
  PROVE  /\ AfterAdd(before, amount) \in 0..MaxCargo
         /\ AfterRemove(before, amount) \in 0..before
  <1>1. Clamp(amount) \in 0..MaxCargo
    BY ClampType
  <1> QED
    BY <1>1, MaxCargoAssumption DEF AfterAdd, AfterRemove

\* The amounts read from the maps have the types of their entries.
LEMMA AmountTypes ==
  ASSUME PortsTypeOK, NEW id
  PROVE  /\ CargoAt(id) \in Nat
         /\ UnloadedAt(id) \in Int
  BY DEF PortsTypeOK, CargoAt, UnloadedAt

\* A port hands over no more than it has.
LEMMA RemovedType ==
  ASSUME PortsTypeOK, NEW id, NEW amount \in Int
  PROVE  Removed(id, amount) \in 0..CargoAt(id)
  <1>1. CargoAt(id) \in Nat
    BY AmountTypes
  <1>2. AfterRemove(CargoAt(id), amount) \in 0..CargoAt(id)
    BY <1>1, StoreTypes
  <1> QED
    BY <1>1, <1>2 DEF Removed

\* The number of units that a pass over the cities brings to a port.
LEMMA ReceivedType ==
  ASSUME PortsTypeOK, NEW id
  PROVE  ReceivedAt(id) \in Nat
  <1>1. IsFiniteSet(City \X rtree)
    BY PortsAssumption, FS_Product DEF PortsTypeOK
  <1>2. IsFiniteSet(Visits(id))
    BY <1>1, FS_Subset DEF Visits
  <1>3. IsFiniteSet(1..CityCargo)
    BY PortsAssumption, FS_Interval
  <1>4. IsFiniteSet(Visits(id) \X (1..CityCargo))
    BY <1>2, <1>3, FS_Product
  <1>5. IsFiniteSet(UnitsFor(id))
    BY <1>4, FS_Subset DEF UnitsFor
  <1> QED
    BY <1>5, FS_CardinalityType DEF ReceivedAt

\* The number of units that a conversion moves is one that is there.
LEMMA ConvertedType ==
  ASSUME PortsTypeOK, NEW id
  PROVE  /\ Converted(id) \in Nat
         /\ Converted(id) > 0 => Converted(id) <= UnloadedAt(id)
  <1> DEFINE visits == Cardinality({v \in rtree : v.id = id})
  <1>1. visits \in Nat
    BY FS_Subset, FS_CardinalityType DEF PortsTypeOK
  <1>2. UnloadedAt(id) \in Int
    BY AmountTypes
  <1> QED
    BY <1>1, <1>2 DEF Converted

-----------------------------------------------------------------------------
\* The constructor leaves the maps typed, whatever the file holds.
LEMMA InitType ==
  ASSUME NEW file, file \subseteq PortValue, IsFiniteSet(file), PortsInit(file)
  PROVE  PortsTypeOK
  <1>1. rtree \subseteq PortValue /\ IsFiniteSet(rtree)
    BY FS_Subset DEF PortsInit, Surviving
  <1>2. /\ DOMAIN id_point = {v.id : v \in rtree}
        /\ id_point \in [DOMAIN id_point -> Point]
    BY <1>1 DEF PortsInit, PointsFrom, PortValue
  <1>3. DOMAIN id_point \subseteq PortId
    BY <1>1, <1>2 DEF PortValue
  <1> QED
    BY <1>1, <1>2, <1>3 DEF PortsInit, PortsTypeOK, Empty

LEMMA RestartType ==
  ASSUME PortsTypeOK, RestartPorts
  PROVE  PortsTypeOK'
  <1>1. rtree' \subseteq PortValue /\ IsFiniteSet(rtree')
    BY FS_Subset DEF PortsTypeOK, RestartPorts, Surviving
  <1>2. /\ DOMAIN id_point' = {v.id : v \in rtree'}
        /\ id_point' \in [DOMAIN id_point' -> Point]
    BY <1>1 DEF RestartPorts, PointsFrom, PortValue
  <1>3. DOMAIN id_point' \subseteq PortId
    BY <1>1, <1>2 DEF PortValue
  <1> QED
    BY <1>1, <1>2, <1>3 DEF PortsTypeOK, RestartPorts, Empty

LEMMA SpawnPortType ==
  ASSUME PortsTypeOK, NEW pt \in Point, SpawnPort(pt)
  PROVE  PortsTypeOK'
  <1>1. NewPortId \in Nat
    BY FS_CardinalityType DEF PortsTypeOK, NewPortId
  <1>2. IsFiniteSet(rtree')
    BY FS_AddElement DEF PortsTypeOK, SpawnPort
  <1>3. rtree' \subseteq PortValue
    BY <1>1 DEF PortsTypeOK, SpawnPort, PortValue, PortId
  <1> QED
    BY <1>1, <1>2, <1>3 DEF PortsTypeOK, SpawnPort, Put, PortId

LEMMA NamePortType ==
  ASSUME PortsTypeOK, NEW id, NamePort(id)
  PROVE  PortsTypeOK'
  BY DEF PortsTypeOK, NamePort, Put

LEMMA DespawnPortType ==
  ASSUME PortsTypeOK, NEW id, DespawnPort(id)
  PROVE  PortsTypeOK'
  <1>1. IsFiniteSet(rtree') /\ rtree' \subseteq PortValue
    BY FS_RemoveElement DEF PortsTypeOK, DespawnPort
  <1> QED
    BY <1>1 DEF PortsTypeOK, DespawnPort, Erase, Restrict

LEMMA AddUnloadedType ==
  ASSUME PortsTypeOK, NEW id, NEW amount \in Int, AddUnloaded(id, amount)
  PROVE  PortsTypeOK'
  <1> DEFINE added == AfterAdd(CargoAt(id), amount) - CargoAt(id)
  <1>1. UnloadedAt(id) + added \in Int
    BY AmountTypes, StoreTypes
  <1> QED
    BY <1>1 DEF PortsTypeOK, AddUnloaded, Put

LEMMA RemoveCargoType ==
  ASSUME PortsTypeOK, NEW id, NEW amount \in Int, RemoveCargo(id, amount)
  PROVE  PortsTypeOK'
  <1>1. \A before \in Nat : AfterRemove(before, amount) \in Nat
    BY StoreTypes
  <1> QED
    BY <1>1 DEF PortsTypeOK, RemoveCargo

LEMMA ConvertCargoType ==
  ASSUME PortsTypeOK, ConvertCargo
  PROVE  PortsTypeOK'
  <1>1. \A id : Converted(id) \in Nat
    BY ConvertedType
  <1>2. \A id : CargoAt(id) \in Nat /\ UnloadedAt(id) \in Int
    BY AmountTypes
  <1>3. {v.id : v \in rtree} \subseteq PortId
    BY DEF PortsTypeOK, PortValue
  <1> QED
    BY <1>1, <1>2, <1>3 DEF PortsTypeOK, ConvertCargo

LEMMA GenerateCargoType ==
  ASSUME PortsTypeOK, GenerateCargo
  PROVE  PortsTypeOK'
  <1>1. \A id : ReceivedAt(id) \in Nat
    BY ReceivedType
  <1> QED
    BY <1>1, MaxCargoAssumption DEF PortsTypeOK, GenerateCargo

-----------------------------------------------------------------------------
(***************************************************************************)
(* The registry: every operation keeps the tree and the maps consistent.   *)
(***************************************************************************)
Registry ==
  /\ PointsDistinct
  /\ PointsIndexed
  /\ CountHasPort
  /\ UnloadedHasCount

\* Whatever the file holds: the duplicates are removed before the ids are kept.
LEMMA InitRegistry ==
  ASSUME NEW file, PortsInit(file)
  PROVE  Registry
  BY DEF PortsInit, Surviving, PointsFrom, Empty, Registry, PointsDistinct, PointsIndexed,
         CountHasPort, UnloadedHasCount

LEMMA RestartRegistry ==
  ASSUME Registry, RestartPorts
  PROVE  Registry'
  BY DEF RestartPorts, Surviving, PointsFrom, Empty, Registry, PointsDistinct, PointsIndexed,
         CountHasPort, UnloadedHasCount

\* The interesting case: the new id may be the id of a port that is there.
LEMMA SpawnPortRegistry ==
  ASSUME Registry, NEW pt, SpawnPort(pt)
  PROVE  Registry'
  <1>1. PointsDistinct'
    BY DEF Registry, PointsDistinct, SpawnPort, PortAt
  <1>2. PointsIndexed'
    BY DEF Registry, PointsIndexed, SpawnPort, Put
  <1>3. CountHasPort' /\ UnloadedHasCount'
    BY DEF Registry, CountHasPort, UnloadedHasCount, SpawnPort, Put
  <1> QED
    BY <1>1, <1>2, <1>3 DEF Registry

LEMMA NamePortRegistry ==
  ASSUME Registry, NEW id, NamePort(id)
  PROVE  Registry'
  BY DEF Registry, PointsDistinct, PointsIndexed, CountHasPort, UnloadedHasCount,
         NamePort, Put

LEMMA DespawnPortRegistry ==
  ASSUME Registry, NEW id, DespawnPort(id)
  PROVE  Registry'
  <1>1. PointsDistinct' /\ PointsIndexed'
    BY DEF Registry, PointsDistinct, PointsIndexed, DespawnPort, Erase, Restrict
  <1>2. CountHasPort' /\ UnloadedHasCount'
    BY DEF Registry, CountHasPort, UnloadedHasCount, DespawnPort, Erase, Restrict
  <1> QED
    BY <1>1, <1>2 DEF Registry

LEMMA AddUnloadedRegistry ==
  ASSUME Registry, NEW id, NEW amount, AddUnloaded(id, amount)
  PROVE  Registry'
  BY DEF Registry, PointsDistinct, PointsIndexed, CountHasPort, UnloadedHasCount,
         AddUnloaded, Put

LEMMA RemoveCargoRegistry ==
  ASSUME Registry, NEW id, NEW amount, RemoveCargo(id, amount)
  PROVE  Registry'
  BY DEF Registry, PointsDistinct, PointsIndexed, CountHasPort, UnloadedHasCount,
         RemoveCargo

LEMMA ConvertCargoRegistry ==
  ASSUME PortsTypeOK, Registry, ConvertCargo
  PROVE  Registry'
  <1>1. \A id : UnloadedAt(id) > 0 => id \in DOMAIN id_cargo
    BY DEF Registry, UnloadedHasCount, UnloadedAt
  <1>2. \A id : Converted(id) > 0 => id \in DOMAIN id_cargo
    <2>1. SUFFICES ASSUME NEW id, Converted(id) > 0
                   PROVE  id \in DOMAIN id_cargo
      OBVIOUS
    <2>2. UnloadedAt(id) > 0
      BY <2>1, ConvertedType, AmountTypes
    <2> QED
      BY <1>1, <2>2
  <1>3. DOMAIN id_cargo' = DOMAIN id_cargo
    BY <1>2 DEF ConvertCargo
  <1>4. CountHasPort'
    BY <1>3 DEF Registry, CountHasPort, ConvertCargo
  <1>5. \A id \in DOMAIN id_cargo_unloaded' :
          id_cargo_unloaded'[id] > 0 => UnloadedAt(id) > 0
    <2>1. SUFFICES ASSUME NEW id \in DOMAIN id_cargo_unloaded',
                          id_cargo_unloaded'[id] > 0
                   PROVE  UnloadedAt(id) > 0
      OBVIOUS
    <2>2. \/ id_cargo_unloaded'[id] = UnloadedAt(id)
          \/ id_cargo_unloaded'[id] = UnloadedAt(id) - Converted(id)
      <3>1. UnloadedAt(id) - 0 = UnloadedAt(id)
        BY AmountTypes
      <3> QED
        BY <2>1, <3>1 DEF ConvertCargo
    <2>3. Converted(id) \in Nat /\ UnloadedAt(id) \in Int
      BY ConvertedType, AmountTypes
    <2> QED
      BY <2>1, <2>2, <2>3
  <1>6. UnloadedHasCount'
    BY <1>1, <1>3, <1>5 DEF UnloadedHasCount
  <1> QED
    BY <1>4, <1>6 DEF Registry, PointsDistinct, PointsIndexed, ConvertCargo

LEMMA GenerateCargoRegistry ==
  ASSUME Registry, GenerateCargo
  PROVE  Registry'
  BY DEF Registry, PointsDistinct, PointsIndexed, CountHasPort, UnloadedHasCount,
         GenerateCargo

-----------------------------------------------------------------------------
(***************************************************************************)
(* Sums.  SumFunction folds over a finite set in the order of an arbitrary *)
(* choice.  What it computes is proved here by induction over the finite   *)
(* sets, in the form of a smallest counterexample, for which the library   *)
(* has a theorem without an operator as a parameter.                       *)
(***************************************************************************)
\* The element that the fold takes next, and the recursion that it is: g holds
\* the sum of f over every subset of U.
Pick(s) == CHOOSE x \in s : TRUE

IsSum(g, f, U) ==
  g = [s \in SUBSET U |-> IF s = {} THEN 0 ELSE f[Pick(s)] + g[s \ {Pick(s)}]]

\* The fold of the community modules, expanded.
LEMMA SumIsChosen ==
  ASSUME NEW f, NEW S
  PROVE  SumFunctionOnSet(f, S) = (CHOOSE g : IsSum(g, f, S))[S]
BY Zenon DEF SumFunctionOnSet, FoldFunctionOnSet, MapThenFoldSet, IsSum, Pick

LEMMA PickIn ==
  ASSUME NEW s, s # {}
  PROVE  Pick(s) \in s
BY Zenon DEF Pick

\* Induction over the subsets of a finite set, as the smallest counterexample: a
\* set of them has one that contains no other.
LEMMA SmallestSet ==
  ASSUME NEW S, IsFiniteSet(S), NEW T \in SUBSET (SUBSET S), T # {}
  PROVE  \E U \in T : \A V \in T : V \subseteq U => V = U
<1>1. IsWellFoundedOn(StrictSubsetOrdering(S), SUBSET S)
  BY FS_StrictSubsetOrderingWellFounded, FS_FiniteSubsetsOfFinite
<1>2. \E U \in T : \A V \in T : ~(<<V, U>> \in StrictSubsetOrdering(S))
  BY <1>1, WFMin
<1>. QED  BY <1>2 DEF StrictSubsetOrdering

\* Two such recursions agree where both are defined.
LEMMA SumUnique ==
  ASSUME NEW f, NEW S, IsFiniteSet(S), NEW U \in SUBSET S,
         NEW g, NEW h, IsSum(g, f, S), IsSum(h, f, U)
  PROVE  g[U] = h[U]
<1>. DEFINE T == {s \in SUBSET U : g[s] # h[s]}
<1>1. SUFFICES ASSUME T # {}  PROVE FALSE
  OBVIOUS
<1>2. PICK s \in T : \A v \in T : v \subseteq s => v = s
  <2>. HIDE DEF T
  <2>1. T \in SUBSET (SUBSET U)
    BY DEF T
  <2>2. IsFiniteSet(U)
    BY FS_Subset
  <2>. QED  BY <2>1, <2>2, <1>1, SmallestSet
<1>3. s # {}
  BY DEF IsSum
<1>4. Pick(s) \in s /\ g[s \ {Pick(s)}] = h[s \ {Pick(s)}]
  BY <1>2, <1>3, PickIn
<1>5. g[s] = f[Pick(s)] + g[s \ {Pick(s)}] /\ h[s] = f[Pick(s)] + h[s \ {Pick(s)}]
  BY <1>3 DEF IsSum
<1>. QED  BY <1>4, <1>5

\* There is one for every finite set, so that the fold is what it was meant to be.
LEMMA SumExists ==
  ASSUME NEW f, NEW S, IsFiniteSet(S)
  PROVE  \E g : IsSum(g, f, S)
<1>. DEFINE T == {U \in SUBSET S : ~ \E g : IsSum(g, f, U)}
            h(V) == CHOOSE g : IsSum(g, f, V)
            at(s) == s \ {Pick(s)}
<1>1. SUFFICES ASSUME T # {}  PROVE FALSE
  OBVIOUS
<1>2. PICK U \in T : \A V \in T : V \subseteq U => V = U
  <2>. HIDE DEF T
  <2>1. T \in SUBSET (SUBSET S)
    BY DEF T
  <2>. QED  BY <2>1, <1>1, SmallestSet
<1>3. \A V \in SUBSET U : V # U => IsSum(h(V), f, V)
  BY <1>2
<1>4. IsFiniteSet(U)
  BY FS_Subset
<1>. DEFINE G == [s \in SUBSET U |-> IF s = {} THEN 0 ELSE f[Pick(s)] + h(at(s))[at(s)]]
<1>. HIDE DEF h, T
<1>5. \A s \in SUBSET U : s # {} => at(s) \in SUBSET U /\ at(s) # U /\ at(s) # s
  BY PickIn
<1>6. \A s \in SUBSET U : s # {} => G[at(s)] = h(at(s))[at(s)]
  <2>. SUFFICES ASSUME NEW s \in SUBSET U, s # {}  PROVE G[at(s)] = h(at(s))[at(s)]
    OBVIOUS
  <2>. DEFINE V == at(s)
              W == at(V)
  <2>1. IsSum(h(V), f, V) /\ V \in SUBSET U
    BY <1>3, <1>5
  <2>2. CASE V = {}
    <3>1. h(V)[V] = 0
      BY <2>1, <2>2 DEF IsSum
    <3>2. G[V] = 0
      BY <2>1, <2>2
    <3>. QED  BY <3>1, <3>2
  <2>3. CASE V # {}
    <3>1. G[V] = f[Pick(V)] + h(W)[W]
      BY <2>1, <2>3
    <3>2. h(V)[V] = f[Pick(V)] + h(V)[W]
      <4>. HIDE DEF V
      <4>. QED  BY <2>1, <2>3 DEF IsSum
    <3>3. IsSum(h(W), f, W) /\ W \in SUBSET V
      BY <1>3, <1>5, <2>1, <2>3
    <3>4. IsFiniteSet(V)
      BY <2>1, <1>4, FS_Subset
    <3>5. h(V)[W] = h(W)[W]
      <4>. HIDE DEF V, W
      <4>. QED  BY <3>3, <3>4, <2>1, SumUnique
    <3>. QED  BY <3>1, <3>2, <3>5
  <2>. QED  BY <2>2, <2>3
<1>7. G = [s \in SUBSET U |-> IF s = {} THEN 0 ELSE f[Pick(s)] + G[at(s)]]
  <2>1. \A s \in SUBSET U : G[s] = IF s = {} THEN 0 ELSE f[Pick(s)] + h(at(s))[at(s)]
    OBVIOUS
  <2>2. \A s \in SUBSET U : G[s] = IF s = {} THEN 0 ELSE f[Pick(s)] + G[at(s)]
    <3>. HIDE DEF G, at
    <3>. QED  BY <2>1, <1>6
  <2>3. G = [s \in SUBSET U |-> G[s]]
    OBVIOUS
  <2>. HIDE DEF G
  <2>. QED  BY <2>2, <2>3
<1>8. IsSum(G, f, U)
  <2>. HIDE DEF G
  <2>. QED  BY <1>7 DEF IsSum
<1>. QED
  <2>. HIDE DEF G
  <2>. QED  BY <1>8 DEF T

\* A sum over a finite set is that over one element less, and an element.
LEMMA SumUnfolds ==
  ASSUME NEW f, NEW S, IsFiniteSet(S)
  PROVE  SumFunctionOnSet(f, S) =
           IF S = {} THEN 0 ELSE f[Pick(S)] + SumFunctionOnSet(f, S \ {Pick(S)})
<1>. DEFINE h(V) == CHOOSE g : IsSum(g, f, V)
            V == S \ {Pick(S)}
<1>1. IsFiniteSet(V)
  BY FS_Subset
<1>2. IsSum(h(S), f, S) /\ IsSum(h(V), f, V)
  BY <1>1, SumExists
<1>3. SumFunctionOnSet(f, S) = h(S)[S] /\ SumFunctionOnSet(f, V) = h(V)[V]
  BY SumIsChosen
<1>. HIDE DEF h
<1>4. h(S)[V] = h(V)[V]
  BY <1>1, <1>2, SumUnique
<1>5. h(S)[S] = IF S = {} THEN 0 ELSE f[Pick(S)] + h(S)[V]
  BY <1>2 DEF IsSum
<1>. QED  BY <1>3, <1>4, <1>5

\* A sum of integers is one.
LEMMA SumType ==
  ASSUME NEW f, NEW S, IsFiniteSet(S), \A x \in S : f[x] \in Int
  PROVE  SumFunctionOnSet(f, S) \in Int
<1>. DEFINE sum(U) == SumFunctionOnSet(f, U)
            T == {U \in SUBSET S : sum(U) \notin Int}
<1>1. SUFFICES ASSUME T # {}  PROVE FALSE
  OBVIOUS
<1>2. PICK U \in T : \A V \in T : V \subseteq U => V = U
  <2>. HIDE DEF T
  <2>1. T \in SUBSET (SUBSET S)
    BY DEF T
  <2>. QED  BY <2>1, <1>1, SmallestSet
<1>3. sum(U) = IF U = {} THEN 0 ELSE f[Pick(U)] + sum(U \ {Pick(U)})
  BY FS_Subset, SumUnfolds
<1>. HIDE DEF sum
<1>4. U # {} => sum(U \ {Pick(U)}) \in Int
  BY <1>2, PickIn
<1>. QED  BY <1>3, <1>4, PickIn

\* Any element may be taken out first.
LEMMA SumTakeOut ==
  ASSUME NEW f, NEW S, IsFiniteSet(S), \A x \in S : f[x] \in Int, NEW x \in S
  PROVE  SumFunctionOnSet(f, S) = f[x] + SumFunctionOnSet(f, S \ {x})
<1>. DEFINE sum(U) == SumFunctionOnSet(f, U)
            T == {U \in SUBSET S : \E y \in U : sum(U) # f[y] + sum(U \ {y})}
<1>1. SUFFICES ASSUME T # {}  PROVE FALSE
  OBVIOUS
<1>2. PICK U \in T : \A V \in T : V \subseteq U => V = U
  <2>. HIDE DEF T
  <2>1. T \in SUBSET (SUBSET S)
    BY DEF T
  <2>. QED  BY <2>1, <1>1, SmallestSet
<1>3. PICK y \in U : sum(U) # f[y] + sum(U \ {y})
  OBVIOUS
<1>. DEFINE p == Pick(U)
<1>4. p \in U /\ IsFiniteSet(U) /\ U \subseteq S
  BY PickIn, FS_Subset
<1>5. sum(U) = f[p] + sum(U \ {p})
  BY <1>4, SumUnfolds
<1>6. p # y
  BY <1>3, <1>5
<1>7. \A V \in SUBSET U : V # U => \A z \in V : sum(V) = f[z] + sum(V \ {z})
  BY <1>2
<1>8. sum((U \ {y}) \ {p}) \in Int /\ f[y] \in Int /\ f[p] \in Int
  <2>1. IsFiniteSet((U \ {y}) \ {p})
    BY <1>4, FS_Subset
  <2>. QED  BY <1>4, <2>1, SumType
<1>9. sum((U \ {p}) \ {y}) = sum((U \ {y}) \ {p})
  <2>1. (U \ {p}) \ {y} = (U \ {y}) \ {p}
    OBVIOUS
  <2>. HIDE DEF sum, p
  <2>. QED  BY <2>1
<1>. HIDE DEF sum, T, p
<1>10. sum(U \ {p}) = f[y] + sum((U \ {p}) \ {y})
  BY <1>4, <1>6, <1>7
<1>11. sum(U \ {y}) = f[p] + sum((U \ {y}) \ {p})
  BY <1>4, <1>6, <1>7
<1>12. sum(U) = f[y] + (f[p] + sum((U \ {y}) \ {p}))
  BY <1>5, <1>8, <1>9, <1>10
<1>13. sum(U) = f[y] + sum(U \ {y})
  BY <1>11, <1>12
<1>. QED  BY <1>3, <1>13

\* Only the values on the set matter.
LEMMA SumAgree ==
  ASSUME NEW f, NEW g, NEW S, IsFiniteSet(S), \A x \in S : f[x] = g[x]
  PROVE  SumFunctionOnSet(f, S) = SumFunctionOnSet(g, S)
<1>. DEFINE T == {U \in SUBSET S : SumFunctionOnSet(f, U) # SumFunctionOnSet(g, U)}
<1>1. SUFFICES ASSUME T # {}  PROVE FALSE
  OBVIOUS
<1>2. PICK U \in T : \A V \in T : V \subseteq U => V = U
  <2>. HIDE DEF T
  <2>1. T \in SUBSET (SUBSET S)
    BY DEF T
  <2>. QED  BY <2>1, <1>1, SmallestSet
<1>3. \A h : SumFunctionOnSet(h, U) =
               IF U = {} THEN 0 ELSE h[Pick(U)] + SumFunctionOnSet(h, U \ {Pick(U)})
  BY FS_Subset, SumUnfolds
<1>4. U # {} => SumFunctionOnSet(f, U \ {Pick(U)}) = SumFunctionOnSet(g, U \ {Pick(U)})
  BY <1>2, PickIn
<1>. QED  BY <1>3, <1>4, PickIn

\* Sums of functions that differ by a third one's values.
LEMMA SumAdds ==
  ASSUME NEW f, NEW g, NEW h, NEW S, IsFiniteSet(S),
         \A x \in S : f[x] \in Int /\ g[x] \in Int /\ h[x] = f[x] + g[x]
  PROVE  SumFunctionOnSet(h, S) = SumFunctionOnSet(f, S) + SumFunctionOnSet(g, S)
<1>. DEFINE sum(k, U) == SumFunctionOnSet(k, U)
            T == {U \in SUBSET S : sum(h, U) # sum(f, U) + sum(g, U)}
<1>1. SUFFICES ASSUME T # {}  PROVE FALSE
  OBVIOUS
<1>2. PICK U \in T : \A V \in T : V \subseteq U => V = U
  <2>. HIDE DEF T
  <2>1. T \in SUBSET (SUBSET S)
    BY DEF T
  <2>. QED  BY <2>1, <1>1, SmallestSet
<1>. DEFINE p == Pick(U)
            V == U \ {p}
<1>3. \A k : sum(k, U) = IF U = {} THEN 0 ELSE k[p] + sum(k, V)
  BY FS_Subset, SumUnfolds
<1>4. U # {} => sum(h, V) = sum(f, V) + sum(g, V) /\ p \in S
  BY <1>2, PickIn
<1>5. sum(f, V) \in Int /\ sum(g, V) \in Int
  <2>1. IsFiniteSet(V)
    BY FS_Subset
  <2>. QED  BY <2>1, SumType
<1>6. sum(h, U) # sum(f, U) + sum(g, U)
  OBVIOUS
<1>. HIDE DEF sum, T, p, V
<1>. QED  BY <1>3, <1>4, <1>5, <1>6

\* Elements of value 0 add nothing.
LEMMA SumIgnoresZeros ==
  ASSUME NEW f, NEW S, IsFiniteSet(S), NEW R \in SUBSET S, \A x \in S : f[x] \in Int,
         \A x \in S \ R : f[x] = 0
  PROVE  SumFunctionOnSet(f, S) = SumFunctionOnSet(f, R)
<1>. DEFINE sum(U) == SumFunctionOnSet(f, U)
            T == {U \in SUBSET S : R \subseteq U /\ sum(U) # sum(R)}
<1>1. SUFFICES ASSUME T # {}  PROVE FALSE
  OBVIOUS
<1>2. PICK U \in T : \A V \in T : V \subseteq U => V = U
  <2>. HIDE DEF T
  <2>1. T \in SUBSET (SUBSET S)
    BY DEF T
  <2>. QED  BY <2>1, <1>1, SmallestSet
<1>3. PICK x \in U : x \notin R
  BY <1>2
<1>4. sum(U) = f[x] + sum(U \ {x})
  BY FS_Subset, SumTakeOut
<1>5. sum(U \ {x}) = sum(R) /\ sum(R) \in Int
  BY <1>2, <1>3, FS_Subset, SumType
<1>6. f[x] = 0 /\ sum(U) # sum(R)
  BY <1>3
<1>. HIDE DEF sum, T
<1>. QED  BY <1>4, <1>5, <1>6

\* Smaller values have a smaller sum.
LEMMA SumMonotone ==
  ASSUME NEW f, NEW g, NEW S, IsFiniteSet(S),
         \A x \in S : f[x] \in Int /\ g[x] \in Int /\ f[x] <= g[x]
  PROVE  SumFunctionOnSet(f, S) <= SumFunctionOnSet(g, S)
<1>. DEFINE sum(k, U) == SumFunctionOnSet(k, U)
            T == {U \in SUBSET S : ~(sum(f, U) <= sum(g, U))}
<1>1. SUFFICES ASSUME T # {}  PROVE FALSE
  OBVIOUS
<1>2. PICK U \in T : \A V \in T : V \subseteq U => V = U
  <2>. HIDE DEF T
  <2>1. T \in SUBSET (SUBSET S)
    BY DEF T
  <2>. QED  BY <2>1, <1>1, SmallestSet
<1>. DEFINE p == Pick(U)
            V == U \ {p}
<1>3. \A k : sum(k, U) = IF U = {} THEN 0 ELSE k[p] + sum(k, V)
  BY FS_Subset, SumUnfolds
<1>4. U # {} => sum(f, V) <= sum(g, V) /\ p \in S
  BY <1>2, PickIn
<1>5. sum(f, V) \in Int /\ sum(g, V) \in Int
  <2>1. IsFiniteSet(V)
    BY FS_Subset
  <2>. QED  BY <2>1, SumType
<1>6. ~(sum(f, U) <= sum(g, U))
  OBVIOUS
<1>. HIDE DEF sum, T, p, V
<1>. QED  BY <1>3, <1>4, <1>5, <1>6

\* A map is the same sum over any finite set of keys with 0 where it has none.
LEMMA SumOverKeys ==
  ASSUME NEW f, NEW D, IsFiniteSet(D), DOMAIN f \subseteq D, \A x \in DOMAIN f : f[x] \in Int
  PROVE  SumFunction(f) = SumFunctionOnSet([x \in D |-> IF x \in DOMAIN f THEN f[x] ELSE 0], D)
<1>. DEFINE g == [x \in D |-> IF x \in DOMAIN f THEN f[x] ELSE 0]
<1>1. SumFunctionOnSet(g, D) = SumFunctionOnSet(g, DOMAIN f)
  <2>1. \A x \in D : g[x] \in Int
    OBVIOUS
  <2>2. \A x \in D \ DOMAIN f : g[x] = 0
    OBVIOUS
  <2>. HIDE DEF g
  <2>. QED  BY <2>1, <2>2, SumIgnoresZeros
<1>2. SumFunctionOnSet(g, DOMAIN f) = SumFunctionOnSet(f, DOMAIN f)
  <2>1. IsFiniteSet(DOMAIN f)
    BY FS_Subset
  <2>2. \A x \in DOMAIN f : g[x] = f[x]
    OBVIOUS
  <2>. HIDE DEF g
  <2>. QED  BY <2>1, <2>2, SumAgree
<1>. HIDE DEF g
<1>3. SumFunction(f) = SumFunctionOnSet(f, DOMAIN f)
  BY Zenon DEF SumFunction
<1>. QED  BY <1>1, <1>2, <1>3 DEF g

\* Where one value changes, the sum changes by as much.
LEMMA SumChangesOne ==
  ASSUME NEW f, NEW g, NEW S, IsFiniteSet(S), NEW x \in S,
         \A y \in S : f[y] \in Int /\ g[y] \in Int,
         \A y \in S \ {x} : f[y] = g[y]
  PROVE  SumFunctionOnSet(g, S) = SumFunctionOnSet(f, S) + (g[x] - f[x])
<1>. DEFINE R == S \ {x}
<1>1. IsFiniteSet(R)
  BY FS_Subset
<1>2. /\ SumFunctionOnSet(f, S) = f[x] + SumFunctionOnSet(f, R)
      /\ SumFunctionOnSet(g, S) = g[x] + SumFunctionOnSet(g, R)
  BY SumTakeOut
<1>3. SumFunctionOnSet(f, R) = SumFunctionOnSet(g, R)
  BY <1>1, SumAgree
<1>4. SumFunctionOnSet(f, R) \in Int /\ f[x] \in Int /\ g[x] \in Int
  BY <1>1, SumType
<1>. HIDE DEF R
<1>. QED  BY <1>2, <1>3, <1>4

-----------------------------------------------------------------------------
(***************************************************************************)
(* The stores as summands: their keys stay finitely many, and what a       *)
(* conversion takes from one store of a port it puts into the other.       *)
(***************************************************************************)
StoresFinite == IsFiniteSet(DOMAIN id_cargo) /\ IsFiniteSet(DOMAIN id_cargo_unloaded)

LEMMA TreeIdsFinite ==
  ASSUME PortsTypeOK
  PROVE  IsFiniteSet({v.id : v \in rtree})
<1>. DEFINE ids == {v.id : v \in rtree}
            f == [v \in rtree |-> v.id]
<1>1. f \in Surjection(rtree, ids)
  BY DEF Surjection
<1>2. IsFiniteSet(rtree)
  BY DEF PortsTypeOK
<1>. HIDE DEF f, ids
<1>3. IsFiniteSet(ids)
  BY <1>1, <1>2, FS_Surjection
<1>. QED  BY <1>3 DEF ids

LEMMA InitFinite ==
  ASSUME NEW file, PortsInit(file)
  PROVE  StoresFinite
BY FS_EmptySet DEF PortsInit, StoresFinite, Empty

LEMMA RestartFinite ==
  ASSUME RestartPorts
  PROVE  StoresFinite'
BY FS_EmptySet DEF RestartPorts, StoresFinite, Empty

LEMMA PortCommandFinite ==
  ASSUME StoresFinite, NEW id, SpawnPort(id) \/ NamePort(id) \/ DespawnPort(id)
  PROVE  StoresFinite'
<1>1. /\ IsFiniteSet(DOMAIN id_cargo \cup {NewPortId}) /\ IsFiniteSet(DOMAIN id_cargo \cup {id})
      /\ IsFiniteSet(DOMAIN id_cargo \ {id}) /\ IsFiniteSet(DOMAIN id_cargo_unloaded \ {id})
  BY FS_AddElement, FS_RemoveElement DEF StoresFinite
<1>. QED  BY <1>1 DEF StoresFinite, SpawnPort, NamePort, DespawnPort, Put, Erase, Restrict

LEMMA CargoCallFinite ==
  ASSUME StoresFinite, NEW id, NEW amount, AddUnloaded(id, amount) \/ RemoveCargo(id, amount)
  PROVE  StoresFinite'
<1>1. IsFiniteSet(DOMAIN id_cargo_unloaded \cup {id})
  BY FS_AddElement DEF StoresFinite
<1>. QED  BY <1>1 DEF StoresFinite, AddUnloaded, RemoveCargo, Put

LEMMA CargoTimerFinite ==
  ASSUME PortsTypeOK, StoresFinite, ConvertCargo \/ GenerateCargo
  PROVE  StoresFinite'
<1>1. CASE ConvertCargo
  <2>. DEFINE ids == {v.id : v \in rtree}
              more == {j \in ids : Converted(j) > 0}
  <2>1. IsFiniteSet(ids)
    BY TreeIdsFinite
  <2>2. IsFiniteSet(more)
    BY <2>1, FS_Subset
  <2>3. DOMAIN id_cargo' = DOMAIN id_cargo \cup more
    BY <1>1 DEF ConvertCargo
  <2>4. DOMAIN id_cargo_unloaded' = DOMAIN id_cargo_unloaded \cup ids
    BY <1>1 DEF ConvertCargo
  <2>. HIDE DEF ids, more
  <2>. QED  BY <2>1, <2>2, <2>3, <2>4, FS_Union DEF StoresFinite
<1>2. CASE GenerateCargo
  BY <1>2 DEF StoresFinite, GenerateCargo
<1>. QED  BY <1>1, <1>2

\* What a conversion moves of a port.
Moved(id) == IF id \in {v.id : v \in rtree} THEN Converted(id) ELSE 0

LEMMA ConversionMoves ==
  ASSUME PortsTypeOK, ConvertCargo, NEW id
  PROVE  /\ Moved(id) \in Nat /\ (Moved(id) > 0 => Moved(id) <= UnloadedAt(id))
         /\ CargoAt(id)' = CargoAt(id) + Moved(id)
         /\ UnloadedAt(id)' = UnloadedAt(id) - Moved(id)
<1>1. Converted(id) \in Nat /\ (Converted(id) > 0 => Converted(id) <= UnloadedAt(id))
  BY ConvertedType
<1>2. CargoAt(id) \in Nat /\ UnloadedAt(id) \in Int
  BY AmountTypes
<1>3. CargoAt(id)' = CargoAt(id) + Moved(id)
  <2>1. CASE id \in DOMAIN id_cargo'
    BY <2>1 DEF ConvertCargo, CargoAt, Moved
  <2>2. CASE id \notin DOMAIN id_cargo'
    <3>1. id \notin DOMAIN id_cargo /\ Moved(id) = 0
      BY <2>2, <1>1 DEF ConvertCargo, Moved
    <3>. QED  BY <2>2, <3>1 DEF CargoAt
  <2>. QED  BY <2>1, <2>2
<1>4. UnloadedAt(id)' = UnloadedAt(id) - Moved(id)
  <2>1. CASE id \in DOMAIN id_cargo_unloaded'
    BY <2>1 DEF ConvertCargo, UnloadedAt, Moved
  <2>2. CASE id \notin DOMAIN id_cargo_unloaded'
    BY <2>2 DEF ConvertCargo, UnloadedAt, Moved
  <2>. QED  BY <2>1, <2>2
<1>. QED  BY <1>1, <1>3, <1>4 DEF Moved
-----------------------------------------------------------------------------
(***************************************************************************)
(* Theorems of Seaport, for any set of points, cities, names and amounts.  *)
(* The inductive invariant is the type invariant, the registry and         *)
(* NothingInherited together: a load writes a statistic for every id with  *)
(* a count, so that the statistics belong to ports only because the counts *)
(* do.                                                                     *)
(***************************************************************************)
SeaportInv == SeaportTypeOK /\ Registry /\ NothingInherited

LEMMA SeaportInvStarts == SeaportInit => SeaportInv
  <1>1. SUFFICES ASSUME SeaportInit PROVE SeaportInv
    OBVIOUS
  <1> PICK file \in SUBSET OldPort : PortsInit(file)
    BY <1>1 DEF SeaportInit
  <1>2. PortsTypeOK
    BY InitType, FS_Subset, SeaportAssumption
  <1>3. Registry
    BY InitRegistry
  <1>4. SeaportTypeOK /\ NothingInherited
    BY <1>1, <1>2, <1>3, SeaportAssumption
    DEF SeaportInit, PortsInit, SeaportTypeOK, NothingInherited, Registry, Empty
  <1> QED
    BY <1>3, <1>4 DEF SeaportInv

\* The maps of module Ports, under every action.
LEMMA SeaportPorts ==
  ASSUME PortsTypeOK, Registry, SeaportNext
  PROVE  PortsTypeOK' /\ Registry'
  <1>1. CASE \E pt \in Point, name \in Name, owner \in Owner : Spawn(pt, name, owner)
    BY <1>1, SpawnPortType, SpawnPortRegistry DEF Spawn
  <1>2. CASE \E id \in PortArg, name \in Name, owner \in Owner : SetName(id, name, owner)
    BY <1>2, NamePortType, NamePortRegistry DEF SetName
  <1>3. CASE \E id \in PortArg : Despawn(id)
    BY <1>3, DespawnPortType, DespawnPortRegistry DEF Despawn
  <1>4. CASE \E id \in PortArg, amount \in ShipAmount : Unload(id, amount)
    BY <1>4, AddUnloadedType, AddUnloadedRegistry, SeaportAssumption DEF Unload
  <1>5. CASE \E id \in PortArg : Load(id)
    BY <1>5, RemoveCargoType, RemoveCargoRegistry, PortsAssumption DEF Load
  <1>6. CASE SeaportConvert
    BY <1>6, ConvertCargoType, ConvertCargoRegistry DEF SeaportConvert
  <1>7. CASE SeaportGenerate
    BY <1>7, GenerateCargoType, GenerateCargoRegistry DEF SeaportGenerate
  <1>8. CASE SeaportRestart
    BY <1>8, RestartType, RestartRegistry DEF SeaportRestart
  <1> QED
    BY <1>1, <1>2, <1>3, <1>4, <1>5, <1>6, <1>7, <1>8 DEF SeaportNext

\* The maps that only module Seaport has.
LEMMA SeaportLabels ==
  ASSUME SeaportInv, SeaportNext
  PROVE  /\ DOMAIN id_cargo_loaded' \subseteq PortId
         /\ id_cargo_loaded' \in [DOMAIN id_cargo_loaded' -> Nat]
         /\ id_name' \in [DOMAIN id_name' -> Name]
         /\ id_owner_id' \in [DOMAIN id_owner_id' -> Owner]
  <1> USE DEF SeaportInv, SeaportTypeOK
  <1>1. CASE \E pt \in Point, name \in Name, owner \in Owner : Spawn(pt, name, owner)
    BY <1>1 DEF Spawn, Put
  <1>2. CASE \E id \in PortArg, name \in Name, owner \in Owner : SetName(id, name, owner)
    BY <1>2 DEF SetName, Put
  <1>3. CASE \E id \in PortArg : Despawn(id)
    BY <1>3 DEF Despawn, Erase, Restrict
  <1>4. CASE \E id \in PortArg, amount \in ShipAmount : Unload(id, amount)
    BY <1>4 DEF Unload, labels
  <1>5. CASE \E id \in PortArg : Load(id)
    <2>1. PICK id \in PortArg : Load(id)
      BY <1>5
    <2>2. LoadedAt(id) + Removed(id, LoadLot) \in Nat
      BY RemovedType, AmountTypes, PortsAssumption DEF LoadedAt
    <2>3. id \in PortId
      BY PortsAssumption
    <2> QED
      BY <2>1, <2>2, <2>3 DEF Load, Put, labels
  <1>6. CASE SeaportConvert \/ SeaportGenerate
    BY <1>6 DEF SeaportConvert, SeaportGenerate, labels
  <1>7. CASE SeaportRestart
    BY <1>7, SeaportAssumption DEF SeaportRestart, Empty
  <1> QED
    BY <1>1, <1>2, <1>3, <1>4, <1>5, <1>6, <1>7 DEF SeaportNext

LEMMA SeaportInherits ==
  ASSUME SeaportInv, SeaportNext
  PROVE  NothingInherited'
  <1> USE DEF SeaportInv, NothingInherited
  <1>0. CountHasPort'
    BY SeaportPorts DEF SeaportTypeOK, Registry
  <1>1. CASE \E pt \in Point, name \in Name, owner \in Owner : Spawn(pt, name, owner)
    BY <1>0, <1>1 DEF Spawn, SpawnPort, Put
  <1>2. CASE \E id \in PortArg, name \in Name, owner \in Owner : SetName(id, name, owner)
    BY <1>0, <1>2 DEF SetName, NamePort, Put
  <1>3. CASE \E id \in PortArg : Despawn(id)
    BY <1>0, <1>3 DEF Despawn, DespawnPort, Erase, Restrict
  <1>4. CASE \E id \in PortArg, amount \in ShipAmount : Unload(id, amount)
    BY <1>0, <1>4 DEF Unload, AddUnloaded, Put, labels, Registry, CountHasPort
  <1>5. CASE \E id \in PortArg : Load(id)
    BY <1>0, <1>5 DEF Load, RemoveCargo, Put, labels, Registry, CountHasPort
  <1>6. CASE SeaportConvert
    <2>1. SUFFICES ASSUME NEW id \in DOMAIN id_cargo_unloaded' \ DOMAIN id_point'
                   PROVE  id_cargo_unloaded'[id] = 0
      BY <1>0, <1>6 DEF SeaportConvert, ConvertCargo, labels
    <2>2. UnloadedAt(id) = 0
      BY <1>6, <2>1 DEF SeaportConvert, ConvertCargo, UnloadedAt
    <2>3. Converted(id) = 0
      BY <2>2, ConvertedType DEF SeaportTypeOK
    <2> QED
      BY <1>6, <2>1, <2>2, <2>3 DEF SeaportConvert, ConvertCargo
  <1>7. CASE SeaportGenerate
    BY <1>0, <1>7 DEF SeaportGenerate, GenerateCargo, labels
  <1>8. CASE SeaportRestart
    BY <1>0, <1>8 DEF SeaportRestart, RestartPorts, Empty
  <1> QED
    BY <1>1, <1>2, <1>3, <1>4, <1>5, <1>6, <1>7, <1>8 DEF SeaportNext

LEMMA SeaportInvKept == SeaportInv /\ [SeaportNext]_seaportVars => SeaportInv'
  <1>1. SUFFICES ASSUME SeaportInv, [SeaportNext]_seaportVars PROVE SeaportInv'
    OBVIOUS
  <1>2. CASE SeaportNext
    <2>1. PortsTypeOK' /\ Registry'
      BY <1>1, <1>2, SeaportPorts DEF SeaportInv, SeaportTypeOK
    <2>2. SeaportTypeOK'
      BY <1>1, <1>2, <2>1, SeaportLabels DEF SeaportTypeOK
    <2> QED
      BY <1>1, <1>2, <2>1, <2>2, SeaportInherits DEF SeaportInv
  <1>3. CASE UNCHANGED seaportVars
    BY <1>1, <1>3
    DEF seaportVars, portVars, labels, SeaportInv, SeaportTypeOK, PortsTypeOK, Registry,
        PointsDistinct, PointsIndexed, CountHasPort, UnloadedHasCount,
        NothingInherited
  <1> QED
    BY <1>1, <1>2, <1>3

\* The inductive invariant holds in every reachable state.
THEOREM SeaportInvariant == SeaportSpec => []SeaportInv
  BY SeaportInvStarts, SeaportInvKept, PTL DEF SeaportSpec

\* No two ports share a point, whatever the file of an older server held: what
\* the constructor leaves of it passes its size check, which therefore never
\* aborts, for any number of ports, deletions, id clashes and restarts.
THEOREM DistinctPoints == SeaportSpec => []PointsDistinct
  <1>1. SeaportInv => PointsDistinct
    BY DEF SeaportInv, Registry
  <1> QED
    BY <1>1, SeaportInvariant, PTL

\* The position kept for an id is one that the tree holds under that id.
THEOREM IndexedPoints == SeaportSpec => []PointsIndexed
  <1>1. SeaportInv => PointsIndexed
    BY DEF SeaportInv, Registry
  <1> QED
    BY <1>1, SeaportInvariant, PTL

\* A deleted port leaves nothing behind for the next port of its id: no count
\* of cargo, no owner, no statistics and nothing that waits to be converted.
THEOREM NoInheritance == SeaportSpec => []NothingInherited
  <1>1. SeaportInv => NothingInherited
    BY DEF SeaportInv
  <1> QED
    BY <1>1, SeaportInvariant, PTL

\* Ships take away only what was there, one for one.
THEOREM CountedLoads == SeaportSpec => LoadsAreCounted
  <1>1. ASSUME SeaportInv, [SeaportNext]_seaportVars, NEW id \in DOMAIN id_cargo_loaded',
               id_cargo_loaded'[id] > LoadedAt(id)
        PROVE  /\ id \in DOMAIN id_cargo
               /\ id_cargo_loaded'[id] - LoadedAt(id) = id_cargo[id] - id_cargo'[id]
    <2> USE DEF SeaportInv, SeaportTypeOK
    <2>1. LoadedAt(id) \in Nat
      BY <1>1 DEF LoadedAt
    <2>2. id \in DOMAIN id_cargo_loaded => id_cargo_loaded'[id] # id_cargo_loaded[id]
      BY <1>1, <2>1 DEF LoadedAt
    <2>3. \E port \in PortArg : Load(port)
      BY <1>1, <2>2
      DEF SeaportNext, Spawn, SetName, Despawn, Unload, SeaportConvert, SeaportGenerate, SeaportRestart,
          Erase, Restrict, Empty, labels, seaportVars
    <2>4. PICK port \in PortArg : Load(port)
      BY <2>3
    <2>5. port = id /\ id \in DOMAIN id_cargo
      BY <1>1, <2>2, <2>4 DEF Load, Put
    <2>6. id_cargo_loaded'[id] = LoadedAt(id) + Removed(id, LoadLot)
      BY <2>4, <2>5 DEF Load, Put
    <2>7. id_cargo'[id] = AfterRemove(id_cargo[id], LoadLot)
      BY <2>4, <2>5 DEF Load, RemoveCargo
    <2>8. /\ id_cargo[id] \in Nat
          /\ AfterRemove(id_cargo[id], LoadLot) \in Nat
      BY <1>1, <2>5, StoreTypes, PortsAssumption DEF PortsTypeOK
    <2> QED
      BY <2>1, <2>5, <2>6, <2>7, <2>8 DEF Removed, CargoAt
  <1>2. SeaportInv /\ [SeaportNext]_seaportVars =>
          [\A id \in DOMAIN id_cargo_loaded' :
             id_cargo_loaded'[id] > LoadedAt(id) =>
               /\ id \in DOMAIN id_cargo
               /\ id_cargo_loaded'[id] - LoadedAt(id) = id_cargo[id] - id_cargo'[id]
          ]_seaportVars
    BY <1>1
  <1> QED
    BY <1>2, SeaportInvariant, PTL DEF SeaportSpec, LoadsAreCounted

-----------------------------------------------------------------------------
(***************************************************************************)
(* The conversion.  Every entry of the two stores is summed over the same  *)
(* keys before and after it.                                               *)
(***************************************************************************)
LEMMA SeaportInitFinite == SeaportInit => StoresFinite
  BY InitFinite DEF SeaportInit

LEMMA SeaportNextFinite == SeaportInv /\ StoresFinite /\ [SeaportNext]_seaportVars => StoresFinite'
  <1>1. SUFFICES ASSUME SeaportInv, StoresFinite, [SeaportNext]_seaportVars  PROVE StoresFinite'
    OBVIOUS
  <1>2. CASE \E pt \in Point, name \in Name, owner \in Owner : Spawn(pt, name, owner)
    BY <1>1, <1>2, PortCommandFinite DEF Spawn
  <1>3. CASE \E id \in PortArg, name \in Name, owner \in Owner : SetName(id, name, owner)
    BY <1>1, <1>3, PortCommandFinite DEF SetName
  <1>4. CASE \E id \in PortArg : Despawn(id)
    BY <1>1, <1>4, PortCommandFinite DEF Despawn
  <1>5. CASE \E id \in PortArg, amount \in ShipAmount : Unload(id, amount)
    BY <1>1, <1>5, CargoCallFinite DEF Unload
  <1>6. CASE \E id \in PortArg : Load(id)
    BY <1>1, <1>6, CargoCallFinite DEF Load
  <1>7. CASE SeaportConvert \/ SeaportGenerate
    BY <1>1, <1>7, CargoTimerFinite DEF SeaportConvert, SeaportGenerate, SeaportInv, SeaportTypeOK
  <1>8. CASE SeaportRestart
    BY <1>8, RestartFinite DEF SeaportRestart
  <1>9. CASE UNCHANGED seaportVars
    BY <1>1, <1>9 DEF seaportVars, portVars, StoresFinite
  <1> QED
    BY <1>1, <1>2, <1>3, <1>4, <1>5, <1>6, <1>7, <1>8, <1>9 DEF SeaportNext

\* Two stores whose entries sum up to the same under every key hold the same.
LEMMA SameStored ==
  ASSUME NEW c, NEW u, NEW d, NEW v,
         IsFiniteSet(DOMAIN c), IsFiniteSet(DOMAIN u), IsFiniteSet(DOMAIN d), IsFiniteSet(DOMAIN v),
         \A i \in DOMAIN c : c[i] \in Int, \A i \in DOMAIN u : u[i] \in Int,
         \A i \in DOMAIN d : d[i] \in Int, \A i \in DOMAIN v : v[i] \in Int,
         \A i : (IF i \in DOMAIN d THEN d[i] ELSE 0) + (IF i \in DOMAIN v THEN v[i] ELSE 0)
                  = (IF i \in DOMAIN c THEN c[i] ELSE 0) + (IF i \in DOMAIN u THEN u[i] ELSE 0)
  PROVE  SumFunction(d) + SumFunction(v) = SumFunction(c) + SumFunction(u)
  <1> DEFINE D == (DOMAIN c \cup DOMAIN u) \cup (DOMAIN d \cup DOMAIN v)
             over(f) == [i \in D |-> IF i \in DOMAIN f THEN f[i] ELSE 0]
             both == [i \in D |-> over(c)[i] + over(u)[i]]
             sum(f) == SumFunctionOnSet(f, D)
  <1>1. IsFiniteSet(D)
    BY FS_Union
  <1>2. /\ SumFunction(c) = sum(over(c)) /\ SumFunction(u) = sum(over(u))
        /\ SumFunction(d) = sum(over(d)) /\ SumFunction(v) = sum(over(v))
    <2> HIDE DEF D
    <2>1. DOMAIN c \subseteq D /\ DOMAIN u \subseteq D /\ DOMAIN d \subseteq D /\ DOMAIN v \subseteq D
      BY DEF D
    <2> QED
      BY <1>1, <2>1, SumOverKeys
  <1>3. \A i \in D : /\ over(c)[i] \in Int /\ over(u)[i] \in Int
                     /\ over(d)[i] \in Int /\ over(v)[i] \in Int
    OBVIOUS
  <1>4. \A i \in D : /\ both[i] = over(c)[i] + over(u)[i]
                     /\ both[i] = over(d)[i] + over(v)[i]
    OBVIOUS
  <1> HIDE DEF D, over, both
  <1>5. sum(both) = sum(over(c)) + sum(over(u))
    BY <1>1, <1>3, <1>4, SumAdds
  <1>6. sum(both) = sum(over(d)) + sum(over(v))
    BY <1>1, <1>3, <1>4, SumAdds
  <1> QED
    BY <1>2, <1>5, <1>6

\* The timer moves cargo without making or losing any, for any number of ports,
\* ids that values of the tree share, and deficits.
THEOREM ConversionMovesOnly == SeaportSpec => ConversionConserves
  <1>1. ASSUME SeaportInv, StoresFinite, SeaportInv', StoresFinite', SeaportConvert
        PROVE  StoredCargo' = StoredCargo
    <2>1. ConvertCargo /\ PortsTypeOK /\ PortsTypeOK'
      BY <1>1 DEF SeaportConvert, SeaportInv, SeaportTypeOK
    <2>2. \A i : CargoAt(i)' + UnloadedAt(i)' = CargoAt(i) + UnloadedAt(i)
      <3> SUFFICES ASSUME NEW i
                   PROVE  CargoAt(i)' + UnloadedAt(i)' = CargoAt(i) + UnloadedAt(i)
        OBVIOUS
      <3>1. CargoAt(i) \in Nat /\ UnloadedAt(i) \in Int
        BY <2>1, AmountTypes
      <3>2. /\ Moved(i) \in Nat
            /\ CargoAt(i)' = CargoAt(i) + Moved(i)
            /\ UnloadedAt(i)' = UnloadedAt(i) - Moved(i)
        BY <2>1, ConversionMoves
      <3> QED
        BY <3>1, <3>2
    <2>3. /\ \A i \in DOMAIN id_cargo : id_cargo[i] \in Int
          /\ \A i \in DOMAIN id_cargo_unloaded : id_cargo_unloaded[i] \in Int
          /\ \A i \in DOMAIN id_cargo' : id_cargo'[i] \in Int
          /\ \A i \in DOMAIN id_cargo_unloaded' : id_cargo_unloaded'[i] \in Int
      BY <2>1 DEF PortsTypeOK
    <2>4. \A i : (IF i \in DOMAIN id_cargo' THEN id_cargo'[i] ELSE 0)
                   + (IF i \in DOMAIN id_cargo_unloaded' THEN id_cargo_unloaded'[i] ELSE 0)
                 = (IF i \in DOMAIN id_cargo THEN id_cargo[i] ELSE 0)
                     + (IF i \in DOMAIN id_cargo_unloaded THEN id_cargo_unloaded[i] ELSE 0)
      BY <2>2 DEF CargoAt, UnloadedAt
    <2>5. SumFunction(id_cargo') + SumFunction(id_cargo_unloaded')
            = SumFunction(id_cargo) + SumFunction(id_cargo_unloaded)
      BY <1>1, <2>3, <2>4, SameStored DEF StoresFinite
    <2> QED
      BY <2>5 DEF StoredCargo
  <1>2. SeaportInv /\ StoresFinite /\ [SeaportNext]_seaportVars => [SeaportConvert => StoredCargo' = StoredCargo]_seaportVars
    BY <1>1, SeaportInvKept, SeaportNextFinite
  <1> QED
    BY <1>2, SeaportInitFinite, SeaportNextFinite, SeaportInvariant, PTL DEF SeaportSpec, ConversionConserves

-----------------------------------------------------------------------------
(***************************************************************************)
(* Voyage.                                                                 *)
(***************************************************************************)
\* A routes map that is cut down to what is in use stays typed.
LEMMA KeptType ==
  ASSUME NEW rs, NEW rm, NEW ts, \A key \in InUse(rm, ts) : rs[key] \in Route
  PROVE  Kept(rs, rm, ts) \in [InUse(rm, ts) -> Route]
  BY DEF Kept, Restrict

\* The hold, after the two things that a port does to it.
LEMMA HoldTypes ==
  ASSUME NEW ship \in Ship, NEW port \in PortId, NEW amount \in Int
  PROVE  /\ AddCargo(ship, amount, port) \in Ship
         /\ RemoveAllCargo(ship, port) \in Ship
         /\ AddCargo(ship, amount, port).state = ship.state
         /\ RemoveAllCargo(ship, port).state = ship.state
  <1>1. /\ AfterAdd(ship.cargo, amount) \in 0..MaxCargo
        /\ AfterRemove(ship.cargo, MaxCargo) \in 0..MaxCargo
    <2>1. ship.cargo \in Nat /\ ship.cargo <= MaxCargo /\ MaxCargo \in Int
      BY MaxCargoAssumption DEF Ship
    <2>2. AfterRemove(ship.cargo, MaxCargo) \in 0..ship.cargo
      BY <2>1, StoreTypes
    <2>3. AfterAdd(ship.cargo, amount) \in 0..MaxCargo
      BY <2>1, StoreTypes
    <2> QED
      BY <2>1, <2>2, <2>3
  <1>2. AddCargo(ship, amount, port) \in Ship
    BY <1>1 DEF AddCargo, Ship
  <1>3. RemoveAllCargo(ship, port) \in Ship
    BY <1>1 DEF RemoveAllCargo, Ship, PortId
  <1> QED
    BY <1>2, <1>3 DEF AddCargo, RemoveAllCargo, Ship

\* The port that a docked ship deals with.
LEMMA DockedPortType ==
  ASSUME NEW r \in Route
  PROVE  DockedPort(r) \in PortId
  BY DEF Route, DockedPort

LEMMA RouteTypes ==
  ASSUME NEW r \in Route
  PROVE  Advance(r) \in Route /\ Reverse(r) \in Route
  <1>1. Advance(r) \in Route
    BY DEF Route, Advance
  <1>2. Reverse(r) \in Route
    BY Zenon DEF Route, Reverse
  <1> QED
    BY <1>1, <1>2

\* A timer's route object is one of those in use.
LEMMA TimerRoute ==
  ASSUME TypeOK, NEW t \in timers
  PROVE  /\ t \in Timer
         /\ t.route \in InUse(route_map, timers)
         /\ routes[t.route] \in Route
  BY DEF TypeOK, InUse

-----------------------------------------------------------------------------
(***************************************************************************)
(* Type correctness.                                                       *)
(***************************************************************************)
LEMMA InitTypeOK == Init => TypeOK
  <1>1. SUFFICES ASSUME Init PROVE TypeOK
    OBVIOUS
  <1>2. PortsTypeOK
    BY <1>1, InitType, VoyageAssumption DEF Init
  <1>3. InUse(route_map, timers) = {}
    BY <1>1 DEF Init, InUse, Range, Empty
  <1> QED
    BY <1>1, <1>2, <1>3 DEF Init, TypeOK, Live, Empty

LEMMA SpawnShipType ==
  ASSUME TypeOK, NEW type \in ShipType, SpawnShip(type)
  PROVE  /\ PortsTypeOK'
         /\ Live' \subseteq ShipId
         /\ sea_objects' \in [Live' -> Ship]
         /\ DOMAIN sea_object_id_by_type' \subseteq ShipType
         /\ sea_object_id_by_type' \in [DOMAIN sea_object_id_by_type' -> ShipId]
         /\ issued' \subseteq ShipId
         /\ reused' \subseteq issued'
         /\ Live' \subseteq issued'
  <1>1. NewShip \in Ship
    BY MaxCargoAssumption DEF NewShip, Ship, ShipState
  <1>2. PortsTypeOK'
    BY DEF TypeOK, PortsTypeOK, SpawnShip, portVars
  <1>3. Live' \subseteq Live \cup {NewShipId} /\ sea_objects' \in [Live' -> Ship]
    BY <1>1 DEF TypeOK, SpawnShip, Put, Live
  <1>4. /\ DOMAIN sea_object_id_by_type' \subseteq ShipType
        /\ sea_object_id_by_type' \in [DOMAIN sea_object_id_by_type' -> ShipId]
    BY DEF TypeOK, SpawnShip, Put
  <1> QED
    BY <1>2, <1>3, <1>4 DEF TypeOK, SpawnShip, IssueId

LEMMA SpawnUnroutedShipType ==
  ASSUME TypeOK, NEW type \in ShipType, SpawnUnroutedShip(type)
  PROVE  TypeOK'
  <1>1. SpawnShip(type) /\ UNCHANGED <<route_map, routes, timers>>
    BY DEF SpawnUnroutedShip, SpawnShip, routeVars
  <1> QED
    BY <1>1, SpawnShipType DEF TypeOK, InUse

LEMMA SpawnRoutedShipType ==
  ASSUME TypeOK, NEW type \in ShipType, NEW p1 \in PortArg, NEW p2 \in PortArg,
         NEW len \in RouteLen, SpawnRoutedShip(type, p1, p2, len)
  PROVE  TypeOK'
  <1> DEFINE r == [p1 |-> p1, p2 |-> p2, len |-> len, param |-> 0, reversed |-> FALSE]
  <1>1. PICK key \in RouteKey \ InUse(route_map, timers) :
          /\ route_map' = Put(route_map, NewShipId, key)
          /\ routes' = Kept(Put(routes, key, r), route_map', timers)
    BY DEF SpawnRoutedShip
  <1>2. SpawnShip(type) /\ NewShipId \in ShipId /\ timers' = timers
    BY DEF SpawnRoutedShip, SpawnShip
  <1>3. r \in Route
    BY VoyageAssumption, PortsAssumption DEF Route
  <1>4. /\ DOMAIN route_map' \subseteq ShipId
        /\ route_map' \in [DOMAIN route_map' -> RouteKey]
    BY <1>1, <1>2 DEF TypeOK, Put
  <1>5. InUse(route_map', timers) \subseteq InUse(route_map, timers) \cup {key}
    BY <1>1 DEF InUse, Range, Put
  <1>6. \A k \in InUse(route_map', timers) : Put(routes, key, r)[k] \in Route
    BY <1>3, <1>5 DEF TypeOK, Put
  <1>7. routes' \in [InUse(route_map', timers) -> Route]
    BY <1>1, <1>6, KeptType
  <1> QED
    BY <1>2, <1>4, <1>7, SpawnShipType DEF TypeOK

LEMMA DeleteShipType ==
  ASSUME TypeOK, NEW type \in ShipType, DeleteShip(type)
  PROVE  TypeOK'
  BY DEF TypeOK, DeleteShip, Live, Erase, Restrict, PortsTypeOK, portVars, routeVars,
         history

LEMMA PortCommandType ==
  ASSUME TypeOK, PortCommand
  PROVE  TypeOK'
  <1>1. PortsTypeOK'
    BY SpawnPortType, NamePortType, DespawnPortType DEF TypeOK, PortCommand
  <1> QED
    BY <1>1 DEF TypeOK, PortCommand, Live, shipVars, routeVars, history

\* A tick uses no route object that was not in use before.
LEMMA TickInUse ==
  ASSUME TypeOK, Tick
  PROVE  InUse(route_map', timers') \subseteq InUse(route_map, timers)
  <1>1. Docking \subseteq DOMAIN route_map
    BY DEF Docking, Sailing, Routed
  <1>2. Range(route_map') \subseteq Range(route_map)
    BY DEF Tick, Routed, Range, Restrict
  <1>3. \A id \in Docking : UnloadingTimer(id).route \in Range(route_map)
    BY <1>1 DEF UnloadingTimer, Range
  <1> QED
    BY <1>2, <1>3 DEF Tick, InUse

LEMMA UnloadingTimerType ==
  ASSUME TypeOK, Tick, NEW id \in Docking
  PROVE  UnloadingTimer(id) \in Timer
  <1>1. id \in Live /\ id \in DOMAIN route_map /\ id \in ShipId
    BY DEF Docking, Sailing, Routed, TypeOK
  <1>2. FreeSlots(id) # {} /\ FreeSlots(id) \subseteq Slot
    BY DEF Tick, FreeSlots
  <1>3. (CHOOSE s \in FreeSlots(id) : TRUE) \in Slot
    BY <1>2
  <1> QED
    BY <1>1, <1>3 DEF UnloadingTimer, Timer, TypeOK

LEMMA TickType ==
  ASSUME TypeOK, Tick
  PROVE  TypeOK'
  <1> DEFINE sailed == [key \in DOMAIN routes |->
                          IF \E id \in Sailing : route_map[id] = key
                            THEN Advance(routes[key]) ELSE routes[key]]
  <1>1. Live' = Live
    BY DEF Tick, Live
  <1>2. sea_objects' \in [Live' -> Ship]
    BY <1>1 DEF Tick, TypeOK, Ship, ShipState
  <1>3. /\ DOMAIN route_map' \subseteq ShipId
        /\ route_map' \in [DOMAIN route_map' -> RouteKey]
    BY DEF Tick, TypeOK, Routed, Restrict
  <1>4. timers' \subseteq Timer
    BY UnloadingTimerType DEF Tick, TypeOK
  <1>5. \A key \in InUse(route_map', timers') : sailed[key] \in Route
    BY TickInUse, RouteTypes DEF TypeOK
  <1>6. routes' \in [InUse(route_map', timers') -> Route]
    BY <1>5, KeptType DEF Tick
  <1> QED
    BY <1>1, <1>2, <1>3, <1>4, <1>6
    DEF Tick, TypeOK, PortsTypeOK, portVars, history

LEMMA TimerOfMissingShipType ==
  ASSUME TypeOK, NEW t \in timers, TimerOfMissingShip(t)
  PROVE  TypeOK'
  <1>1. \A key \in InUse(route_map, timers') : routes[key] \in Route
    BY DEF TypeOK, TimerOfMissingShip, InUse
  <1>2. routes' \in [InUse(route_map, timers') -> Route]
    BY <1>1, KeptType DEF TimerOfMissingShip
  <1> QED
    BY <1>2 DEF TypeOK, TimerOfMissingShip, Live, PortsTypeOK, portVars, shipVars, history

LEMMA UnloadDoneType ==
  ASSUME TypeOK, NEW t \in timers, UnloadDone(t)
  PROVE  TypeOK'
  <1> DEFINE port == DockedPort(routes[t.route])
             unloaded == RemoveAllCargo(sea_objects[t.id], port)
  <1>1. port \in PortId
    BY TimerRoute, DockedPortType
  <1>2. sea_objects[t.id] \in Ship
    BY DEF UnloadDone, TypeOK, Live
  <1>3. unloaded \in Ship
    BY <1>1, <1>2, HoldTypes
  <1>4. PortsTypeOK'
    <2>1. sea_objects[t.id].cargo - unloaded.cargo \in Int
      BY <1>2, <1>3, MaxCargoAssumption DEF Ship
    <2> QED
      BY <2>1, AddUnloadedType DEF UnloadDone, TypeOK
  <1>5. Live' = Live /\ sea_objects' \in [Live' -> Ship]
    BY <1>3 DEF UnloadDone, TypeOK, Live, Ship, ShipState
  <1>6. [t EXCEPT !.phase = "LOADING"] \in Timer
    BY TimerRoute DEF Timer
  <1>7. timers' \subseteq Timer /\ InUse(route_map, timers') = InUse(route_map, timers)
    BY <1>6, TimerRoute DEF UnloadDone, Rearm, TypeOK, InUse, Timer
  <1> QED
    BY <1>4, <1>5, <1>7 DEF UnloadDone, TypeOK, routeVars, history

LEMMA LoadDoneType ==
  ASSUME TypeOK, NEW t \in timers, LoadDone(t)
  PROVE  TypeOK'
  <1> DEFINE port == DockedPort(routes[t.route])
             loaded == AddCargo(sea_objects[t.id], Removed(port, LoadLot), port)
  <1>1. port \in PortId /\ LoadLot \in Int
    BY TimerRoute, DockedPortType, PortsAssumption
  <1>2. sea_objects[t.id] \in Ship
    BY DEF LoadDone, TypeOK, Live
  <1>3. Removed(port, LoadLot) \in Int
    BY <1>1, RemovedType, AmountTypes DEF TypeOK
  <1>4. loaded \in Ship
    BY <1>1, <1>2, <1>3, HoldTypes
  <1>5. PortsTypeOK'
    BY <1>1, RemoveCargoType DEF LoadDone, TypeOK
  <1>6. Live' = Live /\ sea_objects' \in [Live' -> Ship]
    BY <1>4 DEF LoadDone, TypeOK, Live, Ship, ShipState
  <1>7. \A key \in InUse(route_map, timers') :
          [routes EXCEPT ![t.route] = Reverse(@)][key] \in Route
    BY TimerRoute, RouteTypes DEF LoadDone, TypeOK, InUse
  <1>8. routes' \in [InUse(route_map, timers') -> Route]
    BY <1>7, KeptType DEF LoadDone
  <1> QED
    BY <1>5, <1>6, <1>8 DEF LoadDone, TypeOK, history

LEMMA CargoTimersType ==
  ASSUME TypeOK, Convert \/ Generate
  PROVE  TypeOK'
  <1>1. PortsTypeOK'
    BY ConvertCargoType, GenerateCargoType DEF TypeOK, Convert, Generate
  <1> QED
    BY <1>1 DEF TypeOK, Convert, Generate, Live, shipVars, routeVars, history

LEMMA VoyageRestartType ==
  ASSUME TypeOK, Restart
  PROVE  TypeOK'
  <1>1. PortsTypeOK'
    BY RestartType DEF TypeOK, Restart
  <1>2. InUse(route_map', timers') = {}
    BY DEF Restart, InUse, Range, Empty
  <1> QED
    BY <1>1, <1>2 DEF Restart, TypeOK, Live, Empty

LEMMA NextTypeOK == TypeOK /\ [Next]_vars => TypeOK'
  <1>1. SUFFICES ASSUME TypeOK, [Next]_vars PROVE TypeOK'
    OBVIOUS
  <1>2. CASE ShipCommand
    BY <1>1, <1>2, SpawnUnroutedShipType, SpawnRoutedShipType, DeleteShipType
    DEF ShipCommand
  <1>3. CASE PortCommand
    BY <1>1, <1>3, PortCommandType
  <1>4. CASE Tick
    BY <1>1, <1>4, TickType
  <1>5. CASE \E t \in timers : TimerHandler(t)
    BY <1>1, <1>5, TimerOfMissingShipType, UnloadDoneType, LoadDoneType
    DEF TimerHandler
  <1>6. CASE Convert \/ Generate
    BY <1>1, <1>6, CargoTimersType
  <1>7. CASE Restart
    BY <1>1, <1>7, VoyageRestartType
  <1>8. CASE UNCHANGED vars
    BY <1>1, <1>8
    DEF vars, portVars, shipVars, routeVars, history, TypeOK, PortsTypeOK, Live
  <1> QED
    BY <1>1, <1>2, <1>3, <1>4, <1>5, <1>6, <1>7, <1>8 DEF Next

\* Type correctness, with the references between the maps: a route object
\* exists exactly while the route map or a pending timer points to it.
THEOREM TypeCorrect == Spec => []TypeOK
  BY InitTypeOK, NextTypeOK, PTL DEF Spec

-----------------------------------------------------------------------------
(***************************************************************************)
(* No ship is left in the dock: for every live ship that is unloading or   *)
(* loading a pending timer carries its id.  The invariant needs nothing    *)
(* but the types; it does not matter who started the timer.                *)
(***************************************************************************)
LEMMA TickStranded ==
  ASSUME TypeOK, NeverStranded, Tick
  PROVE  NeverStranded'
  <1>1. SUFFICES ASSUME NEW id \in Live', sea_objects'[id].state # "SAILING"
                 PROVE  \E t \in timers' : t.id = id
    BY DEF NeverStranded, TimersOf
  <1>2. id \in Live
    BY <1>1 DEF Tick, Live
  <1>3. CASE id \in Docking
    <2>1. UnloadingTimer(id) \in timers'
      BY <1>3 DEF Tick
    <2>2. UnloadingTimer(id).id = id
      BY DEF UnloadingTimer
    <2> QED
      BY <2>1, <2>2
  <1>4. CASE id \notin Docking
    <2>1. sea_objects[id].state # "SAILING"
      BY <1>1, <1>2, <1>4 DEF Tick
    <2>2. PICK t \in timers : t.id = id
      BY <1>2, <2>1 DEF NeverStranded, TimersOf
    <2> QED
      BY <2>2 DEF Tick
  <1> QED
    BY <1>3, <1>4

LEMMA UnloadDoneStranded ==
  ASSUME TypeOK, NeverStranded, NEW t \in timers, UnloadDone(t)
  PROVE  NeverStranded'
  <1>1. SUFFICES ASSUME NEW id \in Live', sea_objects'[id].state # "SAILING"
                 PROVE  \E u \in timers' : u.id = id
    BY DEF NeverStranded, TimersOf
  <1>2. t \in Timer /\ timers' = (timers \ {t}) \cup {[t EXCEPT !.phase = "LOADING"]}
    BY TimerRoute DEF UnloadDone, Rearm
  <1>3. CASE id = t.id
    <2>1. [t EXCEPT !.phase = "LOADING"].id = t.id
      BY <1>2 DEF Timer
    <2> QED
      BY <1>2, <1>3, <2>1
  <1>4. CASE id # t.id
    <2>1. id \in Live /\ sea_objects[id].state # "SAILING"
      BY <1>1, <1>4 DEF UnloadDone, Live
    <2>2. PICK u \in timers : u.id = id
      BY <2>1 DEF NeverStranded, TimersOf
    <2> QED
      BY <1>2, <1>4, <2>2
  <1> QED
    BY <1>3, <1>4

LEMMA LoadDoneStranded ==
  ASSUME TypeOK, NeverStranded, NEW t \in timers, LoadDone(t)
  PROVE  NeverStranded'
  <1>1. SUFFICES ASSUME NEW id \in Live', sea_objects'[id].state # "SAILING"
                 PROVE  \E u \in timers' : u.id = id
    BY DEF NeverStranded, TimersOf
  <1>2. id # t.id
    <2>1. SUFFICES ASSUME id = t.id PROVE sea_objects'[id].state = "SAILING"
      BY <1>1
    <2>2. DockedPort(routes[t.route]) \in PortId /\ LoadLot \in Int
      BY TimerRoute, DockedPortType, PortsAssumption
    <2>3. Removed(DockedPort(routes[t.route]), LoadLot) \in Int
      BY <2>2, RemovedType, AmountTypes DEF TypeOK
    <2>4. sea_objects[t.id] \in Ship
      BY DEF LoadDone, TypeOK, Live
    <2>5. AddCargo(sea_objects[t.id], Removed(DockedPort(routes[t.route]), LoadLot),
                   DockedPort(routes[t.route])) \in Ship
      BY <2>2, <2>3, <2>4, HoldTypes
    <2> QED
      BY <2>1, <2>5 DEF LoadDone, Live, Ship
  <1>3. id \in Live /\ sea_objects[id].state # "SAILING"
    BY <1>1, <1>2 DEF LoadDone, Live
  <1>4. PICK u \in timers : u.id = id
    BY <1>3 DEF NeverStranded, TimersOf
  <1> QED
    BY <1>2, <1>4 DEF LoadDone

LEMMA NextStranded == TypeOK /\ NeverStranded /\ [Next]_vars => NeverStranded'
  <1>1. SUFFICES ASSUME TypeOK, NeverStranded, [Next]_vars PROVE NeverStranded'
    OBVIOUS
  <1> USE DEF NeverStranded, TimersOf, Live
  <1>2. ASSUME NEW type \in ShipType, SpawnShip(type) PROVE NeverStranded'
    BY <1>1, <1>2 DEF SpawnShip, NewShip, Put
  <1>3. ASSUME NEW type \in ShipType, DeleteShip(type) PROVE NeverStranded'
    BY <1>1, <1>3 DEF DeleteShip, Erase, Restrict
  <1>4. CASE ShipCommand
    BY <1>2, <1>3, <1>4 DEF ShipCommand, SpawnUnroutedShip, SpawnRoutedShip
  <1>5. CASE PortCommand \/ Convert \/ Generate
    BY <1>1, <1>5 DEF PortCommand, Convert, Generate, shipVars
  <1>6. CASE Tick
    BY <1>1, <1>6, TickStranded
  <1>7. ASSUME NEW t \in timers, TimerOfMissingShip(t) PROVE NeverStranded'
    BY <1>1, <1>7 DEF TimerOfMissingShip, shipVars
  <1>8. CASE \E t \in timers : TimerHandler(t)
    BY <1>1, <1>7, <1>8, UnloadDoneStranded, LoadDoneStranded DEF TimerHandler
  <1>9. CASE Restart
    BY <1>9 DEF Restart, Empty
  <1>10. CASE UNCHANGED vars
    BY <1>1, <1>10 DEF vars, shipVars
  <1> QED
    BY <1>1, <1>4, <1>5, <1>6, <1>8, <1>9, <1>10 DEF Next

\* No ship is ever stuck in the dock without a handler that will find its id,
\* whatever ids are reused and whatever timers outlive their ships.
THEOREM NoStrandedShip == Spec => []NeverStranded
  <1>1. Init => NeverStranded
    BY DEF Init, NeverStranded, Live, Empty
  <1>2. TypeOK /\ NeverStranded /\ [Next]_vars => NeverStranded'
    BY NextStranded
  <1> QED
    BY <1>1, <1>2, TypeCorrect, PTL DEF Spec
-----------------------------------------------------------------------------
(***************************************************************************)
(* The theorems about the ships whose id is their own: they dock once at a *)
(* time, at the end of their route, and with cargo from its other end.     *)
(*                                                                         *)
(* ShipOK says it all of one ship, its route object, its timers and the    *)
(* name of the route object.  It mentions no variable, so that each thing  *)
(* that can happen to a ship becomes a lemma about four values; what is    *)
(* left for the actions is which of these things happens to which ship.    *)
(***************************************************************************)
\* How far out a ship may be.  The tick reads the position before it moves the
\* ship, so one that arrives sails on for one more tick and docks beyond the end.
Progress(ship, r) ==
  IF ship.state = "SAILING"
    THEN IF r.reversed THEN r.param \in 0 .. r.len + 2
                       ELSE r.param \in -1 .. r.len + 1
    ELSE IF r.reversed THEN r.param = -1 ELSE r.param = r.len + 2

Hold(ship, r) ==
  IF ship.state = "LOADING"
    THEN ship.cargo = 0 /\ ship.origin \in {0, DockedPort(r)}
    ELSE ship.cargo > 0 => ship.origin # DockedPort(r) /\ ship.origin \in {r.p1, r.p2}

ShipOK(ship, r, ts, key) ==
  /\ \A t, u \in ts : t = u
  /\ \A t \in ts : t.phase = ship.state /\ t.route = key
  /\ r.p1 # r.p2
  /\ Progress(ship, r)
  /\ Hold(ship, r)

\* An id that was never handed out has left nothing behind.
IdsIssued ==
  /\ \A t \in timers : t.id \in issued
  /\ DOMAIN route_map \subseteq issued

\* A route object belongs to one ship id.
RoutesApart ==
  /\ \A i, j \in DOMAIN route_map : route_map[i] = route_map[j] => i = j
  /\ \A t \in timers, i \in DOMAIN route_map : t.route = route_map[i] => t.id = i

ShipInv(id) == ShipOK(sea_objects[id], RouteOf(id), TimersOf(id), route_map[id])

VoyageInv ==
  /\ TypeOK
  /\ IdsIssued
  /\ RoutesApart
  /\ \A id \in Owned : ShipInv(id)

-----------------------------------------------------------------------------
(***************************************************************************)
(* What can happen to a ship.                                              *)
(***************************************************************************)
LEMMA ShipIsSpawned ==
  ASSUME NEW r \in Route, r.p1 # r.p2, r.param = 0, r.reversed = FALSE, NEW key
  PROVE  ShipOK(NewShip, r, {}, key)
  <1>1. NewShip.state = "SAILING" /\ NewShip.cargo = 0
    BY DEF NewShip
  <1>2. r.len \in Nat
    BY VoyageAssumption DEF Route
  <1>3. Progress(NewShip, r)
    BY <1>1, <1>2 DEF Progress
  <1>4. Hold(NewShip, r)
    BY <1>1 DEF Hold
  <1> QED
    BY <1>3, <1>4 DEF ShipOK

LEMMA ShipSails ==
  ASSUME NEW ship \in Ship, NEW r \in Route, NEW ts, NEW key,
         ShipOK(ship, r, ts, key), ship.state = "SAILING", ~Finished(r)
  PROVE  ShipOK(ship, Advance(r), ts, key)
  <1>1. r.len \in Nat /\ r.param \in Int
    BY VoyageAssumption DEF Route
  <1>2. /\ Advance(r).p1 = r.p1 /\ Advance(r).p2 = r.p2 /\ Advance(r).len = r.len
        /\ Advance(r).reversed = r.reversed
        /\ Advance(r).param = IF r.reversed THEN r.param - 1 ELSE r.param + 1
    BY DEF Advance, Route
  <1>3. Progress(ship, Advance(r))
    BY <1>1, <1>2 DEF ShipOK, Progress, Finished
  <1>4. Hold(ship, Advance(r))
    BY <1>2 DEF ShipOK, Hold, DockedPort
  <1> QED
    BY <1>2, <1>3, <1>4 DEF ShipOK

\* A ship that sails has no timer, so the one it gets when it docks is the only one.
LEMMA ShipDocks ==
  ASSUME NEW ship \in Ship, NEW r \in Route, NEW ts \in SUBSET Timer, NEW key,
         NEW t, t.phase = "UNLOADING", t.route = key,
         ShipOK(ship, r, ts, key), ship.state = "SAILING", Finished(r)
  PROVE  ShipOK([ship EXCEPT !.state = "UNLOADING"], Advance(r), ts \cup {t}, key)
  <1> DEFINE docked == [ship EXCEPT !.state = "UNLOADING"]
  <1>1. r.len \in Nat /\ r.param \in Int
    BY VoyageAssumption DEF Route
  <1>2. /\ Advance(r).p1 = r.p1 /\ Advance(r).p2 = r.p2 /\ Advance(r).len = r.len
        /\ Advance(r).reversed = r.reversed
        /\ Advance(r).param = IF r.reversed THEN r.param - 1 ELSE r.param + 1
    BY DEF Advance, Route
  <1>3. docked.state = "UNLOADING" /\ docked.cargo = ship.cargo /\ docked.origin = ship.origin
    BY DEF Ship
  <1>4. Progress(docked, Advance(r))
    BY <1>1, <1>2, <1>3 DEF ShipOK, Progress, Finished
  <1>5. Hold(docked, Advance(r))
    BY <1>2, <1>3 DEF ShipOK, Hold, DockedPort
  <1>6. ts = {}
    BY DEF ShipOK, Timer
  <1> HIDE DEF docked
  <1> QED
    BY <1>2, <1>3, <1>4, <1>5, <1>6 DEF ShipOK, docked

LEMMA ShipUnloads ==
  ASSUME NEW ship \in Ship, NEW r \in Route, NEW ts, NEW key,
         NEW t, t.phase = "LOADING", t.route = key,
         ShipOK(ship, r, ts, key), ship.state = "UNLOADING"
  PROVE  ShipOK([RemoveAllCargo(ship, DockedPort(r)) EXCEPT !.state = "LOADING"],
                r, {t}, key)
  <1> DEFINE port == DockedPort(r)
             unloaded == RemoveAllCargo(ship, port)
             loading == [unloaded EXCEPT !.state = "LOADING"]
  <1>1. ship.cargo \in Nat /\ ship.cargo <= MaxCargo /\ MaxCargo \in Nat \ {0}
    BY MaxCargoAssumption DEF Ship
  <1>2. AfterRemove(ship.cargo, MaxCargo) = 0
    BY <1>1 DEF AfterRemove, Clamp
  <1>3. unloaded \in Ship
    BY <1>1, HoldTypes, DockedPortType
  <1>4. unloaded.cargo = 0 /\ unloaded.origin \in {0, port}
    <2>1. CASE ship.origin # port
      BY <1>2, <2>1 DEF RemoveAllCargo, AcceptsUnloadAt, Ship
    <2>2. CASE ship.origin = port
      <3>1. ship.cargo = 0
        BY <1>1, <2>2 DEF ShipOK, Hold
      <3> QED
        BY <2>2, <3>1 DEF RemoveAllCargo, AcceptsUnloadAt
    <2> QED
      BY <2>1, <2>2
  <1>5. /\ loading.state = "LOADING"
        /\ loading.cargo = 0
        /\ loading.origin \in {0, port}
    BY <1>3, <1>4 DEF Ship
  <1>6. Progress(loading, r)
    BY <1>5 DEF ShipOK, Progress
  <1> HIDE DEF loading
  <1> QED
    BY <1>5, <1>6 DEF ShipOK, Hold, loading

LEMMA ShipLoads ==
  ASSUME NEW ship \in Ship, NEW r \in Route, NEW ts, NEW key, NEW amount \in Int,
         ShipOK(ship, r, ts, key), ship.state = "LOADING"
  PROVE  ShipOK([AddCargo(ship, amount, DockedPort(r)) EXCEPT !.state = "SAILING"],
                Reverse(r), {}, key)
  <1> DEFINE port == DockedPort(r)
             loaded == AddCargo(ship, amount, port)
             sailing == [loaded EXCEPT !.state = "SAILING"]
  <1>1. /\ Reverse(r).p1 = r.p1 /\ Reverse(r).p2 = r.p2 /\ Reverse(r).len = r.len
        /\ Reverse(r).param = r.param
        /\ Reverse(r).reversed = ~r.reversed
    BY DEF Reverse, Route
  <1>2. loaded \in Ship
    BY HoldTypes, DockedPortType
  <1>3. loaded.origin = port
    BY DEF ShipOK, Hold, AddCargo, AcceptsCargoFrom, Ship
  <1>4. sailing.state = "SAILING" /\ sailing.origin = port
    BY <1>2, <1>3 DEF Ship
  <1>5. r.len \in Nat
    BY VoyageAssumption DEF Route
  <1>6. Progress(sailing, Reverse(r))
    <2>1. CASE r.reversed
      <3>1. r.param = -1 /\ Reverse(r).param = -1 /\ ~Reverse(r).reversed
        BY <1>1, <2>1 DEF ShipOK, Progress
      <3> QED
        BY <1>1, <1>4, <1>5, <3>1 DEF Progress
    <2>2. CASE ~r.reversed
      <3>1. r.param = r.len + 2 /\ Reverse(r).param = r.len + 2 /\ Reverse(r).reversed
        BY <1>1, <2>2 DEF ShipOK, Progress
      <3> QED
        BY <1>1, <1>4, <1>5, <3>1 DEF Progress
    <2> QED
      BY <2>1, <2>2
  <1>7. Hold(sailing, Reverse(r))
    BY <1>1, <1>4 DEF ShipOK, Hold, DockedPort
  <1> HIDE DEF sailing
  <1> QED
    BY <1>1, <1>6, <1>7 DEF ShipOK, sailing

-----------------------------------------------------------------------------
(***************************************************************************)
(* Which of these things happens to which ship.                            *)
(***************************************************************************)
\* What an owned ship is made of.
LEMMA OwnedTypes ==
  ASSUME TypeOK, NEW id \in Owned
  PROVE  /\ id \in Live /\ id \in DOMAIN route_map
         /\ sea_objects[id] \in Ship
         /\ route_map[id] \in InUse(route_map, timers)
         /\ RouteOf(id) \in Route
         /\ TimersOf(id) \in SUBSET Timer
  BY DEF Owned, TypeOK, InUse, Range, RouteOf, TimersOf, Live

\* A ship to which nothing happens.
LEMMA ShipUntouched ==
  ASSUME NEW id, id \in Owned, ShipInv(id),
         sea_objects'[id] = sea_objects[id], RouteOf(id)' = RouteOf(id),
         TimersOf(id)' = TimersOf(id), route_map'[id] = route_map[id]
  PROVE  ShipInv(id)'
  BY DEF ShipInv

LEMMA InitVoyageInv == Init => VoyageInv
  BY InitTypeOK DEF Init, VoyageInv, IdsIssued, RoutesApart, Owned, Live, Empty

(***************************************************************************)
(* A command that spawns a ship.                                           *)
(***************************************************************************)
LEMMA SpawnedElsewhere ==
  ASSUME VoyageInv, NEW type \in ShipType, SpawnShip(type),
         NEW id, id \in (Live \ reused)', id # NewShipId, id \in DOMAIN route_map
  PROVE  id \in Owned /\ sea_objects'[id] = sea_objects[id]
  BY DEF SpawnShip, IssueId, Put, Live, Owned

\* Only an id that was never handed out is owned after it was handed out.
LEMMA SpawnedHere ==
  ASSUME VoyageInv, NEW type \in ShipType, SpawnShip(type), NewShipId \notin reused'
  PROVE  /\ NewShipId \notin DOMAIN route_map
         /\ \A t \in timers : t.id # NewShipId
         /\ sea_objects'[NewShipId] = NewShip
  <1>1. NewShipId \notin issued
    BY DEF SpawnShip, IssueId
  <1> QED
    BY <1>1 DEF VoyageInv, IdsIssued, TypeOK, SpawnShip, Put

LEMMA SpawnUnroutedShipInv ==
  ASSUME VoyageInv, NEW type \in ShipType, SpawnUnroutedShip(type)
  PROVE  VoyageInv'
  <1>1. TypeOK'
    BY SpawnUnroutedShipType DEF VoyageInv
  <1>2. /\ SpawnShip(type)
        /\ timers' = timers /\ route_map' = route_map /\ routes' = routes
    BY DEF SpawnUnroutedShip, SpawnShip, routeVars
  <1>3. IdsIssued' /\ RoutesApart'
    BY <1>2 DEF VoyageInv, IdsIssued, RoutesApart, SpawnShip, IssueId
  <1>4. ASSUME NEW id \in Owned' PROVE ShipInv(id)'
    <2>1. id \in (Live \ reused)' /\ id \in DOMAIN route_map
      BY <1>2, <1>4 DEF Owned
    <2>2. id # NewShipId
      BY <1>2, <2>1, SpawnedHere
    <2>3. id \in Owned /\ sea_objects'[id] = sea_objects[id]
      BY <1>2, <2>1, <2>2, SpawnedElsewhere
    <2>4. RouteOf(id)' = RouteOf(id) /\ TimersOf(id)' = TimersOf(id)
      BY <1>2 DEF RouteOf, TimersOf
    <2> QED
      BY <1>2, <2>3, <2>4, ShipUntouched DEF VoyageInv
  <1> QED
    BY <1>1, <1>3, <1>4 DEF VoyageInv

LEMMA SpawnRoutedShipInv ==
  ASSUME VoyageInv, NEW type \in ShipType, NEW p1 \in PortArg, NEW p2 \in PortArg,
         NEW len \in RouteLen, SpawnRoutedShip(type, p1, p2, len)
  PROVE  VoyageInv'
  <1> DEFINE r == [p1 |-> p1, p2 |-> p2, len |-> len, param |-> 0, reversed |-> FALSE]
  <1>1. TypeOK'
    BY SpawnRoutedShipType DEF VoyageInv
  <1>2. PICK key \in RouteKey \ InUse(route_map, timers) :
          /\ route_map' = Put(route_map, NewShipId, key)
          /\ routes' = Kept(Put(routes, key, r), route_map', timers)
    BY DEF SpawnRoutedShip
  <1>3. SpawnShip(type) /\ timers' = timers /\ p1 # p2
    BY DEF SpawnRoutedShip, SpawnShip
  <1>4. /\ \A i \in DOMAIN route_map : route_map[i] # key
        /\ \A t \in timers : t.route # key
    BY DEF InUse, Range
  <1>5. IdsIssued'
    BY <1>2, <1>3 DEF VoyageInv, IdsIssued, SpawnShip, IssueId, Put
  <1>6. RoutesApart'
    BY <1>2, <1>3, <1>4 DEF VoyageInv, RoutesApart, Put
  <1>7. ASSUME NEW id \in Owned' PROVE ShipInv(id)'
    <2>1. id \in (Live \ reused)' /\ id \in DOMAIN route_map \cup {NewShipId}
      BY <1>2, <1>7 DEF Owned, Put
    <2>2. route_map'[id] \in InUse(route_map', timers)
      BY <1>7 DEF Owned, InUse, Range
    <2>3. routes'[route_map'[id]] = Put(routes, key, r)[route_map'[id]]
      BY <1>2, <2>2 DEF Kept, Restrict
    <2>4. CASE id = NewShipId
      <3>1. sea_objects'[id] = NewShip /\ \A t \in timers : t.id # id
        BY <1>3, <2>1, <2>4, SpawnedHere
      <3>2. route_map'[id] = key /\ TimersOf(id)' = {}
        BY <1>2, <1>3, <2>4, <3>1 DEF Put, TimersOf
      <3>3. RouteOf(id)' = r
        BY <2>3, <3>2 DEF Put, RouteOf
      <3>4. r \in Route
        BY VoyageAssumption, PortsAssumption DEF Route
      <3>5. ShipOK(NewShip, r, {}, key)
        BY <1>3, <3>4, ShipIsSpawned
      <3> QED
        BY <3>1, <3>2, <3>3, <3>5 DEF ShipInv
    <2>5. CASE id # NewShipId
      <3>1. id \in DOMAIN route_map /\ route_map'[id] = route_map[id]
        BY <1>2, <2>1, <2>5 DEF Put
      <3>2. id \in Owned /\ sea_objects'[id] = sea_objects[id]
        BY <1>3, <2>1, <2>5, <3>1, SpawnedElsewhere
      <3>3. route_map[id] # key /\ route_map[id] \in DOMAIN routes
        BY <1>4, <3>1, <3>2, OwnedTypes DEF VoyageInv, TypeOK
      <3>4. RouteOf(id)' = RouteOf(id)
        BY <2>3, <3>1, <3>3 DEF RouteOf, Put
      <3>5. TimersOf(id)' = TimersOf(id)
        BY <1>3 DEF TimersOf
      <3> QED
        BY <3>1, <3>2, <3>4, <3>5, ShipUntouched DEF VoyageInv
    <2> QED
      BY <2>4, <2>5
  <1> QED
    BY <1>1, <1>5, <1>6, <1>7 DEF VoyageInv

LEMMA DeleteShipInv ==
  ASSUME VoyageInv, NEW type \in ShipType, DeleteShip(type)
  PROVE  VoyageInv'
  <1>1. TypeOK'
    BY DeleteShipType DEF VoyageInv
  <1>2. /\ timers' = timers /\ route_map' = route_map /\ routes' = routes
        /\ issued' = issued /\ reused' = reused
    BY DEF DeleteShip, routeVars, history
  <1>3. IdsIssued' /\ RoutesApart'
    BY <1>2 DEF VoyageInv, IdsIssued, RoutesApart
  <1>4. ASSUME NEW id \in Owned' PROVE ShipInv(id)'
    <2>1. id \in Owned /\ sea_objects'[id] = sea_objects[id]
      BY <1>2, <1>4 DEF Owned, Live, DeleteShip, Erase, Restrict
    <2>2. RouteOf(id)' = RouteOf(id) /\ TimersOf(id)' = TimersOf(id)
      BY <1>2 DEF RouteOf, TimersOf
    <2> QED
      BY <1>2, <2>1, <2>2, ShipUntouched DEF VoyageInv
  <1> QED
    BY <1>1, <1>3, <1>4 DEF VoyageInv

(***************************************************************************)
(* The tick.                                                               *)
(***************************************************************************)
\* The route of an owned ship advances when that ship sails, and only then:
\* no other ship of the route map has the same route object.
LEMMA TickRoute ==
  ASSUME VoyageInv, Tick, NEW id \in Owned
  PROVE  /\ route_map'[id] = route_map[id]
         /\ RouteOf(id)' = IF id \in Sailing THEN Advance(RouteOf(id)) ELSE RouteOf(id)
  <1> DEFINE key == route_map[id]
  <1>1. id \in Live /\ id \in DOMAIN route_map /\ id \in Routed
    BY DEF Owned, Routed
  <1>2. route_map' = Restrict(route_map, Routed) /\ route_map'[id] = key
    BY <1>1 DEF Tick, Restrict
  <1>3. key \in InUse(route_map', timers')
    BY <1>1, <1>2 DEF InUse, Range, Restrict
  <1>4. key \in DOMAIN routes
    BY <1>1 DEF VoyageInv, TypeOK, InUse, Range
  <1>5. routes'[key] = IF \E i \in Sailing : route_map[i] = key
                         THEN Advance(routes[key]) ELSE routes[key]
    BY <1>3, <1>4 DEF Tick, Kept, Restrict
  <1>6. (\E i \in Sailing : route_map[i] = key) <=> id \in Sailing
    BY <1>1 DEF VoyageInv, RoutesApart, Sailing, Routed
  <1> QED
    BY <1>2, <1>5, <1>6 DEF RouteOf

LEMMA TickTimers ==
  ASSUME VoyageInv, Tick, NEW id \in Owned
  PROVE  TimersOf(id)' = IF id \in Docking THEN TimersOf(id) \cup {UnloadingTimer(id)}
                                           ELSE TimersOf(id)
  <1>1. \A i : UnloadingTimer(i).id = i
    BY DEF UnloadingTimer
  <1>2. timers' = timers \cup {UnloadingTimer(i) : i \in Docking}
    BY DEF Tick
  <1> QED
    BY <1>1, <1>2 DEF TimersOf

LEMMA TickInv ==
  ASSUME VoyageInv, Tick
  PROVE  VoyageInv'
  <1>1. TypeOK'
    BY TickType DEF VoyageInv
  <1>2. /\ \A i : UnloadingTimer(i).id = i /\ UnloadingTimer(i).route = route_map[i]
        /\ \A i : UnloadingTimer(i).phase = "UNLOADING"
    BY DEF UnloadingTimer
  <1>3. Docking \subseteq Sailing /\ Sailing \subseteq Live \cap DOMAIN route_map
    BY DEF Docking, Sailing, Routed
  <1>4. /\ timers' = timers \cup {UnloadingTimer(i) : i \in Docking}
        /\ route_map' = Restrict(route_map, Routed)
        /\ issued' = issued /\ reused' = reused
    BY DEF Tick, history
  <1>5. IdsIssued'
    BY <1>2, <1>3, <1>4 DEF VoyageInv, IdsIssued, Restrict, Routed
  <1>6. RoutesApart'
    BY <1>2, <1>3, <1>4 DEF VoyageInv, RoutesApart, Restrict, Routed
  <1>7. ASSUME NEW id \in Owned' PROVE ShipInv(id)'
    <2>1. id \in Owned
      BY <1>4, <1>7 DEF Owned, Live, Tick, Restrict, Routed
    <2> DEFINE ship == sea_objects[id]
               r == RouteOf(id)
               ts == TimersOf(id)
               key == route_map[id]
    <2>2. ship \in Ship /\ r \in Route /\ ts \in SUBSET Timer /\ ShipOK(ship, r, ts, key)
      BY <2>1, OwnedTypes DEF VoyageInv, ShipInv
    <2>3. sea_objects'[id] = IF id \in Docking
                               THEN [ship EXCEPT !.state = "UNLOADING"] ELSE ship
      BY <2>1 DEF Owned, Tick
    <2>4. id \in Sailing <=> ship.state = "SAILING"
      BY <2>1 DEF Owned, Sailing, Routed
    <2>5. id \in Docking <=> id \in Sailing /\ Finished(r)
      BY DEF Docking, RouteOf
    <2>6. /\ route_map'[id] = key
          /\ RouteOf(id)' = IF id \in Sailing THEN Advance(r) ELSE r
      BY <2>1, TickRoute
    <2>7. TimersOf(id)' = IF id \in Docking THEN ts \cup {UnloadingTimer(id)} ELSE ts
      BY <2>1, TickTimers
    <2> HIDE DEF ship, r, ts, key
    <2>8. CASE id \in Docking
      <3>1. ShipOK([ship EXCEPT !.state = "UNLOADING"], Advance(r),
                   ts \cup {UnloadingTimer(id)}, key)
        BY <1>2, <2>2, <2>4, <2>5, <2>8, ShipDocks DEF key
      <3> QED
        BY <2>3, <2>5, <2>6, <2>7, <2>8, <3>1 DEF ShipInv
    <2>9. CASE id \in Sailing \ Docking
      <3>1. ShipOK(ship, Advance(r), ts, key)
        BY <2>2, <2>4, <2>5, <2>9, ShipSails
      <3> QED
        BY <2>3, <2>6, <2>7, <2>9, <3>1 DEF ShipInv
    <2>10. CASE id \notin Sailing
      BY <2>2, <2>3, <2>5, <2>6, <2>7, <2>10 DEF ShipInv
    <2> QED
      BY <2>8, <2>9, <2>10
  <1> QED
    BY <1>1, <1>5, <1>6, <1>7 DEF VoyageInv

(***************************************************************************)
(* The handlers of the timers.                                             *)
(***************************************************************************)
LEMMA TimerOfMissingShipInv ==
  ASSUME VoyageInv, NEW t \in timers, TimerOfMissingShip(t)
  PROVE  VoyageInv'
  <1>1. TypeOK'
    BY TimerOfMissingShipType DEF VoyageInv
  <1>2. /\ timers' = timers \ {t} /\ route_map' = route_map /\ sea_objects' = sea_objects
        /\ routes' = Kept(routes, route_map, timers')
        /\ issued' = issued /\ reused' = reused /\ t.id \notin Live
    BY DEF TimerOfMissingShip, shipVars, history
  <1>3. IdsIssued' /\ RoutesApart'
    BY <1>2 DEF VoyageInv, IdsIssued, RoutesApart
  <1>4. ASSUME NEW id \in Owned' PROVE ShipInv(id)'
    <2>1. id \in Owned
      BY <1>2, <1>4 DEF Owned, Live
    <2>2. TimersOf(id)' = TimersOf(id)
      BY <1>2, <2>1 DEF TimersOf, Owned
    <2>3. route_map[id] \in InUse(route_map, timers')
      BY <2>1 DEF Owned, InUse, Range
    <2>4. RouteOf(id)' = RouteOf(id)
      BY <1>2, <2>3 DEF RouteOf, Kept, Restrict
    <2> QED
      BY <1>2, <2>1, <2>2, <2>4, ShipUntouched DEF VoyageInv
  <1> QED
    BY <1>1, <1>3, <1>4 DEF VoyageInv

LEMMA UnloadDoneInv ==
  ASSUME VoyageInv, NEW t \in timers, UnloadDone(t)
  PROVE  VoyageInv'
  <1> DEFINE rearmed == [t EXCEPT !.phase = "LOADING"]
             after == [RemoveAllCargo(sea_objects[t.id], DockedPort(routes[t.route]))
                         EXCEPT !.state = "LOADING"]
  <1>1. TypeOK'
    BY UnloadDoneType DEF VoyageInv
  <1>2. /\ timers' = (timers \ {t}) \cup {rearmed}
        /\ sea_objects' = [sea_objects EXCEPT ![t.id] = after]
        /\ route_map' = route_map /\ routes' = routes
        /\ issued' = issued /\ reused' = reused
        /\ t.phase = "UNLOADING"
    BY DEF UnloadDone, Rearm, routeVars, history
  <1>3. /\ rearmed.id = t.id /\ rearmed.route = t.route /\ rearmed.phase = "LOADING"
        /\ t \in Timer
    BY TimerRoute DEF Timer, VoyageInv
  <1> HIDE DEF rearmed, after
  <1>4. IdsIssued' /\ RoutesApart'
    BY <1>2, <1>3 DEF VoyageInv, IdsIssued, RoutesApart
  <1>5. ASSUME NEW id \in Owned' PROVE ShipInv(id)'
    <2>1. id \in Owned /\ id \in Live
      BY <1>2, <1>5 DEF Owned, Live
    <2>2. RouteOf(id)' = RouteOf(id)
      BY <1>2 DEF RouteOf
    <2>3. CASE id = t.id
      <3> DEFINE ship == sea_objects[id]
                 r == RouteOf(id)
                 ts == TimersOf(id)
                 key == route_map[id]
      <3>1. ship \in Ship /\ r \in Route /\ ShipOK(ship, r, ts, key)
        BY <2>1, OwnedTypes DEF VoyageInv, ShipInv
      <3>2. t \in ts
        BY <2>3 DEF TimersOf
      <3>3. ts = {t} /\ ship.state = "UNLOADING" /\ t.route = key
        BY <1>2, <3>1, <3>2 DEF ShipOK
      <3>4. TimersOf(id)' = {rearmed}
        BY <1>2, <1>3, <2>3, <3>3 DEF TimersOf
      <3>5. sea_objects'[id] = [RemoveAllCargo(ship, DockedPort(r)) EXCEPT !.state = "LOADING"]
        BY <1>2, <2>1, <2>3, <3>3 DEF after, RouteOf, Live
      <3> HIDE DEF ship, r, ts, key
      <3>6. ShipOK([RemoveAllCargo(ship, DockedPort(r)) EXCEPT !.state = "LOADING"],
                   r, {rearmed}, key)
        BY <1>3, <3>1, <3>3, ShipUnloads
      <3> QED
        BY <1>2, <2>2, <3>4, <3>5, <3>6 DEF ShipInv, r, key
    <2>4. CASE id # t.id
      <3>1. sea_objects'[id] = sea_objects[id] /\ TimersOf(id)' = TimersOf(id)
        BY <1>2, <1>3, <2>1, <2>4 DEF TimersOf, Live
      <3> QED
        BY <1>2, <2>1, <2>2, <3>1, ShipUntouched DEF VoyageInv
    <2> QED
      BY <2>3, <2>4
  <1> QED
    BY <1>1, <1>4, <1>5 DEF VoyageInv

LEMMA LoadDoneInv ==
  ASSUME VoyageInv, NEW t \in timers, LoadDone(t)
  PROVE  VoyageInv'
  <1> DEFINE amount == Removed(DockedPort(routes[t.route]), LoadLot)
             after == [AddCargo(sea_objects[t.id], amount, DockedPort(routes[t.route]))
                         EXCEPT !.state = "SAILING"]
             turned == [routes EXCEPT ![t.route] = Reverse(@)]
  <1>1. TypeOK'
    BY LoadDoneType DEF VoyageInv
  <1>2. /\ timers' = timers \ {t}
        /\ sea_objects' = [sea_objects EXCEPT ![t.id] = after]
        /\ route_map' = route_map
        /\ routes' = Kept(turned, route_map, timers')
        /\ issued' = issued /\ reused' = reused
        /\ t.phase = "LOADING"
    BY DEF LoadDone, history
  <1>3. amount \in Int
    <2>1. DockedPort(routes[t.route]) \in PortId /\ LoadLot \in Int
      BY TimerRoute, DockedPortType, PortsAssumption DEF VoyageInv
    <2> QED
      BY <2>1, RemovedType, AmountTypes DEF VoyageInv, TypeOK
  <1>4. IdsIssued' /\ RoutesApart'
    BY <1>2 DEF VoyageInv, IdsIssued, RoutesApart
  <1> HIDE DEF amount
  <1>5. ASSUME NEW id \in Owned' PROVE ShipInv(id)'
    <2>1. id \in Owned /\ id \in Live /\ id \in DOMAIN route_map
      BY <1>2, <1>5 DEF Owned, Live
    <2>2. route_map[id] \in InUse(route_map, timers')
      BY <2>1 DEF InUse, Range
    <2>3. routes'[route_map[id]] = turned[route_map[id]]
      BY <1>2, <2>2 DEF Kept, Restrict
    <2>4. route_map[id] \in DOMAIN routes
      BY <2>1, OwnedTypes DEF VoyageInv, TypeOK
    <2>5. CASE id = t.id
      <3> DEFINE ship == sea_objects[id]
                 r == RouteOf(id)
                 ts == TimersOf(id)
                 key == route_map[id]
      <3>1. ship \in Ship /\ r \in Route /\ ShipOK(ship, r, ts, key)
        BY <2>1, OwnedTypes DEF VoyageInv, ShipInv
      <3>2. t \in ts
        BY <2>5 DEF TimersOf
      <3>3. ts = {t} /\ ship.state = "LOADING" /\ t.route = key
        BY <1>2, <3>1, <3>2 DEF ShipOK
      <3>4. TimersOf(id)' = {}
        BY <1>2, <3>3 DEF TimersOf
      <3>5. sea_objects'[id] = [AddCargo(ship, amount, DockedPort(r)) EXCEPT !.state = "SAILING"]
        BY <1>2, <2>1, <2>5, <3>3 DEF RouteOf, Live
      <3>6. RouteOf(id)' = Reverse(r)
        BY <1>2, <2>3, <2>4, <3>3 DEF RouteOf
      <3> HIDE DEF ship, r, ts, key
      <3>7. ShipOK([AddCargo(ship, amount, DockedPort(r)) EXCEPT !.state = "SAILING"],
                   Reverse(r), {}, key)
        BY <1>3, <3>1, <3>3, ShipLoads
      <3> QED
        BY <1>2, <3>4, <3>5, <3>6, <3>7 DEF ShipInv, key
    <2>6. CASE id # t.id
      <3>1. sea_objects'[id] = sea_objects[id] /\ TimersOf(id)' = TimersOf(id)
        BY <1>2, <2>1, <2>6 DEF TimersOf, Live
      <3>2. t.route # route_map[id]
        BY <2>1, <2>6 DEF VoyageInv, RoutesApart
      <3>3. RouteOf(id)' = RouteOf(id)
        BY <1>2, <2>3, <2>4, <3>2 DEF RouteOf
      <3> QED
        BY <1>2, <2>1, <3>1, <3>3, ShipUntouched DEF VoyageInv
    <2> QED
      BY <2>5, <2>6
  <1> QED
    BY <1>1, <1>4, <1>5 DEF VoyageInv

(***************************************************************************)
(* Steps that touch no ship, and the whole specification.                  *)
(***************************************************************************)
LEMMA OtherStepsInv ==
  ASSUME VoyageInv, TypeOK', UNCHANGED <<shipVars, routeVars, timers, history>>
  PROVE  VoyageInv'
  <1>1. IdsIssued' /\ RoutesApart'
    BY DEF VoyageInv, IdsIssued, RoutesApart, routeVars, history
  <1>2. ASSUME NEW id \in Owned' PROVE ShipInv(id)'
    <2>1. id \in Owned
      BY <1>2 DEF Owned, Live, shipVars, routeVars, history
    <2> QED
      BY <2>1, ShipUntouched DEF VoyageInv, RouteOf, TimersOf, shipVars, routeVars
  <1> QED
    BY <1>1, <1>2 DEF VoyageInv

LEMMA NextVoyageInv == VoyageInv /\ [Next]_vars => VoyageInv'
  <1>1. SUFFICES ASSUME VoyageInv, [Next]_vars PROVE VoyageInv'
    OBVIOUS
  <1>2. CASE ShipCommand
    BY <1>1, <1>2, SpawnUnroutedShipInv, SpawnRoutedShipInv, DeleteShipInv DEF ShipCommand
  <1>3. CASE Tick
    BY <1>1, <1>3, TickInv
  <1>4. CASE \E t \in timers : TimerHandler(t)
    BY <1>1, <1>4, TimerOfMissingShipInv, UnloadDoneInv, LoadDoneInv DEF TimerHandler
  <1>5. CASE Restart
    <2>1. TypeOK'
      BY <1>1, <1>5, VoyageRestartType DEF VoyageInv
    <2> QED
      BY <1>5, <2>1 DEF Restart, VoyageInv, IdsIssued, RoutesApart, Owned, Live, Empty
  <1>6. CASE PortCommand \/ Convert \/ Generate \/ UNCHANGED vars
    <2>1. TypeOK'
      BY <1>1, NextTypeOK DEF VoyageInv
    <2>2. UNCHANGED <<shipVars, routeVars, timers, history>>
      BY <1>6 DEF PortCommand, Convert, Generate, vars
    <2> QED
      BY <1>1, <2>1, <2>2, OtherStepsInv
  <1> QED
    BY <1>1, <1>2, <1>3, <1>4, <1>5, <1>6 DEF Next

\* The inductive invariant holds in every reachable state.
THEOREM VoyageInvariant == Spec => []VoyageInv
  BY InitVoyageInv, NextVoyageInv, PTL DEF Spec

\* A ship with an id of its own docks once at a time: it has no timer while it
\* sails, and in the dock one timer, of its own route and in its own phase.
THEOREM OneDockingAtATime == Spec => []OneDocking
  <1>1. VoyageInv => OneDocking
    BY DEF VoyageInv, ShipInv, ShipOK, OneDocking, TimersOf
  <1> QED
    BY <1>1, VoyageInvariant, PTL

\* Such a ship is in the dock only at the end of its route, at the port that
\* get_docked_seaport_id names, and never sails further out than one tick
\* beyond the place where it docks.
THEOREM DocksAtTheEnd == Spec => []DockedAtEnd
  <1>1. ASSUME VoyageInv, NEW id \in Owned
        PROVE  /\ sea_objects[id].state # "SAILING" =>
                    IF DockedPort(RouteOf(id)) = RouteOf(id).p1
                      THEN RouteOf(id).param <= 0
                      ELSE RouteOf(id).param > RouteOf(id).len
               /\ RouteOf(id).param \in -1 .. RouteOf(id).len + 2
    <2>1. RouteOf(id).len \in Nat
      BY <1>1, OwnedTypes, VoyageAssumption DEF VoyageInv, Route
    <2>2. Progress(sea_objects[id], RouteOf(id)) /\ RouteOf(id).p1 # RouteOf(id).p2
      BY <1>1 DEF VoyageInv, ShipInv, ShipOK
    <2> QED
      BY <2>1, <2>2 DEF Progress, DockedPort
  <1>2. VoyageInv => DockedAtEnd
    BY <1>1 DEF DockedAtEnd
  <1> QED
    BY <1>2, VoyageInvariant, PTL

\* The cargo of such a ship comes from the other end of its route, and when it
\* starts to load its hold is empty and takes the port's cargo.
THEOREM CargoComesFromOtherEnd == Spec => []CargoFromOtherEnd
  <1>1. VoyageInv => CargoFromOtherEnd
    BY DEF VoyageInv, ShipInv, ShipOK, Hold, CargoFromOtherEnd, AcceptsCargoFrom
  <1> QED
    BY <1>1, VoyageInvariant, PTL

-----------------------------------------------------------------------------
(***************************************************************************)
(* The ships as ferries: every step of the server is a step of module      *)
(* Ferry, seen through FerryOf.                                            *)
(***************************************************************************)
View == [id \in Owned |-> FerryOf(id)]
ViewVars == <<View, issued>>

\* What a ferry is made of, where nothing of it changes.
LEMMA FerryUntouched ==
  ASSUME NEW id, sea_objects'[id] = sea_objects[id], RouteOf(id)' = RouteOf(id)
  PROVE  FerryOf(id)' = FerryOf(id)
  BY DEF FerryOf

LEMMA FerryForgotten ==
  ASSUME NEW ids \in SUBSET Owned, Owned' = Owned \ ids,
         \A id \in Owned' : FerryOf(id)' = FerryOf(id),
         issued \subseteq issued', issued' \subseteq ShipId
  PROVE  Abstract!Next
  <1>1. Abstract!Afloat = Owned
    BY DEF Abstract!Afloat
  <1>2. Abstract!Forget(ids)
    BY <1>1 DEF Abstract!Forget, Abstract!Afloat
  <1> QED
    BY <1>1, <1>2 DEF Abstract!Next

LEMMA InitFerry == Init => Abstract!Init
  <1> SUFFICES ASSUME Init PROVE Abstract!Init
    OBVIOUS
  <1>1. Owned = {}
    BY DEF Init, Owned, Live, Empty
  <1> QED
    BY <1>1 DEF Abstract!Init, Init

LEMMA SpawnUnroutedShipFerry ==
  ASSUME VoyageInv, VoyageInv', NEW type \in ShipType, SpawnUnroutedShip(type)
  PROVE  Abstract!Next
  <1>1. /\ SpawnShip(type)
        /\ route_map' = route_map /\ routes' = routes
    BY DEF SpawnUnroutedShip, routeVars
  <1>2. issued \subseteq issued' /\ issued' \subseteq ShipId
    BY <1>1 DEF SpawnShip, IssueId, VoyageInv, TypeOK
  <1>3. \A id \in Owned' : id \in Owned /\ FerryOf(id)' = FerryOf(id)
    <2> TAKE id \in Owned'
    <2>1. id \in (Live \ reused)' /\ id \in DOMAIN route_map
      BY <1>1 DEF Owned
    <2>2. id # NewShipId
      BY <1>1, <2>1, SpawnedHere
    <2>3. id \in Owned /\ sea_objects'[id] = sea_objects[id]
      BY <1>1, <2>1, <2>2, SpawnedElsewhere
    <2>4. RouteOf(id)' = RouteOf(id)
      BY <1>1 DEF RouteOf
    <2> QED
      BY <2>3, <2>4, FerryUntouched
  <1>4. Owned' = Owned \ (Owned \ Owned')
    BY <1>3
  <1> QED
    BY <1>2, <1>3, <1>4, FerryForgotten

LEMMA SpawnRoutedShipFerry ==
  ASSUME VoyageInv, VoyageInv', NEW type \in ShipType, NEW p1 \in PortArg,
         NEW p2 \in PortArg, NEW len \in RouteLen, SpawnRoutedShip(type, p1, p2, len)
  PROVE  Abstract!Next
  <1> DEFINE r == [p1 |-> p1, p2 |-> p2, len |-> len, param |-> 0, reversed |-> FALSE]
  <1>0. PICK new : new = NewShipId
    OBVIOUS
  <1>1. PICK key \in RouteKey \ InUse(route_map, timers) :
          /\ route_map' = Put(route_map, new, key)
          /\ routes' = Kept(Put(routes, key, r), route_map', timers)
    BY <1>0 DEF SpawnRoutedShip
  <1>2. SpawnShip(type) /\ timers' = timers /\ p1 # p2 /\ new \in ShipId
    BY <1>0 DEF SpawnRoutedShip, SpawnShip
  <1>3. /\ \A i \in DOMAIN route_map : route_map[i] # key
        /\ \A t \in timers : t.route # key
    BY DEF InUse, Range
  <1>4. issued' = issued \cup {new} /\ reused' = reused \cup ({new} \cap issued)
    BY <1>0, <1>2 DEF SpawnShip, IssueId
  <1>5. ASSUME NEW id \in Owned', id # new
        PROVE  id \in Owned /\ FerryOf(id)' = FerryOf(id)
    <2>1. id \in (Live \ reused)' /\ id \in DOMAIN route_map /\ route_map'[id] = route_map[id]
      BY <1>1, <1>5 DEF Owned, Put
    <2>2. id \in Owned /\ sea_objects'[id] = sea_objects[id]
      BY <1>0, <1>2, <2>1, <1>5, SpawnedElsewhere
    <2>3. route_map'[id] \in InUse(route_map', timers)
      BY <1>5 DEF Owned, InUse, Range
    <2>4. routes'[route_map'[id]] = Put(routes, key, r)[route_map'[id]]
      BY <1>1, <2>3 DEF Kept, Restrict
    <2>5. route_map[id] # key /\ route_map[id] \in DOMAIN routes
      BY <1>3, <2>1, <2>2, OwnedTypes DEF VoyageInv, TypeOK
    <2>6. RouteOf(id)' = RouteOf(id)
      BY <2>1, <2>4, <2>5 DEF RouteOf, Put
    <2> QED
      BY <2>2, <2>6, FerryUntouched
  <1>6. CASE new \in issued
    <2>1. new \notin Owned'
      BY <1>4, <1>6 DEF Owned
    <2>2. Owned' = Owned \ (Owned \ Owned')
      BY <1>5, <2>1
    <2>3. issued \subseteq issued' /\ issued' \subseteq ShipId
      BY <1>2, <1>4 DEF VoyageInv, TypeOK
    <2> QED
      BY <1>5, <2>1, <2>2, <2>3, FerryForgotten
  <1>7. CASE new \notin issued
    <2>1. new \notin Owned /\ new \notin reused' /\ new \notin Live
      BY <1>4, <1>7 DEF Owned, VoyageInv, TypeOK
    <2>2. sea_objects' = Put(sea_objects, new, NewShip)
      BY <1>0, <1>2, <2>1 DEF SpawnShip
    <2>3. Owned' = Owned \cup {new}
      BY <1>1, <1>4, <1>7, <2>1, <2>2 DEF Owned, Live, Put, VoyageInv, TypeOK
    <2>4. RouteOf(new)' = r
      <3>1. route_map'[new] = key /\ key \in InUse(route_map', timers)
        BY <1>1 DEF Put, InUse, Range
      <3> QED
        BY <1>1, <3>1 DEF RouteOf, Kept, Restrict, Put
    <2>5. sea_objects'[new] = NewShip
      BY <2>2 DEF Put
    <2>6. FerryOf(new)' = [phase |-> "SAILING", here |-> p2, there |-> p1,
                           hold |-> 0, from |-> NoOrigin]
      BY <2>4, <2>5 DEF FerryOf, NewShip, DockedPort
    <2>7. View' = [i \in Owned \cup {new} |->
                     IF i = new
                       THEN [phase |-> "SAILING", here |-> p2, there |-> p1,
                             hold |-> 0, from |-> NoOrigin]
                       ELSE View[i]]
      BY <1>5, <2>1, <2>3, <2>6 DEF View
    <2>8. Abstract!Afloat = Owned
      BY DEF Abstract!Afloat
    <2>9. Abstract!Launch(new)
      BY <1>2, <1>4, <1>7, <2>7, <2>8 DEF Abstract!Launch, View
    <2> QED
      BY <1>2, <2>9 DEF Abstract!Next
  <1> QED
    BY <1>6, <1>7

LEMMA DeleteShipFerry ==
  ASSUME VoyageInv, NEW type \in ShipType, DeleteShip(type)
  PROVE  Abstract!Next
  <1>1. /\ route_map' = route_map /\ routes' = routes
        /\ issued' = issued /\ reused' = reused
    BY DEF DeleteShip, routeVars, history
  <1>2. \A id \in Owned' : id \in Owned /\ FerryOf(id)' = FerryOf(id)
    <2> TAKE id \in Owned'
    <2>1. id \in Owned /\ sea_objects'[id] = sea_objects[id]
      BY <1>1 DEF Owned, Live, DeleteShip, Erase, Restrict
    <2>2. RouteOf(id)' = RouteOf(id)
      BY <1>1 DEF RouteOf
    <2> QED
      BY <2>1, <2>2, FerryUntouched
  <1>3. Owned' = Owned \ (Owned \ Owned') /\ issued \subseteq ShipId
    BY <1>2 DEF VoyageInv, TypeOK
  <1> QED
    BY <1>1, <1>2, <1>3, FerryForgotten

\* The ships that arrive in a tick, all at once.
LEMMA TickFerry ==
  ASSUME VoyageInv, Tick
  PROVE  Abstract!Next
  <1> DEFINE ids == Docking \cap Owned
  <1>1. /\ route_map' = Restrict(route_map, Routed)
        /\ issued' = issued /\ reused' = reused
    BY DEF Tick, history
  <1>2. Owned' = Owned
    BY <1>1 DEF Owned, Live, Tick, Restrict, Routed
  <1>3. ASSUME NEW id \in Owned
        PROVE  /\ id \in ids => View[id].phase = "SAILING"
               /\ FerryOf(id)' = IF id \in ids THEN [FerryOf(id) EXCEPT !.phase = "UNLOADING"]
                                               ELSE FerryOf(id)
    <2>1. sea_objects[id] \in Ship /\ RouteOf(id) \in Route
      BY OwnedTypes DEF VoyageInv
    <2>2. /\ DockedPort(RouteOf(id)') = DockedPort(RouteOf(id))
          /\ RouteOf(id)'.reversed = RouteOf(id).reversed
          /\ RouteOf(id)'.p1 = RouteOf(id).p1 /\ RouteOf(id)'.p2 = RouteOf(id).p2
      BY <2>1, TickRoute DEF Advance, Route, DockedPort
    <2>3. sea_objects'[id] = IF id \in Docking
                               THEN [sea_objects[id] EXCEPT !.state = "UNLOADING"]
                               ELSE sea_objects[id]
      BY DEF Owned, Tick
    <2>4. id \in Docking => sea_objects[id].state = "SAILING"
      BY DEF Docking, Sailing
    <2>5. /\ sea_objects'[id].cargo = sea_objects[id].cargo
          /\ sea_objects'[id].origin = sea_objects[id].origin
          /\ sea_objects'[id].state = IF id \in Docking THEN "UNLOADING"
                                                        ELSE sea_objects[id].state
      BY <2>1, <2>3 DEF Ship
    <2> QED
      BY <2>2, <2>4, <2>5 DEF FerryOf, View
  <1>4. Abstract!Afloat = Owned
    BY DEF Abstract!Afloat
  <1>5. Abstract!Arrive(ids)
    BY <1>1, <1>2, <1>3, <1>4 DEF Abstract!Arrive, View
  <1> QED
    BY <1>4, <1>5 DEF Abstract!Next

LEMMA TimerOfMissingShipFerry ==
  ASSUME VoyageInv, NEW t \in timers, TimerOfMissingShip(t)
  PROVE  UNCHANGED ViewVars
  <1>1. /\ route_map' = route_map /\ sea_objects' = sea_objects
        /\ routes' = Kept(routes, route_map, timers')
        /\ issued' = issued /\ reused' = reused
    BY DEF TimerOfMissingShip, shipVars, history
  <1>2. Owned' = Owned
    BY <1>1 DEF Owned, Live
  <1>3. \A id \in Owned : FerryOf(id)' = FerryOf(id)
    <2> TAKE id \in Owned
    <2>1. route_map[id] \in InUse(route_map, timers')
      BY DEF Owned, InUse, Range
    <2>2. RouteOf(id)' = RouteOf(id)
      BY <1>1, <2>1 DEF RouteOf, Kept, Restrict
    <2> QED
      BY <1>1, <2>2, FerryUntouched
  <1> QED
    BY <1>1, <1>2, <1>3 DEF View, ViewVars
\* The two handlers of a docking, if the ship they find is the one they were armed for.
LEMMA UnloadDoneFerry ==
  ASSUME VoyageInv, VoyageInv', NEW t \in timers, UnloadDone(t)
  PROVE  [Abstract!Next]_ViewVars
  <1> DEFINE after == [RemoveAllCargo(sea_objects[t.id], DockedPort(routes[t.route]))
                         EXCEPT !.state = "LOADING"]
  <1>1. /\ sea_objects' = [sea_objects EXCEPT ![t.id] = after]
        /\ route_map' = route_map /\ routes' = routes
        /\ issued' = issued /\ reused' = reused
        /\ t.phase = "UNLOADING"
    BY DEF UnloadDone, routeVars, history
  <1> HIDE DEF after
  <1>2. Owned' = Owned
    BY <1>1 DEF Owned, Live
  <1>3. \A id \in Owned : RouteOf(id)' = RouteOf(id)
    BY <1>1 DEF RouteOf
  <1>4. \A id \in Owned : id # t.id => FerryOf(id)' = FerryOf(id)
    BY <1>1, <1>3, FerryUntouched DEF Owned, Live
  <1>5. CASE t.id \notin Owned
    BY <1>1, <1>2, <1>4, <1>5 DEF View, ViewVars
  <1>6. CASE t.id \in Owned
    <2> DEFINE id == t.id
    <2>1. View[id].phase = "UNLOADING" /\ t \in TimersOf(id)
      BY <1>1, <1>6 DEF VoyageInv, ShipInv, ShipOK, TimersOf, View, FerryOf
    <2>2. ShipInv(id)' /\ sea_objects'[id].state = "LOADING"
      <3>1. sea_objects'[id] = after /\ sea_objects'[id] \in Ship
        BY <1>1, <1>2, <1>6 DEF Owned, Live, VoyageInv, TypeOK
      <3>2. after.state = "LOADING"
        <4>1. RemoveAllCargo(sea_objects[id], DockedPort(routes[t.route])) \in Ship
          BY <1>6, HoldTypes, DockedPortType, TimerRoute, OwnedTypes DEF VoyageInv
        <4> QED
          BY <4>1 DEF after, Ship
      <3> QED
        BY <1>2, <1>6, <3>1, <3>2 DEF VoyageInv
    <2>3. sea_objects'[id].cargo = 0
      BY <1>2, <1>6, <2>2 DEF VoyageInv, ShipInv, ShipOK, Hold
    <2>4. FerryOf(id)' = [phase |-> "LOADING", here |-> FerryOf(id).here,
                          there |-> FerryOf(id).there, hold |-> 0, from |-> NoOrigin]
      <3>1. RouteOf(id)' = RouteOf(id)
        BY <1>3, <1>6
      <3> QED
        BY <2>2, <2>3, <3>1 DEF FerryOf
    <2>5. Abstract!Afloat = Owned
      BY DEF Abstract!Afloat
    <2>6. Abstract!Unload(id)
      BY <1>1, <1>2, <1>4, <1>6, <2>1, <2>4 DEF Abstract!Unload, View
    <2> QED
      BY <1>6, <2>5, <2>6 DEF Abstract!Next
  <1> QED
    BY <1>5, <1>6

LEMMA LoadDoneFerry ==
  ASSUME VoyageInv, VoyageInv', NEW t \in timers, LoadDone(t)
  PROVE  [Abstract!Next]_ViewVars
  <1> DEFINE port == DockedPort(routes[t.route])
             amount == Removed(port, LoadLot)
             after == [AddCargo(sea_objects[t.id], amount, port) EXCEPT !.state = "SAILING"]
             turned == [routes EXCEPT ![t.route] = Reverse(@)]
  <1>1. /\ timers' = timers \ {t}
        /\ sea_objects' = [sea_objects EXCEPT ![t.id] = after]
        /\ route_map' = route_map
        /\ routes' = Kept(turned, route_map, timers')
        /\ issued' = issued /\ reused' = reused
        /\ t.phase = "LOADING"
    BY DEF LoadDone, history
  <1>2. amount \in Int /\ port \in PortId
    <2>1. port \in PortId /\ LoadLot \in Int
      BY TimerRoute, DockedPortType, PortsAssumption DEF VoyageInv
    <2> QED
      BY <2>1, RemovedType, AmountTypes DEF VoyageInv, TypeOK
  <1> HIDE DEF amount, after
  <1>3. Owned' = Owned
    BY <1>1 DEF Owned, Live
  <1>4. ASSUME NEW id \in Owned
        PROVE  routes'[route_map[id]] = turned[route_map[id]] /\ route_map[id] \in DOMAIN routes
    <2>1. route_map[id] \in InUse(route_map, timers')
      BY DEF Owned, InUse, Range
    <2> QED
      BY <1>1, <2>1, OwnedTypes DEF Kept, Restrict, VoyageInv, TypeOK
  <1>5. ASSUME NEW id \in Owned, id # t.id PROVE FerryOf(id)' = FerryOf(id)
    <2>1. t.route # route_map[id]
      BY <1>5 DEF VoyageInv, RoutesApart, Owned
    <2>2. RouteOf(id)' = RouteOf(id) /\ sea_objects'[id] = sea_objects[id]
      BY <1>1, <1>4, <1>5, <2>1 DEF RouteOf, Owned, Live
    <2> QED
      BY <2>2, FerryUntouched
  <1>6. CASE t.id \notin Owned
    BY <1>1, <1>3, <1>5, <1>6 DEF View, ViewVars
  <1>7. CASE t.id \in Owned
    <2> DEFINE id == t.id
               ship == sea_objects[id]
               r == RouteOf(id)
    <2>1. ship \in Ship /\ r \in Route /\ ShipOK(ship, r, TimersOf(id), route_map[id])
      BY <1>7, OwnedTypes DEF VoyageInv, ShipInv
    <2>2. ship.state = "LOADING" /\ t.route = route_map[id] /\ r.p1 # r.p2
      BY <1>1, <2>1 DEF ShipOK, TimersOf
    <2>3. RouteOf(id)' = Reverse(r)
      BY <1>1, <1>4, <1>7, <2>2 DEF RouteOf
    <2>4. port = DockedPort(r)
      BY <2>2 DEF RouteOf
    <2>5. sea_objects'[id] = after
      BY <1>1, <1>7 DEF Owned, Live
    <2>6. AddCargo(ship, amount, port) \in Ship /\ after \in Ship /\ after.state = "SAILING"
          /\ after.cargo = AddCargo(ship, amount, port).cargo
          /\ after.origin = AddCargo(ship, amount, port).origin
      <3>1. AddCargo(ship, amount, port) \in Ship
        BY <1>2, <2>1, HoldTypes
      <3>2. after = [AddCargo(ship, amount, port) EXCEPT !.state = "SAILING"]
        BY DEF after
      <3> QED
        BY <3>1, <3>2 DEF Ship, ShipState
    <2>7. after.cargo \in 0..MaxCargo /\ after.origin = port
      <3>1. AcceptsCargoFrom(ship, port)
        BY <2>1, <2>2, <2>4 DEF ShipOK, Hold, AcceptsCargoFrom
      <3> QED
        BY <2>1, <2>6, <3>1 DEF AddCargo, Ship
    <2>8. FerryOf(id) = [phase |-> "LOADING", here |-> port,
                         there |-> IF r.reversed THEN r.p2 ELSE r.p1,
                         hold |-> ship.cargo,
                         from |-> IF ship.cargo = 0 THEN NoOrigin ELSE ship.origin]
      BY <2>2, <2>4 DEF FerryOf
    <2>9. /\ DockedPort(Reverse(r)) = IF r.reversed THEN r.p2 ELSE r.p1
          /\ (IF Reverse(r).reversed THEN Reverse(r).p2 ELSE Reverse(r).p1) = DockedPort(r)
      BY <2>1 DEF Reverse, DockedPort, Route
    <2>10. FerryOf(id)' = [phase |-> "SAILING", here |-> FerryOf(id).there,
                           there |-> FerryOf(id).here, hold |-> after.cargo,
                           from |-> IF after.cargo = 0 THEN NoOrigin ELSE FerryOf(id).here]
      BY <2>3, <2>4, <2>5, <2>6, <2>7, <2>8, <2>9 DEF FerryOf
    <2>11. Abstract!Afloat = Owned
      BY DEF Abstract!Afloat
    <2>12. View' = [View EXCEPT ![id] = [phase |-> "SAILING", here |-> FerryOf(id).there,
                           there |-> FerryOf(id).here, hold |-> after.cargo,
                           from |-> IF after.cargo = 0 THEN NoOrigin ELSE FerryOf(id).here]]
      BY <1>3, <1>5, <1>7, <2>10 DEF View
    <2>13. View[id] = FerryOf(id) /\ FerryOf(id).phase = "LOADING"
      BY <1>7, <2>8 DEF View
    <2>14. Abstract!Load(id)
      BY <1>1, <2>7, <2>12, <2>13 DEF Abstract!Load, View
    <2> QED
      BY <1>7, <2>11, <2>14 DEF Abstract!Next
  <1> QED
    BY <1>6, <1>7

LEMMA NextFerry == VoyageInv /\ VoyageInv' /\ [Next]_vars => [Abstract!Next]_ViewVars
  <1>1. SUFFICES ASSUME VoyageInv, VoyageInv', [Next]_vars PROVE [Abstract!Next]_ViewVars
    OBVIOUS
  <1>2. CASE ShipCommand
    BY <1>1, <1>2, SpawnUnroutedShipFerry, SpawnRoutedShipFerry, DeleteShipFerry DEF ShipCommand
  <1>3. CASE Tick
    BY <1>1, <1>3, TickFerry
  <1>4. CASE \E t \in timers : TimerHandler(t)
    BY <1>1, <1>4, TimerOfMissingShipFerry, UnloadDoneFerry, LoadDoneFerry DEF TimerHandler
  <1>5. CASE Restart
    <2>1. Owned' = {} /\ issued' = {}
      BY <1>5 DEF Restart, Owned, Live, Empty
    <2>2. Abstract!Restart
      BY <2>1 DEF Abstract!Restart
    <2> QED
      BY <2>2 DEF Abstract!Next
  <1>6. CASE PortCommand \/ Convert \/ Generate \/ UNCHANGED vars
    <2>1. UNCHANGED <<shipVars, routeVars, timers, history>>
      BY <1>6 DEF PortCommand, Convert, Generate, vars
    <2>2. Owned' = Owned /\ \A id \in Owned : FerryOf(id)' = FerryOf(id)
      BY <2>1 DEF Owned, Live, FerryOf, RouteOf, shipVars, routeVars, history
    <2> QED
      BY <2>1, <2>2 DEF View, ViewVars, history
  <1> QED
    BY <1>1, <1>2, <1>3, <1>4, <1>5, <1>6 DEF Next

\* Every behaviour of the server is one of the ferries: the docking cycle of a
\* ship whose id is its own (sea.cpp:247-345) is never disturbed by the timers
\* and routes that ships of shared or reused ids leave behind.
THEOREM ShipsAreFerries == Spec => ActsAsFerry
  <1>1. VoyageInv /\ VoyageInv' /\ [Next]_vars => [Abstract!Next]_<<View, issued>>
    BY NextFerry DEF ViewVars
  <1> QED
    BY InitFerry, VoyageInvariant, <1>1, PTL DEF Spec, ActsAsFerry, Abstract!Spec, Abstract!ferryVars, View

-----------------------------------------------------------------------------
(***************************************************************************)
(* The total of the cargo.  It is a sum over three maps; the lemmas reduce *)
(* a step's effect on it to what happens under each key: what a port has   *)
(* stored, and what a ship holds.                                          *)
(***************************************************************************)
Stored(c, u, i) ==
  (IF i \in DOMAIN c THEN c[i] ELSE 0)
    + (IF i \in DOMAIN u /\ u[i] > 0 THEN u[i] ELSE 0)

Held(s, i) == IF i \in DOMAIN s THEN s[i].cargo ELSE 0

AllCargo(c, u, s) ==
  (SumFunction(c) + SumFunction([i \in DOMAIN u |-> IF u[i] > 0 THEN u[i] ELSE 0]))
    + SumFunction([i \in DOMAIN s |-> s[i].cargo])

\* The maps as the model has them: finite, with amounts as their values.
Amounts(c, u, s) ==
  /\ IsFiniteSet(DOMAIN c) /\ IsFiniteSet(DOMAIN u) /\ IsFiniteSet(DOMAIN s)
  /\ \A i \in DOMAIN c : c[i] \in Nat
  /\ \A i \in DOMAIN u : u[i] \in Int
  /\ \A i \in DOMAIN s : s[i].cargo \in Nat

LEMMA AmountsPerKey ==
  ASSUME NEW c, NEW u, NEW s, Amounts(c, u, s), NEW i
  PROVE  Stored(c, u, i) \in Nat /\ Held(s, i) \in Nat
  BY DEF Amounts, Stored, Held

\* The total, as two sums over any finite sets that contain the keys.
LEMMA AllCargoByKey ==
  ASSUME NEW c, NEW u, NEW s, Amounts(c, u, s),
         NEW D, IsFiniteSet(D), DOMAIN c \subseteq D, DOMAIN u \subseteq D,
         NEW E, IsFiniteSet(E), DOMAIN s \subseteq E
  PROVE  AllCargo(c, u, s) = SumFunctionOnSet([i \in D |-> Stored(c, u, i)], D)
                               + SumFunctionOnSet([i \in E |-> Held(s, i)], E)
  <1> DEFINE pos == [i \in DOMAIN u |-> IF u[i] > 0 THEN u[i] ELSE 0]
             cargo == [i \in DOMAIN s |-> s[i].cargo]
             overD(f) == [i \in D |-> IF i \in DOMAIN f THEN f[i] ELSE 0]
             overE(f) == [i \in E |-> IF i \in DOMAIN f THEN f[i] ELSE 0]
             stored == [i \in D |-> Stored(c, u, i)]
             held == [i \in E |-> Held(s, i)]
  <1>1. /\ \A i \in DOMAIN c : c[i] \in Int
        /\ DOMAIN pos = DOMAIN u /\ \A i \in DOMAIN pos : pos[i] \in Int
        /\ DOMAIN cargo = DOMAIN s /\ \A i \in DOMAIN cargo : cargo[i] \in Int
    BY DEF Amounts
  <1>2. \A i \in D : /\ overD(c)[i] \in Int /\ overD(pos)[i] \in Int
                     /\ stored[i] = overD(c)[i] + overD(pos)[i]
    BY DEF Amounts, Stored
  <1>3. overE(cargo) = held
    BY DEF Held
  <1>4. AllCargo(c, u, s) = (SumFunction(c) + SumFunction(pos)) + SumFunction(cargo)
    BY DEF AllCargo
  <1> HIDE DEF pos, cargo, stored, held
  <1>5. /\ SumFunction(c) = SumFunctionOnSet(overD(c), D)
        /\ SumFunction(pos) = SumFunctionOnSet(overD(pos), D)
        /\ SumFunction(cargo) = SumFunctionOnSet(overE(cargo), E)
    BY <1>1, SumOverKeys
  <1> HIDE DEF overD, overE
  <1>6. SumFunctionOnSet(stored, D) = SumFunctionOnSet(overD(c), D) + SumFunctionOnSet(overD(pos), D)
    BY <1>2, SumAdds
  <1> QED
    BY <1>3, <1>4, <1>5, <1>6 DEF stored, held

\* Where no key has more than before, the total is not more than before.
LEMMA AllCargoFalls ==
  ASSUME NEW c, NEW u, NEW s, Amounts(c, u, s),
         NEW d, NEW v, NEW w, Amounts(d, v, w),
         \A i : Stored(d, v, i) <= Stored(c, u, i),
         \A i : Held(w, i) <= Held(s, i)
  PROVE  ~(AllCargo(d, v, w) > AllCargo(c, u, s))
  <1> DEFINE D == (DOMAIN c \cup DOMAIN u) \cup (DOMAIN d \cup DOMAIN v)
             E == DOMAIN s \cup DOMAIN w
             stored(f, g) == [i \in D |-> Stored(f, g, i)]
             held(f) == [i \in E |-> Held(f, i)]
  <1>1. IsFiniteSet(D) /\ IsFiniteSet(E)
    BY FS_Union DEF Amounts
  <1>2. /\ DOMAIN c \subseteq D /\ DOMAIN u \subseteq D /\ DOMAIN d \subseteq D
        /\ DOMAIN v \subseteq D /\ DOMAIN s \subseteq E /\ DOMAIN w \subseteq E
    OBVIOUS
  <1> HIDE DEF D, E
  <1>3. /\ AllCargo(c, u, s) = SumFunctionOnSet(stored(c, u), D) + SumFunctionOnSet(held(s), E)
        /\ AllCargo(d, v, w) = SumFunctionOnSet(stored(d, v), D) + SumFunctionOnSet(held(w), E)
    BY <1>1, <1>2, AllCargoByKey
  <1>4. \A i \in D : /\ stored(c, u)[i] \in Int /\ stored(d, v)[i] \in Int
                     /\ stored(d, v)[i] <= stored(c, u)[i]
    BY AmountsPerKey
  <1>5. \A i \in E : held(s)[i] \in Int /\ held(w)[i] \in Int /\ held(w)[i] <= held(s)[i]
    BY AmountsPerKey
  <1> HIDE DEF stored, held
  <1>6. /\ SumFunctionOnSet(stored(d, v), D) <= SumFunctionOnSet(stored(c, u), D)
        /\ SumFunctionOnSet(held(w), E) <= SumFunctionOnSet(held(s), E)
    BY <1>1, <1>4, <1>5, SumMonotone
  <1>7. /\ SumFunctionOnSet(stored(d, v), D) \in Int /\ SumFunctionOnSet(stored(c, u), D) \in Int
        /\ SumFunctionOnSet(held(w), E) \in Int /\ SumFunctionOnSet(held(s), E) \in Int
    BY <1>1, <1>4, <1>5, SumType
  <1> QED
    BY <1>3, <1>6, <1>7

\* Where one port and one ship change, the total changes by what they do.
LEMMA AllCargoMoves ==
  ASSUME NEW c, NEW u, NEW s, Amounts(c, u, s),
         NEW d, NEW v, NEW w, Amounts(d, v, w), NEW p, NEW x,
         \A i : i # p => Stored(d, v, i) = Stored(c, u, i),
         \A i : i # x => Held(w, i) = Held(s, i)
  PROVE  /\ AllCargo(c, u, s) \in Int
         /\ AllCargo(d, v, w) = AllCargo(c, u, s) + (Stored(d, v, p) - Stored(c, u, p))
                                                  + (Held(w, x) - Held(s, x))
  <1> DEFINE D == ((DOMAIN c \cup DOMAIN u) \cup (DOMAIN d \cup DOMAIN v)) \cup {p}
             E == (DOMAIN s \cup DOMAIN w) \cup {x}
             stored(f, g) == [i \in D |-> Stored(f, g, i)]
             held(f) == [i \in E |-> Held(f, i)]
  <1>1. IsFiniteSet(D) /\ IsFiniteSet(E)
    BY FS_Union, FS_AddElement DEF Amounts
  <1>2. /\ DOMAIN c \subseteq D /\ DOMAIN u \subseteq D /\ DOMAIN d \subseteq D
        /\ DOMAIN v \subseteq D /\ DOMAIN s \subseteq E /\ DOMAIN w \subseteq E
        /\ p \in D /\ x \in E
    OBVIOUS
  <1> HIDE DEF D, E
  <1>3. /\ AllCargo(c, u, s) = SumFunctionOnSet(stored(c, u), D) + SumFunctionOnSet(held(s), E)
        /\ AllCargo(d, v, w) = SumFunctionOnSet(stored(d, v), D) + SumFunctionOnSet(held(w), E)
    BY <1>1, <1>2, AllCargoByKey
  <1>4. /\ \A i \in D : stored(c, u)[i] \in Int /\ stored(d, v)[i] \in Int
        /\ \A i \in D \ {p} : stored(c, u)[i] = stored(d, v)[i]
        /\ stored(c, u)[p] = Stored(c, u, p) /\ stored(d, v)[p] = Stored(d, v, p)
    BY <1>2, AmountsPerKey
  <1>5. /\ \A i \in E : held(s)[i] \in Int /\ held(w)[i] \in Int
        /\ \A i \in E \ {x} : held(s)[i] = held(w)[i]
        /\ held(s)[x] = Held(s, x) /\ held(w)[x] = Held(w, x)
    BY <1>2, AmountsPerKey
  <1> HIDE DEF stored, held
  <1>6. SumFunctionOnSet(stored(d, v), D)
          = SumFunctionOnSet(stored(c, u), D) + (stored(d, v)[p] - stored(c, u)[p])
    BY <1>1, <1>2, <1>4, SumChangesOne
  <1>7. SumFunctionOnSet(held(w), E) = SumFunctionOnSet(held(s), E) + (held(w)[x] - held(s)[x])
    BY <1>1, <1>2, <1>5, SumChangesOne
  <1>8. SumFunctionOnSet(stored(c, u), D) \in Int /\ SumFunctionOnSet(held(s), E) \in Int
    BY <1>1, <1>4, <1>5, SumType
  <1>9. /\ Stored(c, u, p) \in Int /\ Stored(d, v, p) \in Int
        /\ Held(s, x) \in Int /\ Held(w, x) \in Int
    BY AmountsPerKey
  <1>10. SumFunctionOnSet(stored(d, v), D)
          = SumFunctionOnSet(stored(c, u), D) + (Stored(d, v, p) - Stored(c, u, p))
    BY <1>4, <1>6
  <1>11. SumFunctionOnSet(held(w), E) = SumFunctionOnSet(held(s), E) + (Held(w, x) - Held(s, x))
    BY <1>5, <1>7
  <1> QED
    BY <1>3, <1>8, <1>9, <1>10, <1>11

(***************************************************************************)
(* The variables are such maps.                                            *)
(***************************************************************************)
LEMMA InitStoresFinite == Init => StoresFinite
  BY InitFinite DEF Init

LEMMA NextStoresFinite == TypeOK /\ StoresFinite /\ [Next]_vars => StoresFinite'
  <1>1. SUFFICES ASSUME TypeOK, StoresFinite, [Next]_vars  PROVE StoresFinite'
    OBVIOUS
  <1>2. CASE UNCHANGED portVars
    BY <1>1, <1>2 DEF portVars, StoresFinite
  <1>3. CASE PortCommand
    BY <1>1, <1>3, PortCommandFinite DEF PortCommand
  <1>4. CASE \E t \in timers : UnloadDone(t) \/ LoadDone(t)
    BY <1>1, <1>4, CargoCallFinite DEF UnloadDone, LoadDone
  <1>5. CASE Convert \/ Generate
    BY <1>1, <1>5, CargoTimerFinite DEF Convert, Generate, TypeOK
  <1>6. CASE Restart
    BY <1>6, RestartFinite DEF Restart
  <1>7. CASE ShipCommand \/ Tick \/ (\E t \in timers : TimerOfMissingShip(t)) \/ UNCHANGED vars
    BY <1>2, <1>7 DEF ShipCommand, SpawnUnroutedShip, SpawnRoutedShip, SpawnShip, DeleteShip,
                      Tick, TimerOfMissingShip, vars
  <1> QED
    BY <1>1, <1>3, <1>4, <1>5, <1>6, <1>7 DEF Next, TimerHandler

THEOREM StoresStayFinite == Spec => [](TypeOK /\ StoresFinite)
  <1>1. TypeOK /\ StoresFinite /\ [Next]_vars => TypeOK' /\ StoresFinite'
    BY NextTypeOK, NextStoresFinite
  <1> QED
    BY <1>1, InitTypeOK, InitStoresFinite, PTL DEF Spec

LEMMA AmountsNow ==
  ASSUME TypeOK, StoresFinite
  PROVE  Amounts(id_cargo, id_cargo_unloaded, sea_objects)
  <1>1. IsFiniteSet(DOMAIN sea_objects)
    <2>1. DOMAIN sea_objects \subseteq 1..MaxShips
      BY DEF TypeOK, Live, ShipId
    <2>2. IsFiniteSet(1..MaxShips)
      BY VoyageAssumption, FS_Interval
    <2> QED
      BY <2>1, <2>2, FS_Subset
  <1> QED
    BY <1>1, MaxCargoAssumption DEF TypeOK, PortsTypeOK, StoresFinite, Amounts, Ship, Live

LEMMA AmountsNext ==
  ASSUME TypeOK', StoresFinite'
  PROVE  Amounts(id_cargo', id_cargo_unloaded', sea_objects')
  <1>1. IsFiniteSet(DOMAIN sea_objects')
    <2>1. DOMAIN sea_objects' \subseteq 1..MaxShips
      BY DEF TypeOK, Live, ShipId
    <2>2. IsFiniteSet(1..MaxShips)
      BY VoyageAssumption, FS_Interval
    <2> QED
      BY <2>1, <2>2, FS_Subset
  <1> QED
    BY <1>1, MaxCargoAssumption DEF TypeOK, PortsTypeOK, StoresFinite, Amounts, Ship, Live

StoredAt(i) == Stored(id_cargo, id_cargo_unloaded, i)
HeldBy(i) == Held(sea_objects, i)

LEMMA StoredAtIs ==
  ASSUME NEW i
  PROVE  /\ StoredAt(i) = CargoAt(i) + (IF UnloadedAt(i) > 0 THEN UnloadedAt(i) ELSE 0)
         /\ StoredAt(i)' = CargoAt(i)' + (IF UnloadedAt(i)' > 0 THEN UnloadedAt(i)' ELSE 0)
  BY DEF StoredAt, Stored, CargoAt, UnloadedAt

LEMMA TotalFalls ==
  ASSUME TypeOK, StoresFinite, TypeOK', StoresFinite',
         \A i : StoredAt(i)' <= StoredAt(i), \A i : HeldBy(i)' <= HeldBy(i)
  PROVE  ~(TotalCargo' > TotalCargo)
  <1>1. /\ TotalCargo = AllCargo(id_cargo, id_cargo_unloaded, sea_objects)
        /\ TotalCargo' = AllCargo(id_cargo', id_cargo_unloaded', sea_objects')
    BY DEF TotalCargo, PortCargo, ShipCargo, AllCargo, Live
  <1> QED
    BY <1>1, AmountsNow, AmountsNext, AllCargoFalls DEF StoredAt, HeldBy

LEMMA TotalMoves ==
  ASSUME TypeOK, StoresFinite, TypeOK', StoresFinite', NEW port, NEW id,
         \A i : i # port => StoredAt(i)' = StoredAt(i),
         \A i : i # id => HeldBy(i)' = HeldBy(i)
  PROVE  /\ TotalCargo \in Int
         /\ TotalCargo' = TotalCargo + (StoredAt(port)' - StoredAt(port)) + (HeldBy(id)' - HeldBy(id))
  <1>1. /\ TotalCargo = AllCargo(id_cargo, id_cargo_unloaded, sea_objects)
        /\ TotalCargo' = AllCargo(id_cargo', id_cargo_unloaded', sea_objects')
    BY DEF TotalCargo, PortCargo, ShipCargo, AllCargo, Live
  <1>2. /\ Amounts(id_cargo, id_cargo_unloaded, sea_objects)
        /\ Amounts(id_cargo', id_cargo_unloaded', sea_objects')
    BY AmountsNow, AmountsNext
  <1>3. /\ \A i : i # port => Stored(id_cargo', id_cargo_unloaded', i)
                               = Stored(id_cargo, id_cargo_unloaded, i)
        /\ \A i : i # id => Held(sea_objects', i) = Held(sea_objects, i)
    BY DEF StoredAt, HeldBy
  <1>4. /\ AllCargo(id_cargo, id_cargo_unloaded, sea_objects) \in Int
        /\ AllCargo(id_cargo', id_cargo_unloaded', sea_objects')
             = AllCargo(id_cargo, id_cargo_unloaded, sea_objects)
                 + (Stored(id_cargo', id_cargo_unloaded', port)
                      - Stored(id_cargo, id_cargo_unloaded, port))
                 + (Held(sea_objects', id) - Held(sea_objects, id))
    BY <1>2, <1>3, AllCargoMoves
  <1> QED
    BY <1>1, <1>4 DEF StoredAt, HeldBy

(***************************************************************************)
(* What the two handlers of a docking do to their port and their ship.     *)
(***************************************************************************)
LEMMA UnloadMoves ==
  ASSUME TypeOK, NEW t \in timers, UnloadDone(t),
         NEW port, port = DockedPort(routes[t.route]),
         NEW unloaded, unloaded = RemoveAllCargo(sea_objects[t.id], port)
  PROVE  /\ \A i : i # port => StoredAt(i)' = StoredAt(i)
         /\ \A i : i # t.id => HeldBy(i)' = HeldBy(i)
         /\ HeldBy(t.id) = sea_objects[t.id].cargo /\ HeldBy(t.id)' = unloaded.cargo
         /\ CargoAt(port)' = CargoAt(port)
         /\ UnloadedAt(port)' =
              IF port \in DOMAIN id_cargo
                THEN UnloadedAt(port)
                       + (AfterAdd(CargoAt(port), sea_objects[t.id].cargo - unloaded.cargo)
                            - CargoAt(port))
                ELSE UnloadedAt(port)
  <1>1. /\ t.id \in Live
        /\ sea_objects' = [sea_objects EXCEPT ![t.id] = [unloaded EXCEPT !.state = "LOADING"]]
        /\ AddUnloaded(port, sea_objects[t.id].cargo - unloaded.cargo)
    BY DEF UnloadDone
  <1>2. unloaded \in Ship
    BY <1>1, TimerRoute, DockedPortType, HoldTypes DEF TypeOK
  <1>3. [unloaded EXCEPT !.state = "LOADING"].cargo = unloaded.cargo
    BY <1>2 DEF Ship
  <1>4. /\ \A i : i # t.id => HeldBy(i)' = HeldBy(i)
        /\ HeldBy(t.id) = sea_objects[t.id].cargo /\ HeldBy(t.id)' = unloaded.cargo
    <2> DEFINE docked == [unloaded EXCEPT !.state = "LOADING"]
    <2> HIDE DEF docked
    <2>1. sea_objects' = [sea_objects EXCEPT ![t.id] = docked] /\ docked.cargo = unloaded.cargo
      BY <1>1, <1>3 DEF docked
    <2> QED
      BY <1>1, <2>1 DEF HeldBy, Held, Live
  <1>5. /\ \A i : i # port => StoredAt(i)' = StoredAt(i)
        /\ CargoAt(port)' = CargoAt(port)
    BY <1>1 DEF AddUnloaded, StoredAt, Stored, Put, CargoAt
  <1>6. UnloadedAt(port)' =
          IF port \in DOMAIN id_cargo
            THEN UnloadedAt(port)
                   + (AfterAdd(CargoAt(port), sea_objects[t.id].cargo - unloaded.cargo)
                        - CargoAt(port))
            ELSE UnloadedAt(port)
    BY <1>1 DEF AddUnloaded, Put, UnloadedAt
  <1> QED
    BY <1>4, <1>5, <1>6

LEMMA LoadMoves ==
  ASSUME TypeOK, NEW t \in timers, LoadDone(t),
         NEW port, port = DockedPort(routes[t.route]),
         NEW loaded, loaded = AddCargo(sea_objects[t.id], Removed(port, LoadLot), port)
  PROVE  /\ \A i : i # port => StoredAt(i)' = StoredAt(i)
         /\ \A i : i # t.id => HeldBy(i)' = HeldBy(i)
         /\ HeldBy(t.id) = sea_objects[t.id].cargo /\ HeldBy(t.id)' = loaded.cargo
         /\ StoredAt(port)' = StoredAt(port) - Removed(port, LoadLot)
  <1>1. /\ t.id \in Live
        /\ sea_objects' = [sea_objects EXCEPT ![t.id] = [loaded EXCEPT !.state = "SAILING"]]
        /\ RemoveCargo(port, LoadLot)
    BY DEF LoadDone
  <1>2. PortsTypeOK /\ LoadLot \in Int
    BY VoyageAssumption, PortsAssumption DEF TypeOK
  <1>3. /\ Removed(port, LoadLot) \in 0..CargoAt(port)
        /\ CargoAt(port) \in Nat /\ UnloadedAt(port) \in Int
    BY <1>2, RemovedType, AmountTypes
  <1>4. loaded \in Ship
    BY <1>1, <1>3, TimerRoute, DockedPortType, HoldTypes DEF TypeOK
  <1>5. [loaded EXCEPT !.state = "SAILING"].cargo = loaded.cargo
    BY <1>4 DEF Ship
  <1>6. /\ \A i : i # t.id => HeldBy(i)' = HeldBy(i)
        /\ HeldBy(t.id) = sea_objects[t.id].cargo /\ HeldBy(t.id)' = loaded.cargo
    <2> DEFINE docked == [loaded EXCEPT !.state = "SAILING"]
    <2> HIDE DEF docked
    <2>1. sea_objects' = [sea_objects EXCEPT ![t.id] = docked] /\ docked.cargo = loaded.cargo
      BY <1>1, <1>5 DEF docked
    <2> QED
      BY <1>1, <2>1 DEF HeldBy, Held, Live
  <1>7. \A i : i # port => StoredAt(i)' = StoredAt(i)
    BY <1>1 DEF RemoveCargo, StoredAt, Stored
  <1>8. CargoAt(port)' = AfterRemove(CargoAt(port), LoadLot) /\ UnloadedAt(port)' = UnloadedAt(port)
    <2>1. CASE port \in DOMAIN id_cargo
      BY <1>1, <2>1 DEF RemoveCargo, CargoAt, UnloadedAt
    <2>2. CASE port \notin DOMAIN id_cargo
      <3>1. 0 \in Nat /\ AfterRemove(0, LoadLot) \in 0..0
        BY <1>2, StoreTypes
      <3> QED
        BY <1>1, <2>2, <3>1 DEF RemoveCargo, CargoAt, UnloadedAt
    <2> QED
      BY <2>1, <2>2
  <1>9. AfterRemove(CargoAt(port), LoadLot) \in 0..CargoAt(port)
    BY <1>2, <1>3, StoreTypes
  <1>10. StoredAt(port)' = StoredAt(port) - Removed(port, LoadLot)
    BY <1>3, <1>8, <1>9, StoredAtIs DEF Removed
  <1> QED
    BY <1>6, <1>7, <1>10

(***************************************************************************)
(* Where cargo comes from.                                                 *)
(***************************************************************************)
\* Unless the cities produce, nothing has more under its key than before, but
\* for a docking ship and its port, and what one gains of those the other loses.
LEMMA CommandsTakeCargo ==
  ASSUME TypeOK, ShipCommand \/ PortCommand \/ Restart, NEW i
  PROVE  StoredAt(i)' <= StoredAt(i) /\ HeldBy(i)' <= HeldBy(i)
  <1>1. /\ CargoAt(i) \in Nat /\ UnloadedAt(i) \in Int
        /\ StoredAt(i) = CargoAt(i) + (IF UnloadedAt(i) > 0 THEN UnloadedAt(i) ELSE 0)
        /\ HeldBy(i) \in Nat
    BY AmountTypes, StoredAtIs DEF TypeOK, HeldBy, Held, Ship, Live
  <1>2. CASE \E type \in ShipType : SpawnShip(type)
    BY <1>1, <1>2 DEF SpawnShip, Put, NewShip, Live, StoredAt, HeldBy, Held, portVars
  <1>3. CASE \E type \in ShipType : DeleteShip(type)
    BY <1>1, <1>3 DEF DeleteShip, Erase, Restrict, StoredAt, HeldBy, Held, portVars
  <1>4. CASE PortCommand
    <2>1. sea_objects' = sea_objects
      BY <1>4 DEF PortCommand, shipVars
    <2>2. \/ \E pt \in Point : SpawnPort(pt)
          \/ \E id \in PortArg : NamePort(id) \/ DespawnPort(id)
      BY <1>4 DEF PortCommand
    <2>3. /\ CargoAt(i)' = CargoAt(i) \/ CargoAt(i)' = 0
          /\ UnloadedAt(i)' = UnloadedAt(i) \/ UnloadedAt(i)' = 0
      BY <2>2 DEF SpawnPort, NamePort, DespawnPort, Put, Erase, Restrict, CargoAt, UnloadedAt
    <2>4. StoredAt(i)' <= StoredAt(i)
      BY <1>1, <2>3, StoredAtIs
    <2> QED
      BY <1>1, <2>1, <2>4 DEF HeldBy
  <1>5. CASE Restart
    BY <1>1, <1>5 DEF Restart, RestartPorts, Empty, StoredAt, Stored, HeldBy, Held
  <1> QED
    BY <1>2, <1>3, <1>4, <1>5 DEF ShipCommand, SpawnUnroutedShip, SpawnRoutedShip

LEMMA TimersTakeCargo ==
  ASSUME TypeOK, Tick \/ (\E t \in timers : TimerOfMissingShip(t)) \/ Convert, NEW i
  PROVE  StoredAt(i)' <= StoredAt(i) /\ HeldBy(i)' <= HeldBy(i)
  <1>1. /\ CargoAt(i) \in Nat /\ UnloadedAt(i) \in Int
        /\ StoredAt(i) = CargoAt(i) + (IF UnloadedAt(i) > 0 THEN UnloadedAt(i) ELSE 0)
        /\ HeldBy(i) \in Nat
    BY AmountTypes, StoredAtIs DEF TypeOK, HeldBy, Held, Ship, Live
  <1>2. CASE Tick
    <2>1. UNCHANGED portVars /\ DOMAIN sea_objects' = Live
      BY <1>2 DEF Tick
    <2>2. i \in Live => sea_objects[i] \in Ship
      BY DEF TypeOK
    <2>3. i \in Live => sea_objects'[i].cargo = sea_objects[i].cargo
      BY <1>2, <2>2 DEF Tick, Ship
    <2> QED
      BY <1>1, <2>1, <2>3 DEF StoredAt, HeldBy, Held, Live, portVars
  <1>3. CASE \E t \in timers : TimerOfMissingShip(t)
    BY <1>1, <1>3 DEF TimerOfMissingShip, StoredAt, HeldBy, portVars, shipVars
  <1>4. CASE Convert
    <2>1. ConvertCargo /\ PortsTypeOK /\ sea_objects' = sea_objects
      BY <1>4 DEF Convert, TypeOK, shipVars
    <2>2. /\ Moved(i) \in Nat /\ (Moved(i) > 0 => Moved(i) <= UnloadedAt(i))
          /\ CargoAt(i)' = CargoAt(i) + Moved(i)
          /\ UnloadedAt(i)' = UnloadedAt(i) - Moved(i)
      BY <2>1, ConversionMoves
    <2>3. StoredAt(i)' = CargoAt(i)' + (IF UnloadedAt(i)' > 0 THEN UnloadedAt(i)' ELSE 0)
      BY StoredAtIs
    <2>4. StoredAt(i)' <= StoredAt(i)
      BY <1>1, <2>2, <2>3
    <2> QED
      BY <1>1, <2>1, <2>4 DEF HeldBy
  <1> QED
    BY <1>2, <1>3, <1>4

\* What a ship unloads the port may refuse, but it is not given more.
LEMMA UnloadTakesCargo ==
  ASSUME TypeOK, StoresFinite, TypeOK', StoresFinite', NEW t \in timers, UnloadDone(t)
  PROVE  ~(TotalCargo' > TotalCargo)
  <1>0. PICK port : port = DockedPort(routes[t.route])
    OBVIOUS
  <1> DEFINE ship == sea_objects[t.id]
             unloaded == RemoveAllCargo(ship, port)
             added == AfterAdd(CargoAt(port), ship.cargo - unloaded.cargo) - CargoAt(port)
  <1>1. ship \in Ship /\ port \in PortId
    BY <1>0, TimerRoute, DockedPortType DEF UnloadDone, TypeOK
  <1>2. MaxCargo \in Nat \ {0} /\ ship.cargo \in Nat /\ ship.cargo <= MaxCargo
    BY <1>1, MaxCargoAssumption DEF Ship
  <1>3. unloaded.cargo \in 0..ship.cargo
    <2>1. AfterRemove(ship.cargo, MaxCargo) \in 0..ship.cargo
      <3> HIDE DEF ship
      <3>1. ship.cargo \in Nat /\ MaxCargo \in Int
        BY <1>2
      <3> QED
        BY <3>1, StoreTypes
    <2> QED
      BY <1>1, <1>2, <2>1 DEF RemoveAllCargo, Ship
  <1>4. CargoAt(port) \in Nat /\ UnloadedAt(port) \in Int
    BY AmountTypes DEF TypeOK
  <1>5. added \in Int /\ added <= ship.cargo - unloaded.cargo
    BY <1>2, <1>3, <1>4 DEF AfterAdd, Clamp
  <1>6. /\ \A i : i # port => StoredAt(i)' = StoredAt(i)
        /\ \A i : i # t.id => HeldBy(i)' = HeldBy(i)
        /\ HeldBy(t.id) = ship.cargo /\ HeldBy(t.id)' = unloaded.cargo
        /\ CargoAt(port)' = CargoAt(port)
        /\ UnloadedAt(port)' = IF port \in DOMAIN id_cargo THEN UnloadedAt(port) + added
                                                           ELSE UnloadedAt(port)
    BY <1>0, UnloadMoves
  <1> HIDE DEF ship, unloaded, added
  <1>7. /\ TotalCargo \in Int
        /\ TotalCargo' = TotalCargo + (StoredAt(port)' - StoredAt(port))
                                    + (HeldBy(t.id)' - HeldBy(t.id))
    BY <1>6, TotalMoves
  <1>8. StoredAt(port)' - StoredAt(port) <= ship.cargo - unloaded.cargo
        /\ StoredAt(port)' - StoredAt(port) \in Int
    <2>1. /\ StoredAt(port) = CargoAt(port) + (IF UnloadedAt(port) > 0 THEN UnloadedAt(port) ELSE 0)
          /\ StoredAt(port)' = CargoAt(port)' + (IF UnloadedAt(port)' > 0 THEN UnloadedAt(port)' ELSE 0)
      BY StoredAtIs
    <2> QED
      BY <1>2, <1>3, <1>4, <1>5, <1>6, <2>1
  <1> QED
    BY <1>2, <1>3, <1>6, <1>7, <1>8

\* What the port hands over the ship may not take, but it gets no more.
LEMMA LoadTakesCargo ==
  ASSUME TypeOK, StoresFinite, TypeOK', StoresFinite', NEW t \in timers, LoadDone(t)
  PROVE  ~(TotalCargo' > TotalCargo)
  <1>0. PICK port : port = DockedPort(routes[t.route])
    OBVIOUS
  <1> DEFINE ship == sea_objects[t.id]
             amount == Removed(port, LoadLot)
             loaded == AddCargo(ship, amount, port)
  <1>1. ship \in Ship /\ port \in PortId
    BY <1>0, TimerRoute, DockedPortType DEF LoadDone, TypeOK
  <1>2. MaxCargo \in Nat \ {0} /\ ship.cargo \in Nat /\ ship.cargo <= MaxCargo
    BY <1>1, MaxCargoAssumption DEF Ship
  <1>3. CargoAt(port) \in Nat /\ UnloadedAt(port) \in Int /\ amount \in 0..CargoAt(port)
    BY AmountTypes, RemovedType, PortsAssumption DEF TypeOK
  <1>4. AfterAdd(ship.cargo, amount) \in 0..(ship.cargo + amount)
    BY <1>2, <1>3 DEF AfterAdd, Clamp
  <1>5. loaded.cargo \in Nat /\ loaded.cargo <= ship.cargo + amount
    <2> HIDE DEF amount
    <2> QED
      BY <1>1, <1>2, <1>3, <1>4 DEF AddCargo, Ship
  <1>6. /\ \A i : i # port => StoredAt(i)' = StoredAt(i)
        /\ \A i : i # t.id => HeldBy(i)' = HeldBy(i)
        /\ HeldBy(t.id) = ship.cargo /\ HeldBy(t.id)' = loaded.cargo
        /\ StoredAt(port)' = StoredAt(port) - amount
    BY <1>0, LoadMoves
  <1> HIDE DEF ship, amount, loaded
  <1>7. /\ TotalCargo \in Int
        /\ TotalCargo' = TotalCargo + (StoredAt(port)' - StoredAt(port))
                                    + (HeldBy(t.id)' - HeldBy(t.id))
    BY <1>6, TotalMoves
  <1>8. StoredAt(port) \in Int
    BY <1>3, StoredAtIs
  <1> QED
    BY <1>2, <1>3, <1>5, <1>6, <1>7, <1>8

\* Whatever is deleted, reused, renamed or restarted: only the cities
\* (city.cpp:274-291) make the total of all cargo grow.
THEOREM OnlyCitiesMakeCargo == Spec => NoCargoFromNowhere
  <1>1. ASSUME TypeOK, StoresFinite, TypeOK', StoresFinite', Next, ~Generate
        PROVE  ~(TotalCargo' > TotalCargo)
    <2>1. CASE ShipCommand \/ PortCommand \/ Restart
      BY <1>1, <2>1, CommandsTakeCargo, TotalFalls
    <2>2. CASE Tick \/ (\E t \in timers : TimerOfMissingShip(t)) \/ Convert
      BY <1>1, <2>2, TimersTakeCargo, TotalFalls
    <2>3. CASE \E t \in timers : UnloadDone(t) \/ LoadDone(t)
      BY <1>1, <2>3, UnloadTakesCargo, LoadTakesCargo
    <2> QED
      BY <1>1, <2>1, <2>2, <2>3 DEF Next, TimerHandler
  <1>2. TypeOK /\ StoresFinite /\ [Next]_vars => [TotalCargo' > TotalCargo => Generate]_vars
    BY <1>1, NextTypeOK, NextStoresFinite
  <1> QED
    BY <1>2, StoresStayFinite, PTL DEF Spec, NoCargoFromNowhere

\* Where the docked port keeps a count, has room and no deficit, nothing is lost.
LEMMA UnloadConserves ==
  ASSUME VoyageInv, StoresFinite, TypeOK', StoresFinite', NEW t \in timers, UnloadDone(t),
         NEW port, port = DockedPort(routes[t.route]), port \in DOMAIN id_cargo,
         UnloadedAt(port) >= 0, CargoAt(port) + sea_objects[t.id].cargo <= MaxCargo
  PROVE  TotalCargo' = TotalCargo
  <1> DEFINE ship == sea_objects[t.id]
             unloaded == RemoveAllCargo(ship, port)
             moved == ship.cargo - unloaded.cargo
  <1>1. TypeOK /\ PortsTypeOK /\ ship \in Ship
    BY TimerRoute DEF VoyageInv, UnloadDone, TypeOK
  <1>2. MaxCargo \in Nat \ {0} /\ ship.cargo \in Nat /\ ship.cargo <= MaxCargo
    BY <1>1, MaxCargoAssumption DEF Ship
  <1>3. unloaded.cargo \in 0..ship.cargo
    <2>1. AfterRemove(ship.cargo, MaxCargo) \in 0..ship.cargo
      <3> HIDE DEF ship
      <3>1. ship.cargo \in Nat /\ MaxCargo \in Int
        BY <1>2
      <3> QED
        BY <3>1, StoreTypes
    <2> QED
      BY <1>1, <1>2, <2>1 DEF RemoveAllCargo, Ship
  <1>4. CargoAt(port) \in Nat /\ UnloadedAt(port) \in Int
    BY <1>1, AmountTypes
  <1>5. /\ \A i : i # port => StoredAt(i)' = StoredAt(i)
        /\ \A i : i # t.id => HeldBy(i)' = HeldBy(i)
        /\ HeldBy(t.id) = ship.cargo /\ HeldBy(t.id)' = unloaded.cargo
        /\ CargoAt(port)' = CargoAt(port)
        /\ UnloadedAt(port)' = UnloadedAt(port) + (AfterAdd(CargoAt(port), moved) - CargoAt(port))
    BY <1>1, UnloadMoves
  <1>6. CargoAt(port) + ship.cargo <= MaxCargo
    OBVIOUS
  <1> HIDE DEF ship, unloaded
  <1>7. AfterAdd(CargoAt(port), moved) = CargoAt(port) + moved
    BY <1>2, <1>3, <1>4, <1>6 DEF AfterAdd, Clamp
  <1>8. /\ TotalCargo \in Int
        /\ TotalCargo' = TotalCargo + (StoredAt(port)' - StoredAt(port))
                                    + (HeldBy(t.id)' - HeldBy(t.id))
    BY <1>1, <1>5, TotalMoves
  <1>9. /\ StoredAt(port) = CargoAt(port) + (IF UnloadedAt(port) > 0 THEN UnloadedAt(port) ELSE 0)
        /\ StoredAt(port)' = CargoAt(port)' + (IF UnloadedAt(port)' > 0 THEN UnloadedAt(port)' ELSE 0)
    BY StoredAtIs
  <1>10. StoredAt(port)' = StoredAt(port) + moved /\ StoredAt(port) \in Int
    BY <1>2, <1>3, <1>4, <1>5, <1>7, <1>9
  <1> QED
    BY <1>2, <1>3, <1>5, <1>8, <1>10

LEMMA LoadConserves ==
  ASSUME VoyageInv, StoresFinite, TypeOK', StoresFinite', NEW t \in timers, LoadDone(t),
         t.id \in Owned, NEW port, port = DockedPort(routes[t.route]),
         CargoAt(port) + sea_objects[t.id].cargo <= MaxCargo
  PROVE  TotalCargo' = TotalCargo
  <1> DEFINE ship == sea_objects[t.id]
             amount == Removed(port, LoadLot)
             loaded == AddCargo(ship, amount, port)
  <1>1. TypeOK /\ PortsTypeOK /\ ship \in Ship
    BY TimerRoute DEF VoyageInv, LoadDone, TypeOK
  <1>2. MaxCargo \in Nat \ {0} /\ ship.cargo \in Nat /\ ship.cargo <= MaxCargo
    BY <1>1, MaxCargoAssumption DEF Ship
  <1>3. CargoAt(port) \in Nat /\ UnloadedAt(port) \in Int /\ amount \in 0..CargoAt(port)
    BY <1>1, AmountTypes, RemovedType, PortsAssumption
  <1>4. AcceptsCargoFrom(ship, port)
    <2>1. ShipOK(ship, RouteOf(t.id), TimersOf(t.id), route_map[t.id])
      BY DEF VoyageInv, ShipInv
    <2>2. t \in TimersOf(t.id) /\ t.phase = "LOADING"
      BY DEF TimersOf, LoadDone
    <2>3. ship.state = "LOADING" /\ t.route = route_map[t.id]
      BY <2>1, <2>2 DEF ShipOK
    <2>4. ship.origin \in {0, port}
      BY <2>1, <2>3 DEF ShipOK, Hold, RouteOf
    <2> QED
      BY <2>4 DEF AcceptsCargoFrom
  <1>5. CargoAt(port) + ship.cargo <= MaxCargo
    OBVIOUS
  <1>6. AfterAdd(ship.cargo, amount) = ship.cargo + amount
    <2> HIDE DEF ship, amount
    <2> QED
      BY <1>2, <1>3, <1>5 DEF AfterAdd, Clamp
  <1>7. loaded.cargo = ship.cargo + amount
    <2> HIDE DEF amount
    <2> QED
      BY <1>1, <1>4, <1>6 DEF AddCargo, Ship
  <1>8. /\ \A i : i # port => StoredAt(i)' = StoredAt(i)
        /\ \A i : i # t.id => HeldBy(i)' = HeldBy(i)
        /\ HeldBy(t.id) = ship.cargo /\ HeldBy(t.id)' = loaded.cargo
        /\ StoredAt(port)' = StoredAt(port) - amount
    BY <1>1, LoadMoves
  <1> HIDE DEF ship, amount, loaded
  <1>9. /\ TotalCargo \in Int
        /\ TotalCargo' = TotalCargo + (StoredAt(port)' - StoredAt(port))
                                    + (HeldBy(t.id)' - HeldBy(t.id))
    BY <1>1, <1>8, TotalMoves
  <1>10. StoredAt(port) \in Int
    BY <1>3, StoredAtIs
  <1> QED
    BY <1>2, <1>3, <1>7, <1>8, <1>9, <1>10

\* A docking (sea.cpp:281-345) moves cargo without losing any, under the
\* conditions that DockingConserves names.
THEOREM DockingLosesNothing == Spec => DockingConserves
  <1>1. ASSUME VoyageInv, StoresFinite, TypeOK', StoresFinite', NEW t \in timers,
               UnloadDone(t) \/ LoadDone(t), t.id \in Owned,
               DockedPort(routes[t.route]) \in DOMAIN id_cargo,
               UnloadedAt(DockedPort(routes[t.route])) >= 0,
               CargoAt(DockedPort(routes[t.route])) + sea_objects[t.id].cargo <= MaxCargo
        PROVE  TotalCargo' = TotalCargo
    BY <1>1, UnloadConserves, LoadConserves
  <1>2. VoyageInv /\ StoresFinite /\ [Next]_vars =>
          [\A t \in timers :
             LET port == DockedPort(routes[t.route])
             IN  /\ UnloadDone(t) \/ LoadDone(t)
                 /\ t.id \in Owned
                 /\ port \in DOMAIN id_cargo
                 /\ UnloadedAt(port) >= 0
                 /\ CargoAt(port) + sea_objects[t.id].cargo <= MaxCargo
                 => TotalCargo' = TotalCargo]_vars
    <2>1. VoyageInv /\ StoresFinite /\ [Next]_vars => TypeOK' /\ StoresFinite'
      BY NextTypeOK, NextStoresFinite DEF VoyageInv
    <2> QED
      BY <1>1, <2>1
  <1> QED
    BY <1>2, StoresStayFinite, VoyageInvariant, PTL DEF Spec, DockingConserves
=============================================================================
