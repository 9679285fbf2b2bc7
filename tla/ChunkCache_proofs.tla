-------------------------- MODULE ChunkCache_proofs --------------------------
(***************************************************************************)
(* No client keeps an outdated chunk, for any number of ports, cities,     *)
(* chunks, clients, restarts and reboots, wherever the ports and cities    *)
(* are, whatever scales are asked for and with whatever timestamps.  What  *)
(* StaleIsRefreshed leaves out (copies from before a reboot, the upper     *)
(* border of a chunk, scales above the largest) does not hold (README,     *)
(* section 6).                                                             *)
(***************************************************************************)
EXTENDS ChunkCache, FiniteSetTheorems, TLAPS

\* What a copy has of the chunk's own cells is not what the chunk has.
Outdated(copy) ==
  copy.cells \cap Own(copy.asked) # rtree[copy.layer] \cap Own(copy.asked)

\* A copy of a served scale is not newer than its chunk, and an outdated one is
\* older.
CopiesOrdered ==
  \A reply \in sent :
    reply.asked.msb <= PingMax /\ reply.asked \in DOMAIN chunk_key_ts[reply.layer] =>
      /\ reply.ts <= chunk_key_ts[reply.layer][reply.asked]
      /\ Outdated(reply) => reply.ts < chunk_key_ts[reply.layer][reply.asked]

\* The chunks that have a city, and no others, have a timestamp of cities, so
\* no reply shows any other chunk of cities.
CitiesTouched ==
  /\ DOMAIN chunk_key_ts["city"] = AllHomeKeys(rtree["city"])
  /\ \A reply \in sent : reply.layer = "city" => reply.asked \in DOMAIN chunk_key_ts["city"]

ChunkInv == TypeOK /\ NeverAhead /\ CopiesOrdered /\ CitiesTouched

-----------------------------------------------------------------------------
\* A quotient lies between what it is the quotient of and one divisor less.
LEMMA QuotientBounds ==
  ASSUME NEW a \in Nat, NEW w \in Nat \ {0}
  PROVE  /\ a \div w \in Nat
         /\ (a \div w) * w <= a
         /\ a < (a \div w) * w + w
  <1>1. a \div w \in Int /\ a % w \in 0..(w - 1)
    OBVIOUS
  <1>2. a = w * (a \div w) + (a % w)
    OBVIOUS
  <1>3. w * (a \div w) = (a \div w) * w
    BY <1>1
  <1>4. a \div w >= 0
    OBVIOUS
  <1> QED
    BY <1>1, <1>2, <1>3, <1>4

\* A number between a multiple of w and the next has it for a quotient.
LEMMA QuotientIs ==
  ASSUME NEW a \in Nat, NEW w \in Nat \ {0}, NEW n \in Nat, n * w <= a, a < n * w + w
  PROVE  a \div w = n
  <1> DEFINE q == a \div w
  <1>1. q \in Nat /\ q * w <= a /\ a < q * w + w
    BY QuotientBounds
  <1> HIDE DEF q
  <1>2. ASSUME q < n PROVE FALSE
    <2>1. PICK k \in Nat : n = q + 1 + k
      BY <1>1, <1>2
    <2>2. n * w = q * w + w + k * w /\ k * w >= 0
      BY <1>1, <2>1
    <2> QED
      BY <1>1, <2>2
  <1>3. ASSUME n < q PROVE FALSE
    <2>1. PICK k \in Nat : q = n + 1 + k
      BY <1>1, <1>3
    <2>2. q * w = n * w + w + k * w /\ k * w >= 0
      BY <1>1, <2>1
    <2> QED
      BY <1>1, <2>2
  <1>4. q = n
    BY <1>1, <1>2, <1>3
  <1> QED
    BY <1>4 DEF q

\* An edit in one of a chunk's own cells touches the chunk: the chunk whose
\* centre is the nearest, of two the next, reaches half its width to both sides.
LEMMA OwnIsTouched ==
  ASSUME NEW key \in RequestKey, key.msb <= PingMax, NEW cell \in Own(key)
  PROVE  key \in HomeKeys(cell)
  <1>1. /\ key.cc \in Nat /\ key.msb \in 0..PingMax /\ cell \in Nat
        /\ key = [cc |-> key.cc, msb |-> key.msb]
    BY ChunkAssumption DEF Own, Covered, Cell
  <1> DEFINE half == (Extent \div 2) * 2 ^ key.msb
  <1>2. half \in Nat \ {0} /\ Width(key.msb) = 2 * half /\ HalfWidth(key.msb) = half
    <2>1. PICK e \in Nat \ {0} : Extent = 2 * e /\ Extent \div 2 = e
      BY ChunkAssumption
    <2>2. PICK p \in Nat \ {0} : 2 ^ key.msb = p
      BY <1>1, ChunkAssumption
    <2>3. half = e * p /\ Width(key.msb) = (2 * e) * p
      BY <2>1, <2>2 DEF Width
    <2>4. e * p \in Nat \ {0} /\ (2 * e) * p = 2 * (e * p)
      BY <2>1, <2>2
    <2> QED
      BY <2>3, <2>4 DEF HalfWidth
  <1> HIDE DEF half
  <1>3. Served(key) = key
    BY <1>1, ChunkAssumption DEF Served
  <1>4. /\ key.cc * (2 * half) - half <= cell
        /\ cell <= key.cc * (2 * half) + half
        /\ cell # key.cc * (2 * half) + half
    BY <1>2, <1>3 DEF Own, Covered
  <1>5. (cell + half) \div (2 * half) = key.cc
    <2> DEFINE w == 2 * half
               a == cell + half
               base == key.cc * w
    <2>1. a \in Nat /\ w \in Nat \ {0} /\ base \in Nat
      BY <1>1, <1>2
    <2>2. base - half <= cell /\ cell <= base + half /\ cell # base + half
      BY <1>4
    <2> HIDE DEF base
    <2>3. base <= a /\ a < base + w
      <3>1. half \in Nat /\ cell \in Nat /\ base \in Nat
        BY <1>1, <1>2, <2>1
      <3> QED
        BY <2>2, <3>1
    <2> HIDE DEF a, w
    <2>4. a \div w = key.cc
      BY <1>1, <2>1, <2>3, QuotientIs DEF base
    <2> QED
      BY <2>4 DEF a, w
  <1>6. (key.cc * (2 * half)) \div (2 * half) = key.cc
    <2>1. key.cc * (2 * half) \in Nat /\ 2 * half \in Nat \ {0}
      BY <1>1, <1>2
    <2>2. key.cc * (2 * half) < key.cc * (2 * half) + 2 * half
      BY <2>1
    <2> QED
      BY <1>1, <2>1, <2>2, QuotientIs
  <1>7. ChunkKey(cell, key.msb) = key
    <2>1. AlignedChunkIndex(cell, key.msb) = key.cc * (2 * half)
      BY <1>2, <1>5 DEF AlignedChunkIndex
    <2> QED
      BY <1>1, <1>2, <1>6, <2>1 DEF ChunkKey
  <1> QED
    BY <1>1, <1>7 DEF HomeKeys

\* What a touch of the ports does: a touched chunk gets a later timestamp, none
\* gets an earlier one, and none gets ahead of the clock; cities are left alone.
TouchedTo(keys, key) ==
  LET old == chunk_key_ts["port"]
      new == chunk_key_ts'["port"]
  IN  /\ new[key] \in Nat \ {0}
      /\ new[key] <= clock + 1
      /\ key \notin DOMAIN old => new[key] = clock + 1
      /\ key \in DOMAIN old => new[key] >= old[key]
      /\ key \in DOMAIN old /\ key \in keys => new[key] > old[key]
      /\ key \in DOMAIN old /\ key \notin keys => new[key] = old[key]

LEMMA TouchOrders ==
  ASSUME TypeOK, NeverAhead, NEW keys, TouchPorts(keys)
  PROVE  /\ DOMAIN chunk_key_ts' = Layer
         /\ chunk_key_ts'["city"] = chunk_key_ts["city"]
         /\ DOMAIN chunk_key_ts'["port"] = DOMAIN chunk_key_ts["port"] \cup keys
         /\ chunk_key_ts'["port"] \in [DOMAIN chunk_key_ts'["port"] -> Nat \ {0}]
         /\ \A key \in DOMAIN chunk_key_ts'["port"] : TouchedTo(keys, key)
  <1> DEFINE old == chunk_key_ts["port"]
             new == Touched(old, keys)
  <1>1. /\ DOMAIN chunk_key_ts' = Layer /\ chunk_key_ts'["port"] = new
        /\ chunk_key_ts'["city"] = chunk_key_ts["city"]
    BY DEF TypeOK, TouchPorts, Layer
  <1>2. /\ clock \in Nat
        /\ \A key \in DOMAIN old : old[key] \in Nat \ {0} /\ old[key] <= clock
    BY DEF TypeOK, NeverAhead, Layer
  <1>3. new = [key \in DOMAIN old \cup keys |->
                 IF key \notin DOMAIN old THEN clock + 1
                 ELSE IF key \in keys THEN old[key] + 1 ELSE old[key]]
    BY DEF Touched
  <1> HIDE DEF new
  <1>4. DOMAIN new = DOMAIN old \cup keys /\ new = [key \in DOMAIN new |-> new[key]]
    BY <1>3
  <1>5. ASSUME NEW key \in DOMAIN new
        PROVE  /\ new[key] \in Nat \ {0} /\ new[key] <= clock + 1
               /\ key \notin DOMAIN old => new[key] = clock + 1
               /\ key \in DOMAIN old => new[key] >= old[key]
               /\ key \in DOMAIN old /\ key \in keys => new[key] > old[key]
               /\ key \in DOMAIN old /\ key \notin keys => new[key] = old[key]
    <2>1. new[key] = IF key \notin DOMAIN old THEN clock + 1
                     ELSE IF key \in keys THEN old[key] + 1 ELSE old[key]
      BY <1>3, <1>4
    <2> QED
      BY <1>2, <2>1
  <1>6. new \in [DOMAIN new -> Nat \ {0}]
    BY <1>4, <1>5
  <1> QED
    BY <1>1, <1>4, <1>5, <1>6 DEF TouchedTo

\* What is left of a port step once its effect on the chunks of ports is known.
LEMMA PortStepTypes ==
  ASSUME ChunkInv, NEW keys, TouchPorts(keys), keys \subseteq AllHomeKeys(Cell) \cup RequestKey,
         clock' \in Nat, clock' >= clock,
         \A key \in DOMAIN chunk_key_ts'["port"] : chunk_key_ts'["port"][key] <= clock'
  PROVE  /\ DOMAIN chunk_key_ts' = Layer
         /\ \A layer \in Layer :
              /\ DOMAIN chunk_key_ts'[layer] \subseteq AllHomeKeys(Cell) \cup RequestKey
              /\ chunk_key_ts'[layer] \in [DOMAIN chunk_key_ts'[layer] -> Nat \ {0}]
              /\ \A key \in DOMAIN chunk_key_ts'[layer] : chunk_key_ts'[layer][key] <= clock'
  <1>1. /\ DOMAIN chunk_key_ts' = Layer
        /\ chunk_key_ts'["city"] = chunk_key_ts["city"]
        /\ DOMAIN chunk_key_ts'["port"] = DOMAIN chunk_key_ts["port"] \cup keys
        /\ chunk_key_ts'["port"] \in [DOMAIN chunk_key_ts'["port"] -> Nat \ {0}]
    BY TouchOrders DEF ChunkInv
  <1>2. /\ DOMAIN chunk_key_ts'["port"] \subseteq AllHomeKeys(Cell) \cup RequestKey
        /\ DOMAIN chunk_key_ts'["city"] \subseteq AllHomeKeys(Cell) \cup RequestKey
        /\ chunk_key_ts'["city"] \in [DOMAIN chunk_key_ts'["city"] -> Nat \ {0}]
    BY <1>1 DEF ChunkInv, TypeOK, Layer
  <1>3. \A key \in DOMAIN chunk_key_ts'["city"] : chunk_key_ts'["city"][key] <= clock'
    <2>1. \A key \in DOMAIN chunk_key_ts["city"] :
            chunk_key_ts["city"][key] \in Nat /\ chunk_key_ts["city"][key] <= clock
      BY DEF ChunkInv, TypeOK, NeverAhead, Layer
    <2>2. clock \in Nat
      BY DEF ChunkInv, TypeOK
    <2> QED
      BY <1>1, <2>1, <2>2
  <1> QED
    BY <1>1, <1>2, <1>3 DEF Layer

\* The trees are finite, so the constructors' touches can be counted.
LEMMA TouchesBounded ==
  ASSUME NEW cells, cells \subseteq Cell, NEW key
  PROVE  /\ Cardinality(cells) \in Nat
         /\ Touches(cells, key) \in Nat
         /\ Touches(cells, key) <= Cardinality(cells)
         /\ key \in AllHomeKeys(cells) => Touches(cells, key) >= 1
  <1> DEFINE touching == {cell \in cells : key \in HomeKeys(cell)}
  <1>1. IsFiniteSet(cells)
    BY FS_Subset, FS_Union, ChunkAssumption DEF Cell
  <1>2. IsFiniteSet(touching) /\ Cardinality(touching) <= Cardinality(cells)
    BY <1>1, FS_Subset, touching \subseteq cells
  <1>3. Cardinality(cells) \in Nat /\ Cardinality(touching) \in Nat
    BY <1>1, <1>2, FS_CardinalityType
  <1>4. touching # {} => Cardinality(touching) # 0
    BY <1>2, FS_EmptySet
  <1>5. key \in AllHomeKeys(cells) => touching # {}
    BY DEF AllHomeKeys
  <1> QED
    BY <1>2, <1>3, <1>4, <1>5 DEF Touches

\* A constructor gives every chunk of its tree a later timestamp than the
\* present, and none a later one than the time it takes.
LEMMA ConstructedAfter ==
  ASSUME NEW cells, cells \subseteq Cell, NEW now \in Nat
  PROVE  /\ DOMAIN Constructed(cells, now) = AllHomeKeys(cells)
         /\ Constructed(cells, now) \in [AllHomeKeys(cells) -> Nat \ {0}]
         /\ \A key \in AllHomeKeys(cells) :
              /\ Constructed(cells, now)[key] > now
              /\ Constructed(cells, now)[key] <= now + Cardinality(cells)
  <1> DEFINE ts == Constructed(cells, now)
  <1>1. ts = [key \in AllHomeKeys(cells) |-> now + Touches(cells, key)]
    BY DEF Constructed
  <1>2. \A key \in AllHomeKeys(cells) :
          ts[key] \in Nat \ {0} /\ ts[key] > now /\ ts[key] <= now + Cardinality(cells)
    <2> SUFFICES ASSUME NEW key \in AllHomeKeys(cells)
                 PROVE  ts[key] \in Nat \ {0} /\ ts[key] > now /\ ts[key] <= now + Cardinality(cells)
      OBVIOUS
    <2>1. ts[key] = now + Touches(cells, key)
      BY <1>1
    <2> HIDE DEF ts
    <2> QED
      BY <2>1, TouchesBounded
  <1> HIDE DEF ts
  <1>3. DOMAIN ts = AllHomeKeys(cells) /\ ts \in [AllHomeKeys(cells) -> Nat \ {0}]
    BY <1>1, <1>2
  <1> QED
    BY <1>2, <1>3 DEF ts

-----------------------------------------------------------------------------
\* A reply that was sent before a port step is still older than its chunk if it
\* differs from it, when the step touches the chunks of ports that it changes.
LEMMA OldCopies ==
  ASSUME ChunkInv, NEW keys, TouchPorts(keys), NEW reply \in sent,
         reply.asked.msb <= PingMax,
         reply.asked \in DOMAIN chunk_key_ts'[reply.layer],
         \/ reply.layer = "port" /\ reply.asked \in keys
         \/ Outdated(reply)' = Outdated(reply)
  PROVE  /\ reply.ts <= chunk_key_ts'[reply.layer][reply.asked]
         /\ Outdated(reply)' => reply.ts < chunk_key_ts'[reply.layer][reply.asked]
  <1>1. /\ reply.layer \in Layer /\ reply.ts \in Nat /\ reply.ts <= clock /\ clock \in Nat
    BY DEF ChunkInv, TypeOK, NeverAhead, Reply
  <1>2. /\ chunk_key_ts'["city"] = chunk_key_ts["city"]
        /\ \A key \in DOMAIN chunk_key_ts'["port"] : TouchedTo(keys, key)
    BY TouchOrders DEF ChunkInv
  <1>3. reply.asked \in DOMAIN chunk_key_ts[reply.layer] =>
          /\ reply.ts <= chunk_key_ts[reply.layer][reply.asked]
          /\ Outdated(reply) => reply.ts < chunk_key_ts[reply.layer][reply.asked]
          /\ chunk_key_ts[reply.layer][reply.asked] \in Nat
    BY <1>1 DEF ChunkInv, CopiesOrdered, TypeOK
  <1>4. CASE reply.layer = "city"
    BY <1>2, <1>3, <1>4
  <1>5. CASE reply.layer = "port" /\ reply.asked \notin DOMAIN chunk_key_ts["port"]
    <2>1. chunk_key_ts'["port"][reply.asked] = clock + 1
      BY <1>2, <1>5 DEF TouchedTo
    <2> QED
      BY <1>1, <1>5, <2>1
  <1>6. CASE reply.layer = "port" /\ reply.asked \in DOMAIN chunk_key_ts["port"]
    <2> DEFINE old == chunk_key_ts["port"][reply.asked]
               new == chunk_key_ts'["port"][reply.asked]
    <2>1. /\ new \in Nat /\ new >= old
          /\ reply.asked \in keys => new > old
      BY <1>2, <1>6 DEF TouchedTo
    <2>2. /\ reply.ts <= old /\ old \in Nat
          /\ Outdated(reply) => reply.ts < old
      BY <1>3, <1>6
    <2> HIDE DEF old, new
    <2>3. reply.ts <= new /\ (Outdated(reply)' => reply.ts < new)
      <3>1. CASE reply.asked \in keys
        BY <1>1, <2>1, <2>2, <3>1
      <3>2. CASE reply.asked \notin keys
        BY <1>1, <1>6, <2>1, <2>2, <3>2
      <3> QED
        BY <3>1, <3>2
    <2> QED
      BY <1>6, <2>3 DEF new
  <1> QED
    BY <1>1, <1>4, <1>5, <1>6 DEF Layer

-----------------------------------------------------------------------------
LEMMA InitChunkInv == Init => ChunkInv
  <1> SUFFICES ASSUME Init PROVE ChunkInv
    OBVIOUS
  <1> DEFINE cities == rtree["city"]
  <1>1. /\ rtree = [port |-> {}, city |-> cities] /\ cities \subseteq City
        /\ sent = {} /\ clock = Cardinality(cities) + 1
        /\ chunk_key_ts = [port |-> Constructed({}, 0), city |-> Constructed(cities, 0)]
    BY DEF Init
  <1> HIDE DEF cities
  <1>2. cities \subseteq Cell /\ {} \subseteq Cell
    BY <1>1 DEF Cell
  <1>3. Cardinality(cities) \in Nat
    BY <1>2, TouchesBounded
  <1>4. /\ DOMAIN chunk_key_ts["port"] = {} /\ chunk_key_ts["port"] \in [{} -> Nat \ {0}]
        /\ DOMAIN chunk_key_ts["city"] = AllHomeKeys(cities)
        /\ chunk_key_ts["city"] \in [AllHomeKeys(cities) -> Nat \ {0}]
        /\ \A key \in AllHomeKeys(cities) : chunk_key_ts["city"][key] <= Cardinality(cities)
    <2>1. AllHomeKeys({}) = {}
      BY DEF AllHomeKeys
    <2>2. /\ chunk_key_ts["port"] = Constructed({}, 0)
          /\ chunk_key_ts["city"] = Constructed(cities, 0)
      BY <1>1
    <2>3. /\ DOMAIN Constructed({}, 0) = {} /\ Constructed({}, 0) \in [{} -> Nat \ {0}]
      BY <1>2, <2>1, ConstructedAfter
    <2>4. /\ DOMAIN Constructed(cities, 0) = AllHomeKeys(cities)
          /\ Constructed(cities, 0) \in [AllHomeKeys(cities) -> Nat \ {0}]
          /\ \A key \in AllHomeKeys(cities) :
                Constructed(cities, 0)[key] <= 0 + Cardinality(cities)
      BY <1>2, ConstructedAfter
    <2> QED
      BY <1>3, <2>2, <2>3, <2>4
  <1>5. AllHomeKeys(cities) \subseteq AllHomeKeys(Cell)
    BY <1>2 DEF AllHomeKeys
  <1>6. TypeOK
    <2>1. rtree \in [Layer -> SUBSET Cell] /\ rtree["port"] \subseteq Point
      BY <1>1, <1>2 DEF Layer
    <2>2. DOMAIN chunk_key_ts = Layer
      BY <1>1 DEF Layer
    <2> QED
      BY <1>1, <1>3, <1>4, <1>5, <2>1, <2>2 DEF TypeOK, Layer
  <1>7. NeverAhead
    <2>1. \A key \in AllHomeKeys(cities) : chunk_key_ts["city"][key] <= clock
      BY <1>1, <1>3, <1>4
    <2> QED
      BY <1>1, <1>4, <2>1 DEF NeverAhead, Layer
  <1>8. CopiesOrdered /\ CitiesTouched
    BY <1>1, <1>4 DEF CopiesOrdered, CitiesTouched, cities
  <1> QED
    BY <1>6, <1>7, <1>8 DEF ChunkInv

\* An edit changes only chunks that it touches.
LEMMA EditKeepsInv ==
  ASSUME ChunkInv, NEW point \in Point, NEW ports,
         ports \subseteq Point, ports \in {rtree["port"] \cup {point}, rtree["port"] \ {point}},
         rtree' = [rtree EXCEPT !["port"] = ports],
         TouchPorts(HomeKeys(point)), clock' = clock + 1, sent' = sent
  PROVE  ChunkInv'
  <1>1. /\ rtree \in [Layer -> SUBSET Cell] /\ clock \in Nat
        /\ rtree'["port"] = ports /\ rtree'["city"] = rtree["city"]
        /\ rtree' \in [Layer -> SUBSET Cell]
    BY DEF ChunkInv, TypeOK, Layer, Cell
  <1>2. HomeKeys(point) \subseteq AllHomeKeys(Cell) \cup RequestKey
    BY DEF AllHomeKeys, Cell
  <1>3. /\ chunk_key_ts'["city"] = chunk_key_ts["city"]
        /\ \A key \in DOMAIN chunk_key_ts'["port"] : chunk_key_ts'["port"][key] <= clock'
    BY TouchOrders DEF ChunkInv, TouchedTo
  <1>4. /\ DOMAIN chunk_key_ts' = Layer
        /\ \A layer \in Layer :
              /\ DOMAIN chunk_key_ts'[layer] \subseteq AllHomeKeys(Cell) \cup RequestKey
              /\ chunk_key_ts'[layer] \in [DOMAIN chunk_key_ts'[layer] -> Nat \ {0}]
              /\ \A key \in DOMAIN chunk_key_ts'[layer] : chunk_key_ts'[layer][key] <= clock'
    BY <1>1, <1>2, <1>3, PortStepTypes
  <1>5. TypeOK'
    BY <1>1, <1>4 DEF ChunkInv, TypeOK
  <1>6. NeverAhead'
    <2>1. \A reply \in sent : reply.ts \in Nat /\ reply.ts <= clock
      BY DEF ChunkInv, TypeOK, NeverAhead, Reply
    <2> QED
      BY <1>1, <1>4, <2>1 DEF NeverAhead
  <1>7. CopiesOrdered'
    <2> SUFFICES ASSUME NEW reply \in sent, reply.asked.msb <= PingMax,
                        reply.asked \in DOMAIN chunk_key_ts'[reply.layer]
                 PROVE  /\ reply.ts <= chunk_key_ts'[reply.layer][reply.asked]
                        /\ Outdated(reply)' => reply.ts < chunk_key_ts'[reply.layer][reply.asked]
      BY DEF CopiesOrdered
    <2>1. reply.asked \in RequestKey /\ reply.layer \in Layer
      BY DEF ChunkInv, TypeOK, Reply
    <2>2. reply.asked \notin HomeKeys(point) => point \notin Own(reply.asked)
      BY <2>1, OwnIsTouched
    <2>3. reply.layer = "city" \/ reply.asked \notin HomeKeys(point) =>
            Outdated(reply)' = Outdated(reply)
      BY <1>1, <2>1, <2>2 DEF Outdated, Own, Covered, Layer
    <2> QED
      BY <2>1, <2>3, OldCopies DEF Layer
  <1>8. CitiesTouched'
    BY <1>1, <1>3 DEF ChunkInv, CitiesTouched
  <1> QED
    BY <1>5, <1>6, <1>7, <1>8 DEF ChunkInv

\* What the constructors leave, whether the uptime goes on or starts anew: every
\* chunk of a tree has a timestamp later than the present.
LEMMA StartGives ==
  ASSUME TypeOK, NEW now \in Nat, StartAt(now)
  PROVE  /\ DOMAIN chunk_key_ts' = Layer /\ rtree' = rtree
         /\ \A layer \in Layer :
              /\ DOMAIN chunk_key_ts'[layer] = AllHomeKeys(rtree[layer])
              /\ DOMAIN chunk_key_ts'[layer] \subseteq AllHomeKeys(Cell)
              /\ chunk_key_ts'[layer] \in [DOMAIN chunk_key_ts'[layer] -> Nat \ {0}]
              /\ \A key \in DOMAIN chunk_key_ts'[layer] :
                    chunk_key_ts'[layer][key] > now /\ chunk_key_ts'[layer][key] <= clock'
         /\ clock' \in Nat /\ clock' >= now
  <1> DEFINE ports == rtree["port"]
             cities == rtree["city"]
  <1>1. rtree' = rtree /\ ports \subseteq Cell /\ cities \subseteq Cell
    BY DEF TypeOK, StartAt, Layer
  <1>2. /\ Cardinality(ports) \in Nat /\ Cardinality(cities) \in Nat
    BY <1>1, TouchesBounded
  <1>3. /\ DOMAIN chunk_key_ts' = Layer
        /\ chunk_key_ts'["port"] = Constructed(ports, now)
        /\ chunk_key_ts'["city"] = Constructed(cities, now + Cardinality(ports))
        /\ clock' = now + Cardinality(ports) + Cardinality(cities) + 1
    BY DEF StartAt, Layer
  <1> HIDE DEF ports, cities
  <1>4. /\ DOMAIN chunk_key_ts'["port"] = AllHomeKeys(ports)
        /\ chunk_key_ts'["port"] \in [AllHomeKeys(ports) -> Nat \ {0}]
        /\ \A key \in AllHomeKeys(ports) :
              chunk_key_ts'["port"][key] > now /\ chunk_key_ts'["port"][key] <= clock'
    <2>1. /\ DOMAIN Constructed(ports, now) = AllHomeKeys(ports)
          /\ Constructed(ports, now) \in [AllHomeKeys(ports) -> Nat \ {0}]
          /\ \A key \in AllHomeKeys(ports) :
               /\ Constructed(ports, now)[key] > now
               /\ Constructed(ports, now)[key] <= now + Cardinality(ports)
      BY <1>1, ConstructedAfter
    <2> QED
      BY <1>1, <1>2, <1>3, <2>1
  <1>5. /\ DOMAIN chunk_key_ts'["city"] = AllHomeKeys(cities)
        /\ chunk_key_ts'["city"] \in [AllHomeKeys(cities) -> Nat \ {0}]
        /\ \A key \in AllHomeKeys(cities) :
              chunk_key_ts'["city"][key] > now /\ chunk_key_ts'["city"][key] <= clock'
    <2> DEFINE then == now + Cardinality(ports)
    <2>0. then \in Nat /\ then >= now
      BY <1>1, <1>2
    <2> HIDE DEF then
    <2>1. /\ DOMAIN Constructed(cities, then) = AllHomeKeys(cities)
          /\ Constructed(cities, then) \in [AllHomeKeys(cities) -> Nat \ {0}]
          /\ \A key \in AllHomeKeys(cities) :
               /\ Constructed(cities, then)[key] > then
               /\ Constructed(cities, then)[key] <= then + Cardinality(cities)
      BY <1>1, <2>0, ConstructedAfter
    <2>2. chunk_key_ts'["city"] = Constructed(cities, then)
          /\ clock' = then + Cardinality(cities) + 1
      BY <1>3 DEF then
    <2> QED
      BY <1>1, <1>2, <2>0, <2>1, <2>2
  <1>6. clock' \in Nat /\ clock' >= now
    BY <1>1, <1>2, <1>3
  <1>7. /\ AllHomeKeys(ports) \subseteq AllHomeKeys(Cell)
        /\ AllHomeKeys(cities) \subseteq AllHomeKeys(Cell)
    BY <1>1 DEF AllHomeKeys
  <1> QED
    BY <1>1, <1>3, <1>4, <1>5, <1>6, <1>7 DEF Layer, ports, cities

LEMMA RestartKeepsInv ==
  ASSUME ChunkInv, Restart
  PROVE  ChunkInv'
  <1>1. TypeOK /\ clock \in Nat /\ StartAt(clock) /\ sent' = sent
    BY DEF ChunkInv, TypeOK, Restart
  <1>2. /\ DOMAIN chunk_key_ts' = Layer /\ rtree' = rtree
        /\ \A layer \in Layer :
             /\ DOMAIN chunk_key_ts'[layer] = AllHomeKeys(rtree[layer])
             /\ DOMAIN chunk_key_ts'[layer] \subseteq AllHomeKeys(Cell)
             /\ chunk_key_ts'[layer] \in [DOMAIN chunk_key_ts'[layer] -> Nat \ {0}]
             /\ \A key \in DOMAIN chunk_key_ts'[layer] :
                   chunk_key_ts'[layer][key] > clock /\ chunk_key_ts'[layer][key] <= clock'
        /\ clock' \in Nat /\ clock' >= clock
    BY <1>1, StartGives
  <1>3. TypeOK'
    BY <1>1, <1>2 DEF TypeOK
  <1>4. \A reply \in sent : reply.ts \in Nat /\ reply.ts <= clock /\ reply.layer \in Layer
    BY DEF ChunkInv, TypeOK, NeverAhead, Reply
  <1>5. NeverAhead'
    BY <1>1, <1>2, <1>4 DEF NeverAhead
  <1>6. CopiesOrdered'
    <2> SUFFICES ASSUME NEW reply \in sent, reply.asked \in DOMAIN chunk_key_ts'[reply.layer]
                 PROVE  /\ reply.ts <= chunk_key_ts'[reply.layer][reply.asked]
                        /\ reply.ts < chunk_key_ts'[reply.layer][reply.asked]
      BY <1>1 DEF CopiesOrdered
    <2>1. chunk_key_ts'[reply.layer][reply.asked] \in Nat
      BY <1>2, <1>4
    <2> QED
      BY <1>1, <1>2, <1>4, <2>1
  <1>7. CitiesTouched'
    BY <1>1, <1>2 DEF ChunkInv, CitiesTouched, Layer
  <1> QED
    BY <1>3, <1>5, <1>6, <1>7 DEF ChunkInv

LEMMA RebootStartsInv ==
  ASSUME ChunkInv, Reboot
  PROVE  ChunkInv'
  <1>1. TypeOK /\ 0 \in Nat /\ StartAt(0) /\ sent' = {}
    BY DEF ChunkInv, Reboot
  <1>2. /\ DOMAIN chunk_key_ts' = Layer /\ rtree' = rtree
        /\ \A layer \in Layer :
             /\ DOMAIN chunk_key_ts'[layer] = AllHomeKeys(rtree[layer])
             /\ DOMAIN chunk_key_ts'[layer] \subseteq AllHomeKeys(Cell)
             /\ chunk_key_ts'[layer] \in [DOMAIN chunk_key_ts'[layer] -> Nat \ {0}]
             /\ \A key \in DOMAIN chunk_key_ts'[layer] : chunk_key_ts'[layer][key] <= clock'
        /\ clock' \in Nat
    BY <1>1, StartGives
  <1>3. TypeOK'
    BY <1>1, <1>2 DEF TypeOK
  <1>4. NeverAhead' /\ CopiesOrdered' /\ CitiesTouched'
    BY <1>1, <1>2 DEF NeverAhead, CopiesOrdered, CitiesTouched, Layer
  <1> QED
    BY <1>3, <1>4 DEF ChunkInv

\* What a client is answered.  A reply about a chunk whose scale is served has
\* that chunk's own cells and its timestamp.
LEMMA AnswerIs ==
  ASSUME ChunkInv, NEW layer \in Layer, NEW key \in RequestKey, NEW ts \in Nat,
         NEW reply \in Answer(layer, key, ts)
  PROVE  /\ reply.layer = layer /\ reply.asked = key
         /\ reply \in Reply
         /\ Latest(layer, key) > ts
         /\ reply.ts <= clock \/ reply.ts = Latest(layer, key)
         /\ key.msb <= PingMax => reply.ts = Latest(layer, key) /\ ~Outdated(reply)
  <1>1. /\ Latest(layer, key) > ts
        /\ reply = [layer |-> layer, asked |-> key, ts |-> ShownTs(layer, key),
                    cells |-> Contents(layer, key)]
    BY DEF Answer
  <1>2. \A k : TsOf(layer, k) \in Nat /\ TsOf(layer, k) <= clock /\ clock \in Nat
    BY DEF TsOf, ChunkInv, TypeOK, NeverAhead
  <1>3. Latest(layer, key) \in Nat /\ ShownTs(layer, key) \in Nat
    BY <1>2 DEF Latest, ShownTs
  <1>4. ShownTs(layer, key) <= clock \/ ShownTs(layer, key) = Latest(layer, key)
    BY <1>2 DEF ShownTs
  <1>5. Contents(layer, key) \subseteq Cell
    BY DEF ChunkInv, TypeOK, Contents
  <1>6. ASSUME key.msb <= PingMax
        PROVE  ShownTs(layer, key) = Latest(layer, key) /\ ~Outdated(reply)
    <2>1. Served(key) = key
      BY <1>6, ChunkAssumption DEF Served
    <2>2. Own(key) \subseteq Covered(key)
      BY DEF Own
    <2> QED
      BY <1>1, <2>1, <2>2 DEF ShownTs, Outdated, Contents
  <1> QED
    BY <1>1, <1>3, <1>4, <1>5, <1>6 DEF Reply

LEMMA PingPortsKeepsInv ==
  ASSUME ChunkInv, NEW key \in RequestKey, NEW ts \in Nat, PingPorts(key, ts)
  PROVE  ChunkInv'
  <1> DEFINE new == {key} \ DOMAIN chunk_key_ts["port"]
  <1>1. rtree' = rtree /\ TouchPorts(new) /\ sent' = sent \cup Answer("port", key, ts)
    BY DEF PingPorts
  <1>2. /\ clock \in Nat /\ "port" \in Layer
        /\ key \in DOMAIN chunk_key_ts["port"] =>
             /\ TsOf("port", key) = chunk_key_ts["port"][key]
             /\ TsOf("port", key) \in Nat \ {0} /\ TsOf("port", key) <= clock
        /\ key \notin DOMAIN chunk_key_ts["port"] => TsOf("port", key) = 0
    BY DEF ChunkInv, TypeOK, TsOf, NeverAhead, Layer
  <1>3. clock' = IF key \in DOMAIN chunk_key_ts["port"] THEN clock ELSE clock + 1
    BY <1>2 DEF PingPorts
  <1>4. /\ DOMAIN chunk_key_ts'["port"] = DOMAIN chunk_key_ts["port"] \cup {key}
        /\ chunk_key_ts'["city"] = chunk_key_ts["city"]
        /\ \A k \in DOMAIN chunk_key_ts'["port"] : TouchedTo(new, k)
    BY <1>1, TouchOrders DEF ChunkInv
  <1>5. \A k \in DOMAIN chunk_key_ts["port"] :
          /\ chunk_key_ts'["port"][k] = chunk_key_ts["port"][k]
          /\ chunk_key_ts["port"][k] <= clock
    BY <1>4 DEF TouchedTo, ChunkInv, NeverAhead, Layer
  <1>6. key \notin DOMAIN chunk_key_ts["port"] => chunk_key_ts'["port"][key] = clock + 1
    BY <1>4 DEF TouchedTo
  <1>7. chunk_key_ts'["port"][key] = Latest("port", key) /\ Latest("port", key) <= clock'
    BY <1>2, <1>3, <1>5, <1>6 DEF Latest
  <1>8. \A k \in DOMAIN chunk_key_ts'["port"] : chunk_key_ts'["port"][k] <= clock'
    <2>1. \A k \in DOMAIN chunk_key_ts["port"] : chunk_key_ts["port"][k] \in Nat
      BY DEF ChunkInv, TypeOK, Layer
    <2> QED
      BY <1>2, <1>3, <1>4, <1>5, <1>7, <2>1
  <1>9. clock' \in Nat /\ clock' >= clock
    BY <1>2, <1>3
  <1>10. /\ DOMAIN chunk_key_ts' = Layer
         /\ \A layer \in Layer :
               /\ DOMAIN chunk_key_ts'[layer] \subseteq AllHomeKeys(Cell) \cup RequestKey
               /\ chunk_key_ts'[layer] \in [DOMAIN chunk_key_ts'[layer] -> Nat \ {0}]
               /\ \A k \in DOMAIN chunk_key_ts'[layer] : chunk_key_ts'[layer][k] <= clock'
    BY <1>1, <1>8, <1>9, PortStepTypes
  <1>11. \A reply \in Answer("port", key, ts) :
           /\ reply.layer = "port" /\ reply.asked = key /\ reply \in Reply
           /\ reply.ts <= clock \/ reply.ts = Latest("port", key)
           /\ key.msb <= PingMax => reply.ts = Latest("port", key) /\ ~Outdated(reply)
    BY <1>2, AnswerIs
  <1> HIDE DEF new
  <1>12. TypeOK'
    <2>1. sent' \subseteq Reply
      BY <1>1, <1>11 DEF ChunkInv, TypeOK
    <2> QED
      BY <1>1, <1>9, <1>10, <2>1 DEF ChunkInv, TypeOK
  <1>13. NeverAhead'
    <2>1. \A r \in sent : r.ts <= clock'
      BY <1>2, <1>9 DEF ChunkInv, TypeOK, NeverAhead, Reply
    <2>2. \A r \in Answer("port", key, ts) : r.ts <= clock'
      BY <1>2, <1>7, <1>9, <1>11 DEF Reply
    <2> QED
      BY <1>1, <1>10, <2>1, <2>2 DEF NeverAhead
  <1>14. \A copy : Outdated(copy)' = Outdated(copy)
    BY <1>1 DEF Outdated, Own
  <1>15. CopiesOrdered'
    <2>1. \A r \in sent : r.asked.msb <= PingMax /\ r.asked \in DOMAIN chunk_key_ts'[r.layer] =>
            /\ r.ts <= chunk_key_ts'[r.layer][r.asked]
            /\ Outdated(r)' => r.ts < chunk_key_ts'[r.layer][r.asked]
      BY <1>1, <1>14, OldCopies
    <2>2. Latest("port", key) \in Nat
      BY <1>2 DEF Latest
    <2>3. \A r \in Answer("port", key, ts) : r.asked.msb <= PingMax =>
            r.ts <= chunk_key_ts'[r.layer][r.asked] /\ ~Outdated(r)'
      BY <1>7, <1>11, <1>14, <2>2
    <2> QED
      BY <1>1, <2>1, <2>3 DEF CopiesOrdered
  <1>16. CitiesTouched'
    BY <1>1, <1>4, <1>11 DEF ChunkInv, CitiesTouched
  <1> QED
    BY <1>12, <1>13, <1>15, <1>16 DEF ChunkInv

\* A reply with cities is only sent for a chunk that has a timestamp.
LEMMA PingCitiesKeepsInv ==
  ASSUME ChunkInv, NEW key \in RequestKey, NEW ts \in Nat, PingCities(key, ts)
  PROVE  ChunkInv'
  <1>1. /\ rtree' = rtree /\ chunk_key_ts' = chunk_key_ts /\ clock' = clock
        /\ sent' = sent \cup Answer("city", key, ts)
    BY DEF PingCities
  <1>2. \A reply \in Answer("city", key, ts) :
          /\ reply.layer = "city" /\ reply.asked = key /\ reply \in Reply
          /\ TsOf("city", key) > ts
          /\ reply.ts <= clock \/ reply.ts = TsOf("city", key)
          /\ key.msb <= PingMax => reply.ts = TsOf("city", key) /\ ~Outdated(reply)
    BY AnswerIs DEF Layer, Latest
  <1>3. Answer("city", key, ts) # {} => key \in DOMAIN chunk_key_ts["city"]
    <2>1. ~(0 > ts)
      OBVIOUS
    <2> QED
      BY <1>2, <2>1 DEF TsOf
  <1>4. key \in DOMAIN chunk_key_ts["city"] =>
          /\ TsOf("city", key) = chunk_key_ts["city"][key]
          /\ TsOf("city", key) \in Nat /\ TsOf("city", key) <= clock
    BY DEF TsOf, ChunkInv, TypeOK, NeverAhead, Layer
  <1>5. \A copy : Outdated(copy)' = Outdated(copy)
    BY <1>1 DEF Outdated, Own
  <1>6. TypeOK'
    BY <1>1, <1>2 DEF ChunkInv, TypeOK
  <1>7. NeverAhead'
    BY <1>1, <1>2, <1>3, <1>4 DEF ChunkInv, NeverAhead
  <1>8. CopiesOrdered'
    <2>1. \A r \in Answer("city", key, ts) : r.asked.msb <= PingMax =>
            r.ts <= chunk_key_ts[r.layer][r.asked] /\ ~Outdated(r)
      BY <1>2, <1>3, <1>4
    <2> QED
      BY <1>1, <1>5, <2>1 DEF ChunkInv, CopiesOrdered
  <1>9. CitiesTouched'
    BY <1>1, <1>2, <1>3 DEF ChunkInv, CitiesTouched
  <1> QED
    BY <1>6, <1>7, <1>8, <1>9 DEF ChunkInv

LEMMA NextChunkInv == ChunkInv /\ [Next]_vars => ChunkInv'
  <1> SUFFICES ASSUME ChunkInv, [Next]_vars PROVE ChunkInv'
    OBVIOUS
  <1>1. ASSUME NEW point \in Point, Spawn(point) PROVE ChunkInv'
    <2> DEFINE ports == rtree["port"] \cup {point}
    <2>1. rtree' = [rtree EXCEPT !["port"] = ports] /\ ports \subseteq Point
      BY <1>1 DEF Spawn, ChunkInv, TypeOK
    <2> QED
      BY <1>1, <2>1, EditKeepsInv DEF Spawn
  <1>2. ASSUME NEW point \in Point, Despawn(point) PROVE ChunkInv'
    <2> DEFINE ports == rtree["port"] \ {point}
    <2>1. rtree' = [rtree EXCEPT !["port"] = ports] /\ ports \subseteq Point
      BY <1>2 DEF Despawn, ChunkInv, TypeOK
    <2> QED
      BY <1>2, <2>1, EditKeepsInv DEF Despawn
  <1>3. CASE Restart
    BY <1>3, RestartKeepsInv
  <1>4. CASE Request
    <2>1. PICK key \in RequestKey, ts \in 0..(clock + 1) :
            PingPorts(key, ts) \/ PingCities(key, ts)
      BY <1>4 DEF Request
    <2>2. ts \in Nat
      BY DEF ChunkInv, TypeOK
    <2> QED
      BY <2>1, <2>2, PingPortsKeepsInv, PingCitiesKeepsInv
  <1>5. CASE UNCHANGED vars
    <2>1. \A copy : Outdated(copy)' = Outdated(copy)
      BY <1>5 DEF vars, Outdated, Own
    <2> QED
      BY <1>5, <2>1 DEF vars, ChunkInv, TypeOK, NeverAhead, CopiesOrdered, CitiesTouched
  <1>6. CASE Reboot
    BY <1>6, RebootStartsInv
  <1> QED
    BY <1>1, <1>2, <1>3, <1>4, <1>5, <1>6 DEF Next

-----------------------------------------------------------------------------
\* The timestamps stay behind the clock, and CopiesOrdered holds.
THEOREM ChunkInvariant == Spec => []ChunkInv
  <1>1. Init => ChunkInv
    BY InitChunkInv
  <1>2. ChunkInv /\ [Next]_vars => ChunkInv'
    BY NextChunkInv
  <1> QED
    BY <1>1, <1>2, PTL DEF Spec

\* A chunk's timestamp is never ahead of the uptime, although edits increment
\* it and a reboot sets the uptime back, and neither is that of any reply which
\* was sent since the machine started.
THEOREM TimestampsBehindClock == Spec => []NeverAhead
  <1>1. ChunkInv => NeverAhead
    BY DEF ChunkInv
  <1> QED
    BY <1>1, ChunkInvariant, PTL

\* A client with an outdated copy of a chunk of a served scale, sent since the
\* machine started, or with none, is sent a new one when it asks
\* (udp_server.cpp:549-593), whatever was lost, repeated or reordered, however
\* often the server was restarted and wherever ports and cities are.
THEOREM OutdatedCopiesAreRefreshed == Spec => []StaleIsRefreshed
  <1>1. ASSUME ChunkInv PROVE StaleIsRefreshed
    <2> SUFFICES ASSUME NEW copy \in Copies, copy.asked.msb <= PingMax, Outdated(copy)
                 PROVE  copy.ts < Latest(copy.layer, copy.asked)
      BY DEF StaleIsRefreshed, Outdated
    <2> DEFINE layer == copy.layer
               key == copy.asked
    <2>1. /\ layer \in Layer /\ key \in RequestKey /\ clock \in Nat
          /\ copy.ts \in Nat /\ copy.ts <= clock
      BY <1>1 DEF Copies, ChunkInv, TypeOK, NeverAhead, Reply
    <2>2. CASE key \in DOMAIN chunk_key_ts[layer]
      <3>1. chunk_key_ts[layer][key] \in Nat \ {0}
        BY <1>1, <2>1, <2>2 DEF ChunkInv, TypeOK
      <3>2. copy.ts < chunk_key_ts[layer][key]
        <4>1. CASE copy \in sent
          BY <1>1, <2>2, <4>1 DEF ChunkInv, CopiesOrdered
        <4>2. CASE copy \notin sent
          BY <3>1, <4>2 DEF Copies
        <4> QED
          BY <4>1, <4>2
      <3>3. Latest(layer, key) = chunk_key_ts[layer][key]
        BY <2>2, <3>1 DEF Latest, TsOf
      <3> QED
        BY <3>2, <3>3
    <2>3. CASE key \notin DOMAIN chunk_key_ts[layer] /\ layer = "port"
      BY <2>1, <2>3 DEF Latest, TsOf
    <2>4. CASE key \notin DOMAIN chunk_key_ts[layer] /\ layer = "city"
      <3>1. key \notin AllHomeKeys(rtree["city"])
        BY <1>1, <2>4 DEF ChunkInv, CitiesTouched
      <3>2. rtree["city"] \cap Own(key) = {}
        BY <1>1, <2>1, <3>1, OwnIsTouched DEF AllHomeKeys
      <3>3. copy \notin sent
        BY <1>1, <2>4 DEF ChunkInv, CitiesTouched
      <3> QED
        BY <2>4, <3>2, <3>3 DEF Copies, Outdated
    <2> QED
      BY <2>1, <2>2, <2>3, <2>4 DEF Layer
  <1> QED
    BY <1>1, ChunkInvariant, PTL
=============================================================================
