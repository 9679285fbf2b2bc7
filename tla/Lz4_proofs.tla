----------------------------- MODULE Lz4_proofs -----------------------------
(***************************************************************************)
(* Theorems of the fast compressor of LZ4 in the programs of Lz4Stream,    *)
(* for any window, hash function and size of the table, and any messages.  *)
(*                                                                         *)
(* The inductive invariant has two levels.  FastInv is about a call: what  *)
(* the table, the positions, the output and the block are at each of its   *)
(* labels, in terms of the text of the call, which is the dictionary with  *)
(* the source right after it wherever the two are in memory.  ProgramInv   *)
(* is about the calls of a program: how the dictionary relates to what the *)
(* messages said, while the next message overwrites the first one.         *)
(***************************************************************************)
EXTENDS Lz4, FiniteSetTheorems, TLAPS

-----------------------------------------------------------------------------
(***************************************************************************)
(* Numbers.                                                                *)
(***************************************************************************)
LEMMA MinOfTwo ==
  ASSUME NEW a \in Int, NEW b \in Int
  PROVE  Min({a, b}) = IF a <= b THEN a ELSE b
<1>. DEFINE c == IF a <= b THEN a ELSE b
<1>1. c \in {a, b} /\ \A y \in {a, b} : c =< y
  OBVIOUS
<1>2. \A d \in {a, b} : (\A y \in {a, b} : d =< y) => d = c
  OBVIOUS
<1>3. c \in Int
  OBVIOUS
<1>. HIDE DEF c
<1>4. Min({a, b}) = c
  BY <1>1, <1>2 DEF Min
<1>. QED  BY <1>4 DEF c

LEMMA MaxOfTwo ==
  ASSUME NEW a \in Int, NEW b \in Int
  PROVE  Max({a, b}) = IF a >= b THEN a ELSE b
<1>. DEFINE c == IF a >= b THEN a ELSE b
<1>1. c \in {a, b} /\ \A y \in {a, b} : c >= y
  OBVIOUS
<1>2. \A d \in {a, b} : (\A y \in {a, b} : d >= y) => d = c
  OBVIOUS
<1>3. c \in Int
  OBVIOUS
<1>. HIDE DEF c
<1>4. Max({a, b}) = c
  BY <1>1, <1>2 DEF Max
<1>. QED  BY <1>4 DEF c

LEMMA MaxOfThree ==
  ASSUME NEW a \in Int, NEW b \in Int, NEW c \in Int
  PROVE  /\ Max({a, b, c}) \in {a, b, c}
         /\ Max({a, b, c}) >= a /\ Max({a, b, c}) >= b /\ Max({a, b, c}) >= c
<1>1. \E x \in {a, b, c} : \A y \in {a, b, c} : x >= y
  <2>1. CASE a >= b /\ a >= c
    BY <2>1
  <2>2. CASE b >= a /\ b >= c
    BY <2>2
  <2>3. CASE c >= a /\ c >= b
    BY <2>3
  <2>. QED  BY <2>1, <2>2, <2>3
<1>. QED  BY <1>1 DEF Max

LEMMA MinOfThree ==
  ASSUME NEW a \in Int, NEW b \in Int, NEW c \in Int
  PROVE  /\ Min({a, b, c}) \in {a, b, c}
         /\ Min({a, b, c}) <= a /\ Min({a, b, c}) <= b /\ Min({a, b, c}) <= c
<1>1. \E x \in {a, b, c} : \A y \in {a, b, c} : x =< y
  <2>1. CASE a <= b /\ a <= c
    BY <2>1
  <2>2. CASE b <= a /\ b <= c
    BY <2>2
  <2>3. CASE c <= a /\ c <= b
    BY <2>3
  <2>. QED  BY <2>1, <2>2, <2>3
<1>. QED  BY <1>1 DEF Min

\* The bytes of a length, in the form in which the tests of the code have them.
LEMMA LengthBytesIs ==
  ASSUME NEW n \in Nat
  PROVE  LengthBytes(n) = (n + 240) \div 255 /\ LengthBytes(n) \in Nat
BY DEF LengthBytes

LEMMA WildBytesIs ==
  ASSUME NEW n \in Nat
  PROVE  /\ WildBytes(n) \in Nat /\ n <= WildBytes(n)
         /\ WildBytes(n) <= IF n = 0 THEN 8 ELSE n + 7
<1>1. (n + WildCopyLength - 1) \div WildCopyLength \in Nat
  BY DEF WildCopyLength
<1>2. Max({1, (n + WildCopyLength - 1) \div WildCopyLength}) =
        IF 1 >= (n + WildCopyLength - 1) \div WildCopyLength THEN 1 ELSE (n + WildCopyLength - 1) \div WildCopyLength
  BY <1>1, MaxOfTwo
<1>. QED  BY <1>1, <1>2 DEF WildBytes, WildCopyLength

-----------------------------------------------------------------------------
(***************************************************************************)
(* Counting the bytes that agree.                                          *)
(***************************************************************************)
\* A set of numbers has a least one: the smallest of their intervals.
LEMMA SmallestNumber ==
  ASSUME NEW n \in Nat, NEW P \in SUBSET (0 .. n), n \in P
  PROVE  \E k \in P : \A j \in 0 .. k - 1 : j \notin P
<1>. DEFINE S == 0 .. n
            T == {U \in SUBSET S : \E k \in P : U = 0 .. k}
<1>1. IsFiniteSet(S)
  BY FS_Interval
<1>2. IsWellFoundedOn(StrictSubsetOrdering(S), SUBSET S)
  <2>. HIDE DEF S
  <2>. QED  BY <1>1, FS_StrictSubsetOrderingWellFounded, FS_FiniteSubsetsOfFinite
<1>3. (0 .. n) \in T
  OBVIOUS
<1>4. \E U \in T : \A V \in T : ~(<<V, U>> \in StrictSubsetOrdering(S))
  <2>. HIDE DEF S
  <2>1. T \subseteq SUBSET S /\ T # {}
    BY <1>3
  <2>. HIDE DEF T
  <2>. QED  BY <1>2, <2>1, WFMin
<1>5. PICK U \in T : \A V \in T : V \subseteq U => V = U
  BY <1>4 DEF StrictSubsetOrdering
<1>6. PICK k \in P : U = 0 .. k
  BY <1>5
<1>7. ASSUME NEW j \in 0 .. k - 1, j \in P  PROVE FALSE
  <2>1. (0 .. j) \in T /\ (0 .. j) \subseteq U
    BY <1>6, <1>7
  <2>2. 0 .. j = 0 .. k
    BY <2>1, <1>5, <1>6
  <2>3. k \in Nat /\ j \in Nat /\ j < k
    BY <1>7
  <2>4. k \in 0 .. k
    BY <2>3
  <2>5. k \notin 0 .. j
    BY <2>3
  <2>. QED  BY <2>2, <2>4, <2>5, Zenon
<1>. QED  BY <1>7

LEMMA CountIs ==
  ASSUME NEW m, NEW p \in Int, NEW q \in Int, NEW limit \in Int, p <= limit
  PROVE  LET n == Count(m, p, q, limit)
         IN /\ n \in 0 .. limit - p
            /\ n = limit - p \/ m[p + n] # m[q + n]
            /\ \A i \in 0 .. n - 1 : m[p + i] = m[q + i]
<1>1. CASE limit = p
  BY <1>1 DEF Count
<1>2. CASE p < limit
  <2>. DEFINE P == {n \in 0 .. limit - p : n = limit - p \/ m[p + n] # m[q + n]}
  <2>1. limit - p \in Nat /\ (limit - p) \in P
    BY <1>2
  <2>2. PICK k \in P : \A j \in 0 .. k - 1 : j \notin P
    <3>1. P \in SUBSET (0 .. limit - p)
      OBVIOUS
    <3>. HIDE DEF P
    <3>. QED  BY <2>1, <3>1, SmallestNumber
  <2>3. Agree(m, p, q, k)
    BY <2>2 DEF Agree
  <2>. DEFINE good(n) == (n = limit - p \/ m[p + n] # m[q + n]) /\ Agree(m, p, q, n)
  <2>4. \E n \in 0 .. limit - p : good(n)
    BY <2>2, <2>3
  <2>5. Count(m, p, q, limit) = CHOOSE n \in 0 .. limit - p : good(n)
    BY <1>2 DEF Count
  <2>6. Count(m, p, q, limit) \in 0 .. limit - p /\ good(Count(m, p, q, limit))
    <3>. HIDE DEF good
    <3>. QED  BY <2>4, <2>5
  <2>. QED  BY <2>6 DEF Agree
<1>. QED  BY <1>1, <1>2

\* Two runs that agree on the first k bytes are counted to be that long.
LEMMA CountAtLeast ==
  ASSUME NEW m, NEW p \in Int, NEW q \in Int, NEW limit \in Int, NEW k \in Nat, p + k <= limit,
         \A i \in 0 .. k - 1 : m[p + i] = m[q + i]
  PROVE  Count(m, p, q, limit) >= k
<1>1. p <= limit
  OBVIOUS
<1>2. Count(m, p, q, limit) \in 0 .. limit - p
  BY <1>1, CountIs
<1>3. Count(m, p, q, limit) = limit - p \/ m[p + Count(m, p, q, limit)] # m[q + Count(m, p, q, limit)]
  BY <1>1, CountIs
<1>. QED  BY <1>2, <1>3

LEMMA CountBackIs ==
  ASSUME NEW m, NEW p \in Int, NEW q \in Int, NEW n \in Nat
  PROVE  LET k == CountBack(m, p, q, n)
         IN /\ k \in 0 .. n
            /\ \A i \in 0 .. k - 1 : m[p - k + i] = m[q - k + i]
<1>. DEFINE P == {k \in 0 .. n : k = n \/ m[p - k - 1] # m[q - k - 1]}
<1>1. n \in P
  OBVIOUS
<1>2. PICK k \in P : \A j \in 0 .. k - 1 : j \notin P
  <2>1. P \in SUBSET (0 .. n)
    OBVIOUS
  <2>. HIDE DEF P
  <2>. QED  BY <1>1, <2>1, SmallestNumber
<1>3. Agree(m, p - k, q - k, k)
  <2>. SUFFICES ASSUME NEW i \in 0 .. k - 1  PROVE m[p - k + i] = m[q - k + i]
    BY DEF Agree
  <2>. DEFINE j == k - 1 - i
  <2>1. j \in 0 .. k - 1 /\ p - j - 1 = p - k + i /\ q - j - 1 = q - k + i
    OBVIOUS
  <2>2. j \notin P /\ j \in 0 .. n /\ j # n
    <3>1. k \in 0 .. n
      OBVIOUS
    <3>. HIDE DEF P, j
    <3>. QED  BY <2>1, <3>1, <1>2
  <2>3. m[p - j - 1] = m[q - j - 1]
    BY <2>2
  <2>. QED  BY <2>1, <2>3
<1>. DEFINE good(l) == (l = n \/ m[p - l - 1] # m[q - l - 1]) /\ Agree(m, p - l, q - l, l)
<1>4. \E l \in 0 .. n : good(l)
  BY <1>2, <1>3
<1>5. CountBack(m, p, q, n) = CHOOSE l \in 0 .. n : good(l)
  BY DEF CountBack
<1>6. CountBack(m, p, q, n) \in 0 .. n /\ good(CountBack(m, p, q, n))
  <2>. HIDE DEF good
  <2>. QED  BY <1>4, <1>5
<1>. QED  BY <1>6 DEF Agree

-----------------------------------------------------------------------------
(***************************************************************************)
(* The sum over a sequence that FoldLeft computes.  The fold is a          *)
(* recursion over the sets of indices; what it computes is proved by       *)
(* induction over the subsets of a finite set, in the form of a smallest   *)
(* counterexample.                                                         *)
(***************************************************************************)
\* The recursion that the fold is: g holds the sum over every set of indices.
IsTotal(g, s, U) ==
    g = [d \in SUBSET U |-> IF d = {} THEN 0 ELSE g[d \ {Max(d)}] + s[Max(d)]]

LEMMA TotalIsChosen ==
  ASSUME NEW s
  PROVE  Total(s) = (CHOOSE g : IsTotal(g, s, DOMAIN s))[DOMAIN s]
BY Zenon DEF Total, FoldLeft, MapThenFoldSet, IsTotal

LEMMA SmallestSet ==
  ASSUME NEW S, IsFiniteSet(S), NEW T \in SUBSET (SUBSET S), T # {}
  PROVE  \E U \in T : \A V \in T : V \subseteq U => V = U
<1>1. IsWellFoundedOn(StrictSubsetOrdering(S), SUBSET S)
  BY FS_StrictSubsetOrderingWellFounded, FS_FiniteSubsetsOfFinite
<1>2. \E U \in T : \A V \in T : ~(<<V, U>> \in StrictSubsetOrdering(S))
  BY <1>1, WFMin
<1>. QED  BY <1>2 DEF StrictSubsetOrdering

\* The index that the fold takes next is one of those that are left.
LEMMA LastIndex ==
  ASSUME NEW n \in Nat, NEW d \in SUBSET (1 .. n), d # {}
  PROVE  Max(d) \in d /\ \A y \in d : Max(d) >= y
<1>. DEFINE P == {k \in 0 .. n : n - k \in d \/ k = n}
<1>1. n \in P /\ P \in SUBSET (0 .. n)
  OBVIOUS
<1>2. PICK k \in P : \A j \in 0 .. k - 1 : j \notin P
  <2>. HIDE DEF P
  <2>. QED  BY <1>1, SmallestNumber
<1>3. \A y \in d : n - y \in P /\ y \in 1 .. n
  <2>. SUFFICES ASSUME NEW y \in d  PROVE n - y \in P /\ y \in 1 .. n
    OBVIOUS
  <2>1. y \in 1 .. n /\ n - (n - y) = y /\ n - y \in 0 .. n
    OBVIOUS
  <2>. QED  BY <2>1
<1>4. \A y \in d : n - k >= y
  <2>. SUFFICES ASSUME NEW y \in d, ~(n - k >= y)  PROVE FALSE
    OBVIOUS
  <2>1. k \in 0 .. n /\ y \in 1 .. n /\ n - y \in P
    BY <1>3
  <2>2. n - y \in 0 .. k - 1
    BY <2>1
  <2>. HIDE DEF P
  <2>. QED  BY <1>2, <2>1, <2>2
<1>5. n - k \in d
  <2>1. PICK y \in d : TRUE
    OBVIOUS
  <2>2. y \in 1 .. n /\ n - k >= y
    BY <1>3, <1>4
  <2>. QED  BY <1>2, <2>2
<1>6. \E x \in d : \A y \in d : x >= y
  BY <1>4, <1>5
<1>. QED  BY <1>6 DEF Max

Indices(S) == IsFiniteSet(S) /\ \A d \in SUBSET S : d # {} => Max(d) \in d

LEMMA IndicesOfPart ==
  ASSUME NEW S, Indices(S), NEW U \in SUBSET S
  PROVE  Indices(U)
<1>1. IsFiniteSet(U)
  BY FS_Subset DEF Indices
<1>. QED  BY <1>1 DEF Indices

LEMMA IndicesUpTo ==
  ASSUME NEW n \in Nat
  PROVE  Indices(1 .. n)
<1>1. IsFiniteSet(1 .. n)
  BY FS_Interval
<1>2. \A d \in SUBSET (1 .. n) : d # {} => Max(d) \in d
  BY LastIndex
<1>. QED  BY <1>1, <1>2 DEF Indices

LEMMA TotalUnique ==
  ASSUME NEW s, NEW S, Indices(S), NEW U \in SUBSET S,
         NEW g, NEW h, IsTotal(g, s, S), IsTotal(h, s, U)
  PROVE  g[U] = h[U]
<1>. DEFINE T == {d \in SUBSET U : g[d] # h[d]}
<1>1. SUFFICES ASSUME T # {}  PROVE FALSE
  OBVIOUS
<1>2. PICK d \in T : \A v \in T : v \subseteq d => v = d
  <2>. HIDE DEF T
  <2>1. T \in SUBSET (SUBSET U)
    BY DEF T
  <2>2. IsFiniteSet(U)
    BY IndicesOfPart DEF Indices
  <2>. QED  BY <2>1, <2>2, <1>1, SmallestSet
<1>3. d # {}
  BY DEF IsTotal
<1>. DEFINE x == Max(d)
<1>4. x \in d
  BY <1>3 DEF Indices
<1>. HIDE DEF x
<1>5. g[d \ {x}] = h[d \ {x}]
  BY <1>2, <1>4
<1>6. g[d] = g[d \ {x}] + s[x] /\ h[d] = h[d \ {x}] + s[x]
  BY <1>3 DEF IsTotal, x
<1>. QED  BY <1>5, <1>6

LEMMA TotalExists ==
  ASSUME NEW s, NEW S, Indices(S)
  PROVE  \E g : IsTotal(g, s, S)
<1>. DEFINE T == {U \in SUBSET S : ~ \E g : IsTotal(g, s, U)}
            h(V) == CHOOSE g : IsTotal(g, s, V)
            at(d) == d \ {Max(d)}
<1>1. SUFFICES ASSUME T # {}  PROVE FALSE
  OBVIOUS
<1>2. PICK U \in T : \A V \in T : V \subseteq U => V = U
  <2>. HIDE DEF T
  <2>1. T \in SUBSET (SUBSET S) /\ IsFiniteSet(S)
    BY DEF T, Indices
  <2>. QED  BY <2>1, <1>1, SmallestSet
<1>3. \A V \in SUBSET U : V # U => IsTotal(h(V), s, V)
  BY <1>2
<1>4. Indices(U)
  BY IndicesOfPart
<1>. DEFINE G == [d \in SUBSET U |-> IF d = {} THEN 0 ELSE h(at(d))[at(d)] + s[Max(d)]]
<1>. HIDE DEF h, T
<1>5. \A d \in SUBSET U : d # {} => at(d) \in SUBSET U /\ at(d) # U /\ at(d) # d
  BY <1>4 DEF Indices
<1>6. \A d \in SUBSET U : d # {} => G[at(d)] = h(at(d))[at(d)]
  <2>. SUFFICES ASSUME NEW d \in SUBSET U, d # {}  PROVE G[at(d)] = h(at(d))[at(d)]
    OBVIOUS
  <2>. DEFINE V == at(d)
              W == at(V)
  <2>1. IsTotal(h(V), s, V) /\ V \in SUBSET U
    BY <1>3, <1>5
  <2>2. CASE V = {}
    <3>1. h(V)[V] = 0
      BY <2>1, <2>2 DEF IsTotal
    <3>2. G[V] = 0
      BY <2>1, <2>2
    <3>. QED  BY <3>1, <3>2
  <2>3. CASE V # {}
    <3>1. G[V] = h(W)[W] + s[Max(V)]
      BY <2>1, <2>3
    <3>2. h(V)[V] = h(V)[W] + s[Max(V)]
      <4>. HIDE DEF V
      <4>. QED  BY <2>1, <2>3 DEF IsTotal
    <3>3. IsTotal(h(W), s, W) /\ W \in SUBSET V
      BY <1>3, <1>5, <2>1, <2>3
    <3>4. Indices(V)
      BY <2>1, <1>4, IndicesOfPart
    <3>5. h(V)[W] = h(W)[W]
      <4>. HIDE DEF V, W
      <4>. QED  BY <3>3, <3>4, <2>1, TotalUnique
    <3>. QED  BY <3>1, <3>2, <3>5
  <2>. QED  BY <2>2, <2>3
<1>7. G = [d \in SUBSET U |-> IF d = {} THEN 0 ELSE G[at(d)] + s[Max(d)]]
  <2>1. \A d \in SUBSET U : G[d] = IF d = {} THEN 0 ELSE h(at(d))[at(d)] + s[Max(d)]
    OBVIOUS
  <2>2. \A d \in SUBSET U : G[d] = IF d = {} THEN 0 ELSE G[at(d)] + s[Max(d)]
    <3>. HIDE DEF G, at
    <3>. QED  BY <2>1, <1>6
  <2>3. G = [d \in SUBSET U |-> G[d]]
    OBVIOUS
  <2>. HIDE DEF G
  <2>. QED  BY <2>2, <2>3
<1>8. IsTotal(G, s, U)
  <2>. HIDE DEF G
  <2>. QED  BY <1>7 DEF IsTotal
<1>. QED
  <2>. HIDE DEF G
  <2>. QED  BY <1>8 DEF T

LEMMA TotalOfNone == Total(<<>>) = 0
<1>1. DOMAIN <<>> = {}
  OBVIOUS
<1>2. \E g : IsTotal(g, <<>>, {})
  <2>1. Indices({})
    BY FS_EmptySet DEF Indices
  <2>. QED  BY <2>1, TotalExists
<1>3. IsTotal(CHOOSE g : IsTotal(g, <<>>, {}), <<>>, {})
  BY <1>2
<1>. DEFINE g == CHOOSE g : IsTotal(g, <<>>, {})
<1>4. g[{}] = 0
  <2>. HIDE DEF g
  <2>1. IsTotal(g, <<>>, {})
    BY <1>3 DEF g
  <2>. QED  BY <2>1 DEF IsTotal
<1>. QED  BY <1>1, <1>4, TotalIsChosen

\* One more element adds to the sum.
LEMMA TotalGrows ==
  ASSUME NEW s \in Seq(Int), NEW k \in 1 .. Len(s)
  PROVE  Total(SubSeq(s, 1, k)) = Total(SubSeq(s, 1, k - 1)) + s[k]
<1>. DEFINE r == SubSeq(s, 1, k)
            t == SubSeq(s, 1, k - 1)
            D(i) == 1 .. i
            h(q, i) == CHOOSE g : IsTotal(g, q, D(i))
<1>1. /\ DOMAIN r = D(k) /\ DOMAIN t = D(k - 1) /\ k \in Nat /\ k - 1 \in Nat
      /\ r[k] = s[k] /\ \A i \in D(k - 1) : r[i] = t[i]
  OBVIOUS
<1>. HIDE DEF r, t
<1>. DEFINE D1 == D(k)
            D0 == D(k - 1)
<1>2a. Indices(D1) /\ Indices(D0)
  BY <1>1, IndicesUpTo
<1>2. IsTotal(h(r, k), r, D(k)) /\ IsTotal(h(t, k - 1), t, D(k - 1))
  <2>1. (\E g : IsTotal(g, r, D1)) /\ (\E g : IsTotal(g, t, D0))
    <3>. HIDE DEF D1, D0
    <3>. QED  BY <1>2a, TotalExists
  <2>. QED  BY <2>1
<1>3. Total(r) = h(r, k)[D(k)] /\ Total(t) = h(t, k - 1)[D(k - 1)]
  BY <1>1, TotalIsChosen
<1>. HIDE DEF h
<1>4. Max(D(k)) = k
  <2>1. D(k) \in SUBSET (1 .. k) /\ k \in D(k)
    BY <1>1
  <2>2. Max(D(k)) \in D(k) /\ Max(D(k)) >= k
    <3>1. D(k) # {}
      BY <2>1
    <3>. QED  BY <1>1, <2>1, <3>1, LastIndex
  <2>. QED  BY <2>2
<1>5. D(k) \ {k} = D(k - 1) /\ D(k) # {} /\ D(k - 1) \in SUBSET D(k)
  <2>1. k \in D(k) /\ \A i : i \in D(k - 1) <=> i \in D(k) /\ i # k
    BY <1>1
  <2>. HIDE DEF D
  <2>. QED  BY <2>1
<1>6. h(r, k)[D(k)] = h(r, k)[D(k - 1)] + r[k]
  <2>. DEFINE g == h(r, k)
  <2>. HIDE DEF D, g
  <2>1. IsTotal(g, r, D(k)) /\ D(k) \in SUBSET D(k)
    BY <1>2 DEF g
  <2>2. g[D(k)] = g[D(k) \ {Max(D(k))}] + r[Max(D(k))]
    BY <1>5, <2>1 DEF IsTotal
  <2>. QED  BY <1>4, <1>5, <2>2 DEF g
<1>7. IsTotal(h(t, k - 1), r, D(k - 1))
  <2>1. \A d \in SUBSET D(k - 1) : d # {} => r[Max(d)] = t[Max(d)]
    <3>. SUFFICES ASSUME NEW d \in SUBSET D(k - 1), d # {}  PROVE r[Max(d)] = t[Max(d)]
      OBVIOUS
    <3>1. Max(d) \in d
      BY <1>1, LastIndex
    <3>. HIDE DEF D
    <3>. QED  BY <1>1, <3>1
  <2>. DEFINE g == h(t, k - 1)
  <2>. HIDE DEF g, D
  <2>2. g = [d \in SUBSET D(k - 1) |-> IF d = {} THEN 0 ELSE g[d \ {Max(d)}] + t[Max(d)]]
    BY <1>2 DEF IsTotal, g
  <2>3. \A d \in SUBSET D(k - 1) :
          (IF d = {} THEN 0 ELSE g[d \ {Max(d)}] + t[Max(d)]) = IF d = {} THEN 0 ELSE g[d \ {Max(d)}] + r[Max(d)]
    BY <2>1
  <2>4. g = [d \in SUBSET D(k - 1) |-> IF d = {} THEN 0 ELSE g[d \ {Max(d)}] + r[Max(d)]]
    BY <2>2, <2>3
  <2>. QED  BY <2>4 DEF IsTotal, g
<1>8. h(r, k)[D(k - 1)] = h(t, k - 1)[D(k - 1)]
  <2>. HIDE DEF D
  <2>. QED  BY <1>2, <1>2a, <1>5, <1>7, TotalUnique
<1>. QED  BY <1>1, <1>3, <1>6, <1>8 DEF r, t

LEMMA TotalType ==
  ASSUME NEW s \in Seq(Nat), NEW k \in 0 .. Len(s)
  PROVE  Total(SubSeq(s, 1, k)) \in Nat
<1>. DEFINE sum(i) == Total(SubSeq(s, 1, i))
            P == {i \in 0 .. Len(s) : sum(i) \notin Nat \/ i = Len(s)}
<1>1. sum(0) \in Nat
  <2>. DEFINE e == SubSeq(s, 1, 0)
  <2>1. e = <<>>
    OBVIOUS
  <2>. HIDE DEF e
  <2>2. Total(e) = 0
    BY <2>1, TotalOfNone
  <2>. QED  BY <2>2 DEF e
<1>2. \A i \in 1 .. Len(s) : sum(i) = sum(i - 1) + s[i]
  <2>1. s \in Seq(Int)
    OBVIOUS
  <2>. QED  BY <2>1, TotalGrows
<1>3. PICK n \in P : \A j \in 0 .. n - 1 : j \notin P
  <2>1. Len(s) \in Nat /\ Len(s) \in P /\ P \in SUBSET (0 .. Len(s))
    OBVIOUS
  <2>. HIDE DEF P
  <2>. QED  BY <2>1, SmallestNumber
<1>. HIDE DEF sum
<1>4. \A j \in 0 .. n - 1 : sum(j) \in Nat
  BY <1>3
<1>5. sum(n) \in Nat
  <2>1. CASE n = 0
    BY <1>1, <2>1
  <2>2. CASE n # 0
    <3>1. n \in 1 .. Len(s) /\ n - 1 \in 0 .. n - 1 /\ s[n] \in Nat
      BY <2>2
    <3>2. sum(n - 1) \in Nat /\ sum(n) = sum(n - 1) + s[n]
      BY <1>2, <1>4, <3>1
    <3>. QED  BY <3>1, <3>2
  <2>. QED  BY <2>1, <2>2
<1>6. n = Len(s)
  BY <1>5
<1>. QED  BY <1>4, <1>5, <1>6 DEF sum

-----------------------------------------------------------------------------
(***************************************************************************)
(* Where the sequences of a block begin.                                   *)
(***************************************************************************)
Sequence == [lit : Seq(Nat), off : Nat, ml : Nat]

Written(b, i) == Total(SubSeq(Lengths(b), 1, i - 1))

LEMMA LengthsType ==
  ASSUME NEW b \in Seq(Sequence)
  PROVE  /\ Lengths(b) \in Seq(Nat) /\ Len(Lengths(b)) = Len(b)
         /\ \A i \in 1 .. Len(b) : Lengths(b)[i] = Len(b[i].lit) + b[i].ml
<1>1. \A i \in 1 .. Len(b) : b[i] \in Sequence
  OBVIOUS
<1>2. \A x \in Sequence : Len(x.lit) + x.ml \in Nat
  BY DEF Sequence
<1>. HIDE DEF Sequence
<1>3. Lengths(b) \in [1 .. Len(b) -> Nat] /\ Len(b) \in Nat
  BY <1>1, <1>2 DEF Lengths
<1>. QED  BY <1>3 DEF Lengths

LEMMA WrittenFirst ==
  ASSUME NEW b \in Seq(Sequence)
  PROVE  Written(b, 1) = 0
<1>. DEFINE e == SubSeq(Lengths(b), 1, 1 - 1)
<1>1. e = <<>>
  BY LengthsType
<1>. HIDE DEF e
<1>2. Total(e) = 0
  BY <1>1, TotalOfNone
<1>. QED  BY <1>2 DEF Written, e

LEMMA WrittenType ==
  ASSUME NEW b \in Seq(Sequence), NEW i \in 1 .. Len(b) + 1
  PROVE  Written(b, i) \in Nat
<1>1. Lengths(b) \in Seq(Nat) /\ i - 1 \in 0 .. Len(Lengths(b))
  BY LengthsType
<1>. QED  BY <1>1, TotalType DEF Written

LEMMA WrittenNext ==
  ASSUME NEW b \in Seq(Sequence), NEW i \in 1 .. Len(b)
  PROVE  Written(b, i + 1) = Written(b, i) + Len(b[i].lit) + b[i].ml
<1>1. Lengths(b) \in Seq(Int) /\ i \in 1 .. Len(Lengths(b)) /\ i + 1 - 1 = i
  BY LengthsType
<1>2. Total(SubSeq(Lengths(b), 1, i)) = Total(SubSeq(Lengths(b), 1, i - 1)) + Lengths(b)[i]
  BY <1>1, TotalGrows
<1>3. Lengths(b)[i] = Len(b[i].lit) + b[i].ml /\ Len(b[i].lit) \in Nat /\ b[i].ml \in Nat
  <2>1. b[i] \in Sequence
    OBVIOUS
  <2>. QED  BY <2>1, LengthsType DEF Sequence
<1>4. Written(b, i) \in Nat
  BY WrittenType
<1>. QED  BY <1>1, <1>2, <1>3, <1>4 DEF Written

LEMMA WrittenBefore ==
  ASSUME NEW b \in Seq(Sequence), NEW x \in Sequence, NEW i \in 1 .. Len(b) + 1
  PROVE  Written(Append(b, x), i) = Written(b, i)
<1>. DEFINE c == Append(b, x)
<1>1. c \in Seq(Sequence) /\ Len(c) = Len(b) + 1 /\ \A j \in 1 .. Len(b) : c[j] = b[j]
  <2>. HIDE DEF Sequence
  <2>. QED  OBVIOUS
<1>. HIDE DEF c
<1>2. \A j \in 1 .. i - 1 : Lengths(c)[j] = Lengths(b)[j]
  <2>. SUFFICES ASSUME NEW j \in 1 .. i - 1  PROVE Lengths(c)[j] = Lengths(b)[j]
    OBVIOUS
  <2>1. j \in 1 .. Len(b) /\ j \in 1 .. Len(c) /\ c[j] = b[j]
    BY <1>1
  <2>2. Lengths(c)[j] = Len(c[j].lit) + c[j].ml
    BY <1>1, <2>1, LengthsType
  <2>3. Lengths(b)[j] = Len(b[j].lit) + b[j].ml
    BY <2>1, LengthsType
  <2>. QED  BY <2>1, <2>2, <2>3
<1>3. /\ Lengths(b) \in Seq(Nat) /\ Len(Lengths(b)) = Len(b)
      /\ Lengths(c) \in Seq(Nat) /\ Len(Lengths(c)) = Len(b) + 1
  BY <1>1, LengthsType
<1>4. SubSeq(Lengths(c), 1, i - 1) = SubSeq(Lengths(b), 1, i - 1)
  BY <1>2, <1>3
<1>. QED  BY <1>4 DEF Written, c

-----------------------------------------------------------------------------
(***************************************************************************)
(* A call of the fast compressor: what is the same during the call.        *)
(***************************************************************************)
\* The largest source for which the test of the room for the length of a match,
\* which counts a byte for every 256, is enough for the bytes that are written,
\* one for every 255.
Largest == 131072

Phases == {"setup", "search", "literals", "match", "next", "last", "return"}

CallTyped(e) ==
    /\ DOMAIN e = {"at", "src", "size", "cap", "limited", "type", "dict", "small", "acc", "fill", "ip", "anchor",
                   "forward", "step", "nb", "hash", "match", "lit", "op", "high", "result"}
    /\ e.at \in Phases /\ e.src \in Nat /\ e.size \in Nat /\ e.cap \in Nat /\ e.limited \in BOOLEAN
    /\ e.type \in {"u16", "u32"} /\ e.dict \in {"none", "prefix", "external"} /\ e.small \in BOOLEAN
    /\ e.acc \in Nat /\ e.fill \in BOOLEAN
    /\ e.ip \in Int /\ e.anchor \in Int /\ e.forward \in Int /\ e.step \in Int /\ e.nb \in Int
    /\ e.hash \in Slots \cup {0} /\ e.match \in Int /\ e.lit \in Seq(Nat)
    /\ e.op \in Nat /\ e.high \in Nat /\ e.result \in Nat

StreamRecord == [table : [Slots -> Nat], dict : Nat, dictSize : Nat, offset : Nat]

CallOK ==
    /\ CallTyped(enc) /\ stream \in StreamRecord
    /\ enc.size >= 1 /\ enc.acc >= 1
    /\ ~(enc.limited /\ enc.fill)
    /\ stream.dictSize <= stream.offset
    /\ stream.dictSize = 0 \/ stream.offset >= MinMatch
    /\ enc.dict = "none" => stream.offset = 0
    /\ enc.dict = "prefix" => DictEnd = enc.src
    /\ enc.dict = "external" => DictEnd # enc.src /\ stream.dict # enc.src
    /\ enc.type = "u16" => enc.dict = "none" /\ enc.size < Limit64K
    /\ enc.small <=> stream.dictSize < Window /\ stream.dictSize < stream.offset
    /\ \A v \in enc.src .. IEnd - 1 : mem[v] \in Nat

(***************************************************************************)
(* The text of a call: the dictionary, wherever it is, with the source     *)
(* right after it.                                                         *)
(***************************************************************************)
Text == [mem |-> mem, src |-> enc.src, end |-> enc.src + enc.size, low |-> enc.src - stream.dictSize,
         delta |-> DictDelta, offset |-> stream.offset]

TextAt(c, v) == c.mem[v + IF v < c.src THEN c.delta ELSE 0]
Alike(c, p, q, n) == \A i \in 0 .. n - 1 : TextAt(c, p + i) = TextAt(c, q + i)

\* The table has positions in the dictionary, four bytes before its end, and
\* in the source up to p.
Entry(c, t, p) == t = 0 \/ t + MinMatch <= c.offset \/ (c.offset <= t /\ t - c.offset + c.src <= p)
Entered(c, table, p) == \A h \in Slots : Entry(c, table[h], p)

\* A match that p may refer to.
Reached(c, p, match) ==
    /\ c.low <= match /\ match < p /\ p - match <= MaxDistance
    /\ match < c.src /\ c.delta # 0 => match + MinMatch <= c.src

PositionOK ==
    /\ enc.src <= enc.anchor /\ enc.anchor <= IEnd
    /\ enc.at = "setup" => enc.anchor = enc.src /\ Entered(Text, stream.table, enc.src - 1)
    /\ enc.at = "search" =>
         /\ enc.size >= MinLength /\ enc.anchor < enc.forward /\ enc.forward <= IEnd - MFLimit + 1
         /\ enc.step >= 1 /\ enc.nb >= 2 ^ SkipTrigger
         /\ enc.hash \in Slots /\ Entered(Text, stream.table, enc.forward - 1)
    /\ enc.at = "literals" =>
         /\ enc.anchor < enc.ip /\ enc.ip <= IEnd - MFLimit
         /\ Reached(Text, enc.ip, enc.match) /\ Alike(Text, enc.ip, enc.match, MinMatch)
         /\ Entered(Text, stream.table, enc.ip)
    /\ enc.at = "match" =>
         /\ enc.ip = enc.anchor + Len(enc.lit) /\ Bytes(mem, enc.anchor, Len(enc.lit)) = enc.lit
         /\ Reached(Text, enc.ip, enc.match)
         /\ \E q \in enc.ip .. IEnd - MFLimit :
              Alike(Text, enc.ip, enc.match, q - enc.ip + MinMatch) /\ Entered(Text, stream.table, q)
    /\ enc.at = "next" =>
         /\ enc.ip = enc.anchor /\ enc.src + MinMatch <= enc.ip /\ enc.ip <= IEnd - MFLimit
         /\ Entered(Text, stream.table, enc.ip - 1)
    /\ enc.at \in {"last", "return"} => Entered(Text, stream.table, IEnd - MFLimit)
    /\ enc.at = "return" /\ enc.result > 0 /\ ~enc.fill => enc.anchor = IEnd

(***************************************************************************)
(* The destination.                                                        *)
(***************************************************************************)
\* The literals of a match are written before the match.
Pending == IF enc.at = "match" THEN 1 + LengthBytes(Len(enc.lit)) + Len(enc.lit) ELSE 0

\* What n bytes may grow to.
Expanded(n) == n + n \div 255

OpOK == enc.at # "return" => enc.op - Pending \in 0 .. Expanded(enc.anchor - enc.src)

Capacity == IF enc.limited \/ enc.fill THEN enc.cap ELSE CompressBound(enc.size)

HighOK == (enc.limited => enc.size <= Largest) => enc.high <= Capacity

RoomOK ==
    enc.fill =>
        /\ enc.at \in {"search", "literals", "last"} => enc.op + 1 <= enc.cap
        /\ enc.at = "match" => enc.op + 11 <= enc.cap
        /\ enc.at = "next" => enc.op + 12 <= enc.cap

OutputOK == OpOK /\ HighOK /\ RoomOK /\ BlockBound

(***************************************************************************)
(* The block.                                                              *)
(***************************************************************************)
\* The sequence s, from a on, says what the text says.
Faithful(c, s, a) ==
    /\ Bytes(c.mem, a, Len(s.lit)) = s.lit
    /\ s.ml # 0 => LET p == a + Len(s.lit)
                   IN /\ s.off \in 1 .. MaxDistance /\ p - s.off >= c.low
                      /\ Alike(c, p, p - s.off, s.ml)

BlockOK ==
    /\ block \in Seq(Sequence)
    /\ enc.anchor = enc.src + Written(block, Len(block) + 1)
    /\ \A i \in DOMAIN block : Faithful(Text, block[i], enc.src + Written(block, i))
    /\ enc.at = "setup" => block = <<>>
    /\ IF enc.at = "return" /\ enc.result > 0
       THEN block # <<>> /\ \A i \in DOMAIN block : block[i].ml = 0 <=> i = Len(block)
       ELSE \A i \in DOMAIN block : block[i].ml # 0

FastInv == CallOK /\ PositionOK /\ OutputOK /\ BlockOK

\* The hash function (LZ4_hash4, LZ4_hash5): of the four or five bytes at a
\* position it makes an index of the table.
HashOK == \A s \in Seq(Nat) : Len(s) \in {4, 5} => Hash(s) \in Slots

-----------------------------------------------------------------------------
(***************************************************************************)
(* The programs that call the fast compressor.                             *)
(***************************************************************************)
Continuing == prog.call = "continue"

\* A program: its messages are not empty and fit into its buffer, as each layout
\* of the memory needs it.  A dictionary of one to three bytes that is followed
\* by an offset below MinMatch is compared past its end in this version, so that
\* the first message of calls that continue each other has MinMatch bytes.
FastProgram(p) ==
    /\ p.dict \in Seq(Nat) /\ p.cap \in Int /\ p.acc \in Int /\ p.max \in Nat /\ p.ring \in Nat
    /\ p.messages \in Seq(SUBSET Seq(Nat))
    /\ \A i \in DOMAIN p.messages : \A m \in p.messages[i] : Len(m) \in 1 .. p.max
    /\ p.ring >= p.max
    /\ \/ p.call \in {"fast", "destSize"} /\ p.layout = "simple"
       \/ /\ p.call = "continue"
          /\ p.layout # "dict" => \A i \in DOMAIN p.messages : i = 1 => \A m \in p.messages[i] : Len(m) >= MinMatch
          /\ \/ p.layout = "ring" /\ p.ring > 2 * p.max
             \/ p.layout = "double" /\ p.ring >= 2 * p.max
             \/ p.layout = "follow" /\ p.ring >= Len(p.messages) * p.max
             \/ p.layout = "save" /\ SafeAt + Window <= EncAt
             \/ p.layout = "dict" /\ SafeAt + Len(p.dict) <= EncAt

Stages == {"write", "load", "compress", "compressing", "saved", "arrived", "decompressing", "stopped"}

\* How many messages have gone.
Gone == IF user.at \in {"arrived", "decompressing"} THEN user.sent + 1 ELSE user.sent

Fits(at) ==
    CASE prog.layout = "double" -> at \in {0, prog.max}
      [] prog.layout = "ring" -> at = 0 \/ at < prog.ring - prog.max
      [] prog.layout = "follow" -> at <= Gone * prog.max
      [] OTHER -> at = 0

\* What is known of the table between the calls.
TableOK == \A h \in Slots : stream.table[h] = 0 \/ stream.table[h] + MinMatch <= stream.offset

\* The messages that the sender has sent: the last one arrives later.
Spoken == IF user.at \in {"arrived", "decompressing"} THEN user.past \o user.msg ELSE user.past

\* The bytes of the dictionary are the last that were said, but those at the
\* addresses in gap, which are overwritten.
Remembers(said, gap) ==
    /\ stream.dictSize <= Len(said)
    /\ \A i \in 1 .. stream.dictSize :
         DictEnd - i \notin gap => mem[DictEnd - i] = said[Len(said) - i + 1]

\* The next message does not overwrite the end of the dictionary unless it
\* ends before it.
Clear == DictEnd <= Source \/ DictEnd > Source + prog.max

Between == {"write", "saved", "arrived", "decompressing"}

USE DEF MinMatch, MFLimit, WildCopyLength, LastLiterals, MinLength, MaxDistance, Limit64K, RunMask, MlMask, Largest

-----------------------------------------------------------------------------
(***************************************************************************)
(* What a step of the call keeps.                                          *)
(***************************************************************************)
\* The call and the dictionary, as opposed to its progress and to the table.
SameCall ==
    /\ mem' = mem
    /\ stream'.dict = stream.dict /\ stream'.dictSize = stream.dictSize /\ stream'.offset = stream.offset
    /\ enc'.src = enc.src /\ enc'.size = enc.size /\ enc'.cap = enc.cap /\ enc'.limited = enc.limited
    /\ enc'.type = enc.type /\ enc'.dict = enc.dict /\ enc'.small = enc.small /\ enc'.acc = enc.acc
    /\ enc'.fill = enc.fill

LEMMA CallStays ==
  ASSUME CallOK, SameCall, CallTyped(enc'), stream' \in StreamRecord
  PROVE  CallOK' /\ IEnd' = IEnd /\ Text' = Text
BY DEF CallOK, SameCall, IEnd, Text, DictDelta, DictEnd

-----------------------------------------------------------------------------
(***************************************************************************)
(* The table.                                                              *)
(***************************************************************************)
LEMMA BaseIs ==
  ASSUME CallOK
  PROVE  BaseOf(enc) = enc.src - stream.offset
BY DEF CallOK, BaseOf, CallTyped, StreamRecord

LEMMA EnteredFurther ==
  ASSUME NEW c, NEW table, c.offset \in Nat, c.src \in Nat, table \in [Slots -> Nat],
         NEW p \in Int, NEW q \in Int, p <= q \/ p < c.src, Entered(c, table, p)
  PROVE  Entered(c, table, q)
<1>. SUFFICES ASSUME NEW h \in Slots  PROVE Entry(c, table[h], q)
  BY DEF Entered
<1>1. Entry(c, table[h], p) /\ table[h] \in Nat
  BY DEF Entered
<1>. QED  BY <1>1 DEF Entry

\* A position of the source that is put in the table.
LEMMA PutEnters ==
  ASSUME CallOK, NEW table \in [Slots -> Nat], NEW p \in Int, NEW q \in Int, NEW r \in Int,
         enc.src <= q, q <= r, p <= r \/ p < enc.src, Entered(Text, table, p), NEW h
  PROVE  LET new == [table EXCEPT ![h] = q - BaseOf(enc)]
         IN new \in [Slots -> Nat] /\ Entered(Text, new, r)
<1>. DEFINE new == [table EXCEPT ![h] = q - BaseOf(enc)]
<1>1. stream.offset \in Nat /\ enc.src \in Nat /\ Text.offset = stream.offset /\ Text.src = enc.src
  BY DEF CallOK, CallTyped, StreamRecord, Text
<1>2. q - BaseOf(enc) = q - enc.src + stream.offset /\ q - BaseOf(enc) \in Nat
  BY <1>1, BaseIs
<1>3. Entry(Text, q - BaseOf(enc), r)
  BY <1>1, <1>2 DEF Entry
<1>4. Entered(Text, table, r)
  BY <1>1, EnteredFurther
<1>5. \A g \in Slots : Entry(Text, new[g], r)
  BY <1>3, <1>4 DEF Entered
<1>. QED  BY <1>2, <1>5 DEF Entered

\* A match that the search accepts: a position that was found in the table.
LEMMA FoundIsReached ==
  ASSUME CallOK, NEW t \in Nat, NEW p \in Int, NEW f \in Int, f < p, enc.src < p, p <= IEnd - MFLimit,
         Entry(Text, t, f), NEW match, match = t + BaseOf(enc),
         Reaches(match), enc.type = "u16" \/ match + MaxDistance >= p, SameFour(match, p)
  PROVE  match \in Int /\ Reached(Text, p, match) /\ Alike(Text, p, match, MinMatch)
<1>. DEFINE src == enc.src
<1>1. /\ src \in Nat /\ enc.size \in Nat /\ stream.offset \in Nat /\ stream.dictSize \in Nat /\ stream.dict \in Nat
      /\ IEnd = src + enc.size
  BY DEF CallOK, CallTyped, StreamRecord, IEnd
<1>2. match = t + src - stream.offset /\ match \in Int
  BY <1>1, BaseIs
<1>3. /\ Text.src = src /\ Text.low = src - stream.dictSize /\ Text.offset = stream.offset /\ Text.mem = mem
      /\ Text.delta = DictDelta
  BY DEF Text
<1>4. match < p
  BY <1>1, <1>2, <1>3 DEF Entry, CallOK
<1>6. src - stream.dictSize <= match
  <2>1. CASE enc.small
    BY <2>1 DEF Reaches, LowRefLimit
  <2>2. CASE ~enc.small
    BY <1>1, <1>2, <2>2, FastAssumption DEF CallOK
  <2>. QED  BY <2>1, <2>2
<1>5. match < src => match + MinMatch <= src
  <2>1. stream.dictSize = 0 \/ stream.offset >= MinMatch
    BY DEF CallOK
  <2>. QED  BY <1>1, <1>2, <1>3, <1>6, <2>1 DEF Entry
<1>7. p - match <= MaxDistance
  <2>1. CASE enc.type = "u16"
    <3>1. stream.offset = 0 /\ enc.size < Limit64K
      BY <2>1 DEF CallOK
    <3>. QED  BY <1>1, <1>2, <3>1, FastAssumption
  <2>2. CASE enc.type # "u16"
    BY <1>1, <1>2, <2>2, FastAssumption
  <2>. QED  BY <2>1, <2>2
<1>8. Reached(Text, p, match)
  BY <1>3, <1>4, <1>5, <1>6, <1>7 DEF Reached
<1>9. \A i \in 0 .. MinMatch - 1 : mem[match + DeltaOf(match) + i] = mem[p + i]
  BY DEF SameFour, Agree
<1>10. match < src => DeltaOf(match) = DictDelta
  <2>1. CASE enc.dict = "none"
    <3>1. stream.dictSize = 0
      BY <1>1, <2>1 DEF CallOK
    <3>. QED  BY <1>1, <1>2, <1>6, <3>1
  <2>2. CASE enc.dict = "prefix"
    <3>1. DictDelta = 0 /\ DeltaOf(match) = 0
      BY <1>1, <2>2 DEF CallOK, DictDelta, DeltaOf, InDictionary
    <3>. QED  BY <3>1
  <2>3. CASE enc.dict = "external"
    BY <2>3 DEF DeltaOf, InDictionary
  <2>. QED  BY <2>1, <2>2, <2>3 DEF CallOK, CallTyped
<1>11. match >= src => DeltaOf(match) = 0
  BY <1>1, <1>2 DEF DeltaOf, InDictionary
<1>12. DictDelta \in Int
  BY <1>1 DEF DictDelta, DictEnd
<1>13. Alike(Text, p, match, MinMatch)
  <2>. SUFFICES ASSUME NEW i \in 0 .. MinMatch - 1  PROVE TextAt(Text, p + i) = TextAt(Text, match + i)
    BY DEF Alike
  <2>1. TextAt(Text, p + i) = mem[p + i]
    BY <1>1, <1>3 DEF TextAt
  <2>2. CASE match < src
    <3>1. match + i < src /\ match + i + DictDelta = match + DeltaOf(match) + i
      BY <1>1, <1>2, <1>5, <1>10, <1>12, <2>2
    <3>2. TextAt(Text, match + i) = mem[match + i + DictDelta]
      BY <1>3, <3>1 DEF TextAt
    <3>. QED  BY <1>9, <2>1, <3>1, <3>2
  <2>3. CASE match >= src
    <3>1. ~(match + i < src) /\ match + i + 0 = match + DeltaOf(match) + i
      BY <1>1, <1>2, <1>11, <2>3
    <3>2. TextAt(Text, match + i) = mem[match + i + 0]
      BY <1>3, <3>1 DEF TextAt
    <3>. QED  BY <1>9, <2>1, <3>1, <3>2
  <2>. QED  BY <1>1, <1>2, <2>2, <2>3
<1>. QED  BY <1>2, <1>8, <1>13

LEMMA BytesType ==
  ASSUME NEW m, NEW p \in Int, NEW n \in Nat, \A v \in p .. p + n - 1 : m[v] \in Nat
  PROVE  Bytes(m, p, n) \in Seq(Nat) /\ Len(Bytes(m, p, n)) = n
<1>1. \A i \in 1 .. n : m[p + i - 1] \in Nat
  <2>. SUFFICES ASSUME NEW i \in 1 .. n  PROVE m[p + i - 1] \in Nat
    OBVIOUS
  <2>1. p + i - 1 \in p .. p + n - 1
    OBVIOUS
  <2>. QED  BY <2>1
<1>. DEFINE b == Bytes(m, p, n)
<1>2. b = [i \in 1 .. n |-> m[p + i - 1]]
  BY DEF Bytes
<1>3. b \in [1 .. n -> Nat]
  <2>. HIDE DEF b
  <2>. QED  BY <1>1, <1>2
<1>. HIDE DEF b
<1>4. b \in Seq(Nat) /\ Len(b) = n
  BY <1>3
<1>. QED  BY <1>4 DEF b

\* The hash of a position that has five bytes of the source.
LEMMA HashType ==
  ASSUME CallOK, HashOK, NEW p \in Int, enc.src <= p, p + 5 <= IEnd
  PROVE  HashAt(enc, p) \in Slots
<1>1. \A n \in {4, 5} : Bytes(mem, p, n) \in Seq(Nat) /\ Len(Bytes(mem, p, n)) = n
  <2>. SUFFICES ASSUME NEW n \in {4, 5}
                PROVE  Bytes(mem, p, n) \in Seq(Nat) /\ Len(Bytes(mem, p, n)) = n
    OBVIOUS
  <2>1. p + n - 1 <= IEnd - 1 /\ IEnd \in Int /\ enc.src \in Int /\ n \in Nat
    <3>1. IEnd \in Int /\ enc.src \in Int
      BY DEF CallOK, CallTyped, IEnd
    <3>. QED  BY <3>1
  <2>2. \A v \in enc.src .. IEnd - 1 : mem[v] \in Nat
    BY DEF CallOK
  <2>3. \A v \in p .. p + n - 1 : mem[v] \in Nat
    <3>1. \A v \in p .. p + n - 1 : v \in enc.src .. IEnd - 1
      BY <2>1
    <3>. QED  BY <2>2, <3>1
  <2>. QED  BY <2>1, <2>3, BytesType
<1>2. \A n \in {4, 5} : Hash(Bytes(mem, p, n)) \in Slots
  BY <1>1 DEF HashOK
<1>. QED  BY <1>2 DEF HashAt

-----------------------------------------------------------------------------
(***************************************************************************)
(* The length of a match: it may begin in an external dictionary and go on *)
(* in the source, where the text goes on.                                  *)
(***************************************************************************)
LEMMA SourceText ==
  ASSUME CallOK, NEW v \in Int, Text.low <= v, ~(enc.dict = "external" /\ v < enc.src)
  PROVE  TextAt(Text, v) = mem[v]
<1>1. /\ Text.mem = mem /\ Text.src = enc.src /\ Text.delta = DictDelta /\ Text.low = enc.src - stream.dictSize
      /\ enc.src \in Nat /\ stream.dictSize \in Nat /\ stream.offset \in Nat /\ stream.dict \in Nat
  BY DEF Text, CallOK, CallTyped, StreamRecord
<1>2. CASE v >= enc.src
  <2>1. v + 0 = v
    OBVIOUS
  <2>. QED  BY <1>1, <1>2, <2>1 DEF TextAt
<1>3. CASE v < enc.src
  <2>1. enc.dict # "none"
    BY <1>1, <1>3 DEF CallOK
  <2>2. DictDelta = 0 /\ v + DictDelta = v
    BY <1>1, <1>3, <2>1 DEF CallOK, CallTyped, DictDelta
  <2>. QED  BY <1>1, <1>3, <2>2 DEF TextAt
<1>. QED  BY <1>1, <1>2, <1>3

\* The count goes as far as the texts agree, so as far as any number of bytes
\* that are known to agree.
LEMMA CountInText ==
  ASSUME NEW c, c.src \in Int, NEW p \in Int, NEW v \in Int, NEW limit \in Int, c.src <= p, p + MinMatch <= limit,
         Alike(c, p, v, MinMatch), \A i \in Nat : TextAt(c, v + i) = c.mem[v + i]
  PROVE  LET n == Count(c.mem, p + MinMatch, v + MinMatch, limit)
         IN /\ n \in 0 .. limit - (p + MinMatch)
            /\ n = limit - (p + MinMatch) \/ TextAt(c, p + MinMatch + n) # TextAt(c, v + MinMatch + n)
            /\ Alike(c, p, v, n + MinMatch)
<1>. DEFINE a == p + MinMatch
            b == v + MinMatch
            n == Count(c.mem, a, b, limit)
<1>1. a \in Int /\ b \in Int /\ a <= limit
  OBVIOUS
<1>2. /\ n \in 0 .. limit - a
      /\ n = limit - a \/ c.mem[a + n] # c.mem[b + n]
      /\ \A i \in 0 .. n - 1 : c.mem[a + i] = c.mem[b + i]
  <2>. DEFINE m == c.mem
  <2>. HIDE DEF a, b, m
  <2>1. LET l == Count(m, a, b, limit)
        IN /\ l \in 0 .. limit - a
           /\ l = limit - a \/ m[a + l] # m[b + l]
           /\ \A i \in 0 .. l - 1 : m[a + i] = m[b + i]
    BY <1>1, CountIs
  <2>. QED  BY <2>1 DEF m
<1>. HIDE DEF n
<1>3. \A i \in Nat : TextAt(c, p + i) = c.mem[p + i]
  <2>. SUFFICES ASSUME NEW i \in Nat  PROVE TextAt(c, p + i) = c.mem[p + i]
    OBVIOUS
  <2>1. ~(p + i < c.src) /\ p + i + 0 = p + i
    OBVIOUS
  <2>. QED  BY <2>1 DEF TextAt
<1>4. n \in Nat /\ MinMatch + n \in Nat /\ a + n = p + (MinMatch + n) /\ b + n = v + (MinMatch + n)
  BY <1>2
<1>5. TextAt(c, a + n) = c.mem[a + n] /\ TextAt(c, b + n) = c.mem[b + n]
  BY <1>3, <1>4
<1>6. ASSUME NEW i \in 0 .. n + MinMatch - 1  PROVE TextAt(c, p + i) = TextAt(c, v + i)
  <2>1. CASE i < MinMatch
    <3>1. i \in 0 .. MinMatch - 1
      BY <2>1
    <3>. QED  BY <3>1 DEF Alike
  <2>2. CASE i >= MinMatch
    <3>1. i - MinMatch \in 0 .. n - 1 /\ i \in Nat /\ a + (i - MinMatch) = p + i /\ b + (i - MinMatch) = v + i
      BY <1>4, <2>2
    <3>. QED  BY <1>2, <1>3, <3>1
  <2>. QED  BY <1>4, <2>1, <2>2
<1>7. Alike(c, p, v, n + MinMatch)
  BY <1>4, <1>6 DEF Alike
<1>. QED  BY <1>2, <1>5, <1>7 DEF n

\* The two counts: up to the end of the dictionary, and on from the source.
CountOn(c, p, v, first, limit) ==
    LET n1 == Count(c.mem, p + MinMatch, v + c.delta + MinMatch, first)
        q == p + MinMatch + n1
    IN n1 + (IF q = first THEN Count(c.mem, q, c.src, limit) ELSE 0)

LEMMA CountFromDictionary ==
  ASSUME NEW c, c.src \in Int, c.delta \in Int, NEW p \in Int, NEW v \in Int, NEW limit \in Int,
         c.src <= p, p + MinMatch <= limit, v + MinMatch <= c.src, Alike(c, p, v, MinMatch),
         NEW first \in Int, first = (IF p + (c.src - v) <= limit THEN p + (c.src - v) ELSE limit)
  PROVE  LET n == CountOn(c, p, v, first, limit)
         IN /\ n \in 0 .. limit - (p + MinMatch)
            /\ n = limit - (p + MinMatch) \/ TextAt(c, p + MinMatch + n) # TextAt(c, v + MinMatch + n)
            /\ Alike(c, p, v, n + MinMatch)
<1>. DEFINE a == p + MinMatch
            b == v + c.delta + MinMatch
            src == c.src
            n1 == Count(c.mem, a, b, first)
            q == a + n1
            n2 == IF q = first THEN Count(c.mem, q, src, limit) ELSE 0
            n == n1 + n2
<1>1. a \in Int /\ b \in Int /\ first \in Int /\ a <= first /\ first <= limit /\ first <= p + (src - v) /\ src \in Int
  OBVIOUS
<1>2. /\ n1 \in 0 .. first - a
      /\ n1 = first - a \/ c.mem[a + n1] # c.mem[b + n1]
      /\ \A i \in 0 .. n1 - 1 : c.mem[a + i] = c.mem[b + i]
  <2>. DEFINE m == c.mem
  <2>. HIDE DEF a, b, src, m
  <2>1. LET l == Count(m, a, b, first)
        IN /\ l \in 0 .. first - a
           /\ l = first - a \/ m[a + l] # m[b + l]
           /\ \A i \in 0 .. l - 1 : m[a + i] = m[b + i]
    BY <1>1, CountIs
  <2>. QED  BY <2>1 DEF m
<1>. HIDE DEF n1
<1>3. n1 \in Nat /\ q \in Int /\ q <= first
  BY <1>1, <1>2
<1>4. q = first =>
        /\ n2 \in 0 .. limit - q
        /\ n2 = limit - q \/ c.mem[q + n2] # c.mem[src + n2]
        /\ \A i \in 0 .. n2 - 1 : c.mem[q + i] = c.mem[src + i]
  <2>. SUFFICES ASSUME q = first
                PROVE  /\ n2 \in 0 .. limit - q
                       /\ n2 = limit - q \/ c.mem[q + n2] # c.mem[src + n2]
                       /\ \A i \in 0 .. n2 - 1 : c.mem[q + i] = c.mem[src + i]
    OBVIOUS
  <2>1. n2 = Count(c.mem, q, src, limit)
    OBVIOUS
  <2>. DEFINE m == c.mem
  <2>. HIDE DEF n2, q, src, m
  <2>2. LET l == Count(m, q, src, limit)
        IN /\ l \in 0 .. limit - q
           /\ l = limit - q \/ m[q + l] # m[src + l]
           /\ \A i \in 0 .. l - 1 : m[q + i] = m[src + i]
    BY <1>1, <1>3, CountIs
  <2>. QED  BY <2>1, <2>2 DEF m
<1>5. q # first => n2 = 0
  OBVIOUS
<1>6. n2 \in Nat
  BY <1>1, <1>3, <1>4, <1>5
<1>. HIDE DEF n2
<1>7. \A i \in Nat : TextAt(c, p + i) = c.mem[p + i]
  <2>. SUFFICES ASSUME NEW i \in Nat  PROVE TextAt(c, p + i) = c.mem[p + i]
    OBVIOUS
  <2>1. ~(p + i < c.src) /\ p + i + 0 = p + i
    OBVIOUS
  <2>. QED  BY <2>1 DEF TextAt
<1>8. \A i \in Nat : v + i < src => TextAt(c, v + i) = c.mem[v + c.delta + i]
  <2>. SUFFICES ASSUME NEW i \in Nat, v + i < src  PROVE TextAt(c, v + i) = c.mem[v + c.delta + i]
    OBVIOUS
  <2>1. v + i + c.delta = v + c.delta + i
    OBVIOUS
  <2>. QED  BY <2>1 DEF TextAt
<1>9. \A i \in Nat : v + i >= src => TextAt(c, v + i) = c.mem[v + i]
  <2>. SUFFICES ASSUME NEW i \in Nat, v + i >= src  PROVE TextAt(c, v + i) = c.mem[v + i]
    OBVIOUS
  <2>1. ~(v + i < c.src) /\ v + i + 0 = v + i
    OBVIOUS
  <2>. QED  BY <2>1 DEF TextAt
\* the second count starts where the dictionary ends, or there is nothing left to count
<1>10. q = first => q = limit \/ v + MinMatch + n1 = src
  BY <1>1, <1>3
<1>11. q # first => v + MinMatch + n1 < src
  BY <1>1, <1>3
<1>12. v + MinMatch + n1 <= src
  BY <1>1, <1>3
<1>13. n2 # 0 => q = first /\ v + MinMatch + n1 = src
  <2>1. q = first /\ q = limit => n2 = 0
    BY <1>1, <1>3, <1>4
  <2>. QED  BY <1>5, <1>10, <2>1
<1>14. ASSUME NEW i \in 0 .. n + MinMatch - 1  PROVE TextAt(c, p + i) = TextAt(c, v + i)
  <2>1. i \in Nat
    BY <1>3, <1>6
  <2>2. CASE i < MinMatch
    <3>1. i \in 0 .. MinMatch - 1
      BY <2>1, <2>2
    <3>. QED  BY <3>1 DEF Alike
  <2>3. CASE i >= MinMatch /\ i - MinMatch < n1
    <3>. DEFINE j == i - MinMatch
    <3>1. j \in 0 .. n1 - 1 /\ a + j = p + i /\ b + j = v + c.delta + i /\ v + i < src
      BY <1>1, <1>3, <1>12, <2>1, <2>3
    <3>2. c.mem[a + j] = c.mem[b + j]
      <4>. HIDE DEF a, b, j
      <4>. QED  BY <1>2, <3>1
    <3>. HIDE DEF a, b, j
    <3>. QED  BY <1>7, <1>8, <2>1, <3>1, <3>2
  <2>4. CASE i - MinMatch >= n1
    <3>. DEFINE j == i - MinMatch - n1
    <3>1. n2 # 0
      BY <1>3, <1>6, <2>1, <2>4
    <3>2. j \in 0 .. n2 - 1 /\ q + j = p + i /\ src + j = v + i /\ v + i >= src
      BY <1>1, <1>3, <1>6, <1>13, <2>1, <2>4, <3>1
    <3>3. c.mem[q + j] = c.mem[src + j]
      <4>. HIDE DEF q, src, j
      <4>. QED  BY <1>4, <1>13, <3>1, <3>2
    <3>. HIDE DEF q, src, j
    <3>. QED  BY <1>7, <1>9, <2>1, <3>2, <3>3
  <2>. QED  BY <1>3, <2>1, <2>2, <2>3, <2>4
<1>15. Alike(c, p, v, n + MinMatch)
  BY <1>3, <1>6, <1>14 DEF Alike
<1>16. n \in 0 .. limit - a
  <2>1. CASE q = first
    BY <1>1, <1>3, <1>4, <1>6, <2>1
  <2>2. CASE q # first
    BY <1>1, <1>3, <1>5, <2>2
  <2>. QED  BY <2>1, <2>2
<1>17. n = limit - a \/ TextAt(c, a + n) # TextAt(c, v + MinMatch + n)
  <2>. DEFINE i == MinMatch + n
  <2>0. i \in Nat /\ a + n = p + i /\ v + MinMatch + n = v + i
    BY <1>3, <1>6
  <2>1. CASE q # first
    <3>1. n = n1 /\ n1 # first - a
      BY <1>1, <1>3, <1>5, <2>1
    <3>2. c.mem[a + n1] # c.mem[b + n1]
      <4>. HIDE DEF a, b
      <4>. QED  BY <1>2, <3>1
    <3>3. b + n1 = v + c.delta + i /\ a + n1 = p + i /\ v + i < src
      BY <1>1, <1>3, <1>11, <2>1, <3>1
    <3>. HIDE DEF a, b, i, n
    <3>. QED  BY <1>7, <1>8, <2>0, <3>2, <3>3
  <2>2. CASE q = first /\ n2 # limit - q
    <3>1. v + MinMatch + n1 = src
      <4>1. q = limit => n2 = limit - q
        BY <1>1, <1>3, <1>4, <2>2
      <4>. QED  BY <1>10, <2>2, <4>1
    <3>2. c.mem[q + n2] # c.mem[src + n2]
      <4>. HIDE DEF q, src
      <4>. QED  BY <1>4, <2>2
    <3>3. q + n2 = p + i /\ src + n2 = v + i /\ v + i >= src
      BY <1>1, <1>3, <1>6, <3>1
    <3>. HIDE DEF a, q, src, i, n
    <3>. QED  BY <1>7, <1>9, <2>0, <3>2, <3>3
  <2>3. CASE q = first /\ n2 = limit - q
    BY <1>1, <1>3, <2>3
  <2>. QED  BY <2>1, <2>2, <2>3
<1>18. n1 = Count(c.mem, p + MinMatch, v + c.delta + MinMatch, first)
  BY DEF n1
<1>19. n = CountOn(c, p, v, first, limit)
  BY <1>18 DEF n2, CountOn
<1>. HIDE DEF n
<1>. QED  BY <1>15, <1>16, <1>17, <1>19

LEMMA MatchCodeIs ==
  ASSUME CallOK, NEW p \in Int, NEW v \in Int, Reached(Text, p, v), enc.src <= p,
         NEW k \in Nat, p + MinMatch + k <= MatchLimit, Alike(Text, p, v, k + MinMatch)
  PROVE  LET n == MatchCodeAt(p, v)
         IN n \in k .. MatchLimit - (p + MinMatch) /\ Alike(Text, p, v, n + MinMatch)
<1>. DEFINE c == Text
            limit == MatchLimit
            n == MatchCodeAt(p, v)
<1>1. /\ c.src \in Nat /\ limit \in Int /\ c.delta \in Int /\ DictEnd - (v + c.delta) = c.src - v
      /\ c.src = enc.src /\ c.mem = mem /\ c.delta = DictDelta
  <2>1. /\ enc.src \in Nat /\ enc.size \in Nat /\ stream.offset \in Nat /\ stream.dictSize \in Nat /\ stream.dict \in Nat
    BY DEF CallOK, CallTyped, StreamRecord
  <2>. QED  BY <2>1 DEF IEnd, MatchLimit, DictDelta, DictEnd, Text
<1>2. c.low <= v /\ v < p /\ (v < c.src /\ c.delta # 0 => v + MinMatch <= c.src) /\ c.src <= p /\ p + MinMatch + k <= limit
  BY <1>1 DEF Reached
<1>3. p + MinMatch <= limit
  BY <1>1, <1>2
<1>4. Alike(c, p, v, MinMatch)
  <2>1. \A i \in 0 .. MinMatch - 1 : i \in 0 .. k + MinMatch - 1
    OBVIOUS
  <2>. QED  BY <2>1 DEF Alike
<1>5. /\ n \in 0 .. limit - (p + MinMatch)
      /\ n = limit - (p + MinMatch) \/ TextAt(c, p + MinMatch + n) # TextAt(c, v + MinMatch + n)
      /\ Alike(c, p, v, n + MinMatch)
  <2>1. CASE ~(enc.dict = "external" /\ v < enc.src)
    <3>1. \A i \in Nat : TextAt(c, v + i) = c.mem[v + i]
      <4>. SUFFICES ASSUME NEW i \in Nat  PROVE TextAt(c, v + i) = c.mem[v + i]
        OBVIOUS
      <4>1. v + i \in Int /\ Text.low <= v + i /\ ~(enc.dict = "external" /\ v + i < enc.src)
        <5>1. Text.low \in Int
          BY DEF Text, CallOK, CallTyped, StreamRecord
        <5>. QED  BY <1>1, <1>2, <2>1, <5>1
      <4>. QED  BY <1>1, <4>1, SourceText
    <3>2. n = Count(c.mem, p + MinMatch, v + MinMatch, limit)
      <4>1. ~(enc.dict = "external" /\ LowLimitOf(v) = stream.dict)
        BY <2>1 DEF LowLimitOf, CallOK
      <4>. QED  BY <1>1, <4>1 DEF MatchCodeAt
    <3>. HIDE DEF c, limit, n
    <3>. QED  BY <1>1, <1>2, <1>3, <1>4, <3>1, <3>2, CountInText
  <2>2. CASE enc.dict = "external" /\ v < enc.src
    <3>. DEFINE from == v + c.delta
                first == Min({p + (c.src - v), limit})
    <3>1. n = CountOn(c, p, v, first, limit)
      <4>1. DeltaOf(v) = c.delta /\ LowLimitOf(v) = stream.dict
        BY <1>1, <2>2 DEF DeltaOf, InDictionary, LowLimitOf
      <4>2. from + MinMatch = v + c.delta + MinMatch
        OBVIOUS
      <4>. QED  BY <1>1, <2>2, <4>1, <4>2 DEF MatchCodeAt, CountOn
    <3>2. first = (IF p + (c.src - v) <= limit THEN p + (c.src - v) ELSE limit) /\ first \in Int
      <4>. HIDE DEF limit, c
      <4>. QED  BY <1>1, MinOfTwo
    <3>3. v < enc.src /\ DictDelta # 0
      <4>1. DictEnd # enc.src
        BY <2>2 DEF CallOK
      <4>2. DictEnd \in Int /\ enc.src \in Int
        BY DEF CallOK, CallTyped, StreamRecord, DictEnd
      <4>. QED  BY <2>2, <4>1, <4>2 DEF DictDelta
    <3>. HIDE DEF c, limit, n, first, from
    <3>4. c.src \in Int /\ c.delta \in Int /\ v + MinMatch <= c.src /\ c.src <= p /\ limit \in Int
      BY <1>1, <1>2, <3>3
    <3>. QED  BY <1>3, <1>4, <3>1, <3>2, <3>4, CountFromDictionary
  <2>. QED  BY <2>1, <2>2
<1>6. n >= k
  <2>. HIDE DEF n, limit, c
  <2>1. n < k => n < limit - (p + MinMatch)
    BY <1>1, <1>2, <1>5
  <2>2. ASSUME n < k  PROVE TextAt(c, p + MinMatch + n) = TextAt(c, v + MinMatch + n)
    <3>1. MinMatch + n \in 0 .. k + MinMatch - 1
      BY <1>1, <1>5, <2>2
    <3>2. TextAt(c, p + (MinMatch + n)) = TextAt(c, v + (MinMatch + n))
      BY <3>1 DEF Alike, c
    <3>3. p + (MinMatch + n) = p + MinMatch + n /\ v + (MinMatch + n) = v + MinMatch + n
      BY <1>5, <3>1
    <3>. QED  BY <3>2, <3>3
  <2>. QED  BY <1>1, <1>5, <2>1, <2>2
<1>7. n \in k .. limit - (p + MinMatch)
  BY <1>1, <1>5, <1>6
<1>. HIDE DEF n
<1>. QED  BY <1>5, <1>7 DEF n

-----------------------------------------------------------------------------
(***************************************************************************)
(* Each step of the compressor keeps the invariant.                        *)
(***************************************************************************)
LEMMA CallTypes ==
  ASSUME CallOK
  PROVE  /\ enc.src \in Nat /\ enc.size \in Nat /\ enc.size >= 1 /\ enc.cap \in Nat /\ enc.op \in Nat /\ enc.high \in Nat
         /\ enc.anchor \in Int /\ enc.ip \in Int /\ enc.forward \in Int /\ enc.step \in Int /\ enc.nb \in Int
         /\ enc.match \in Int /\ enc.acc \in Nat /\ enc.acc >= 1
         /\ enc.fill \in BOOLEAN /\ enc.limited \in BOOLEAN /\ enc.result \in Nat
         /\ IEnd = enc.src + enc.size /\ IEnd \in Int
<1>1. CallTyped(enc) /\ enc.size >= 1 /\ enc.acc >= 1
  BY DEF CallOK
<1>. QED  BY <1>1 DEF CallTyped, IEnd

LEMMA TextTypes ==
  ASSUME CallOK
  PROVE  /\ stream.dict \in Nat /\ stream.dictSize \in Nat /\ stream.offset \in Nat
         /\ Text.src = enc.src /\ Text.offset = stream.offset /\ Text.mem = mem /\ Text.low = enc.src - stream.dictSize
         /\ Text.delta = DictDelta /\ DictDelta \in Int /\ DictEnd \in Int
<1>1. CallTyped(enc) /\ stream \in StreamRecord
  BY DEF CallOK
<1>. QED  BY <1>1 DEF CallTyped, StreamRecord, Text, DictDelta, DictEnd

LEMMA TableType ==
  ASSUME CallOK
  PROVE  stream.table \in [Slots -> Nat]
BY DEF CallOK, StreamRecord

LEMMA LitType ==
  ASSUME CallOK
  PROVE  enc.lit \in Seq(Nat) /\ Len(enc.lit) \in Nat
<1>1. CallTyped(enc)
  BY DEF CallOK
<1>2. enc.lit \in Seq(Nat)
  BY <1>1 DEF CallTyped
<1>. QED  BY <1>2

LEMMA DivideAtLeast ==
  ASSUME NEW x \in Int, NEW k \in Nat \ {0}, x >= k
  PROVE  x \div k >= 1 /\ x \div k \in Int
OBVIOUS

LEMMA TimesAtLeast ==
  ASSUME NEW a \in Nat, a >= 1, NEW k \in Nat \ {0}
  PROVE  a * k >= k /\ a * k \in Nat
OBVIOUS

LEMMA PutPositionEnters ==
  ASSUME CallOK, NEW table \in [Slots -> Nat], NEW p \in Int, NEW q \in Int, NEW r \in Int,
         enc.src <= q, q <= r, p <= r \/ p < enc.src, Entered(Text, table, p)
  PROVE  /\ PutPosition(table, enc, q) \in [Slots -> Nat]
         /\ Entered(Text, PutPosition(table, enc, q), r)
<1>. DEFINE h == HashAt(enc, q)
            new == [table EXCEPT ![h] = q - BaseOf(enc)]
<1>. HIDE DEF h
<1>1. new \in [Slots -> Nat] /\ Entered(Text, new, r)
  BY PutEnters
<1>2. PutPosition(table, enc, q) = new
  BY DEF PutPosition, h
<1>. QED  BY <1>1, <1>2

\* The search starts: its counter, which acceleration raises, does not fall.
LEMMA SearchStarts ==
  ASSUME CallOK, HashOK, NEW p \in Int, enc.src <= p, p + 5 <= IEnd
  PROVE  LET e == Search(enc, p)
         IN /\ CallTyped(e) /\ e.at = "search" /\ e.anchor = enc.anchor /\ e.op = enc.op /\ e.high = enc.high
            /\ e.src = enc.src /\ e.size = enc.size /\ e.cap = enc.cap /\ e.limited = enc.limited /\ e.type = enc.type
            /\ e.dict = enc.dict /\ e.small = enc.small /\ e.acc = enc.acc /\ e.fill = enc.fill /\ e.result = enc.result
            /\ e.forward = p /\ e.step = 1 /\ e.nb >= 2 ^ SkipTrigger /\ e.hash \in Slots
<1>. DEFINE n == IF enc.fill THEN 2 ^ SkipTrigger ELSE enc.acc * 2 ^ SkipTrigger
            h == HashAt(enc, p)
            e == [enc EXCEPT !.at = "search", !.ip = p, !.forward = p, !.step = 1, !.nb = n, !.hash = h]
<1>1. n \in Int /\ n >= 2 ^ SkipTrigger
  BY CallTypes, FastAssumption, TimesAtLeast
<1>2. h \in Slots
  BY HashType
<1>3. Search(enc, p) = e
  BY DEF Search
<1>4. CallTyped(enc)
  BY DEF CallOK
<1>. HIDE DEF n, h
<1>5. CallTyped(e)
  <2>1. h \in Slots \cup {0}
    BY <1>2
  <2>. QED  BY <1>1, <1>4, <2>1 DEF CallTyped, Phases
<1>6. /\ e.at = "search" /\ e.anchor = enc.anchor /\ e.op = enc.op /\ e.high = enc.high
      /\ e.src = enc.src /\ e.size = enc.size /\ e.cap = enc.cap /\ e.limited = enc.limited /\ e.type = enc.type
      /\ e.dict = enc.dict /\ e.small = enc.small /\ e.acc = enc.acc /\ e.fill = enc.fill /\ e.result = enc.result
      /\ e.forward = p /\ e.step = 1 /\ e.nb = n /\ e.hash = h
  BY <1>4 DEF CallTyped
<1>. HIDE DEF e
<1>. QED  BY <1>1, <1>2, <1>3, <1>5, <1>6

LEMMA BlockStays ==
  ASSUME BlockOK, block' = block, enc'.anchor = enc.anchor, enc'.src = enc.src, Text' = Text,
         enc'.at # "setup", enc.at # "return", enc'.at = "return" => enc'.result = 0
  PROVE  BlockOK'
<1>1. ~(enc.at = "return" /\ enc.result > 0) /\ ~(enc'.at = "return" /\ enc'.result > 0)
  OBVIOUS
<1>. HIDE DEF Sequence
<1>. QED  BY <1>1 DEF BlockOK

LEMMA EnteredToEnd ==
  ASSUME CallOK, NEW p \in Int, p <= IEnd - MFLimit \/ p < enc.src, Entered(Text, stream.table, p)
  PROVE  Entered(Text, stream.table, IEnd - MFLimit)
<1>1. /\ stream.table \in [Slots -> Nat] /\ Text.offset \in Nat /\ Text.src = enc.src /\ enc.src \in Nat
      /\ IEnd - MFLimit \in Int
  BY CallTypes, TextTypes, TableType
<1>. DEFINE c == Text
            t == stream.table
            q == IEnd - MFLimit
<1>. HIDE DEF c, t, q
<1>2. c.offset \in Nat /\ c.src \in Nat /\ t \in [Slots -> Nat] /\ q \in Int /\ (p <= q \/ p < c.src) /\ Entered(c, t, p)
  BY <1>1 DEF c, t, q
<1>3. Entered(c, t, q)
  BY <1>2, EnteredFurther
<1>. QED  BY <1>3 DEF c, t, q

LEMMA SetUpKeeps ==
  ASSUME FastInv, HashOK, SetUp
  PROVE  FastInv'
<1>1. CallOK /\ PositionOK /\ OpOK /\ HighOK /\ BlockOK /\ enc.at = "setup" /\ mem' = mem
  BY DEF FastInv, OutputOK, SetUp
<1>t. /\ enc.src \in Nat /\ enc.size \in Nat /\ enc.size >= 1 /\ enc.cap \in Nat /\ IEnd = enc.src + enc.size
      /\ enc.fill \in BOOLEAN /\ enc.acc \in Nat /\ enc.acc >= 1 /\ enc.high \in Nat /\ enc.op \in Nat
      /\ CallTyped(enc) /\ stream \in StreamRecord
  BY <1>1, CallTypes DEF CallOK
<1>2. enc.anchor = enc.src /\ Entered(Text, stream.table, enc.src - 1)
  BY <1>1 DEF PositionOK
<1>3. enc.op = 0
  BY <1>1, <1>2, <1>t DEF OpOK, Pending, Expanded
<1>4. Entered(Text, stream.table, IEnd - MFLimit)
  BY <1>1, <1>2, <1>t, EnteredToEnd
<1>5. CASE (enc.fill /\ enc.cap < 1) \/ (enc.type = "u16" /\ enc.size >= Limit64K)
  <2>1. enc' = [enc EXCEPT !.at = "return", !.result = 0] /\ stream' = stream /\ block' = block
    BY <1>5 DEF SetUp, Return
  <2>2. SameCall /\ CallTyped(enc') /\ stream' \in StreamRecord
    BY <1>1, <1>t, <2>1 DEF SameCall, CallTyped, Phases
  <2>3. CallOK' /\ IEnd' = IEnd /\ Text' = Text
    BY <1>1, <2>2, CallStays
  <2>4. enc'.at = "return" /\ enc'.result = 0 /\ enc'.anchor = enc.src /\ enc'.src = enc.src /\ enc'.size = enc.size
    BY <1>2, <1>t, <2>1 DEF CallTyped
  <2>5. PositionOK'
    BY <1>4, <1>t, <2>1, <2>3, <2>4 DEF PositionOK
  <2>6. CompressBound(enc.size) \in Nat /\ enc.cap < CompressBound(enc.size) /\ ~(enc.fill /\ enc.cap > 0)
    <3>1. enc.cap < 1 /\ enc.fill
      <4>1. enc.type = "u16" => enc.size < Limit64K
        BY <1>1 DEF CallOK
      <4>. QED  BY <1>t, <1>5, <4>1, FastAssumption
    <3>. QED  BY <1>t, <3>1 DEF CompressBound
  <2>7. OutputOK'
    <3>1. enc'.cap = enc.cap /\ enc'.fill = enc.fill /\ enc'.limited = enc.limited /\ enc'.high = enc.high
      BY <1>t, <2>1 DEF CallTyped
    <3>2. OpOK' /\ RoomOK'
      BY <2>4 DEF OpOK, RoomOK
    <3>3. HighOK'
      BY <1>1, <2>4, <3>1 DEF HighOK, Capacity
    <3>4. BlockBound'
      BY <2>4, <2>6, <3>1, <1>t DEF BlockBound
    <3>. QED  BY <3>2, <3>3, <3>4 DEF OutputOK
  <2>8. BlockOK'
    BY <1>1, <1>2, <2>1, <2>3, <2>4, BlockStays
  <2>. QED  BY <2>3, <2>5, <2>7, <2>8 DEF FastInv
<1>7. CASE ~((enc.fill /\ enc.cap < 1) \/ (enc.type = "u16" /\ enc.size >= Limit64K)) /\ enc.size < MinLength
  <2>1. enc' = [enc EXCEPT !.at = "last"] /\ stream' = stream /\ block' = block
    BY <1>7 DEF SetUp
  <2>2. SameCall /\ CallTyped(enc') /\ stream' \in StreamRecord
    BY <1>1, <1>t, <2>1 DEF SameCall, CallTyped, Phases
  <2>3. CallOK' /\ IEnd' = IEnd /\ Text' = Text
    BY <1>1, <2>2, CallStays
  <2>4. /\ enc'.at = "last" /\ enc'.anchor = enc.src /\ enc'.src = enc.src /\ enc'.size = enc.size /\ enc'.op = 0
        /\ enc'.cap = enc.cap /\ enc'.fill = enc.fill /\ enc'.limited = enc.limited /\ enc'.high = enc.high
    BY <1>2, <1>3, <1>t, <2>1 DEF CallTyped
  <2>5. PositionOK'
    BY <1>4, <1>t, <2>1, <2>3, <2>4 DEF PositionOK
  <2>6. OpOK'
    BY <1>t, <2>4 DEF OpOK, Pending, Expanded
  <2>7. HighOK'
    BY <1>1, <2>4 DEF HighOK, Capacity
  <2>8. RoomOK'
    BY <1>7, <1>t, <2>4 DEF RoomOK
  <2>9. BlockBound'
    BY <2>4 DEF BlockBound
  <2>10. BlockOK'
    BY <1>1, <1>2, <2>1, <2>3, <2>4, BlockStays
  <2>. QED  BY <2>3, <2>5, <2>6, <2>7, <2>8, <2>9, <2>10 DEF FastInv, OutputOK
<1>8. CASE ~((enc.fill /\ enc.cap < 1) \/ (enc.type = "u16" /\ enc.size >= Limit64K)) /\ ~(enc.size < MinLength)
  <2>. DEFINE new == PutPosition(stream.table, enc, enc.src)
  <2>1. /\ stream' = [stream EXCEPT !.table = new] /\ enc' = Search(enc, enc.src + 1) /\ block' = block
    BY <1>8 DEF SetUp
  <2>2. new \in [Slots -> Nat] /\ Entered(Text, new, enc.src)
    <3>. DEFINE p == enc.src - 1
                q == enc.src
                table == stream.table
    <3>1. table \in [Slots -> Nat]
      BY <1>1, TableType
    <3>2. p \in Int /\ q \in Int /\ q <= q /\ p <= q /\ enc.src <= q
      BY <1>t
    <3>3. Entered(Text, table, p)
      BY <1>2
    <3>. HIDE DEF p, table, new
    <3>4. /\ PutPosition(table, enc, q) \in [Slots -> Nat]
          /\ Entered(Text, PutPosition(table, enc, q), q)
      <4>. HIDE DEF q
      <4>. QED  BY <1>1, <3>1, <3>2, <3>3, PutPositionEnters
    <3>. QED  BY <3>4 DEF new, table
  <2>3. /\ CallTyped(enc') /\ enc'.at = "search" /\ enc'.anchor = enc.anchor /\ enc'.op = enc.op /\ enc'.high = enc.high
        /\ enc'.src = enc.src /\ enc'.size = enc.size /\ enc'.cap = enc.cap /\ enc'.limited = enc.limited
        /\ enc'.type = enc.type /\ enc'.dict = enc.dict /\ enc'.small = enc.small /\ enc'.acc = enc.acc
        /\ enc'.fill = enc.fill /\ enc'.result = enc.result
        /\ enc'.forward = enc.src + 1 /\ enc'.step = 1 /\ enc'.nb >= 2 ^ SkipTrigger /\ enc'.hash \in Slots
    BY <1>1, <1>t, <1>8, <2>1, SearchStarts
  <2>. HIDE DEF new
  <2>4. stream' \in StreamRecord /\ stream'.table = new
        /\ stream'.dict = stream.dict /\ stream'.dictSize = stream.dictSize /\ stream'.offset = stream.offset
    BY <1>t, <2>1, <2>2 DEF StreamRecord
  <2>5. SameCall
    BY <1>1, <2>3, <2>4 DEF SameCall
  <2>6. CallOK' /\ IEnd' = IEnd /\ Text' = Text
    BY <1>1, <2>3, <2>4, <2>5, CallStays
  <2>7. enc'.anchor = enc.src /\ enc'.op = 0
    BY <1>2, <1>3, <2>3
  <2>8. PositionOK'
    BY <1>t, <1>8, <2>2, <2>3, <2>4, <2>6, <2>7 DEF PositionOK
  <2>9. OpOK'
    BY <1>t, <2>3, <2>7 DEF OpOK, Pending, Expanded
  <2>10. HighOK'
    BY <1>1, <2>3 DEF HighOK, Capacity
  <2>11. RoomOK'
    BY <1>8, <1>t, <2>3, <2>7 DEF RoomOK
  <2>12. BlockBound'
    BY <2>3 DEF BlockBound
  <2>13. BlockOK'
    BY <1>1, <1>2, <2>1, <2>3, <2>6, <2>7, BlockStays
  <2>. QED  BY <2>6, <2>8, <2>9, <2>10, <2>11, <2>12, <2>13 DEF FastInv, OutputOK
<1>. QED  BY <1>5, <1>7, <1>8

\* The search, or a part of a sequence, ends in the last literals.
LEMMA LastKeeps ==
  ASSUME CallOK, PositionOK, OutputOK, BlockOK, mem' = mem, stream' = stream, block' = block,
         enc' = [enc EXCEPT !.at = "last"], enc.at \in {"search", "literals"}
  PROVE  FastInv'
<1>1. CallTyped(enc) /\ stream \in StreamRecord
  BY DEF CallOK
<1>2. SameCall /\ CallTyped(enc') /\ stream' \in StreamRecord
  BY <1>1 DEF SameCall, CallTyped, Phases
<1>3. CallOK' /\ IEnd' = IEnd /\ Text' = Text
  BY <1>2, CallStays
<1>4. /\ enc'.at = "last" /\ enc'.anchor = enc.anchor /\ enc'.src = enc.src /\ enc'.size = enc.size /\ enc'.op = enc.op
      /\ enc'.cap = enc.cap /\ enc'.fill = enc.fill /\ enc'.limited = enc.limited /\ enc'.high = enc.high
  BY <1>1 DEF CallTyped
<1>5. \E p \in Int : p <= IEnd - MFLimit /\ Entered(Text, stream.table, p)
  <2>1. CASE enc.at = "search"
    <3>1. enc.forward - 1 \in Int /\ enc.forward - 1 <= IEnd - MFLimit
      BY <2>1, CallTypes DEF PositionOK
    <3>. QED  BY <2>1, <3>1 DEF PositionOK
  <2>2. CASE enc.at = "literals"
    BY <2>2, CallTypes DEF PositionOK
  <2>. QED  BY <2>1, <2>2
<1>6. Entered(Text, stream.table, IEnd - MFLimit)
  BY <1>5, EnteredToEnd
<1>7. enc.src <= enc.anchor /\ enc.anchor <= IEnd
  BY DEF PositionOK
<1>8. PositionOK'
  BY <1>3, <1>4, <1>6, <1>7 DEF PositionOK
<1>9. OpOK'
  <2>1. Pending = 0 /\ Pending' = 0 /\ OpOK
    BY <1>4 DEF Pending, OutputOK
  <2>. QED  BY <1>4, <2>1 DEF OpOK
<1>10. HighOK'
  <2>1. HighOK
    BY DEF OutputOK
  <2>. QED  BY <1>4, <2>1 DEF HighOK, Capacity
<1>11. RoomOK'
  <2>1. RoomOK
    BY DEF OutputOK
  <2>. QED  BY <1>4, <2>1 DEF RoomOK
<1>12. BlockBound'
  BY <1>4 DEF BlockBound
<1>13. BlockOK'
  BY <1>3, <1>4, BlockStays
<1>. QED  BY <1>3, <1>8, <1>9, <1>10, <1>11, <1>12, <1>13 DEF FastInv, OutputOK

LEMMA FindMatchKeeps ==
  ASSUME FastInv, HashOK, FindMatch
  PROVE  FastInv'
<1>. DEFINE p == enc.forward
            next == p + enc.step
            match == GetPosition(stream.table, enc, enc.hash)
            found == /\ Reaches(match)
                     /\ enc.type = "u16" \/ match + MaxDistance >= p
                     /\ SameFour(match, p)
            v == p - BaseOf(enc)
            new == [stream.table EXCEPT ![enc.hash] = v]
            at == IF found THEN "literals" ELSE "search"
            step == enc.nb \div 2 ^ SkipTrigger
            hash == HashAt(enc, next)
<1>1. CallOK /\ PositionOK /\ OutputOK /\ BlockOK /\ enc.at = "search" /\ mem' = mem /\ block' = block
  BY DEF FastInv, FindMatch
<1>t. /\ enc.src \in Nat /\ enc.size \in Nat /\ IEnd = enc.src + enc.size /\ IEnd \in Int
      /\ p \in Int /\ enc.step \in Int /\ enc.nb \in Int /\ enc.anchor \in Int
      /\ CallTyped(enc) /\ stream \in StreamRecord
  BY <1>1, CallTypes DEF CallOK
<1>2. /\ enc.src <= enc.anchor /\ enc.anchor <= IEnd /\ enc.size >= MinLength /\ enc.anchor < p /\ p <= IEnd - MFLimit + 1
      /\ enc.step >= 1 /\ enc.nb >= 2 ^ SkipTrigger /\ enc.hash \in Slots /\ Entered(Text, stream.table, p - 1)
  BY <1>1 DEF PositionOK
<1>3. CASE next > SearchLimit
  <2>1. enc' = [enc EXCEPT !.at = "last"] /\ stream' = stream
    BY <1>3 DEF FindMatch
  <2>. QED  BY <1>1, <2>1, LastKeeps
<1>4. CASE ~(next > SearchLimit)
  <2>1. /\ stream' = [stream EXCEPT !.table[enc.hash] = v]
        /\ enc' = [enc EXCEPT !.at = at, !.ip = p, !.match = match, !.forward = next, !.step = step,
                              !.nb = @ + 1, !.hash = hash]
    BY <1>4 DEF FindMatch
  <2>2. next \in Int /\ next <= IEnd - MFLimit + 1 /\ p <= IEnd - MFLimit /\ next > p
    <3>1. SearchLimit \in Int /\ SearchLimit <= IEnd - MFLimit + 1
      BY <1>t DEF SearchLimit
    <3>. QED  BY <1>t, <1>2, <1>4, <3>1
  <2>3. hash \in Slots
    BY <1>1, <1>t, <1>2, <2>2, HashType
  <2>4. step \in Int /\ step >= 1
    BY <1>t, <1>2, FastAssumption, DivideAtLeast
  <2>5. new \in [Slots -> Nat] /\ Entered(Text, new, p)
    <3>. DEFINE t == stream.table
                h == enc.hash
    <3>1. t \in [Slots -> Nat] /\ Entered(Text, t, p - 1) /\ p - 1 \in Int /\ enc.src <= p
      BY <1>1, <1>t, <1>2, TableType
    <3>0. p \in Int /\ p <= p /\ p - 1 <= p
      BY <1>t
    <3>. HIDE DEF t, h, p
    <3>2. LET r == [t EXCEPT ![h] = p - BaseOf(enc)] IN r \in [Slots -> Nat] /\ Entered(Text, r, p)
      BY <1>1, <3>0, <3>1, PutEnters
    <3>. QED  BY <3>2 DEF t, h, p
  <2>6. match \in Int
    BY <1>1, <1>t, <1>2, BaseIs, TableType, TextTypes DEF GetPosition
  <2>7. found => Reached(Text, p, match) /\ Alike(Text, p, match, MinMatch)
    <3>. DEFINE t == stream.table[enc.hash]
    <3>1. t \in Nat /\ Entry(Text, t, p - 1)
      BY <1>1, <1>2, TableType DEF Entered
    <3>2. match = t + BaseOf(enc)
      BY DEF GetPosition
    <3>3. p - 1 \in Int /\ p - 1 < p /\ enc.src < p
      BY <1>t, <1>2
    <3>. HIDE DEF t, match, p
    <3>. QED  BY <1>1, <1>t, <2>2, <3>1, <3>2, <3>3, FoundIsReached
  <2>. HIDE DEF v, new, found, match, p, next, step, hash
  <2>8. at \in Phases
    BY DEF Phases
  <2>9. /\ CallTyped(enc')
        /\ enc'.at = at /\ enc'.anchor = enc.anchor /\ enc'.op = enc.op /\ enc'.high = enc.high
        /\ enc'.src = enc.src /\ enc'.size = enc.size /\ enc'.cap = enc.cap /\ enc'.limited = enc.limited
        /\ enc'.type = enc.type /\ enc'.dict = enc.dict /\ enc'.small = enc.small /\ enc'.acc = enc.acc
        /\ enc'.fill = enc.fill /\ enc'.result = enc.result
        /\ enc'.ip = p /\ enc'.match = match /\ enc'.forward = next /\ enc'.step = step /\ enc'.nb = enc.nb + 1
        /\ enc'.hash = hash
    <3>. HIDE DEF at, Phases
    <3>1. hash \in Slots \cup {0}
      BY <2>3
    <3>. QED  BY <1>t, <2>1, <2>2, <2>4, <2>6, <2>8, <3>1 DEF CallTyped
  <2>10. stream' \in StreamRecord /\ stream'.table = new
        /\ stream'.dict = stream.dict /\ stream'.dictSize = stream.dictSize /\ stream'.offset = stream.offset
    <3>1. stream' = [stream EXCEPT !.table = new]
      BY <1>t, <2>1 DEF new
    <3>. QED  BY <1>t, <3>1, <2>5 DEF StreamRecord
  <2>11. SameCall
    BY <1>1, <2>9, <2>10 DEF SameCall
  <2>12. CallOK' /\ IEnd' = IEnd /\ Text' = Text
    BY <1>1, <2>9, <2>10, <2>11, CallStays
  <2>13. PositionOK'
    <3>1. CASE found
      <4>1. enc'.at = "literals"
        BY <2>9, <3>1
      <4>. QED  BY <1>t, <1>2, <2>2, <2>5, <2>7, <2>9, <2>10, <2>12, <3>1, <4>1 DEF PositionOK
    <3>2. CASE ~found
      <4>1. enc'.at = "search"
        BY <2>9, <3>2
      <4>2. Entered(Text, new, next - 1)
        <5>1. p <= next - 1 /\ next - 1 \in Int
          BY <1>t, <2>2 DEF p
        <5>. QED  BY <1>1, <1>t, <2>5, <5>1, EnteredFurther, TextTypes DEF p
      <4>3. enc.anchor < next /\ enc.nb + 1 >= 2 ^ SkipTrigger
        BY <1>t, <1>2, <2>2, FastAssumption DEF p
      <4>. QED  BY <1>t, <1>2, <2>2, <2>3, <2>4, <2>9, <2>10, <2>12, <4>1, <4>2, <4>3 DEF PositionOK
    <3>. QED  BY <3>1, <3>2
  <2>14. enc'.at \in {"search", "literals"}
    BY <2>9
  <2>15. OpOK'
    <3>1. Pending = 0 /\ Pending' = 0 /\ OpOK
      BY <1>1, <2>14 DEF Pending, OutputOK
    <3>. QED  BY <1>1, <2>9, <3>1 DEF OpOK
  <2>16. HighOK'
    <3>1. HighOK
      BY <1>1 DEF OutputOK
    <3>. QED  BY <2>9, <3>1 DEF HighOK, Capacity
  <2>17. RoomOK'
    <3>1. RoomOK
      BY <1>1 DEF OutputOK
    <3>. QED  BY <1>1, <2>9, <2>14, <3>1 DEF RoomOK
  <2>18. BlockBound'
    BY <2>14 DEF BlockBound
  <2>19. BlockOK'
    BY <1>1, <2>9, <2>12, <2>14, BlockStays
  <2>. QED  BY <2>12, <2>13, <2>15, <2>16, <2>17, <2>18, <2>19 DEF FastInv, OutputOK
<1>. QED  BY <1>3, <1>4


\* The call gives up: it has a limit, and less room than the bound.
LEMMA FailKeeps ==
  ASSUME CallOK, PositionOK, OutputOK, BlockOK, mem' = mem, stream' = stream, block' = block,
         enc' = [enc EXCEPT !.at = "return", !.result = 0], enc.at \in {"literals", "match", "last"},
         enc.limited, enc.cap < CompressBound(enc.size)
  PROVE  FastInv'
<1>1. CallTyped(enc) /\ stream \in StreamRecord
  BY DEF CallOK
<1>2. SameCall /\ CallTyped(enc') /\ stream' \in StreamRecord
  BY <1>1 DEF SameCall, CallTyped, Phases
<1>3. CallOK' /\ IEnd' = IEnd /\ Text' = Text
  BY <1>2, CallStays
<1>4. /\ enc'.at = "return" /\ enc'.result = 0 /\ enc'.anchor = enc.anchor /\ enc'.src = enc.src /\ enc'.size = enc.size
      /\ enc'.cap = enc.cap /\ enc'.fill = enc.fill /\ enc'.limited = enc.limited /\ enc'.high = enc.high
  BY <1>1 DEF CallTyped
<1>5. Entered(Text, stream.table, IEnd - MFLimit)
  <2>1. CASE enc.at = "literals"
    BY <2>1, CallTypes, EnteredToEnd DEF PositionOK
  <2>2. CASE enc.at = "match"
    <3>1. PICK q \in enc.ip .. IEnd - MFLimit : Entered(Text, stream.table, q)
      BY <2>2 DEF PositionOK
    <3>2. q \in Int /\ q <= IEnd - MFLimit
      BY <3>1, CallTypes
    <3>. QED  BY <3>1, <3>2, EnteredToEnd
  <2>3. CASE enc.at = "last"
    BY <2>3 DEF PositionOK
  <2>. QED  BY <2>1, <2>2, <2>3
<1>6. enc.src <= enc.anchor /\ enc.anchor <= IEnd
  BY DEF PositionOK
<1>7. PositionOK'
  BY <1>3, <1>4, <1>5, <1>6 DEF PositionOK
<1>8. OpOK'
  BY <1>4 DEF OpOK
<1>9. HighOK'
  <2>1. HighOK
    BY DEF OutputOK
  <2>. QED  BY <1>4, <2>1 DEF HighOK, Capacity
<1>10. RoomOK'
  BY <1>4 DEF RoomOK
<1>11. BlockBound'
  <2>1. ~enc.fill
    BY DEF CallOK
  <2>2. enc.cap \in Nat /\ CompressBound(enc.size) \in Nat
    BY CallTypes DEF CompressBound
  <2>. QED  BY <1>4, <2>1, <2>2 DEF BlockBound
<1>12. BlockOK'
  BY <1>3, <1>4, BlockStays
<1>. QED  BY <1>3, <1>7, <1>8, <1>9, <1>10, <1>11, <1>12 DEF FastInv, OutputOK

\* Literals fit into the bound, and so do the bytes that their copy writes.
LEMMA LiteralsCost ==
  ASSUME NEW d \in Nat, NEW n \in Nat, NEW size \in Nat, d + n <= size - MFLimit, NEW op \in Nat, op <= Expanded(d)
  PROVE  /\ op + 1 + n + (2 + 1 + LastLiterals) + n \div 255 <= CompressBound(size)
         /\ op + 1 + LengthBytes(n) + WildBytes(n) <= CompressBound(size)
<1>1. LengthBytes(n) = (n + 240) \div 255 /\ WildBytes(n) \in Nat /\ WildBytes(n) <= n + 8
  <2>1. LengthBytes(n) = (n + 240) \div 255
    BY LengthBytesIs
  <2>2. WildBytes(n) \in Nat /\ WildBytes(n) <= IF n = 0 THEN 8 ELSE n + 7
    BY WildBytesIs
  <2>3. (IF n = 0 THEN 8 ELSE n + 7) <= n + 8 /\ (IF n = 0 THEN 8 ELSE n + 7) \in Int
    OBVIOUS
  <2>. QED  BY <2>1, <2>2, <2>3
<1>2. CompressBound(size) \in Nat
  BY DEF CompressBound
<1>. QED  BY <1>1 DEF CompressBound, Expanded

\* What is compared backwards is the text.
LEMMA BackIs ==
  ASSUME CallOK, NEW p \in Int, NEW v \in Int, NEW a \in Int, enc.src <= a, a <= p, Reached(Text, p, v),
         NEW from, from = v + DeltaOf(v)
  PROVE  LET k == CountBack(mem, p, from, Min({p - a, from - LowLimitOf(v)}))
         IN /\ k \in 0 .. p - a
            /\ Reached(Text, p - k, v - k)
            /\ \A i \in 0 .. k - 1 : TextAt(Text, p - k + i) = TextAt(Text, v - k + i)
<1>t. /\ enc.src \in Nat /\ stream.dict \in Nat /\ stream.dictSize \in Nat
      /\ Text.src = enc.src /\ Text.mem = mem /\ Text.low = enc.src - stream.dictSize
      /\ Text.delta = DictDelta /\ DictDelta \in Int /\ DictDelta = stream.dict + stream.dictSize - enc.src
  BY CallTypes, TextTypes DEF DictDelta, DictEnd
<1>1. Text.low <= v /\ v < p /\ p - v <= MaxDistance /\ (v < enc.src /\ DictDelta # 0 => v + MinMatch <= enc.src)
  BY <1>t DEF Reached
<1>. DEFINE apart == enc.dict = "external" /\ v < enc.src
            low == LowLimitOf(v)
            k == CountBack(mem, p, from, Min({p - a, from - low}))
<1>2. from \in Int /\ from = IF apart THEN v + DictDelta ELSE v
  BY <1>t DEF DeltaOf, InDictionary
<1>3. /\ low \in Int /\ from - low \in Nat
      /\ from - low <= v - (enc.src - stream.dictSize)
      /\ ~apart /\ DictDelta # 0 => from - low <= v - enc.src
  <2>1. CASE enc.dict = "none"
    <3>1. stream.dictSize = 0
      BY <1>t, <2>1, TextTypes DEF CallOK
    <3>. QED  BY <1>t, <1>1, <1>2, <2>1, <3>1 DEF LowLimitOf
  <2>2. CASE enc.dict = "prefix"
    <3>1. DictDelta = 0
      BY <1>t, <2>2 DEF CallOK, DictDelta
    <3>. QED  BY <1>t, <1>1, <1>2, <2>2, <3>1 DEF LowLimitOf
  <2>3. CASE enc.dict = "external"
    BY <1>t, <1>1, <1>2, <2>3 DEF LowLimitOf
  <2>. QED  BY <2>1, <2>2, <2>3 DEF CallOK, CallTyped
<1>. HIDE DEF low
<1>. DEFINE n == Min({p - a, from - low})
<1>4. n \in Nat /\ n <= p - a /\ n <= from - low
  <2>1. p - a \in Int /\ from - low \in Int
    BY <1>2, <1>3
  <2>2. n = IF p - a <= from - low THEN p - a ELSE from - low
    BY <2>1, MinOfTwo
  <2>. HIDE DEF n
  <2>. QED  BY <1>2, <1>3, <2>2
<1>5. k \in 0 .. n /\ \A i \in 0 .. k - 1 : mem[p - k + i] = mem[from - k + i]
  <2>1. k = CountBack(mem, p, from, n)
    OBVIOUS
  <2>. HIDE DEF n, k
  <2>. QED  BY <1>2, <1>4, <2>1, CountBackIs
<1>. HIDE DEF k, n
<1>6. k \in Nat /\ k <= p - a /\ k <= v - (enc.src - stream.dictSize) /\ (~apart /\ DictDelta # 0 => k <= v - enc.src)
  BY <1>t, <1>2, <1>3, <1>4, <1>5
<1>7. Reached(Text, p - k, v - k)
  BY <1>t, <1>1, <1>6, FastAssumption DEF Reached
<1>8. ASSUME NEW i \in 0 .. k - 1  PROVE TextAt(Text, p - k + i) = TextAt(Text, v - k + i)
  <2>1. p - k + i \in Int /\ p - k + i >= enc.src /\ v - k + i \in Int /\ Text.low <= p - k + i /\ Text.low <= v - k + i
    BY <1>t, <1>6
  <2>2. TextAt(Text, p - k + i) = mem[p - k + i]
    <3>1. ~(p - k + i < enc.src)
      BY <1>t, <2>1
    <3>. QED  BY <2>1, <3>1, SourceText
  <2>3. CASE apart
    <3>1. v - k + i < enc.src /\ v - k + i + DictDelta = from - k + i
      BY <1>t, <1>2, <1>6, <2>1, <2>3
    <3>2. TextAt(Text, v - k + i) = mem[v - k + i + DictDelta]
      BY <1>t, <3>1 DEF TextAt
    <3>. QED  BY <1>5, <2>2, <3>1, <3>2
  <2>4. CASE ~apart
    <3>1. ~(enc.dict = "external" /\ v - k + i < enc.src)
      <4>1. CASE enc.dict = "external"
        <5>1. DictDelta # 0 /\ v >= enc.src
          BY <1>t, <2>4, <4>1, TextTypes DEF CallOK, DictDelta
        <5>. QED  BY <1>t, <1>6, <2>1, <2>4, <5>1
      <4>. QED  BY <4>1
    <3>2. TextAt(Text, v - k + i) = mem[v - k + i]
      BY <2>1, <3>1, SourceText
    <3>. QED  BY <1>2, <1>5, <2>2, <2>4, <3>2
  <2>. QED  BY <2>3, <2>4
<1>9. k \in 0 .. p - a
  BY <1>t, <1>6
<1>. QED  BY <1>7, <1>8, <1>9 DEF k, low

LEMMA EncodeLiteralsKeeps ==
  ASSUME FastInv, EncodeLiterals
  PROVE  FastInv'
<1>. DEFINE from == enc.match + DeltaOf(enc.match)
            back == CountBack(mem, enc.ip, from, Min({enc.ip - enc.anchor, from - LowLimitOf(enc.match)}))
            p == enc.ip - back
            n == p - enc.anchor
            op == enc.op + 1
            start == op + LengthBytes(n)
            lit == Bytes(mem, enc.anchor, n)
            high == Max({enc.high, start + WildBytes(n)})
            cut == enc.fill /\ op + (n + 240) \div 255 + n > enc.cap - 2 - 8 - 1
            full == enc.limited /\ op + n + (2 + 1 + LastLiterals) + n \div 255 > enc.cap
<1>1. CallOK /\ PositionOK /\ OutputOK /\ BlockOK /\ enc.at = "literals"
  BY DEF FastInv, EncodeLiterals
<1>2. mem' = mem /\ stream' = stream /\ block' = block
  BY DEF EncodeLiterals
<1>t. /\ enc.src \in Nat /\ enc.size \in Nat /\ IEnd = enc.src + enc.size /\ enc.anchor \in Int /\ enc.ip \in Int
      /\ enc.op \in Nat /\ enc.high \in Nat /\ enc.cap \in Nat /\ enc.match \in Int
      /\ enc.fill \in BOOLEAN /\ enc.limited \in BOOLEAN
  BY <1>1, CallTypes
<1>3. /\ enc.src <= enc.anchor /\ enc.anchor <= IEnd /\ enc.anchor < enc.ip /\ enc.ip <= IEnd - MFLimit
      /\ Reached(Text, enc.ip, enc.match) /\ Alike(Text, enc.ip, enc.match, MinMatch)
      /\ Entered(Text, stream.table, enc.ip)
  BY <1>1 DEF PositionOK
<1>4. /\ back \in 0 .. enc.ip - enc.anchor
      /\ Reached(Text, enc.ip - back, enc.match - back)
      /\ \A i \in 0 .. back - 1 : TextAt(Text, enc.ip - back + i) = TextAt(Text, enc.match - back + i)
  <2>. DEFINE q == enc.ip
              v == enc.match
              a == enc.anchor
  <2>. HIDE DEF from
  <2>1. CallOK /\ q \in Int /\ v \in Int /\ a \in Int /\ enc.src <= a /\ a <= q /\ Reached(Text, q, v)
        /\ from = v + DeltaOf(v)
    BY <1>1, <1>t, <1>3 DEF from
  <2>. HIDE DEF q, v, a
  <2>2. LET k == CountBack(mem, q, from, Min({q - a, from - LowLimitOf(v)}))
        IN /\ k \in 0 .. q - a
           /\ Reached(Text, q - k, v - k)
           /\ \A i \in 0 .. k - 1 : TextAt(Text, q - k + i) = TextAt(Text, v - k + i)
    BY <2>1, BackIs
  <2>. QED  BY <2>2 DEF q, v, a
<1>. HIDE DEF back
<1>5. /\ back \in Nat /\ p \in Int /\ n \in Nat /\ enc.anchor <= p /\ p <= enc.ip /\ p = enc.anchor + n
      /\ enc.ip - p + MinMatch = back + MinMatch
  BY <1>t, <1>4
<1>6. LengthBytes(n) = (n + 240) \div 255 /\ LengthBytes(n) \in Nat
  BY <1>5, LengthBytesIs
<1>7. WildBytes(n) \in Nat /\ n <= WildBytes(n) /\ WildBytes(n) <= n + 8 /\ (n # 0 => WildBytes(n) <= n + 7)
      /\ (n = 0 => WildBytes(n) <= 8)
  <2>. HIDE DEF n
  <2>. QED  BY <1>5, WildBytesIs
<1>8. lit \in Seq(Nat) /\ Len(lit) = n
  <2>1. \A v \in enc.anchor .. enc.anchor + n - 1 : mem[v] \in Nat
    <3>1. \A v \in enc.anchor .. enc.anchor + n - 1 : v \in enc.src .. IEnd - 1
      BY <1>t, <1>3, <1>5
    <3>. HIDE DEF n
    <3>. QED  BY <1>1, <3>1 DEF CallOK
  <2>. HIDE DEF n
  <2>. QED  BY <1>t, <1>5, <2>1, BytesType
<1>9. high \in Nat /\ (high = enc.high \/ high = start + WildBytes(n))
  <2>1. enc.high \in Int /\ start + WildBytes(n) \in Int
    BY <1>t, <1>6, <1>7
  <2>. DEFINE w == start + WildBytes(n)
  <2>2. high = IF enc.high >= w THEN enc.high ELSE w
    <3>. HIDE DEF w
    <3>. QED  BY <2>1, MaxOfTwo DEF w
  <2>. QED  BY <1>t, <1>6, <1>7, <2>2
<1>10. enc.op \in 0 .. Expanded(enc.anchor - enc.src) /\ enc.anchor - enc.src \in Nat
       /\ enc.anchor - enc.src + n <= enc.size - MFLimit
  <2>1. OpOK /\ Pending = 0
    BY <1>1 DEF OutputOK, Pending
  <2>. QED  BY <1>1, <1>t, <1>3, <1>5, <2>1 DEF OpOK
<1>11. /\ op + n + (2 + 1 + LastLiterals) + n \div 255 <= CompressBound(enc.size)
       /\ start + WildBytes(n) <= CompressBound(enc.size)
  <2>. DEFINE d == enc.anchor - enc.src
  <2>1. /\ enc.op + 1 + n + (2 + 1 + LastLiterals) + n \div 255 <= CompressBound(enc.size)
        /\ enc.op + 1 + LengthBytes(n) + WildBytes(n) <= CompressBound(enc.size)
    <3>1. d \in Nat /\ n \in Nat /\ enc.size \in Nat /\ d + n <= enc.size - MFLimit /\ enc.op \in Nat /\ enc.op <= Expanded(d)
      <4>1. Expanded(d) \in Int
        BY <1>10 DEF Expanded
      <4>. HIDE DEF d, n
      <4>. QED  BY <1>t, <1>5, <1>10, <4>1 DEF d
    <3>. HIDE DEF d, n
    <3>. QED  BY <3>1, LiteralsCost
  <2>. HIDE DEF n
  <2>. QED  BY <1>t, <1>5, <2>1
<1>. HIDE DEF lit, high
<1>12. CASE cut
  <2>1. enc' = [enc EXCEPT !.at = "last"]
    BY <1>12 DEF EncodeLiterals, back
  <2>. QED  BY <1>1, <1>2, <2>1, LastKeeps
<1>13. CASE ~cut /\ full
  <2>1. enc' = [enc EXCEPT !.at = "return", !.result = 0]
    BY <1>13 DEF EncodeLiterals, back
  <2>2. enc.cap < CompressBound(enc.size)
    <3>1. CompressBound(enc.size) \in Int
      BY <1>t DEF CompressBound
    <3>. HIDE DEF n
    <3>. QED  BY <1>t, <1>5, <1>11, <1>13, <3>1
  <2>. QED  BY <1>1, <1>2, <1>13, <2>1, <2>2, FailKeeps
<1>14. CASE ~cut /\ ~full
  <2>1. enc' = [enc EXCEPT !.at = "match", !.ip = p, !.match = enc.match - back, !.lit = lit, !.op = start + n,
                           !.high = high]
    <3>1. CallTyped(enc)
      BY <1>1 DEF CallOK
    <3>. QED  BY <1>14 DEF EncodeLiterals, back, lit, high
  <2>2. start \in Nat /\ start + n \in Nat /\ start + n = enc.op + 1 + LengthBytes(n) + n
    BY <1>t, <1>5, <1>6
  <2>3. enc.match - back \in Int
    BY <1>t, <1>5
  <2>. HIDE DEF p, n, start
  <2>4. /\ CallTyped(enc')
        /\ enc'.at = "match" /\ enc'.anchor = enc.anchor /\ enc'.op = start + n /\ enc'.high = high
        /\ enc'.src = enc.src /\ enc'.size = enc.size /\ enc'.cap = enc.cap /\ enc'.limited = enc.limited
        /\ enc'.type = enc.type /\ enc'.dict = enc.dict /\ enc'.small = enc.small /\ enc'.acc = enc.acc
        /\ enc'.fill = enc.fill /\ enc'.result = enc.result
        /\ enc'.ip = p /\ enc'.match = enc.match - back /\ enc'.lit = lit
    <3>1. CallTyped(enc)
      BY <1>1 DEF CallOK
    <3>. QED  BY <1>5, <1>8, <1>9, <2>1, <2>2, <2>3, <3>1 DEF CallTyped, Phases
  <2>5. SameCall /\ stream' \in StreamRecord
    BY <1>1, <1>2, <2>4 DEF SameCall, CallOK
  <2>6. CallOK' /\ IEnd' = IEnd /\ Text' = Text
    BY <1>1, <2>4, <2>5, CallStays
  <2>7. Reached(Text, p, enc.match - back)
    BY <1>4 DEF p
  <2>8. Alike(Text, p, enc.match - back, enc.ip - p + MinMatch)
    <3>1. ASSUME NEW i \in 0 .. back + MinMatch - 1
          PROVE  TextAt(Text, p + i) = TextAt(Text, enc.match - back + i)
      <4>1. CASE i < back
        <5>1. i \in 0 .. back - 1
          BY <1>5, <4>1
        <5>. QED  BY <1>4, <5>1 DEF p
      <4>2. CASE i >= back
        <5>1. i - back \in 0 .. MinMatch - 1 /\ p + i = enc.ip + (i - back)
              /\ enc.match - back + i = enc.match + (i - back)
          BY <1>t, <1>5, <4>2 DEF p
        <5>2. TextAt(Text, enc.ip + (i - back)) = TextAt(Text, enc.match + (i - back))
          BY <1>3, <5>1 DEF Alike
        <5>. QED  BY <5>1, <5>2
      <4>. QED  BY <1>5, <4>1, <4>2
    <3>. QED  BY <1>5, <3>1 DEF Alike
  <2>9. enc.ip \in p .. IEnd - MFLimit
    BY <1>t, <1>3, <1>5
  <2>10. PositionOK'
    <3>1. \E q \in p .. IEnd - MFLimit :
            Alike(Text, p, enc.match - back, q - p + MinMatch) /\ Entered(Text, stream.table, q)
      BY <1>3, <2>8, <2>9
    <3>2. p = enc.anchor + Len(lit) /\ Bytes(mem, enc.anchor, Len(lit)) = lit
      BY <1>5, <1>8 DEF lit
    <3>. QED  BY <1>2, <1>3, <2>4, <2>6, <2>7, <3>1, <3>2 DEF PositionOK
  <2>11. OpOK'
    <3>1. Pending' = 1 + LengthBytes(n) + n
      BY <1>8, <2>4 DEF Pending
    <3>2. enc'.op - Pending' = enc.op
      <4>1. LengthBytes(n) \in Int /\ n \in Int /\ enc.op \in Int
        BY <1>t, <1>5, <1>6
      <4>2. enc'.op = enc.op + 1 + LengthBytes(n) + n
        BY <2>2, <2>4
      <4>. QED  BY <3>1, <4>1, <4>2
    <3>. QED  BY <1>10, <2>4, <3>2 DEF OpOK
  <2>12. Capacity' = Capacity
    BY <2>4 DEF Capacity
  <2>13. start + WildBytes(n) <= Capacity
    <3>1. CASE enc.fill
      <4>1. start + n <= enc.cap - 11
        BY <1>t, <1>5, <1>6, <1>14, <2>2, <3>1
      <4>. QED  BY <1>t, <1>5, <1>7, <2>2, <3>1, <4>1 DEF Capacity
    <3>2. CASE ~enc.fill /\ enc.limited
      <4>1. enc.op + 1 + n + 8 + n \div 255 <= enc.cap
        BY <1>t, <1>5, <1>14, <3>2
      <4>2. LengthBytes(n) <= n \div 255 + 1 /\ (n = 0 => LengthBytes(n) = 0)
        BY <1>5, <1>6
      <4>3. start = enc.op + 1 + LengthBytes(n)
        BY <1>t, <1>6 DEF start
      <4>. QED  BY <1>t, <1>5, <1>6, <1>7, <3>2, <4>1, <4>2, <4>3 DEF Capacity
    <3>3. CASE ~enc.fill /\ ~enc.limited
      BY <1>11, <3>3 DEF Capacity
    <3>. QED  BY <3>1, <3>2, <3>3
  <2>14. HighOK'
    <3>1. HighOK
      BY <1>1 DEF OutputOK
    <3>. QED  BY <1>9, <2>4, <2>12, <2>13, <3>1 DEF HighOK
  <2>15. RoomOK'
    <3>1. enc.fill => start + n + 11 <= enc.cap
      BY <1>t, <1>5, <1>6, <1>14, <2>2
    <3>. QED  BY <2>4, <3>1 DEF RoomOK
  <2>16. BlockBound'
    BY <2>4 DEF BlockBound
  <2>17. BlockOK'
    BY <1>1, <1>2, <2>4, <2>6, BlockStays
  <2>. QED  BY <2>6, <2>10, <2>11, <2>14, <2>15, <2>16, <2>17 DEF FastInv, OutputOK
<1>. QED  BY <1>12, <1>13, <1>14

\* A sequence is added to the block.
LEMMA BlockGrows ==
  ASSUME CallOK, BlockOK, NEW s \in Sequence, block' = Append(block, s), Faithful(Text, s, enc.anchor),
         enc'.anchor = enc.anchor + Len(s.lit) + s.ml, enc'.src = enc.src, Text' = Text,
         enc'.at # "setup", enc.at # "return",
         (enc'.at = "return" /\ enc'.result > 0) <=> s.ml = 0
  PROVE  BlockOK'
<1>. DEFINE new == Append(block, s)
            last == Len(block) + 1
<1>1. /\ block \in Seq(Sequence) /\ enc.anchor = enc.src + Written(block, last)
      /\ \A i \in DOMAIN block : Faithful(Text, block[i], enc.src + Written(block, i)) /\ block[i].ml # 0
  BY DEF BlockOK
<1>t. enc.src \in Nat /\ Len(s.lit) \in Nat /\ s.ml \in Nat
  BY CallTypes DEF Sequence
<1>. HIDE DEF Sequence
<1>2. /\ new \in Seq(Sequence) /\ Len(new) = last /\ new[last] = s /\ DOMAIN new = 1 .. last
      /\ \A i \in DOMAIN block : new[i] = block[i] /\ i # last
      /\ \A i \in 1 .. last : i = last \/ i \in DOMAIN block
      /\ last \in 1 .. last /\ last \in Nat /\ DOMAIN block \subseteq 1 .. last
  BY <1>1
<1>. HIDE DEF new, last
<1>3. \A i \in 1 .. last : Written(new, i) = Written(block, i)
  <2>1. \A i \in 1 .. Len(block) + 1 : Written(Append(block, s), i) = Written(block, i)
    BY <1>1, WrittenBefore
  <2>. QED  BY <2>1 DEF new, last
<1>4. Written(new, last + 1) = Written(new, last) + Len(s.lit) + s.ml /\ Written(new, last) \in Nat
  <2>1. last \in 1 .. Len(new) /\ last \in 1 .. Len(new) + 1
    BY <1>2
  <2>. QED  BY <1>2, <2>1, WrittenNext, WrittenType
<1>5. enc'.anchor = enc'.src + Written(new, Len(new) + 1)
  <2>1. Written(new, last) = Written(block, last)
    BY <1>2, <1>3
  <2>. QED  BY <1>1, <1>2, <1>4, <1>t, <2>1
<1>6. \A i \in DOMAIN new : Faithful(Text, new[i], enc.src + Written(new, i))
  <2>. SUFFICES ASSUME NEW i \in 1 .. last  PROVE Faithful(Text, new[i], enc.src + Written(block, i))
    BY <1>2, <1>3
  <2>1. CASE i = last
    BY <1>1, <1>2, <2>1
  <2>2. CASE i \in DOMAIN block
    BY <1>1, <1>2, <2>2
  <2>. QED  BY <1>2, <2>1, <2>2
<1>7. \A i \in DOMAIN new : new[i].ml = 0 <=> i = last /\ s.ml = 0
  BY <1>1, <1>2
<1>8. block' = new /\ new # <<>>
  BY <1>2 DEF new
<1>9. CASE s.ml = 0
  BY <1>2, <1>5, <1>6, <1>7, <1>8, <1>9 DEF BlockOK
<1>10. CASE s.ml # 0
  BY <1>2, <1>5, <1>6, <1>7, <1>8, <1>10 DEF BlockOK
<1>. QED  BY <1>9, <1>10

\* A match fits into what its bytes may grow to.
LEMMA MatchCost ==
  ASSUME NEW d \in Nat, NEW n \in Nat, NEW code \in Nat, NEW op \in Nat, op <= Expanded(d) + 1 + LengthBytes(n) + n
  PROVE  op + 2 + LengthBytes(code) <= Expanded(d + n + MinMatch + code)
<1>1. LengthBytes(n) = (n + 240) \div 255 /\ LengthBytes(code) = (code + 240) \div 255
  BY LengthBytesIs
<1>2. LengthBytes(code) <= code
  BY <1>1
<1>3. LengthBytes(n) <= n \div 255 + 1
  BY <1>1
<1>4. d \div 255 + n \div 255 <= (d + n + MinMatch + code) \div 255
  OBVIOUS
<1>5. op <= d + d \div 255 + 1 + LengthBytes(n) + n
  BY DEF Expanded
<1>6. LengthBytes(n) \in Nat /\ LengthBytes(code) \in Nat
  BY LengthBytesIs
<1>7. Expanded(d + n + MinMatch + code) = (d + n + MinMatch + code) + (d + n + MinMatch + code) \div 255
  BY DEF Expanded
<1>. QED  BY <1>2, <1>3, <1>4, <1>5, <1>6, <1>7

\* The length of a match is tested with a byte for every 256, and four bytes
\* of it are written ahead.
LEMMA LengthCost ==
  ASSUME NEW code \in Nat
  PROVE  /\ code <= Largest => LengthBytes(code) <= code \div 256 + 6
         /\ code >= MlMask /\ code <= Largest => 4 * ((code - MlMask) \div 1020) <= code \div 256 + 2
         /\ code >= MlMask => 4 * ((code - MlMask) \div 1020) <= code \div 255
         /\ code \div 256 <= code \div 255
BY LengthBytesIs

\* What the tests and the copies of a match need fits into the bound.
BoundHolds(op, code, size) ==
    /\ op + 2 + (1 + LastLiterals) + code \div 256 <= CompressBound(size)
    /\ op + 2 + LengthBytes(code) <= CompressBound(size)
    /\ code >= MlMask => op + 2 + 4 + 4 * ((code - MlMask) \div 1020) <= CompressBound(size)

LEMMA MatchBound ==
  ASSUME NEW d \in Nat, NEW n \in Nat, NEW code \in Nat, NEW op \in Nat, op <= Expanded(d) + 1 + LengthBytes(n) + n,
         NEW size \in Nat, d + n + MinMatch + code <= size
  PROVE  BoundHolds(op, code, size)
<1>1. LengthBytes(n) <= n \div 255 + 1 /\ LengthBytes(n) \in Nat
  BY LengthBytesIs
<1>2. op <= d + n + 2 + d \div 255 + n \div 255
  BY <1>1 DEF Expanded
<1>3. d \div 255 + n \div 255 + code \div 255 <= size \div 255
  OBVIOUS
<1>4. CompressBound(size) = size + size \div 255 + 16
  BY DEF CompressBound
<1>5. LengthBytes(code) <= code \div 255 + 1 /\ LengthBytes(code) \in Nat
  BY LengthBytesIs
<1>6. code \div 256 <= code \div 255 /\ (code >= MlMask => 4 * ((code - MlMask) \div 1020) <= code \div 255)
  BY LengthCost
<1>7. d \div 255 \in Int /\ n \div 255 \in Int /\ code \div 255 \in Int /\ code \div 256 \in Int /\ size \div 255 \in Int
      /\ (code - MlMask) \div 1020 \in Int
  OBVIOUS
<1>. QED  BY <1>2, <1>3, <1>4, <1>5, <1>6, <1>7 DEF BoundHolds

\* The length of a match that is cut to the room fills the room.
LEMMA CutLength ==
  ASSUME NEW found \in Nat, NEW room \in Nat, (found + 240) \div 255 > room
  PROVE  /\ (15 - 1) + room * 255 \in Nat /\ (15 - 1) + room * 255 <= found
         /\ LengthBytes((15 - 1) + room * 255) = room
<1>1. (15 - 1) + room * 255 \in Nat
  OBVIOUS
<1>2. LengthBytes((15 - 1) + room * 255) = ((15 - 1) + room * 255 + 240) \div 255
  BY <1>1, LengthBytesIs
<1>. QED  BY <1>1, <1>2

\* What is known when the length of a match is written.
LEMMA MatchIsKnown ==
  ASSUME CallOK, PositionOK, enc.at = "match"
  PROVE  LET found == MatchCodeAt(enc.ip, enc.match)
             off == (enc.ip - enc.match) % Window
         IN /\ enc.src <= enc.anchor /\ enc.ip = enc.anchor + Len(enc.lit) /\ Len(enc.lit) \in Nat
            /\ off \in 1 .. MaxDistance /\ enc.ip - off = enc.match /\ enc.match >= Text.low
            /\ found \in Nat /\ enc.ip + MinMatch + found <= MatchLimit
            /\ Alike(Text, enc.ip, enc.match, found + MinMatch)
            /\ Bytes(mem, enc.anchor, Len(enc.lit)) = enc.lit
            /\ \E q \in Int : /\ q <= IEnd - MFLimit /\ q <= enc.ip + found
                              /\ Entered(Text, stream.table, q)
<1>. DEFINE p == enc.ip
            v == enc.match
            found == MatchCodeAt(p, v)
<1>t. /\ enc.src \in Nat /\ IEnd \in Int /\ enc.anchor \in Int /\ p \in Int /\ v \in Int /\ Len(enc.lit) \in Nat
      /\ Text.low \in Int /\ MatchLimit \in Int
  <2>1. IEnd \in Int /\ enc.src \in Nat /\ stream.dictSize \in Nat
    BY CallTypes, TextTypes
  <2>2. MatchLimit \in Int /\ Text.low \in Int
    BY <2>1, TextTypes DEF MatchLimit
  <2>. QED  BY <2>1, <2>2, CallTypes, LitType
<1>1. /\ enc.src <= enc.anchor /\ p = enc.anchor + Len(enc.lit) /\ Bytes(mem, enc.anchor, Len(enc.lit)) = enc.lit
      /\ Reached(Text, p, v)
  BY DEF PositionOK
<1>2. PICK q \in p .. IEnd - MFLimit : Alike(Text, p, v, q - p + MinMatch) /\ Entered(Text, stream.table, q)
  BY DEF PositionOK
<1>. DEFINE k == q - p
            off == (p - v) % Window
<1>3. k \in Nat /\ p + MinMatch + k <= MatchLimit /\ enc.src <= p /\ q \in Int /\ q <= IEnd - MFLimit
  <2>. HIDE DEF p, v
  <2>1. q \in p .. IEnd - MFLimit /\ p \in Int /\ IEnd \in Int /\ MatchLimit = IEnd - 5
    BY <1>t DEF MatchLimit
  <2>2. enc.src <= p
    BY <1>t, <1>1
  <2>. QED  BY <2>1, <2>2
<1>. HIDE DEF p, v
<1>4. found \in k .. MatchLimit - (p + MinMatch) /\ Alike(Text, p, v, found + MinMatch)
  <2>1. Alike(Text, p, v, k + MinMatch)
    BY <1>2
  <2>. HIDE DEF k, found
  <2>2. LET n == MatchCodeAt(p, v)
        IN n \in k .. MatchLimit - (p + MinMatch) /\ Alike(Text, p, v, n + MinMatch)
    BY <1>t, <1>1, <1>3, <2>1, MatchCodeIs
  <2>. QED  BY <2>2 DEF found
<1>. HIDE DEF found
<1>5. found \in Nat /\ p + MinMatch + found <= MatchLimit /\ q <= p + found
  BY <1>t, <1>3, <1>4
<1>6. Text.low <= v /\ v < p /\ p - v <= Window - 1
  BY <1>1 DEF Reached
<1>7. off = p - v
  <2>1. p - v \in 0 .. Window - 1 /\ Window \in Nat /\ Window > 0
    BY <1>t, <1>6, FastAssumption
  <2>. DEFINE x == p - v
  <2>. HIDE DEF x
  <2>2. x % Window = x
    BY <2>1 DEF x
  <2>. QED  BY <2>2 DEF x
<1>. HIDE DEF off
<1>8. off \in 1 .. MaxDistance /\ p - off = v
  BY <1>t, <1>6, <1>7, FastAssumption
<1>9. \E w \in Int : w <= IEnd - MFLimit /\ w <= p + found /\ Entered(Text, stream.table, w)
  BY <1>2, <1>3, <1>5
<1>. QED  BY <1>t, <1>1, <1>4, <1>5, <1>6, <1>8, <1>9 DEF p, v, found, off

LEMMA AlikeLess ==
  ASSUME NEW c, NEW p, NEW v, NEW k \in Nat, NEW l \in 0 .. k, Alike(c, p, v, k)
  PROVE  Alike(c, p, v, l)
<1>1. \A i \in 0 .. l - 1 : i \in 0 .. k - 1
  OBVIOUS
<1>. QED  BY <1>1 DEF Alike

LEMMA EncodeMatchKeeps ==
  ASSUME FastInv, EncodeMatch
  PROVE  FastInv'
<1>. DEFINE op == enc.op + 2
            found == MatchCodeAt(enc.ip, enc.match)
            room == enc.cap - (LastLiterals + 1) - op
            cut == enc.fill /\ (found + 240) \div 255 > room
            code == IF enc.fill /\ (found + 240) \div 255 > room THEN (15 - 1) + room * 255 ELSE found
            p == enc.ip + MinMatch + code
            end == op + LengthBytes(code)
            full == enc.limited /\ op + (1 + LastLiterals) + code \div 256 > enc.cap
            off == (enc.ip - enc.match) % Window
            s == Match(enc.lit, off, MinMatch + code)
            ahead == IF code >= MlMask /\ ~enc.fill THEN op + 4 + 4 * ((code - MlMask) \div 1020) ELSE 0
            high == Max({enc.high, end, ahead})
            at == IF p >= IEnd - MFLimit + 1 \/ (enc.fill /\ end > enc.cap - 2 - 8 - 1 - 1) THEN "last" ELSE "next"
            n == Len(enc.lit)
            d == enc.anchor - enc.src
<1>1. CallOK /\ PositionOK /\ OutputOK /\ BlockOK /\ enc.at = "match" /\ mem' = mem
  BY DEF FastInv, EncodeMatch
<1>t. /\ enc.src \in Nat /\ enc.size \in Nat /\ IEnd = enc.src + enc.size /\ enc.anchor \in Int /\ enc.ip \in Int
      /\ enc.op \in Nat /\ enc.high \in Nat /\ enc.cap \in Nat /\ enc.match \in Int
      /\ enc.fill \in BOOLEAN /\ enc.limited \in BOOLEAN /\ MatchLimit = IEnd - 5
  BY <1>1, CallTypes DEF MatchLimit
<1>l. enc.lit \in Seq(Nat)
  BY <1>1, LitType
<1>2. /\ enc.src <= enc.anchor /\ enc.ip = enc.anchor + n /\ n \in Nat
      /\ off \in 1 .. MaxDistance /\ enc.ip - off = enc.match /\ enc.match >= Text.low
      /\ found \in Nat /\ enc.ip + MinMatch + found <= MatchLimit
  BY <1>1, MatchIsKnown
<1>a. Alike(Text, enc.ip, enc.match, found + MinMatch) /\ Bytes(mem, enc.anchor, n) = enc.lit
  BY <1>1, MatchIsKnown
<1>3. PICK q \in Int : q <= IEnd - MFLimit /\ q <= enc.ip + found /\ Entered(Text, stream.table, q)
  BY <1>1, MatchIsKnown
<1>. HIDE DEF found, off, n
<1>4. enc.fill => room \in Nat /\ room >= 3
  <2>1. enc.fill => enc.op + 11 <= enc.cap
    BY <1>1 DEF OutputOK, RoomOK
  <2>. QED  BY <1>t, <2>1
<1>5. /\ code \in Nat /\ code <= found /\ (cut => LengthBytes(code) = room)
      /\ (~cut => code = found /\ (enc.fill => LengthBytes(code) <= room))
  <2>1. CASE cut
    <3>. HIDE DEF room
    <3>1. code = (15 - 1) + room * 255
      BY <2>1
    <3>. HIDE DEF code
    <3>. QED  BY <1>2, <1>4, <2>1, <3>1, CutLength
  <2>2. CASE ~cut
    <3>1. code = found
      BY <2>2
    <3>2. LengthBytes(found) = (found + 240) \div 255
      BY <1>2, LengthBytesIs
    <3>. HIDE DEF code
    <3>. QED  BY <1>2, <1>4, <2>2, <3>1, <3>2
  <2>. QED  BY <2>1, <2>2
<1>6. LengthBytes(code) \in Nat /\ LengthBytes(n) \in Nat
  <2>. HIDE DEF code
  <2>. QED  BY <1>2, <1>5, LengthBytesIs
<1>7. d \in Nat /\ enc.op \in Nat /\ enc.op <= Expanded(d) + 1 + LengthBytes(n) + n
  <2>1. Pending = 1 + LengthBytes(n) + n /\ enc.op - Pending \in 0 .. Expanded(d)
    BY <1>1 DEF OutputOK, OpOK, Pending, n
  <2>2. d \in Nat
    BY <1>t, <1>2
  <2>3. Expanded(d) \in Int
    BY <2>2 DEF Expanded
  <2>. HIDE DEF d
  <2>. QED  BY <1>t, <1>2, <1>6, <2>1, <2>2, <2>3
<1>8. d + n + MinMatch + code = p - enc.src /\ d + n + MinMatch + code <= enc.size /\ p <= IEnd /\ p \in Int
      /\ enc.src + MinMatch <= p
  <2>. HIDE DEF code
  <2>. QED  BY <1>t, <1>2, <1>5
<1>. HIDE DEF code, d
<1>9. end \in Nat /\ end <= Expanded(p - enc.src)
  <2>1. enc.op + 2 + LengthBytes(code) <= Expanded(d + n + MinMatch + code)
    BY <1>2, <1>5, <1>7, MatchCost
  <2>. QED  BY <1>t, <1>6, <1>8, <2>1
<1>10. /\ op + (1 + LastLiterals) + code \div 256 <= CompressBound(enc.size)
       /\ end <= CompressBound(enc.size)
       /\ code >= MlMask => op + 4 + 4 * ((code - MlMask) \div 1020) <= CompressBound(enc.size)
       /\ CompressBound(enc.size) \in Nat
  <2>1. /\ enc.op + 2 + (1 + LastLiterals) + code \div 256 <= CompressBound(enc.size)
        /\ enc.op + 2 + LengthBytes(code) <= CompressBound(enc.size)
        /\ code >= MlMask => enc.op + 2 + 4 + 4 * ((code - MlMask) \div 1020) <= CompressBound(enc.size)
    <3>1. d \in Nat /\ n \in Nat /\ code \in Nat /\ enc.op \in Nat /\ enc.size \in Nat
          /\ enc.op <= Expanded(d) + 1 + LengthBytes(n) + n /\ d + n + MinMatch + code <= enc.size
      BY <1>t, <1>2, <1>5, <1>7, <1>8
    <3>2. BoundHolds(enc.op, code, enc.size)
      BY <3>1, MatchBound
    <3>. QED  BY <3>2 DEF BoundHolds
  <2>2. CompressBound(enc.size) \in Nat
    BY <1>t DEF CompressBound
  <2>. QED  BY <2>1, <2>2
<1>11. CASE full
  <2>1. enc' = [enc EXCEPT !.at = "return", !.result = 0] /\ stream' = stream /\ block' = block
    BY <1>11 DEF EncodeMatch, Return, code, found
  <2>2. enc.cap < CompressBound(enc.size)
    BY <1>t, <1>5, <1>10, <1>11
  <2>. QED  BY <1>1, <1>11, <2>1, <2>2, FailKeeps
<1>12. CASE ~full
  <2>1. /\ block' = Append(block, s) /\ stream' = stream
        /\ enc' = [enc EXCEPT !.at = at, !.ip = p, !.anchor = p, !.op = end, !.high = high]
    <3>1. CallTyped(enc)
      BY <1>1 DEF CallOK
    <3>. QED  BY <1>12 DEF EncodeMatch, code, found, off
  <2>2. high \in Nat /\ high \in {enc.high, end, ahead}
    <3>1. ahead \in Nat
      BY <1>t, <1>5
    <3>. HIDE DEF ahead, end
    <3>2. enc.high \in Int /\ end \in Int /\ ahead \in Int
      BY <1>t, <1>9, <3>1
    <3>3. high \in {enc.high, end, ahead}
      BY <3>2, MaxOfThree
    <3>. HIDE DEF high
    <3>. QED  BY <1>t, <1>9, <3>1, <3>3
  <2>. HIDE DEF p, end, high, at, s, ahead, off
  <2>3. MinMatch + code \in Nat \ {0} /\ off \in Nat
    BY <1>2, <1>5, FastAssumption
  <2>4. s \in Sequence /\ s.lit = enc.lit /\ s.off = off /\ s.ml = MinMatch + code /\ Len(s.lit) = n
    BY <1>l, <2>3 DEF s, Match, Sequence, n
  <2>5. at \in {"last", "next"}
    BY DEF at
  <2>6. /\ CallTyped(enc')
        /\ enc'.at = at /\ enc'.anchor = p /\ enc'.op = end /\ enc'.high = high
        /\ enc'.src = enc.src /\ enc'.size = enc.size /\ enc'.cap = enc.cap /\ enc'.limited = enc.limited
        /\ enc'.type = enc.type /\ enc'.dict = enc.dict /\ enc'.small = enc.small /\ enc'.acc = enc.acc
        /\ enc'.fill = enc.fill /\ enc'.result = enc.result
        /\ enc'.ip = p
    <3>1. CallTyped(enc)
      BY <1>1 DEF CallOK
    <3>2. at \in Phases
      BY <2>5 DEF Phases
    <3>. QED  BY <1>8, <1>9, <2>1, <2>2, <3>1, <3>2 DEF CallTyped
  <2>7. SameCall /\ stream' \in StreamRecord
    BY <1>1, <2>1, <2>6 DEF SameCall, CallOK
  <2>8. CallOK' /\ IEnd' = IEnd /\ Text' = Text
    BY <1>1, <2>6, <2>7, CallStays
  <2>9. cut => at = "last"
    <3>1. cut => enc.fill /\ end = enc.cap - 6
      BY <1>t, <1>4, <1>5 DEF end
    <3>. QED  BY <1>t, <3>1 DEF at
  <2>10. Entered(Text, stream.table, IEnd - MFLimit)
    BY <1>1, <1>3, EnteredToEnd
  <2>11. at = "next" => p <= IEnd - MFLimit /\ (enc.fill => end + 12 <= enc.cap)
    BY <1>t, <1>8, <1>9 DEF at
  <2>12. at = "next" => Entered(Text, stream.table, p - 1)
    <3>1. at = "next" => q <= p - 1 /\ p - 1 \in Int
      BY <1>t, <1>2, <1>3, <1>5, <1>8, <2>9 DEF p
    <3>2. Text.offset \in Nat /\ Text.src \in Nat /\ stream.table \in [Slots -> Nat]
      BY <1>1, <1>t, TextTypes, TableType
    <3>. QED  BY <1>3, <3>1, <3>2, EnteredFurther
  <2>13. PositionOK'
    BY <1>t, <1>8, <2>1, <2>5, <2>6, <2>8, <2>10, <2>11, <2>12 DEF PositionOK
  <2>14. OpOK'
    <3>1. Pending' = 0
      BY <2>5, <2>6 DEF Pending
    <3>2. Expanded(p - enc.src) \in Int
      BY <1>t, <1>8 DEF Expanded
    <3>. QED  BY <1>9, <2>6, <3>1, <3>2 DEF OpOK
  <2>15. Capacity' = Capacity
    BY <2>6 DEF Capacity
  <2>16. (enc.limited => enc.size <= Largest) => end <= Capacity /\ ahead <= Capacity
    <3>. SUFFICES ASSUME enc.limited => enc.size <= Largest  PROVE end <= Capacity /\ ahead <= Capacity
      OBVIOUS
    <3>0. code <= enc.size
      BY <1>t, <1>2, <1>5, <1>7, <1>8
    <3>1. CASE enc.fill
      <4>1. LengthBytes(code) <= room /\ Capacity = enc.cap /\ ahead = 0
        BY <1>4, <1>5, <3>1 DEF Capacity, ahead
      <4>. QED  BY <1>t, <1>4, <1>6, <3>1, <4>1 DEF end
    <3>2. CASE ~enc.fill /\ enc.limited
      <4>1. enc.op + 2 + 6 + code \div 256 <= enc.cap /\ Capacity = enc.cap
        BY <1>t, <1>5, <1>12, <3>2 DEF Capacity
      <4>2. code <= Largest
        BY <1>t, <1>5, <3>0, <3>2
      <4>3. LengthBytes(code) <= code \div 256 + 6
            /\ (code >= MlMask => 4 * ((code - MlMask) \div 1020) <= code \div 256 + 2)
        BY <1>5, <4>2, LengthCost
      <4>4. end <= enc.cap
        BY <1>t, <1>5, <1>6, <4>1, <4>3 DEF end
      <4>5. ahead <= enc.cap
        BY <1>t, <1>5, <4>1, <4>3 DEF ahead
      <4>. QED  BY <4>1, <4>4, <4>5
    <3>3. CASE ~enc.fill /\ ~enc.limited
      <4>1. Capacity = CompressBound(enc.size)
        BY <3>3 DEF Capacity
      <4>2. code >= MlMask => ahead = op + 4 + 4 * ((code - MlMask) \div 1020)
        BY <3>3 DEF ahead
      <4>3. ~(code >= MlMask) => ahead = 0
        BY DEF ahead
      <4>. QED  BY <1>10, <4>1, <4>2, <4>3
    <3>. QED  BY <3>1, <3>2, <3>3
  <2>17. HighOK'
    <3>1. HighOK
      BY <1>1 DEF OutputOK
    <3>. QED  BY <2>2, <2>6, <2>15, <2>16, <3>1 DEF HighOK
  <2>18. RoomOK'
    <3>1. enc.fill => end + 6 <= enc.cap
      BY <1>t, <1>4, <1>5, <1>6 DEF end
    <3>. QED  BY <1>t, <1>9, <2>5, <2>6, <2>11, <3>1 DEF RoomOK
  <2>19. BlockBound'
    BY <2>5, <2>6 DEF BlockBound
  <2>20. BlockOK'
    <3>1. Faithful(Text, s, enc.anchor)
      <4>1. enc.anchor + n = enc.ip /\ Text.mem = mem
        BY <1>2 DEF Text
      <4>2. Alike(Text, enc.ip, enc.match, MinMatch + code)
        <5>1. found + MinMatch \in Nat /\ MinMatch + code \in 0 .. found + MinMatch
          BY <1>2, <1>5
        <5>. DEFINE k == found + MinMatch
                    l == MinMatch + code
        <5>. HIDE DEF k, l
        <5>2. k \in Nat /\ l \in 0 .. k /\ Alike(Text, enc.ip, enc.match, k)
          BY <1>a, <5>1 DEF k, l
        <5>. QED  BY <5>2, AlikeLess DEF l
      <4>. QED  BY <1>2, <1>a, <2>4, <4>1, <4>2 DEF Faithful
    <3>2. enc'.anchor = enc.anchor + Len(s.lit) + s.ml
      <4>1. enc'.anchor = enc.ip + MinMatch + code /\ Len(s.lit) = n /\ s.ml = MinMatch + code
        BY <2>4, <2>6 DEF p
      <4>2. enc.ip = enc.anchor + n /\ enc.anchor \in Int /\ n \in Int /\ code \in Int
        BY <1>t, <1>2, <1>5
      <4>. QED  BY <4>1, <4>2
    <3>3. s.ml # 0 /\ enc'.at # "return" /\ enc'.at # "setup" /\ enc.at # "return"
      BY <1>1, <2>3, <2>4, <2>5, <2>6
    <3>. QED  BY <1>1, <2>1, <2>4, <2>6, <2>8, <3>1, <3>2, <3>3, BlockGrows
  <2>. QED  BY <2>8, <2>13, <2>14, <2>17, <2>18, <2>19, <2>20 DEF FastInv, OutputOK
<1>. QED  BY <1>11, <1>12

LEMMA TestNextKeeps ==
  ASSUME FastInv, HashOK, TestNext
  PROVE  FastInv'
<1>. DEFINE p == enc.ip
            filled == PutPosition(stream.table, enc, p - 2)
            h == HashAt(enc, p)
            match == GetPosition(filled, enc, h)
            found == Reaches(match) /\ match + MaxDistance >= p /\ SameFour(match, p)
            new == PutPosition(filled, enc, p)
<1>1. CallOK /\ PositionOK /\ OutputOK /\ BlockOK /\ enc.at = "next" /\ mem' = mem /\ block' = block
  BY DEF FastInv, TestNext
<1>t. /\ enc.src \in Nat /\ enc.size \in Nat /\ IEnd = enc.src + enc.size /\ enc.anchor \in Int /\ p \in Int
      /\ enc.op \in Nat /\ enc.cap \in Nat
  BY <1>1, CallTypes
<1>2. /\ p = enc.anchor /\ enc.src + MinMatch <= p /\ p <= IEnd - MFLimit
      /\ Entered(Text, stream.table, p - 1)
  BY <1>1 DEF PositionOK
<1>3. filled \in [Slots -> Nat] /\ Entered(Text, filled, p - 1)
  <2>. DEFINE q == p - 2
              r == p - 1
              t == stream.table
  <2>1. q \in Int /\ r \in Int /\ enc.src <= q /\ q <= r /\ r <= r /\ t \in [Slots -> Nat] /\ Entered(Text, t, r)
    BY <1>1, <1>t, <1>2, TableType
  <2>. HIDE DEF q, r, t
  <2>2. PutPosition(t, enc, q) \in [Slots -> Nat] /\ Entered(Text, PutPosition(t, enc, q), r)
    BY <1>1, <2>1, PutPositionEnters
  <2>. QED  BY <2>2 DEF q, r, t
<1>. HIDE DEF filled
<1>4. new \in [Slots -> Nat] /\ Entered(Text, new, p)
  <2>. DEFINE r == p - 1
  <2>1. p \in Int /\ r \in Int /\ enc.src <= p /\ p <= p /\ r <= p /\ Entered(Text, filled, r)
    BY <1>t, <1>2, <1>3
  <2>. HIDE DEF r, p
  <2>. QED  BY <1>1, <1>3, <2>1, PutPositionEnters DEF p
<1>5. h \in Slots
  BY <1>1, <1>t, <1>2, HashType
<1>. HIDE DEF h
<1>6. filled[h] \in Nat /\ Entry(Text, filled[h], p - 1) /\ match = filled[h] + BaseOf(enc)
  BY <1>3, <1>5 DEF Entered, GetPosition
<1>. HIDE DEF match
<1>7. found => match \in Int /\ Reached(Text, p, match) /\ Alike(Text, p, match, MinMatch)
  <2>. DEFINE t == filled[h]
              f == p - 1
  <2>1. f \in Int /\ f < p /\ enc.src < p /\ p \in Int /\ p <= IEnd - MFLimit
    BY <1>t, <1>2
  <2>2. t \in Nat /\ Entry(Text, t, f) /\ match = t + BaseOf(enc)
    BY <1>6
  <2>. HIDE DEF t, f, p
  <2>. QED  BY <1>1, <2>1, <2>2, FoundIsReached
<1>. HIDE DEF found, new
<1>8. Pending = 0 /\ enc.op \in 0 .. Expanded(enc.anchor - enc.src) /\ (enc.fill => enc.op + 12 <= enc.cap)
  BY <1>1, <1>t DEF OutputOK, OpOK, Pending, RoomOK
<1>9. CASE found
  <2>1. enc' = [enc EXCEPT !.at = "match", !.match = match, !.lit = <<>>, !.op = enc.op + 1]
        /\ stream' = [stream EXCEPT !.table = new]
    <3>1. CallTyped(enc)
      BY <1>1 DEF CallOK
    <3>. QED  BY <1>9 DEF TestNext, filled, h, match, found, new
  <2>2. <<>> \in Seq(Nat) /\ Len(<<>>) = 0 /\ Bytes(mem, enc.anchor, 0) = <<>>
    BY DEF Bytes
  <2>3. /\ CallTyped(enc')
        /\ enc'.at = "match" /\ enc'.anchor = enc.anchor /\ enc'.op = enc.op + 1 /\ enc'.high = enc.high
        /\ enc'.src = enc.src /\ enc'.size = enc.size /\ enc'.cap = enc.cap /\ enc'.limited = enc.limited
        /\ enc'.type = enc.type /\ enc'.dict = enc.dict /\ enc'.small = enc.small /\ enc'.acc = enc.acc
        /\ enc'.fill = enc.fill /\ enc'.result = enc.result
        /\ enc'.ip = p /\ enc'.match = match /\ enc'.lit = <<>>
    <3>1. CallTyped(enc) /\ enc.op + 1 \in Nat
      BY <1>1, <1>t DEF CallOK
    <3>. QED  BY <1>7, <1>9, <2>1, <2>2, <3>1 DEF CallTyped, Phases
  <2>4. stream' \in StreamRecord /\ stream'.table = new
        /\ stream'.dict = stream.dict /\ stream'.dictSize = stream.dictSize /\ stream'.offset = stream.offset
    BY <1>1, <1>4, <2>1 DEF StreamRecord, CallOK
  <2>5. SameCall
    BY <1>1, <2>3, <2>4 DEF SameCall
  <2>6. CallOK' /\ IEnd' = IEnd /\ Text' = Text
    BY <1>1, <2>3, <2>4, <2>5, CallStays
  <2>7. PositionOK'
    <3>1. \E q \in p .. IEnd - MFLimit : Alike(Text, p, match, q - p + MinMatch) /\ Entered(Text, new, q)
      <4>1. p \in p .. IEnd - MFLimit /\ p - p + MinMatch = MinMatch
        BY <1>t, <1>2
      <4>. QED  BY <1>4, <1>7, <1>9, <4>1
    <3>2. p = enc.anchor + Len(<<>>) /\ enc.src <= enc.anchor /\ enc.anchor <= IEnd
      BY <1>t, <1>2, <2>2
    <3>3. /\ enc'.ip = enc'.anchor + Len(enc'.lit) /\ Bytes(mem', enc'.anchor, Len(enc'.lit)) = enc'.lit
          /\ Reached(Text', enc'.ip, enc'.match)
      BY <1>1, <1>7, <1>9, <2>2, <2>3, <2>6, <3>2
    <3>. QED  BY <2>3, <2>4, <2>6, <3>1, <3>2, <3>3 DEF PositionOK
  <2>8. OpOK'
    <3>1. LengthBytes(0) = 0
      BY DEF LengthBytes
    <3>2. Pending' = 1 /\ enc'.op - Pending' = enc.op
      BY <1>t, <2>2, <2>3, <3>1 DEF Pending
    <3>. QED  BY <1>8, <2>3, <3>2 DEF OpOK
  <2>9. HighOK'
    <3>1. HighOK
      BY <1>1 DEF OutputOK
    <3>. QED  BY <2>3, <3>1 DEF HighOK, Capacity
  <2>10. RoomOK'
    BY <1>t, <1>8, <2>3 DEF RoomOK
  <2>11. BlockBound'
    BY <2>3 DEF BlockBound
  <2>12. BlockOK'
    BY <1>1, <2>3, <2>6, BlockStays
  <2>. QED  BY <2>6, <2>7, <2>8, <2>9, <2>10, <2>11, <2>12 DEF FastInv, OutputOK
<1>10. CASE ~found
  <2>1. enc' = Search(enc, p + 1) /\ stream' = [stream EXCEPT !.table = new]
    BY <1>10 DEF TestNext, filled, h, match, found, new
  <2>2. p + 1 \in Int /\ enc.src <= p + 1 /\ p + 1 + 5 <= IEnd /\ p + 1 <= IEnd - MFLimit + 1 /\ enc.size >= MinLength
        /\ p + 1 - 1 = p
    BY <1>t, <1>2
  <2>. DEFINE next == p + 1
  <2>. HIDE DEF next
  <2>3. /\ CallTyped(enc') /\ enc'.at = "search" /\ enc'.anchor = enc.anchor /\ enc'.op = enc.op /\ enc'.high = enc.high
        /\ enc'.src = enc.src /\ enc'.size = enc.size /\ enc'.cap = enc.cap /\ enc'.limited = enc.limited
        /\ enc'.type = enc.type /\ enc'.dict = enc.dict /\ enc'.small = enc.small /\ enc'.acc = enc.acc
        /\ enc'.fill = enc.fill /\ enc'.result = enc.result
        /\ enc'.forward = next /\ enc'.step = 1 /\ enc'.nb >= 2 ^ SkipTrigger /\ enc'.hash \in Slots
    <3>1. next \in Int /\ enc.src <= next /\ next + 5 <= IEnd /\ enc' = Search(enc, next)
      BY <2>1, <2>2 DEF next
    <3>. QED  BY <1>1, <3>1, SearchStarts
  <2>4. stream' \in StreamRecord /\ stream'.table = new
        /\ stream'.dict = stream.dict /\ stream'.dictSize = stream.dictSize /\ stream'.offset = stream.offset
    BY <1>1, <1>4, <2>1 DEF StreamRecord, CallOK
  <2>5. SameCall
    BY <1>1, <2>3, <2>4 DEF SameCall
  <2>6. CallOK' /\ IEnd' = IEnd /\ Text' = Text
    BY <1>1, <2>3, <2>4, <2>5, CallStays
  <2>7. PositionOK'
    <3>1. next - 1 = p /\ next <= IEnd - MFLimit + 1 /\ enc.anchor < next /\ enc.src <= enc.anchor /\ enc.anchor <= IEnd
      BY <1>t, <1>2, <2>2 DEF next
    <3>2. Entered(Text', stream'.table, enc'.forward - 1)
      BY <1>4, <2>3, <2>4, <2>6, <3>1
    <3>. QED  BY <2>2, <2>3, <2>6, <3>1, <3>2 DEF PositionOK
  <2>8. OpOK'
    <3>1. Pending' = 0
      BY <2>3 DEF Pending
    <3>. QED  BY <1>t, <1>8, <2>3, <3>1 DEF OpOK
  <2>9. HighOK'
    <3>1. HighOK
      BY <1>1 DEF OutputOK
    <3>. QED  BY <2>3, <3>1 DEF HighOK, Capacity
  <2>10. RoomOK'
    BY <1>t, <1>8, <2>3 DEF RoomOK
  <2>11. BlockBound'
    BY <2>3 DEF BlockBound
  <2>12. BlockOK'
    BY <1>1, <2>3, <2>6, BlockStays
  <2>. QED  BY <2>6, <2>7, <2>8, <2>9, <2>10, <2>11, <2>12 DEF FastInv, OutputOK
<1>. QED  BY <1>9, <1>10

\* The last literals: all that is left, or what the room takes of it.
LEMMA LastCost ==
  ASSUME NEW d \in Nat, NEW run \in Nat, NEW op \in Nat, op <= Expanded(d), NEW size \in Nat, d + run = size
  PROVE  op + run + 1 + (run + 240) \div 255 <= CompressBound(size)
<1>1. op <= d + d \div 255
  BY DEF Expanded
<1>2. d \div 255 + run \div 255 <= size \div 255 /\ (run + 240) \div 255 <= run \div 255 + 1
  OBVIOUS
<1>3. CompressBound(size) = size + size \div 255 + 16
  BY DEF CompressBound
<1>. QED  BY <1>1, <1>2, <1>3

LEMMA CutRun ==
  ASSUME NEW run \in Nat, NEW room \in Nat, (run + 240) \div 255 + run > room,
         NEW n, n = room - (room + 240) \div 255
  PROVE  n \in 0 .. run /\ n + (n + 240) \div 255 <= room /\ (room >= 2 => n >= 1)
<1>1. n \in Nat /\ n <= room /\ (room >= 2 => n >= 1)
  OBVIOUS
<1>2. n <= run
  OBVIOUS
<1>3. (n + 240) \div 255 <= (room + 240) \div 255
  BY <1>1
<1>. QED  BY <1>1, <1>2, <1>3

LEMMA EncodeLastKeeps ==
  ASSUME FastInv, EncodeLast
  PROVE  FastInv'
<1>. DEFINE run == IEnd - enc.anchor
            room == enc.cap - enc.op - 1
            cut == enc.fill /\ (run + 240) \div 255 + run > room
            n == IF enc.fill /\ (run + 240) \div 255 + run > room THEN room - (room + 240) \div 255 ELSE run
            end == enc.op + 1 + LengthBytes(n) + n
            full == enc.limited /\ enc.op + run + 1 + (run + 255 - RunMask) \div 255 > enc.cap
            s == LastRun(Bytes(mem, enc.anchor, n))
            d == enc.anchor - enc.src
            high == Max({enc.high, end})
<1>1. CallOK /\ PositionOK /\ OutputOK /\ BlockOK /\ enc.at = "last" /\ mem' = mem
  BY DEF FastInv, EncodeLast, LastLiteralsAt
<1>t. /\ enc.src \in Nat /\ enc.size \in Nat /\ enc.size >= 1 /\ IEnd = enc.src + enc.size /\ enc.anchor \in Int
      /\ enc.op \in Nat /\ enc.high \in Nat /\ enc.cap \in Nat /\ enc.fill \in BOOLEAN /\ enc.limited \in BOOLEAN
  BY <1>1, CallTypes
<1>2. enc.src <= enc.anchor /\ enc.anchor <= IEnd /\ Entered(Text, stream.table, IEnd - MFLimit)
  BY <1>1 DEF PositionOK
<1>3. run \in Nat /\ d \in Nat /\ d + run = enc.size
  BY <1>t, <1>2
<1>4. Pending = 0 /\ enc.op <= Expanded(d) /\ (enc.fill => room \in Nat)
  <2>1. enc.op - 0 \in 0 .. Expanded(d) /\ Pending = 0
    BY <1>1 DEF OutputOK, OpOK, Pending
  <2>2. enc.fill => enc.op + 1 <= enc.cap
    BY <1>1 DEF OutputOK, RoomOK
  <2>3. Expanded(d) \in Int
    BY <1>3 DEF Expanded
  <2>. QED  BY <1>t, <2>1, <2>2, <2>3
<1>5. enc.op + run + 1 + (run + 240) \div 255 <= CompressBound(enc.size) /\ CompressBound(enc.size) \in Nat
  <2>1. CompressBound(enc.size) \in Nat
    BY <1>t DEF CompressBound
  <2>. HIDE DEF d, run
  <2>. QED  BY <1>t, <1>3, <1>4, <2>1, LastCost
<1>6. /\ n \in 0 .. run /\ (~cut => n = run)
      /\ enc.fill => n + (n + 240) \div 255 <= room /\ (room >= 2 /\ run >= 1 => n >= 1)
  <2>1. CASE cut
    <3>1. n = room - (room + 240) \div 255 /\ run \in Nat /\ room \in Nat /\ (run + 240) \div 255 + run > room
      BY <1>3, <1>4, <2>1
    <3>. HIDE DEF n, run, room
    <3>2. n \in 0 .. run /\ n + (n + 240) \div 255 <= room /\ (room >= 2 => n >= 1)
      BY <3>1, CutRun
    <3>. QED  BY <2>1, <3>2
  <2>2. CASE ~cut
    <3>1. n = run
      BY <2>2
    <3>2. enc.fill => (run + 240) \div 255 + run <= room
      BY <1>t, <1>3, <2>2
    <3>. HIDE DEF n, run, room
    <3>. QED  BY <1>3, <1>4, <2>2, <3>1, <3>2
  <2>. QED  BY <2>1, <2>2
<1>. HIDE DEF n, run, d
<1>7. n \in Nat /\ LengthBytes(n) = (n + 240) \div 255 /\ LengthBytes(n) \in Nat
  BY <1>3, <1>6, LengthBytesIs
<1>8. CASE full
  <2>1. enc' = [enc EXCEPT !.at = "return", !.result = 0] /\ stream' = stream /\ block' = block
    BY <1>8 DEF EncodeLast, LastLiteralsAt, Return, run
  <2>2. enc.cap < CompressBound(enc.size)
    BY <1>t, <1>3, <1>5, <1>8
  <2>. QED  BY <1>1, <1>8, <2>1, <2>2, FailKeeps
<1>9. CASE ~full
  <2>1. /\ block' = Append(block, s) /\ stream' = stream
        /\ enc' = [enc EXCEPT !.at = "return", !.anchor = enc.anchor + n, !.op = end, !.high = high, !.result = end]
    <3>1. CallTyped(enc)
      BY <1>1 DEF CallOK
    <3>. QED  BY <1>9 DEF EncodeLast, LastLiteralsAt, run, n
  <2>2. end \in Nat /\ end > 0
    BY <1>t, <1>7
  <2>3. high \in Nat /\ (high = enc.high \/ high = end)
    <3>1. high = IF enc.high >= end THEN enc.high ELSE end
      <4>. HIDE DEF end
      <4>. QED  BY <1>t, <2>2, MaxOfTwo
    <3>. QED  BY <1>t, <2>2, <3>1
  <2>4. Bytes(mem, enc.anchor, n) \in Seq(Nat) /\ Len(Bytes(mem, enc.anchor, n)) = n
    <3>1. \A v \in enc.anchor .. enc.anchor + n - 1 : v \in enc.src .. IEnd - 1
      BY <1>t, <1>2, <1>6, <1>7 DEF run
    <3>2. \A v \in enc.anchor .. enc.anchor + n - 1 : mem[v] \in Nat
      BY <1>1, <3>1 DEF CallOK
    <3>. QED  BY <1>t, <1>7, <3>2, BytesType
  <2>5. s \in Sequence /\ s.lit = Bytes(mem, enc.anchor, n) /\ s.ml = 0 /\ Len(s.lit) = n
    BY <2>4 DEF LastRun, Match, Sequence
  <2>6. end <= Capacity /\ (enc.fill => end <= enc.cap)
    <3>1. CASE enc.fill
      BY <1>t, <1>4, <1>6, <1>7, <3>1 DEF Capacity
    <3>2. CASE ~enc.fill
      <4>1. n = run
        BY <1>6, <3>2
      <4>2. end = enc.op + run + 1 + (run + 240) \div 255
        BY <1>t, <1>3, <1>7, <4>1
      <4>3. enc.limited => end <= enc.cap
        BY <1>t, <1>3, <1>9, <2>2, <4>2
      <4>. QED  BY <1>5, <3>2, <4>2, <4>3 DEF Capacity
    <3>. QED  BY <3>1, <3>2
  <2>7. enc.anchor + n \in Int /\ enc.src <= enc.anchor + n /\ enc.anchor + n <= IEnd
        /\ (~enc.fill => enc.anchor + n = IEnd)
    BY <1>t, <1>2, <1>6, <1>7 DEF run
  <2>8. enc.fill /\ enc.cap > 2 => enc.anchor + n > enc.src
    <3>1. CASE enc.anchor = enc.src /\ enc.fill /\ enc.cap > 2
      <4>1. enc.op = 0 /\ run >= 1
        <5>1. d = 0
          BY <1>t, <3>1 DEF d
        <5>2. Expanded(0) = 0
          BY DEF Expanded
        <5>. QED  BY <1>t, <1>3, <1>4, <5>1, <5>2
      <4>. QED  BY <1>t, <1>6, <1>7, <3>1, <4>1
    <3>. QED  BY <1>t, <1>2, <1>7, <3>1
  <2>. HIDE DEF end, high, s, room, cut, full
  <2>9. /\ CallTyped(enc')
        /\ enc'.at = "return" /\ enc'.anchor = enc.anchor + n /\ enc'.op = end /\ enc'.high = high /\ enc'.result = end
        /\ enc'.src = enc.src /\ enc'.size = enc.size /\ enc'.cap = enc.cap /\ enc'.limited = enc.limited
        /\ enc'.type = enc.type /\ enc'.dict = enc.dict /\ enc'.small = enc.small /\ enc'.acc = enc.acc
        /\ enc'.fill = enc.fill
    <3>1. CallTyped(enc)
      BY <1>1 DEF CallOK
    <3>. QED  BY <2>1, <2>2, <2>3, <2>7, <3>1 DEF CallTyped, Phases
  <2>10. SameCall /\ stream' \in StreamRecord
    BY <1>1, <2>1, <2>9 DEF SameCall, CallOK
  <2>11. CallOK' /\ IEnd' = IEnd /\ Text' = Text
    BY <1>1, <2>9, <2>10, CallStays
  <2>12. PositionOK'
    BY <1>2, <2>1, <2>7, <2>9, <2>11 DEF PositionOK
  <2>13. OpOK' /\ RoomOK'
    BY <2>9 DEF OpOK, RoomOK
  <2>14. HighOK'
    <3>1. HighOK
      BY <1>1 DEF OutputOK
    <3>2. Capacity' = Capacity
      BY <2>9 DEF Capacity
    <3>. QED  BY <2>3, <2>6, <2>9, <3>1, <3>2 DEF HighOK
  <2>15. BlockBound'
    BY <2>2, <2>8, <2>9 DEF BlockBound
  <2>16. BlockOK'
    <3>1. Faithful(Text, s, enc.anchor)
      BY <2>5 DEF Faithful, Text
    <3>2. enc'.anchor = enc.anchor + Len(s.lit) + s.ml
      <4>1. enc.anchor + n = enc.anchor + n + 0
        BY <1>t, <1>7
      <4>. QED  BY <2>5, <2>9, <4>1
    <3>3. (enc'.at = "return" /\ enc'.result > 0) <=> s.ml = 0
      BY <2>2, <2>5, <2>9
    <3>. QED  BY <1>1, <2>1, <2>5, <2>9, <2>11, <3>1, <3>2, <3>3, BlockGrows
  <2>. QED  BY <2>11, <2>12, <2>13, <2>14, <2>15, <2>16 DEF FastInv, OutputOK
<1>. QED  BY <1>8, <1>9

\* Every step of a call keeps the invariant.
LEMMA CompressKeeps ==
  ASSUME FastInv, HashOK, Compress
  PROVE  FastInv'
BY SetUpKeeps, FindMatchKeeps, EncodeLiteralsKeeps, EncodeMatchKeeps, TestNextKeeps, EncodeLastKeeps DEF Compress

-----------------------------------------------------------------------------
(***************************************************************************)
(* The programs.  Between the calls the dictionary is the end of what was  *)
(* said; the next message may overwrite its beginning, which the stream    *)
(* then forgets before it compresses.                                      *)
(***************************************************************************)
\* The next message can be written: the dictionary does not end where it goes.
Steady ==
    \/ user.at = "saved" \/ user.at = "compress"
    \/ prog.layout = "save" /\ user.at = "write" /\ user.sent = 0
    \/ prog.layout \notin {"save", "dict"} /\ user.at \in Between

MessageAt == Source .. Source + Len(user.msg) - 1

UserOK ==
    /\ DOMAIN user = {"at", "sent", "enc", "dec", "past", "msg"}
    /\ user.at \in Stages /\ user.sent \in Nat /\ user.enc \in Nat /\ user.past \in Seq(Nat) /\ user.msg \in Seq(Nat)

StageOK ==
    /\ user.at # "stopped" => Fits(user.enc)
    /\ user.at = "load" => prog.layout = "dict" /\ Continuing
    /\ user.at = "saved" => prog.layout = "save"

MemoryOK == mem \in [1 .. EncAt + prog.ring -> Nat]

MessageOK ==
    /\ prog.layout = "dict" =>
         user.past = prog.dict /\ \A i \in 1 .. Len(prog.dict) : mem[SafeAt + i - 1] = prog.dict[i]
    /\ user.at \in {"load", "compress", "compressing"} =>
         /\ Len(user.msg) \in 1 .. prog.max /\ user.sent < Len(prog.messages)
         /\ Source + Len(user.msg) <= EncAt + prog.ring
         /\ \A i \in 1 .. Len(user.msg) : mem[Source + i - 1] = user.msg[i]

DictionaryOK ==
    /\ stream \in StreamRecord
    /\ stream.dictSize <= stream.offset
    /\ stream.dictSize # 0 => 1 <= stream.dict /\ DictEnd <= EncAt + prog.ring
    /\ Continuing /\ user.at # "compressing" => TableOK
    /\ ~Continuing => stream.dictSize = 0 /\ stream.dict = 0

\* The offset is too small for a match before the source, or large enough for
\* the positions of the table to be told from an empty entry.
OffsetOK ==
    /\ Continuing /\ prog.layout # "dict" =>
         /\ stream.offset = 0 \/ stream.offset >= MinMatch
         /\ user.sent > 0 \/ user.at \in {"arrived", "decompressing"} => stream.offset >= MinMatch
         /\ user.sent = 0 /\ user.at \in {"compress", "compressing"} => Len(user.msg) >= MinMatch
    /\ user.at = "compress" => stream.dictSize = 0 \/ stream.offset >= MinMatch

HistoryOK ==
    /\ user.at \in Between /\ prog.layout # "dict" => Remembers(Spoken, {})
    /\ user.at = "compress" => Remembers(user.past, MessageAt)
    /\ user.at = "compressing" => Remembers(user.past, {})

CallInProgram ==
    user.at = "compressing" =>
        /\ FastInv
        /\ enc.src = Source /\ enc.size = Len(user.msg)
        /\ Continuing <=> enc.dict # "none"
        /\ enc.fill => ~Continuing
        /\ DictEnd <= enc.src \/ stream.dict >= IEnd

Quiet == cop.at = "idle" /\ app.at = "none" /\ (user.at # "compressing" => enc.at = "idle")

ProgramInv ==
    /\ UserOK /\ StageOK /\ MemoryOK /\ MessageOK /\ DictionaryOK /\ OffsetOK /\ (Steady => Clear)
    /\ HistoryOK /\ CallInProgram /\ Quiet

\* The inductive invariant.
StreamInv == FastProgram(prog) => ProgramInv

-----------------------------------------------------------------------------
(***************************************************************************)
(* What a store and the programs say of addresses.                         *)
(***************************************************************************)
LEMMA StoreIs ==
  ASSUME NEW K \in Int, NEW m \in [1 .. K -> Nat], NEW p \in Nat \ {0}, NEW s \in Seq(Nat)
  PROVE  /\ Store(m, p, s) \in [1 .. K -> Nat]
         /\ \A i \in 1 .. Len(s) : p + i - 1 <= K => Store(m, p, s)[p + i - 1] = s[i]
         /\ \A v \in 1 .. K : v < p \/ v >= p + Len(s) => Store(m, p, s)[v] = m[v]
<1>. DEFINE new == [a \in 1 .. K |-> IF a \in p .. p + Len(s) - 1 THEN s[a - p + 1] ELSE m[a]]
<1>1. Store(m, p, s) = new
  BY DEF Store
<1>2. \A a \in 1 .. K : new[a] \in Nat
  <2>. SUFFICES ASSUME NEW a \in 1 .. K  PROVE new[a] \in Nat
    OBVIOUS
  <2>1. CASE a \in p .. p + Len(s) - 1
    <3>1. a - p + 1 \in 1 .. Len(s)
      BY <2>1
    <3>. QED  BY <2>1, <3>1
  <2>2. CASE a \notin p .. p + Len(s) - 1
    BY <2>2
  <2>. QED  BY <2>1, <2>2
<1>3. \A i \in 1 .. Len(s) : p + i - 1 <= K => new[p + i - 1] = s[i]
  <2>. SUFFICES ASSUME NEW i \in 1 .. Len(s), p + i - 1 <= K  PROVE new[p + i - 1] = s[i]
    OBVIOUS
  <2>. DEFINE a == p + i - 1
  <2>1. a \in 1 .. K /\ a \in p .. p + Len(s) - 1 /\ a - p + 1 = i
    OBVIOUS
  <2>. HIDE DEF a
  <2>. QED  BY <2>1 DEF a
<1>4. \A v \in 1 .. K : v < p \/ v >= p + Len(s) => new[v] = m[v]
  OBVIOUS
<1>5. new \in [1 .. K -> Nat]
  <2>1. new = [a \in 1 .. K |-> new[a]]
    OBVIOUS
  <2>. HIDE DEF new
  <2>. QED  BY <1>2, <2>1
<1>. HIDE DEF new
<1>. QED  BY <1>1, <1>3, <1>4, <1>5

LEMMA ProgramTypes ==
  ASSUME FastProgram(prog)
  PROVE  /\ prog.max \in Nat /\ prog.ring \in Nat /\ prog.ring >= prog.max /\ prog.dict \in Seq(Nat)
         /\ Len(prog.dict) \in Nat /\ prog.cap \in Int /\ prog.acc \in Int /\ Len(prog.messages) \in Nat
         /\ EncAt \in Nat /\ EncAt >= 1 /\ SafeAt \in Nat /\ SafeAt >= 1 /\ Junk \in Nat
<1>1. /\ prog.max \in Nat /\ prog.ring \in Nat /\ prog.ring >= prog.max /\ prog.dict \in Seq(Nat)
      /\ prog.cap \in Int /\ prog.acc \in Int
  BY DEF FastProgram
<1>2. Len(prog.messages) \in Nat
  <2>1. prog.messages \in Seq(SUBSET Seq(Nat))
    BY DEF FastProgram
  <2>. QED  BY <2>1
<1>3. Len(prog.dict) \in Nat
  BY <1>1
<1>. QED  BY <1>1, <1>2, <1>3, StreamAssumption

\* A message fits where it is written.
LEMMA MessageFits ==
  ASSUME FastProgram(prog), NEW at \in Nat, Fits(at), user.sent \in Nat, Gone = user.sent, user.sent < Len(prog.messages),
         NEW n \in Nat, n <= prog.max
  PROVE  at + n <= prog.ring
<1>t. prog.max \in Nat /\ prog.ring \in Nat /\ prog.ring >= prog.max /\ Len(prog.messages) \in Nat
  BY ProgramTypes
<1>1. CASE prog.layout = "double"
  <2>1. prog.ring >= 2 * prog.max
    BY <1>1 DEF FastProgram
  <2>. QED  BY <1>t, <1>1, <2>1 DEF Fits
<1>2. CASE prog.layout = "ring"
  BY <1>t, <1>2 DEF Fits
<1>3. CASE prog.layout = "follow"
  <2>1. prog.ring >= Len(prog.messages) * prog.max
    BY <1>3 DEF FastProgram
  <2>2. at <= user.sent * prog.max
    BY <1>3 DEF Fits
  <2>3. (user.sent + 1) * prog.max <= Len(prog.messages) * prog.max
        /\ (user.sent + 1) * prog.max = user.sent * prog.max + prog.max
    <3>. DEFINE k == user.sent + 1
                l == Len(prog.messages)
                x == prog.max
    <3>1. k \in Nat /\ l \in Nat /\ k <= l /\ x \in Nat
      BY <1>t
    <3>. HIDE DEF k, l, x
    <3>2. k * x <= l * x
      BY <3>1
    <3>3. user.sent * x + x = (user.sent + 1) * x
      <4>. DEFINE y == user.sent
      <4>1. y \in Nat
        OBVIOUS
      <4>. HIDE DEF y
      <4>2. y * x + x = (y + 1) * x
        BY <3>1, <4>1
      <4>. QED  BY <4>2 DEF y
    <3>. QED  BY <3>2, <3>3 DEF k, l, x
  <2>4. user.sent * prog.max \in Int /\ Len(prog.messages) * prog.max \in Int
    BY <1>t
  <2>. QED  BY <1>t, <2>1, <2>2, <2>3, <2>4
<1>4. CASE prog.layout \notin {"double", "ring", "follow"}
  BY <1>t, <1>4 DEF Fits
<1>. QED  BY <1>1, <1>2, <1>3, <1>4

-----------------------------------------------------------------------------
(***************************************************************************)
(* Each step of a program keeps the invariant.                             *)
(***************************************************************************)
FramesStay == cop' = cop /\ app' = app

LEMMA UserTypes ==
  ASSUME UserOK, FastProgram(prog)
  PROVE  /\ user.sent \in Nat /\ user.enc \in Nat /\ Len(user.msg) \in Nat /\ Len(user.past) \in Nat
         /\ Source = EncAt + user.enc /\ Source \in Nat /\ Source >= EncAt /\ Source >= 1
<1>1. user.past \in Seq(Nat) /\ user.msg \in Seq(Nat) /\ user.sent \in Nat /\ user.enc \in Nat
  BY DEF UserOK
<1>2. Len(user.past) \in Nat /\ Len(user.msg) \in Nat
  BY <1>1
<1>. QED  BY <1>1, <1>2, ProgramTypes DEF Source

LEMMA StreamTypes ==
  ASSUME stream \in StreamRecord
  PROVE  /\ stream.dict \in Nat /\ stream.dictSize \in Nat /\ stream.offset \in Nat /\ stream.table \in [Slots -> Nat]
         /\ DictEnd = stream.dict + stream.dictSize /\ DictEnd \in Nat
BY DEF StreamRecord, DictEnd

\* A message is written after it was chosen.
LEMMA WriteKeeps ==
  ASSUME FastProgram(prog), ProgramInv, Write, FramesStay
  PROVE  ProgramInv'
<1>. DEFINE old == user.at
            new == IF prog.layout = "dict" THEN "load" ELSE "compress"
            K == EncAt + prog.ring
<1>1. /\ old \in {"write", "saved"} /\ old = (IF prog.layout = "save" /\ user.sent > 0 THEN "saved" ELSE "write")
      /\ user.sent < Len(prog.messages)
      /\ stream' = stream /\ enc' = enc /\ prog' = prog /\ UserOK /\ cop' = cop /\ app' = app
  BY DEF Write, ProgramInv, FramesStay
<1>2. PICK m \in prog.messages[user.sent + 1] :
        mem' = Store(mem, Source, m) /\ user' = [user EXCEPT !.at = new, !.msg = m]
  BY DEF Write
<1>t. /\ prog.max \in Nat /\ prog.ring \in Nat /\ prog.ring >= prog.max /\ EncAt \in Nat /\ EncAt >= 1
      /\ user.sent \in Nat /\ user.enc \in Nat /\ Source = EncAt + user.enc /\ Source \in Nat /\ Source >= EncAt
      /\ Len(prog.messages) \in Nat /\ K \in Nat /\ Len(prog.dict) \in Nat /\ SafeAt \in Nat /\ SafeAt >= 1
  BY <1>1, ProgramTypes, UserTypes
<1>3. m \in Seq(Nat) /\ Len(m) \in 1 .. prog.max /\ Len(m) \in Nat
      /\ (prog.layout # "dict" /\ Continuing /\ user.sent = 0 => Len(m) >= MinMatch)
  <2>. DEFINE i == user.sent + 1
  <2>1. i \in DOMAIN prog.messages /\ prog.messages \in Seq(SUBSET Seq(Nat)) /\ (user.sent = 0 => i = 1)
    BY <1>1, <1>t DEF FastProgram
  <2>2. prog.messages[i] \in SUBSET Seq(Nat)
    BY <2>1
  <2>3. Len(m) \in 1 .. prog.max
    BY <2>1 DEF FastProgram
  <2>4. prog.layout # "dict" /\ Continuing /\ user.sent = 0 => Len(m) >= MinMatch
    BY <2>1 DEF FastProgram, Continuing
  <2>. QED  BY <2>2, <2>3, <2>4
<1>4. /\ user'.at = new /\ user'.msg = m /\ user'.sent = user.sent /\ user'.enc = user.enc /\ user'.past = user.past
      /\ UserOK' /\ new \in {"load", "compress"}
  BY <1>1, <1>2, <1>3 DEF UserOK, Stages
<1>5. Source' = Source /\ Continuing' = Continuing /\ DictEnd' = DictEnd
  BY <1>1, <1>4 DEF Source, Continuing, DictEnd
<1>6. Fits(user.enc) /\ Gone = user.sent /\ Gone' = user.sent
  BY <1>1, <1>4 DEF ProgramInv, StageOK, Gone
<1>7. Source + Len(m) <= K
  <2>1. user.enc + Len(m) <= prog.ring
    BY <1>1, <1>3, <1>6, <1>t, MessageFits
  <2>. QED  BY <1>3, <1>t, <2>1
<1>8. StageOK'
  <2>1. Fits(user.enc)'
    BY <1>1, <1>4, <1>6 DEF Fits
  <2>2. new = "load" => prog.layout = "dict" /\ Continuing
    BY DEF FastProgram, Continuing
  <2>. QED  BY <1>1, <1>4, <1>5, <2>1, <2>2 DEF StageOK
<1>9. /\ mem' \in [1 .. K -> Nat]
      /\ \A i \in 1 .. Len(m) : mem'[Source + i - 1] = m[i]
      /\ \A v \in 1 .. K : v < Source \/ v >= Source + Len(m) => mem'[v] = mem[v]
  <2>1. mem \in [1 .. K -> Nat]
    BY DEF ProgramInv, MemoryOK
  <2>2. \A i \in 1 .. Len(m) : Source + i - 1 <= K
    BY <1>t, <1>3, <1>7
  <2>3. Source \in Nat \ {0} /\ K \in Int
    BY <1>t
  <2>. DEFINE p == Source
  <2>. HIDE DEF K, p
  <2>4. /\ Store(mem, p, m) \in [1 .. K -> Nat]
        /\ \A i \in 1 .. Len(m) : p + i - 1 <= K => Store(mem, p, m)[p + i - 1] = m[i]
        /\ \A v \in 1 .. K : v < p \/ v >= p + Len(m) => Store(mem, p, m)[v] = mem[v]
    BY <1>3, <2>1, <2>3, StoreIs DEF p
  <2>. QED  BY <1>2, <2>2, <2>4 DEF p
<1>10. MemoryOK'
  BY <1>1, <1>9 DEF MemoryOK
<1>11. MessageOK'
  <2>1. ASSUME prog.layout = "dict", NEW i \in 1 .. Len(prog.dict)  PROVE mem'[SafeAt + i - 1] = prog.dict[i]
    <3>1. SafeAt + Len(prog.dict) <= EncAt
      BY <2>1 DEF FastProgram
    <3>2. SafeAt + i - 1 \in 1 .. K /\ SafeAt + i - 1 < Source
      BY <1>t, <3>1
    <3>3. mem[SafeAt + i - 1] = prog.dict[i]
      BY <2>1 DEF ProgramInv, MessageOK
    <3>. QED  BY <1>9, <3>2, <3>3
  <2>2. prog.layout = "dict" => user.past = prog.dict
    BY DEF ProgramInv, MessageOK
  <2>. QED  BY <1>1, <1>3, <1>4, <1>5, <1>7, <1>9, <2>1, <2>2 DEF MessageOK
<1>12. DictionaryOK'
  <2>1. Continuing => TableOK
    BY <1>1 DEF ProgramInv, DictionaryOK
  <2>. QED  BY <1>1, <1>5, <2>1 DEF ProgramInv, DictionaryOK, TableOK
<1>13. OffsetOK'
  <2>1. /\ Continuing /\ prog.layout # "dict" =>
             /\ stream.offset = 0 \/ stream.offset >= MinMatch
             /\ user.sent > 0 => stream.offset >= MinMatch
    BY DEF ProgramInv, OffsetOK
  <2>2. new = "compress" => stream.dictSize = 0 \/ stream.offset >= MinMatch
    <3>1. stream \in StreamRecord /\ stream.dictSize <= stream.offset /\ (~Continuing => stream.dictSize = 0)
      BY DEF ProgramInv, DictionaryOK
    <3>2. stream.dictSize \in Nat /\ stream.offset \in Nat
      BY <3>1, StreamTypes
    <3>. QED  BY <2>1, <3>1, <3>2
  <2>. QED  BY <1>1, <1>3, <1>4, <1>5, <2>1, <2>2 DEF OffsetOK
<1>14. Steady' => Clear'
  <2>1. Steady' => Steady
    BY <1>1, <1>4, <1>t DEF Steady, Between
  <2>. QED  BY <1>1, <1>5, <2>1 DEF ProgramInv, Clear
<1>15. HistoryOK'
  <2>. SUFFICES ASSUME new = "compress"  PROVE Remembers(user.past, MessageAt)'
    BY <1>4 DEF HistoryOK, Between
  <2>1. prog.layout # "dict" /\ Spoken = user.past
    BY <1>1 DEF Spoken
  <2>2. Remembers(user.past, {})
    BY <1>1, <2>1 DEF ProgramInv, HistoryOK, Between
  <2>3. stream \in StreamRecord /\ (stream.dictSize # 0 => 1 <= stream.dict /\ DictEnd <= K)
    BY DEF ProgramInv, DictionaryOK
  <2>4. stream.dict \in Nat /\ stream.dictSize \in Nat /\ DictEnd = stream.dict + stream.dictSize
    BY <2>3, StreamTypes
  <2>5. MessageAt' = Source .. Source + Len(m) - 1
    BY <1>4, <1>5 DEF MessageAt
  <2>6. ASSUME NEW i \in 1 .. stream.dictSize, DictEnd - i \notin Source .. Source + Len(m) - 1
        PROVE  mem'[DictEnd - i] = user.past[Len(user.past) - i + 1]
    <3>. DEFINE v == DictEnd - i
    <3>1. v \in 1 .. K /\ (v < Source \/ v >= Source + Len(m))
      <4>1. stream.dictSize \in Nat /\ stream.dict \in Nat /\ DictEnd = stream.dict + stream.dictSize
            /\ 1 <= stream.dict /\ DictEnd <= K
        BY <2>3, <2>4
      <4>2. Len(m) \in Nat /\ Source \in Nat /\ K \in Nat
        BY <1>t, <1>3
      <4>. HIDE DEF K
      <4>. QED  BY <2>6, <4>1, <4>2
    <3>2. mem[v] = user.past[Len(user.past) - i + 1]
      BY <2>2 DEF Remembers
    <3>. HIDE DEF v
    <3>. QED  BY <1>9, <3>1, <3>2 DEF v
  <2>7. stream.dictSize <= Len(user.past)
    BY <2>2 DEF Remembers
  <2>. QED  BY <1>1, <1>4, <1>5, <2>5, <2>6, <2>7 DEF Remembers
<1>16. CallInProgram'
  BY <1>4 DEF CallInProgram
<1>17. Quiet'
  <2>1. Quiet
    BY DEF ProgramInv
  <2>. QED  BY <1>1, <1>4, <2>1 DEF Quiet
<1>. QED  BY <1>4, <1>8, <1>10, <1>11, <1>12, <1>13, <1>14, <1>15, <1>16, <1>17 DEF ProgramInv

LEMMA FastStays ==
  ASSUME FastInv, mem' = mem, stream' = stream, enc' = enc, block' = block
  PROVE  FastInv'
<1>1. CallOK' /\ IEnd' = IEnd /\ Text' = Text
  BY DEF FastInv, CallOK, IEnd, Text, DictDelta, DictEnd
<1>2. PositionOK'
  BY <1>1 DEF FastInv, PositionOK
<1>3. OutputOK'
  <2>1. Pending' = Pending /\ Capacity' = Capacity
    BY DEF Pending, Capacity
  <2>. QED  BY <2>1 DEF FastInv, OutputOK, OpOK, HighOK, RoomOK, BlockBound
<1>4. BlockOK'
  <2>. HIDE DEF Sequence
  <2>. QED  BY <1>1 DEF FastInv, BlockOK
<1>. QED  BY <1>1, <1>2, <1>3, <1>4 DEF FastInv

\* A step of the receiver, or none.
LEMMA RestKeeps ==
  ASSUME FastProgram(prog), ProgramInv, user' = user, prog' = prog, FramesStay,
         mem' = mem, stream' = stream, enc' = enc, block' = block
  PROVE  ProgramInv'
<1>1. Source' = Source /\ Continuing' = Continuing /\ DictEnd' = DictEnd /\ IEnd' = IEnd /\ Gone' = Gone /\ Spoken' = Spoken
      /\ MessageAt' = MessageAt
  BY DEF Source, Continuing, DictEnd, IEnd, Gone, Spoken, MessageAt
<1>2. UserOK' /\ StageOK' /\ MemoryOK'
  BY <1>1 DEF ProgramInv, UserOK, StageOK, MemoryOK, Fits
<1>3. MessageOK'
  BY <1>1 DEF ProgramInv, MessageOK
<1>4. DictionaryOK' /\ OffsetOK'
  BY <1>1 DEF ProgramInv, DictionaryOK, TableOK, OffsetOK
<1>5. Steady' => Clear'
  BY <1>1 DEF ProgramInv, Steady, Clear
<1>6. HistoryOK'
  BY <1>1 DEF ProgramInv, HistoryOK, Remembers
<1>7. CallInProgram'
  BY <1>1, FastStays DEF ProgramInv, CallInProgram
<1>8. Quiet'
  BY DEF ProgramInv, Quiet, FramesStay
<1>. QED  BY <1>2, <1>3, <1>4, <1>5, <1>6, <1>7, <1>8 DEF ProgramInv

LEMMA ReceiveKeeps ==
  ASSUME FastProgram(prog), ProgramInv, Receive, FramesStay
  PROVE  ProgramInv'
<1>1. /\ user.at = "arrived" /\ user' = [user EXCEPT !.at = "decompressing"] /\ prog' = prog
      /\ mem' = mem /\ stream' = stream /\ enc' = enc /\ block' = block
  BY DEF Receive, encoderVars, fastVars
<1>2. /\ user'.at = "decompressing" /\ user'.msg = user.msg /\ user'.sent = user.sent /\ user'.enc = user.enc
      /\ user'.past = user.past /\ UserOK'
  BY <1>1 DEF ProgramInv, UserOK, Stages
<1>3. Source' = Source /\ Continuing' = Continuing /\ DictEnd' = DictEnd /\ Gone' = Gone /\ Spoken' = Spoken
  <2>1. Source' = Source /\ Continuing' = Continuing /\ DictEnd' = DictEnd
    BY <1>1, <1>2 DEF Source, Continuing, DictEnd
  <2>2. Gone' = Gone
    BY <1>1, <1>2 DEF Gone
  <2>3. Spoken' = Spoken
    <3>1. Spoken = user.past \o user.msg
      BY <1>1, Zenon DEF Spoken
    <3>2. Spoken' = user'.past \o user'.msg
      BY <1>2, Zenon DEF Spoken
    <3>. QED  BY <1>2, <3>1, <3>2, Zenon
  <2>. QED  BY <2>1, <2>2, <2>3
<1>4. StageOK' /\ MemoryOK'
  BY <1>1, <1>2, <1>3 DEF ProgramInv, StageOK, MemoryOK, Fits
<1>5. MessageOK'
  BY <1>1, <1>2, <1>3 DEF ProgramInv, MessageOK
<1>6. DictionaryOK' /\ OffsetOK'
  BY <1>1, <1>2, <1>3 DEF ProgramInv, DictionaryOK, TableOK, OffsetOK
<1>7. Steady' => Clear'
  BY <1>1, <1>2, <1>3 DEF ProgramInv, Steady, Clear, Between
<1>8. HistoryOK'
  BY <1>1, <1>2, <1>3 DEF ProgramInv, HistoryOK, Remembers, Between
<1>9. CallInProgram' /\ Quiet'
  BY <1>1, <1>2 DEF ProgramInv, CallInProgram, Quiet, FramesStay
<1>. QED  BY <1>2, <1>4, <1>5, <1>6, <1>7, <1>8, <1>9 DEF ProgramInv

LEMMA DecodeStepKeeps ==
  ASSUME FastProgram(prog), ProgramInv, DecodeStep, FramesStay
  PROVE  ProgramInv'
BY RestKeeps DEF DecodeStep, encoderVars, fastVars

\* The message joins what was said, or the program stops.
LEMMA ArrivedKeeps ==
  ASSUME FastProgram(prog), ProgramInv, Arrived, FramesStay
  PROVE  ProgramInv'
<1>. DEFINE new == IF dec.result <= 0 THEN "stopped" ELSE "write"
            past == IF prog.layout = "dict" THEN user.past ELSE user.past \o user.msg
            to == NextOffset(user.dec, DecodedSize, prog.decRing)
<1>1. /\ user.at = "decompressing" /\ prog' = prog
      /\ mem' = mem /\ stream' = stream /\ enc' = enc /\ block' = block
  BY DEF Arrived, encoderVars, fastVars
<1>2. user' = [user EXCEPT !.at = new, !.dec = to, !.sent = user.sent + 1, !.past = past]
  <2>1. UserOK
    BY DEF ProgramInv
  <2>. QED  BY <2>1 DEF UserOK, Arrived
<1>3. past \in Seq(Nat) /\ user.sent + 1 \in Nat /\ user.sent \in Nat
  BY DEF ProgramInv, UserOK
<1>. HIDE DEF past, to
<1>4. /\ user'.at = new /\ user'.msg = user.msg /\ user'.sent = user.sent + 1 /\ user'.enc = user.enc
      /\ user'.past = past /\ UserOK' /\ new \in {"stopped", "write"}
  BY <1>2, <1>3 DEF ProgramInv, UserOK, Stages
<1>5. Source' = Source /\ Continuing' = Continuing /\ DictEnd' = DictEnd /\ Gone' = Gone
      /\ (prog.layout # "dict" => Spoken' = Spoken)
  BY <1>1, <1>4 DEF Source, Continuing, DictEnd, Gone, Spoken, past
<1>6. StageOK' /\ MemoryOK'
  BY <1>1, <1>4, <1>5 DEF ProgramInv, StageOK, MemoryOK, Fits
<1>7. MessageOK'
  BY <1>1, <1>4, <1>5 DEF ProgramInv, MessageOK, past
<1>8. DictionaryOK'
  BY <1>1, <1>4, <1>5 DEF ProgramInv, DictionaryOK, TableOK
<1>9. OffsetOK'
  BY <1>1, <1>3, <1>4, <1>5 DEF ProgramInv, OffsetOK
<1>10. Steady' => Clear'
  <2>1. Steady' => Steady
    BY <1>1, <1>3, <1>4 DEF Steady, Between
  <2>. QED  BY <1>1, <1>5, <2>1 DEF ProgramInv, Clear
<1>11. HistoryOK'
  BY <1>1, <1>4, <1>5 DEF ProgramInv, HistoryOK, Remembers, Between
<1>12. CallInProgram' /\ Quiet'
  BY <1>1, <1>4 DEF ProgramInv, CallInProgram, Quiet, FramesStay
<1>. QED  BY <1>4, <1>6, <1>7, <1>8, <1>9, <1>10, <1>11, <1>12 DEF ProgramInv

LEMMA CompressStays ==
  ASSUME CallOK, Compress
  PROVE  SameCall
<1>1. /\ DOMAIN enc = {"at", "src", "size", "cap", "limited", "type", "dict", "small", "acc", "fill", "ip", "anchor",
                       "forward", "step", "nb", "hash", "match", "lit", "op", "high", "result"}
      /\ DOMAIN stream = {"table", "dict", "dictSize", "offset"}
  BY DEF CallOK, CallTyped, StreamRecord
<1>2. CASE SetUp
  BY <1>1, <1>2 DEF SetUp, Search, Return, SameCall
<1>3. CASE FindMatch
  BY <1>1, <1>3 DEF FindMatch, SameCall
<1>4. CASE EncodeLiterals
  <2>. DEFINE from == enc.match + DeltaOf(enc.match)
              back == CountBack(mem, enc.ip, from, Min({enc.ip - enc.anchor, from - LowLimitOf(enc.match)}))
              p == enc.ip - back
              n == p - enc.anchor
              start == enc.op + 1 + LengthBytes(n)
              lit == Bytes(mem, enc.anchor, n)
              high == Max({enc.high, start + WildBytes(n)})
              match == enc.match - back
              op == start + n
  <2>1. mem' = mem /\ stream' = stream
    BY <1>4 DEF EncodeLiterals
  <2>2. \/ enc' = [enc EXCEPT !.at = "last"]
        \/ enc' = [enc EXCEPT !.at = "return", !.result = 0]
        \/ enc' = [enc EXCEPT !.at = "match", !.ip = p, !.match = match, !.lit = lit, !.op = op, !.high = high]
    BY <1>1, <1>4, Zenon DEF EncodeLiterals
  <2>. HIDE DEF p, match, lit, op, high
  <2>. QED  BY <1>1, <2>1, <2>2 DEF SameCall
<1>5. CASE EncodeMatch
  <2>. DEFINE op == enc.op + 2
              found == MatchCodeAt(enc.ip, enc.match)
              room == enc.cap - (LastLiterals + 1) - op
              code == IF enc.fill /\ (found + 240) \div 255 > room THEN (15 - 1) + room * 255 ELSE found
              p == enc.ip + MinMatch + code
              end == op + LengthBytes(code)
              ahead == IF code >= MlMask /\ ~enc.fill THEN op + 4 + 4 * ((code - MlMask) \div 1020) ELSE 0
              high == Max({enc.high, end, ahead})
              at == IF p >= IEnd - MFLimit + 1 \/ (enc.fill /\ end > enc.cap - 2 - 8 - 1 - 1) THEN "last" ELSE "next"
  <2>1. mem' = mem /\ stream' = stream
    BY <1>5 DEF EncodeMatch, Return
  <2>2. \/ enc' = [enc EXCEPT !.at = "return", !.result = 0]
        \/ enc' = [enc EXCEPT !.at = at, !.ip = p, !.anchor = p, !.op = end, !.high = high]
    BY <1>5, Zenon DEF EncodeMatch, Return
  <2>. HIDE DEF at, p, end, high
  <2>. QED  BY <1>1, <2>1, <2>2 DEF SameCall
<1>6. CASE TestNext
  BY <1>1, <1>6 DEF TestNext, Search, SameCall
<1>7. CASE EncodeLast
  <2>1. mem' = mem /\ stream' = stream
    BY <1>7 DEF EncodeLast, LastLiteralsAt, Return
  <2>. DEFINE run == IEnd - enc.anchor
              room == enc.cap - enc.op - 1
              n == IF enc.fill /\ (run + 240) \div 255 + run > room THEN room - (room + 240) \div 255 ELSE run
              end == enc.op + 1 + LengthBytes(n) + n
              p == enc.anchor + n
              high == Max({enc.high, end})
  <2>2. \/ enc' = [enc EXCEPT !.at = "return", !.result = 0]
        \/ enc' = [enc EXCEPT !.at = "return", !.anchor = p, !.op = end, !.high = high, !.result = end]
    BY <1>1, <1>7, Zenon DEF EncodeLast, LastLiteralsAt, Return
  <2>. HIDE DEF p, end, high
  <2>. QED  BY <1>1, <2>1, <2>2 DEF SameCall
<1>. QED  BY <1>2, <1>3, <1>4, <1>5, <1>6, <1>7 DEF Compress

\* A step of the compressor.
LEMMA StepKeeps ==
  ASSUME FastProgram(prog), ProgramInv, HashOK, Step, FramesStay
  PROVE  ProgramInv'
<1>1. Compress /\ user' = user /\ prog' = prog
  BY DEF Step
<1>2. enc.at # "idle"
  BY <1>1 DEF Compress, SetUp, FindMatch, EncodeLiterals, EncodeMatch, TestNext, EncodeLast, LastLiteralsAt
<1>3. user.at = "compressing" /\ FastInv
  BY <1>2 DEF ProgramInv, Quiet, CallInProgram
<1>4. SameCall /\ FastInv'
  BY <1>1, <1>3, CompressStays, CompressKeeps DEF FastInv
<1>5. /\ mem' = mem /\ stream'.dict = stream.dict /\ stream'.dictSize = stream.dictSize /\ stream'.offset = stream.offset
      /\ enc'.src = enc.src /\ enc'.size = enc.size /\ enc'.dict = enc.dict /\ enc'.fill = enc.fill
  BY <1>4 DEF SameCall
<1>6. Source' = Source /\ Continuing' = Continuing /\ DictEnd' = DictEnd /\ IEnd' = IEnd
  BY <1>1, <1>5 DEF Source, Continuing, DictEnd, IEnd
<1>7. Gone' = Gone
  BY <1>1 DEF Gone
<1>8. UserOK' /\ StageOK' /\ MemoryOK'
  BY <1>1, <1>5, <1>6, <1>7 DEF ProgramInv, UserOK, StageOK, MemoryOK, Fits
<1>9. MessageOK'
  BY <1>1, <1>5, <1>6 DEF ProgramInv, MessageOK
<1>10. DictionaryOK' /\ OffsetOK'
  <2>1. stream' \in StreamRecord
    BY <1>4 DEF FastInv, CallOK
  <2>. QED  BY <1>1, <1>3, <1>5, <1>6, <2>1 DEF ProgramInv, DictionaryOK, OffsetOK
<1>11. Steady' => Clear'
  BY <1>1, <1>6 DEF ProgramInv, Steady, Clear
<1>12. HistoryOK'
  BY <1>1, <1>3, <1>5, <1>6 DEF ProgramInv, HistoryOK, Remembers, Between
<1>13. CallInProgram'
  BY <1>1, <1>3, <1>4, <1>5, <1>6 DEF ProgramInv, CallInProgram
<1>14. Quiet'
  BY <1>1, <1>3 DEF ProgramInv, Quiet, FramesStay
<1>. QED  BY <1>8, <1>9, <1>10, <1>11, <1>12, <1>13, <1>14 DEF ProgramInv

\* The other compressor has nothing to do.
LEMMA NoHighStep ==
  ASSUME FastProgram(prog), ProgramInv
  PROVE  ~CompressHigh
<1>1. enc.at \in Phases \cup {"idle"}
  BY DEF ProgramInv, Quiet, CallInProgram, FastInv, CallOK, CallTyped
<1>2. /\ enc.at # "hc setup" /\ enc.at # "hc" /\ enc.at # "search 2" /\ enc.at # "search 3" /\ enc.at # "second"
      /\ enc.at # "hc last" /\ enc.at # "opt" /\ enc.at # "prices" /\ enc.at # "recorded" /\ enc.at # "opt last"
  BY <1>1 DEF Phases
<1>3. ~HCSetUp /\ ~FirstMatch
  BY <1>2 DEF HCSetUp, FirstMatch
<1>4. ~Search2
  BY <1>2, Zenon DEF Search2
<1>5. ~Search3
  BY <1>2, Zenon DEF Search3
<1>6. ~EncodeSecond
  BY <1>2, Zenon DEF EncodeSecond
<1>7. ~EncodeLastHC
  BY <1>2, Zenon DEF EncodeLastHC, LastLiteralsAt
<1>8. ~OptFirst
  BY <1>2, Zenon DEF OptFirst
<1>9. ~OptPosition
  BY <1>2, Zenon DEF OptPosition
<1>10. ~OptEncode
  BY <1>2, Zenon DEF OptEncode
<1>11. ~EncodeLastOptimal
  BY <1>2, Zenon DEF EncodeLastOptimal, LastLiteralsAt
<1>. QED  BY <1>3, <1>4, <1>5, <1>6, <1>7, <1>8, <1>9, <1>10, <1>11 DEF CompressHigh

\* A stream between two calls: no position of the table is after its offset.
Settled(s) ==
    /\ s \in StreamRecord /\ s.dictSize <= s.offset
    /\ \A h \in Slots : s.table[h] = 0 \/ s.table[h] + MinMatch <= s.offset

LEMMA FreshIsSettled == Settled(FreshStream) /\ FreshStream.dictSize = 0 /\ FreshStream.dict = 0 /\ FreshStream.offset = 0
BY DEF Settled, FreshStream, StreamRecord

\* A dictionary that is loaded is the end of the bytes at p, or empty.
LEMMA LoadedIs ==
  ASSUME NEW s0, Settled(s0), NEW p \in Nat \ {0}, NEW n \in Nat
  PROVE  LET s == LoadedDict(s0, p, n)
         IN /\ Settled(s) /\ (s.dictSize = 0 \/ s.offset >= MinMatch)
            /\ \/ s.dictSize = 0 /\ s.dict = 0
               \/ s.dictSize <= n /\ s.dict = p + n - s.dictSize
<1>. DEFINE s1 == IF s0.offset > MaxOffset \div 2 THEN FreshStream ELSE s0
            size == Min({n, Window})
            from == p + n - size
            offset == s1.offset + Window
            Put(h) == {a \in from .. from + size - HashUnit : (a - from) % 3 = 0 /\ Hash(Bytes(mem, a, 5)) = h}
            t == [h \in Slots |-> IF Put(h) = {} THEN s1.table[h] ELSE Max(Put(h)) - from + offset]
<1>1. Settled(s1)
  BY FreshIsSettled
<1>. HIDE DEF s1
<1>t. /\ s1.offset \in Nat /\ s1.dictSize \in Nat /\ s1.table \in [Slots -> Nat]
      /\ Window \in Nat /\ Window >= 12 /\ HashUnit \in Nat /\ HashUnit >= 4
  BY <1>1, FastAssumption DEF Settled, StreamRecord
<1>2. CASE n < HashUnit
  <2>1. LoadedDict(s0, p, n) = [s1 EXCEPT !.dict = 0, !.dictSize = 0]
    BY <1>2, Zenon DEF LoadedDict, s1
  <2>. DEFINE s == [s1 EXCEPT !.dict = 0, !.dictSize = 0]
  <2>2. s \in StreamRecord /\ s.dict = 0 /\ s.dictSize = 0 /\ s.offset = s1.offset /\ s.table = s1.table
    BY <1>1 DEF Settled, StreamRecord
  <2>. HIDE DEF s
  <2>3. Settled(s)
    <3>1. 0 <= s1.offset
      BY <1>t
    <3>2. \A h \in Slots : s1.table[h] = 0 \/ s1.table[h] + MinMatch <= s1.offset
      BY <1>1 DEF Settled
    <3>. QED  BY <2>2, <3>1, <3>2 DEF Settled
  <2>. QED  BY <2>1, <2>2, <2>3 DEF s
<1>3. CASE ~(n < HashUnit)
  <2>1. LoadedDict(s0, p, n) = [table |-> t, dict |-> from, dictSize |-> size, offset |-> offset + size]
    BY <1>3, Zenon DEF LoadedDict, s1
  <2>2. size \in Nat /\ size <= n /\ size >= 4 /\ from \in Nat /\ from >= 1 /\ offset \in Nat /\ offset >= s1.offset
    <3>1. size = IF n <= Window THEN n ELSE Window
      BY <1>t, MinOfTwo
    <3>. HIDE DEF size
    <3>. QED  BY <1>t, <1>3, <3>1
  <2>. HIDE DEF size, from, offset
  <2>3. ASSUME NEW h \in Slots  PROVE t[h] \in Nat /\ (t[h] = 0 \/ t[h] + 4 <= offset + size)
    <3>1. CASE Put(h) = {}
      <4>1. t[h] = s1.table[h] /\ s1.table[h] \in Nat
        BY <1>t, <3>1
      <4>2. s1.table[h] = 0 \/ s1.table[h] + 4 <= s1.offset
        BY <1>1 DEF Settled
      <4>. HIDE DEF t
      <4>. QED  BY <1>t, <2>2, <4>1, <4>2
    <3>2. CASE Put(h) # {}
      <4>. DEFINE d == Put(h)
                  k == from + size
                  x == Max(d)
      <4>1. d \in SUBSET (1 .. k) /\ k \in Nat /\ d # {} /\ \A a \in d : a \in from .. from + size - HashUnit
        BY <1>t, <2>2, <3>2
      <4>2. t[h] = x - from + offset
        BY <3>2
      <4>. HIDE DEF d, k, t
      <4>3. Max(d) \in d
        BY <4>1, LastIndex
      <4>4. x \in from .. from + size - HashUnit
        BY <4>1, <4>3
      <4>. HIDE DEF x
      <4>. QED  BY <1>t, <2>2, <4>2, <4>4
    <3>. QED  BY <3>1, <3>2
  <2>4. t \in [Slots -> Nat]
    <3>1. t = [h \in Slots |-> t[h]]
      OBVIOUS
    <3>. HIDE DEF t
    <3>. QED  BY <2>3, <3>1
  <2>. HIDE DEF t
  <2>. DEFINE s == [table |-> t, dict |-> from, dictSize |-> size, offset |-> offset + size]
  <2>5. s.table = t /\ s.dict = from /\ s.dictSize = size /\ s.offset = offset + size
    OBVIOUS
  <2>6. s \in StreamRecord
    BY <2>2, <2>4 DEF StreamRecord
  <2>. HIDE DEF s
  <2>7. Settled(s)
    <3>1. size <= offset + size
      BY <2>2
    <3>. QED  BY <2>3, <2>5, <2>6, <3>1 DEF Settled
  <2>8. size <= n /\ from = p + n - size /\ offset + size >= 4
    BY <2>2 DEF from
  <2>. QED  BY <2>1, <2>5, <2>7, <2>8 DEF s
<1>. QED  BY <1>2, <1>3

\* The dictionary of a program is loaded after a message was written.
LEMMA LoadKeeps ==
  ASSUME FastProgram(prog), ProgramInv, LoadDictionary, FramesStay
  PROVE  ProgramInv'
<1>. DEFINE n == Len(prog.dict)
            s == LoadedDict(stream, SafeAt, n)
            K == EncAt + prog.ring
<1>1. /\ user.at = "load" /\ user' = [user EXCEPT !.at = "compress"] /\ prog.layout = "dict" /\ Continuing
      /\ mem' = mem /\ enc' = enc /\ prog' = prog
  BY DEF LoadDictionary, ProgramInv, StageOK
<1>2. stream' = s
  <2>1. prog.call \notin HighCalls
    BY <1>1 DEF Continuing, HighCalls
  <2>. QED  BY <2>1, Zenon DEF LoadDictionary
<1>t. /\ prog.ring \in Nat /\ prog.max \in Nat /\ EncAt \in Nat /\ EncAt >= 1 /\ SafeAt \in Nat /\ SafeAt >= 1 /\ n \in Nat /\ K \in Nat
      /\ Source \in Nat /\ Source >= EncAt /\ user.sent \in Nat
  BY ProgramTypes, UserTypes DEF ProgramInv
<1>3. SafeAt + n <= EncAt
  BY <1>1 DEF FastProgram, Continuing
<1>4. Settled(stream)
  BY <1>1 DEF ProgramInv, DictionaryOK, TableOK, Settled
<1>5. /\ Settled(s) /\ (s.dictSize = 0 \/ s.offset >= MinMatch)
      /\ \/ s.dictSize = 0 /\ s.dict = 0
         \/ s.dictSize <= n /\ s.dict = SafeAt + n - s.dictSize
  <2>1. SafeAt \in Nat \ {0} /\ n \in Nat
    BY <1>t
  <2>. HIDE DEF n
  <2>. QED  BY <1>4, <2>1, LoadedIs
<1>. HIDE DEF s
<1>6. /\ user'.at = "compress" /\ user'.msg = user.msg /\ user'.sent = user.sent /\ user'.enc = user.enc
      /\ user'.past = user.past /\ UserOK'
  BY <1>1 DEF ProgramInv, UserOK, Stages
<1>7. Source' = Source /\ Continuing' = Continuing /\ MessageAt' = MessageAt
  BY <1>1, <1>6 DEF Source, Continuing, MessageAt
<1>8. s.dict \in Nat /\ s.dictSize \in Nat /\ DictEnd' = s.dict + s.dictSize
  BY <1>2, <1>5 DEF Settled, StreamRecord, DictEnd
<1>9. StageOK' /\ MemoryOK'
  <2>1. Gone' = Gone
    BY <1>1, <1>6 DEF Gone
  <2>. QED  BY <1>1, <1>6, <1>7, <2>1 DEF ProgramInv, StageOK, MemoryOK, Fits
<1>10. MessageOK'
  BY <1>1, <1>6, <1>7 DEF ProgramInv, MessageOK
<1>11. DictEnd' <= EncAt /\ (s.dictSize # 0 => s.dict >= 1)
  BY <1>t, <1>3, <1>5, <1>8
<1>12. DictionaryOK'
  <2>1. s.dictSize # 0 => 1 <= s.dict /\ DictEnd' <= K
    BY <1>t, <1>8, <1>11
  <2>. QED  BY <1>1, <1>2, <1>5, <1>6, <1>7, <2>1 DEF DictionaryOK, TableOK, Settled
<1>13. OffsetOK'
  BY <1>1, <1>2, <1>5, <1>6 DEF OffsetOK
<1>14. Clear'
  BY <1>t, <1>7, <1>8, <1>11 DEF Clear
<1>15. HistoryOK'
  <2>1. user.past = prog.dict /\ \A i \in 1 .. n : mem[SafeAt + i - 1] = prog.dict[i]
    BY <1>1 DEF ProgramInv, MessageOK
  <2>2. s.dictSize <= n
    BY <1>t, <1>5
  <2>3. ASSUME NEW i \in 1 .. s.dictSize  PROVE mem[DictEnd' - i] = prog.dict[n - i + 1]
    <3>1. DictEnd' = SafeAt + n
      BY <1>t, <1>5, <1>8
    <3>. DEFINE j == n - i + 1
    <3>2. j \in 1 .. n /\ DictEnd' - i = SafeAt + j - 1
      BY <1>t, <1>8, <2>2, <3>1
    <3>. HIDE DEF j
    <3>3. mem[SafeAt + j - 1] = prog.dict[j]
      BY <2>1, <3>2
    <3>. QED  BY <3>2, <3>3 DEF j
  <2>4. Remembers(user.past, MessageAt)'
    BY <1>1, <1>2, <1>6, <2>1, <2>2, <2>3 DEF Remembers
  <2>. QED  BY <1>6, <2>4 DEF HistoryOK, Between
<1>16. CallInProgram'
  BY <1>6 DEF CallInProgram
<1>17. Quiet'
  BY <1>1, <1>6 DEF ProgramInv, Quiet, FramesStay
<1>. QED  BY <1>6, <1>9, <1>10, <1>12, <1>13, <1>14, <1>15, <1>16, <1>17 DEF ProgramInv

\* The table that starts over knows the last window of what it knew.
LEMMA RenormedIs ==
  ASSUME NEW s0, Settled(s0), NEW address \in Nat
  PROVE  LET s == Renormed(s0, address)
         IN /\ Settled(s) /\ s.dict + s.dictSize = s0.dict + s0.dictSize
            /\ s.dictSize <= s0.dictSize /\ s.dict >= s0.dict
            /\ s0.offset >= MinMatch => s.offset >= MinMatch
            /\ s0.offset = 0 => s.offset = 0
<1>. DEFINE delta == s0.offset - Window
            size == Min({s0.dictSize, Window})
            t == [h \in Slots |-> Max({0, s0.table[h] - delta})]
            from == s0.dict + s0.dictSize - size
<1>t. /\ s0.offset \in Nat /\ s0.dictSize \in Nat /\ s0.dict \in Nat /\ s0.table \in [Slots -> Nat]
      /\ Window \in Nat /\ Window >= 12 /\ MaxOffset \in Nat /\ MaxOffset >= Window /\ s0.dictSize <= s0.offset
      /\ Origin \in Nat /\ Origin >= Window
  BY FastAssumption DEF Settled, StreamRecord
<1>1. CASE s0.offset <= MaxOffset /\ s0.offset <= Origin + address
  <2>1. Renormed(s0, address) = s0
    BY <1>1, Zenon DEF Renormed
  <2>. QED  BY <1>t, <2>1
<1>2. CASE ~(s0.offset <= MaxOffset /\ s0.offset <= Origin + address)
  <2>. DEFINE s == [table |-> t, offset |-> Window, dictSize |-> size, dict |-> from]
  <2>0. s0.offset > Window
    BY <1>t, <1>2
  <2>1. Renormed(s0, address) = s
    BY <1>2, Zenon DEF Renormed
  <2>2. size \in Nat /\ size <= s0.dictSize /\ size <= Window /\ from \in Nat /\ from >= s0.dict
        /\ from + size = s0.dict + s0.dictSize
    <3>1. size = IF s0.dictSize <= Window THEN s0.dictSize ELSE Window
      BY <1>t, MinOfTwo
    <3>. HIDE DEF size
    <3>. QED  BY <1>t, <3>1
  <2>. HIDE DEF size, from
  <2>3. ASSUME NEW h \in Slots  PROVE t[h] \in Nat /\ (t[h] = 0 \/ t[h] + 4 <= Window)
    <3>. DEFINE x == s0.table[h]
    <3>1. x \in Nat /\ (x = 0 \/ x + 4 <= s0.offset)
      BY <1>t DEF Settled
    <3>. HIDE DEF x
    <3>2. x - delta \in Int
      BY <1>t, <3>1
    <3>3. Max({0, x - delta}) = IF 0 >= x - delta THEN 0 ELSE x - delta
      BY <3>2, MaxOfTwo
    <3>4. t[h] = Max({0, x - delta})
      BY DEF x
    <3>. HIDE DEF t
    <3>5. t[h] = IF 0 >= x - delta THEN 0 ELSE x - delta
      BY <3>3, <3>4
    <3>. QED  BY <1>t, <2>0, <3>1, <3>5
  <2>4. t \in [Slots -> Nat]
    <3>1. t = [h \in Slots |-> t[h]]
      OBVIOUS
    <3>. HIDE DEF t
    <3>. QED  BY <2>3, <3>1
  <2>. HIDE DEF t
  <2>5. s.table = t /\ s.dict = from /\ s.dictSize = size /\ s.offset = Window
    OBVIOUS
  <2>6. s \in StreamRecord
    BY <1>t, <2>2, <2>4 DEF StreamRecord
  <2>. HIDE DEF s
  <2>7. Settled(s)
    BY <2>2, <2>3, <2>5, <2>6 DEF Settled
  <2>8. s.offset >= MinMatch /\ s0.offset # 0
    BY <1>t, <2>0, <2>5
  <2>. QED  BY <2>1, <2>2, <2>5, <2>7, <2>8
<1>. QED  BY <1>1, <1>2

\* What a source that ends at e has overwritten is not in the dictionary: it
\* ends before the rest of it, or after all of it.
LEMMA TrimmedIs ==
  ASSUME NEW s0, Settled(s0), NEW e \in Nat
  PROVE  LET s == Trimmed(s0, e)
         IN /\ Settled(s) /\ s.offset = s0.offset /\ s.dict + s.dictSize = s0.dict + s0.dictSize
            /\ s.dictSize <= s0.dictSize /\ s.dict >= s0.dict
            /\ e <= s.dict \/ e >= s.dict + s.dictSize
<1>. DEFINE end == s0.dict + s0.dictSize
            left == Min({end - e, Window})
            size == IF left < 4 THEN 0 ELSE left
            from == end - size
<1>t. /\ s0.offset \in Nat /\ s0.dictSize \in Nat /\ s0.dict \in Nat /\ s0.table \in [Slots -> Nat]
      /\ Window \in Nat /\ s0.dictSize <= s0.offset /\ end \in Nat
  BY FastAssumption DEF Settled, StreamRecord
<1>1. CASE ~(e > s0.dict /\ e < end)
  <2>1. Trimmed(s0, e) = s0
    BY <1>1, Zenon DEF Trimmed
  <2>. QED  BY <1>t, <1>1, <2>1
<1>2. CASE e > s0.dict /\ e < end
  <2>1. Trimmed(s0, e) = [s0 EXCEPT !.dict = from, !.dictSize = size]
    BY <1>2, Zenon DEF Trimmed
  <2>2. size \in Nat /\ size <= end - e
    <3>1. left = IF end - e <= Window THEN end - e ELSE Window
      BY <1>t, MinOfTwo
    <3>. HIDE DEF left, end
    <3>. QED  BY <1>t, <1>2, <3>1
  <2>. HIDE DEF size
  <2>3. from \in Nat /\ from >= e /\ from + size = s0.dict + s0.dictSize /\ size <= s0.dictSize /\ size <= s0.offset
        /\ from >= s0.dict
    BY <1>t, <1>2, <2>2
  <2>. DEFINE s == [s0 EXCEPT !.dict = from, !.dictSize = size]
  <2>. HIDE DEF from
  <2>4. s \in StreamRecord /\ s.dict = from /\ s.dictSize = size /\ s.offset = s0.offset /\ s.table = s0.table
    BY <2>2, <2>3 DEF Settled, StreamRecord
  <2>. HIDE DEF s
  <2>5. Settled(s)
    BY <2>3, <2>4 DEF Settled
  <2>. QED  BY <2>1, <2>3, <2>4, <2>5 DEF s
<1>. QED  BY <1>1, <1>2

\* How a call may start.
Startable(src, n, cap, limited, type, dict, small, acc, fill) ==
    /\ src \in Nat /\ n \in Nat /\ n >= 1 /\ cap \in Nat /\ limited \in BOOLEAN /\ type \in {"u16", "u32"}
    /\ dict \in {"none", "prefix", "external"} /\ small \in BOOLEAN /\ acc \in Nat /\ acc >= 1 /\ fill \in BOOLEAN
    /\ enc' = Call(src, n, cap, limited, type, dict, small, acc, fill) /\ block' = <<>> /\ mem' = mem
    /\ Settled(stream') /\ (stream'.dictSize = 0 \/ stream'.offset >= MinMatch)
    /\ ~(limited /\ fill)
    /\ dict = "none" => stream'.offset = 0
    /\ dict = "prefix" => DictEnd' = src
    /\ dict = "external" => DictEnd' # src /\ stream'.dict # src
    /\ type = "u16" => dict = "none" /\ n < Limit64K
    /\ small <=> stream'.dictSize < Window /\ stream'.dictSize < stream'.offset
    /\ \A v \in src .. src + n - 1 : mem[v] \in Nat

\* Nothing is written, and the table has no position of the source.
LEMMA CallStarts ==
  ASSUME NEW src, NEW n, NEW cap, NEW limited, NEW type, NEW dict, NEW small, NEW acc, NEW fill,
         Startable(src, n, cap, limited, type, dict, small, acc, fill)
  PROVE  /\ FastInv'
         /\ enc'.src = src /\ enc'.size = n /\ enc'.dict = dict /\ enc'.fill = fill /\ IEnd' = src + n
<1>. USE DEF Startable
<1>1. /\ enc'.at = "setup" /\ enc'.src = src /\ enc'.size = n /\ enc'.cap = cap /\ enc'.limited = limited /\ enc'.type = type
      /\ enc'.dict = dict /\ enc'.small = small /\ enc'.acc = acc /\ enc'.fill = fill /\ enc'.anchor = src
      /\ enc'.op = 0 /\ enc'.high = 0
  BY DEF Call
<1>2. CallTyped(enc')
  <2>1. <<>> \in Seq(Nat)
    OBVIOUS
  <2>. QED  BY <2>1 DEF CallTyped, Call, Phases
<1>3. IEnd' = src + n
  BY <1>1 DEF IEnd
<1>4. CallOK'
  BY <1>1, <1>2, <1>3 DEF CallOK, Settled
<1>5. PositionOK'
  <2>1. Entered(Text, stream.table, enc.src - 1)'
    BY DEF Entered, Entry, Text, Settled
  <2>2. src <= src + n
    OBVIOUS
  <2>. QED  BY <1>1, <1>3, <2>1, <2>2 DEF PositionOK
<1>6. OutputOK'
  <2>1. OpOK'
    <3>1. Pending' = 0 /\ src - src = 0
      BY <1>1 DEF Pending
    <3>2. Expanded(0) = 0
      BY DEF Expanded
    <3>3. (enc.op - Pending \in 0 .. Expanded(enc.anchor - enc.src))'
      BY <1>1, <3>1, <3>2
    <3>. QED  BY <3>3 DEF OpOK
  <2>2. HighOK'
    <3>1. CompressBound(n) \in Nat
      BY DEF CompressBound
    <3>2. Capacity' \in Nat
      BY <1>1, <3>1 DEF Capacity
    <3>. QED  BY <1>1, <3>2 DEF HighOK
  <2>3. RoomOK' /\ BlockBound'
    BY <1>1 DEF RoomOK, BlockBound
  <2>. QED  BY <2>1, <2>2, <2>3 DEF OutputOK
<1>7. BlockOK'
  <2>1. <<>> \in Seq(Sequence)
    OBVIOUS
  <2>2. Len(<<>>) = 0 /\ DOMAIN <<>> = {}
    OBVIOUS
  <2>3. Written(<<>>, 1) = 0
    <3>. HIDE DEF Sequence
    <3>. QED  BY <2>1, WrittenFirst
  <2>4. src = src + 0
    OBVIOUS
  <2>. HIDE DEF Sequence
  <2>. QED  BY <1>1, <2>1, <2>2, <2>3, <2>4 DEF BlockOK
<1>. QED  BY <1>1, <1>3, <1>4, <1>5, <1>6, <1>7 DEF FastInv

\* A capacity and an acceleration.
LEMMA ParameterTypes ==
  ASSUME FastProgram(prog), NEW n \in Nat
  PROVE  /\ CapacityFor(n) \in Nat /\ CompressBound(n) \in Nat
         /\ Acceleration(prog.acc) \in Nat /\ Acceleration(prog.acc) >= 1
<1>1. prog.cap \in Int /\ prog.acc \in Int
  BY ProgramTypes
<1>2. CompressBound(n) \in Nat
  BY DEF CompressBound
<1>3. CapacityFor(n) \in Nat
  BY <1>1, <1>2 DEF CapacityFor
<1>. QED  BY <1>1, <1>2, <1>3 DEF Acceleration

\* What a call that starts leaves of the invariant to show: how it starts, and
\* that its dictionary is part of what the stream had, and not overwritten.
LEMMA BeginsWell ==
  ASSUME FastProgram(prog), ProgramInv, Begin, FramesStay,
         FastInv', Settled(stream'), stream'.dictSize <= stream.dictSize, DictEnd' = DictEnd, stream'.dict >= stream.dict,
         Continuing => /\ stream.offset = 0 => stream'.offset = 0
                       /\ stream.offset >= MinMatch => stream'.offset >= MinMatch,
         enc'.src = Source, enc'.size = Len(user.msg), Continuing <=> enc'.dict # "none", enc'.fill => ~Continuing,
         DictEnd' <= Source \/ stream'.dict >= Source + Len(user.msg)
  PROVE  ProgramInv'
<1>. DEFINE n == Len(user.msg)
            K == EncAt + prog.ring
<1>1. user.at = "compress" /\ user' = [user EXCEPT !.at = "compressing"] /\ mem' = mem /\ prog' = prog
  BY DEF Begin
<1>2. /\ user'.at = "compressing" /\ user'.msg = user.msg /\ user'.sent = user.sent /\ user'.enc = user.enc
      /\ user'.past = user.past /\ UserOK'
  BY <1>1 DEF ProgramInv, UserOK, Stages
<1>3. Source' = Source /\ Continuing' = Continuing /\ MessageAt' = MessageAt
  BY <1>1, <1>2 DEF Source, Continuing, MessageAt
<1>4. StageOK' /\ MemoryOK'
  <2>1. Gone' = Gone
    BY <1>1, <1>2 DEF Gone
  <2>. QED  BY <1>1, <1>2, <1>3, <2>1 DEF ProgramInv, StageOK, MemoryOK, Fits
<1>5. MessageOK'
  BY <1>1, <1>2, <1>3 DEF ProgramInv, MessageOK
<1>6. /\ stream.dict \in Nat /\ stream.dictSize \in Nat /\ DictEnd = stream.dict + stream.dictSize
      /\ stream'.dict \in Nat /\ stream'.dictSize \in Nat /\ DictEnd' = stream'.dict + stream'.dictSize
      /\ stream.offset \in Nat /\ stream'.offset \in Nat
  <2>1. stream \in StreamRecord /\ stream' \in StreamRecord
    BY DEF Settled, ProgramInv, DictionaryOK
  <2>. QED  BY <2>1 DEF StreamRecord, DictEnd
<1>7. DictionaryOK'
  <2>1. stream.dictSize # 0 => 1 <= stream.dict /\ DictEnd <= K
    BY DEF ProgramInv, DictionaryOK
  <2>2. stream'.dictSize # 0 => 1 <= stream'.dict /\ DictEnd' <= K
    BY <1>6, <2>1
  <2>3. ~Continuing => stream'.dictSize = 0 /\ stream'.dict = 0
    <3>1. ~Continuing => stream.dictSize = 0 /\ stream.dict = 0
      BY DEF ProgramInv, DictionaryOK
    <3>. QED  BY <1>6, <3>1
  <2>. QED  BY <1>1, <1>2, <1>3, <2>2, <2>3 DEF DictionaryOK, Settled
<1>8. OffsetOK'
  <2>1. OffsetOK
    BY DEF ProgramInv
  <2>. QED  BY <1>1, <1>2, <1>3, <2>1 DEF OffsetOK
<1>9. ~Steady'
  BY <1>1, <1>2 DEF Steady, Between
<1>10. HistoryOK'
  <2>1. Remembers(user.past, MessageAt)
    BY <1>1 DEF ProgramInv, HistoryOK
  <2>2. stream.dictSize <= Len(user.past) /\ Len(user.past) \in Nat
    BY <2>1, UserTypes DEF Remembers, ProgramInv
  <2>3. ASSUME NEW i \in 1 .. stream'.dictSize  PROVE mem[DictEnd' - i] = user.past[Len(user.past) - i + 1]
    <3>1. i \in 1 .. stream.dictSize
      BY <1>6
    <3>2. DictEnd - i \notin MessageAt
      <4>1. Source \in Nat /\ n \in Nat /\ i \in Nat /\ i >= 1 /\ i <= stream'.dictSize
        BY <1>6, UserTypes DEF ProgramInv
      <4>. DEFINE x == DictEnd - i
      <4>2. x \in Int /\ x >= stream'.dict /\ x < DictEnd
        BY <1>6, <4>1
      <4>. HIDE DEF x, n
      <4>3. x < Source \/ x >= Source + n
        BY <1>6, <4>1, <4>2 DEF n
      <4>4. x \notin Source .. Source + n - 1
        BY <4>1, <4>2, <4>3
      <4>. QED  BY <4>4 DEF MessageAt, x, n
    <3>3. mem[DictEnd - i] = user.past[Len(user.past) - i + 1]
      BY <2>1, <3>1, <3>2 DEF Remembers
    <3>. QED  BY <3>3
  <2>4. stream'.dictSize <= Len(user.past)
    BY <1>6, <2>2
  <2>. QED  BY <1>1, <1>2, <2>3, <2>4 DEF HistoryOK, Remembers, Between
<1>11. CallInProgram'
  <2>1. IEnd' = Source + n
    BY DEF IEnd
  <2>. QED  BY <1>2, <1>3, <2>1 DEF CallInProgram
<1>12. Quiet'
  BY <1>2 DEF ProgramInv, Quiet, FramesStay
<1>. QED  BY <1>2, <1>4, <1>5, <1>7, <1>8, <1>9, <1>10, <1>11, <1>12 DEF ProgramInv

\* A message in memory.
LEMMA MessageBytes ==
  ASSUME FastProgram(prog), ProgramInv, user.at = "compress"
  PROVE  /\ Len(user.msg) \in Nat /\ Len(user.msg) >= 1 /\ Len(user.msg) <= prog.max
         /\ Source \in Nat /\ Source >= 1 /\ prog.max \in Nat
         /\ \A v \in Source .. Source + Len(user.msg) - 1 : mem[v] \in Nat
<1>. DEFINE n == Len(user.msg)
            K == EncAt + prog.ring
<1>1. n \in Nat /\ n >= 1 /\ n <= prog.max /\ Source + n <= K
  <2>1. n \in 1 .. prog.max /\ Source + n <= K
    BY DEF ProgramInv, MessageOK
  <2>2. prog.max \in Nat /\ n \in Nat
    BY ProgramTypes, UserTypes DEF ProgramInv
  <2>. HIDE DEF n, K
  <2>. QED  BY <2>1, <2>2
<1>2. Source \in Nat /\ Source >= 1 /\ K \in Nat /\ prog.max \in Nat
  BY ProgramTypes, UserTypes DEF ProgramInv
<1>3. mem \in [1 .. K -> Nat]
  BY DEF ProgramInv, MemoryOK
<1>. HIDE DEF n, K
<1>4. \A v \in Source .. Source + n - 1 : v \in 1 .. K
  BY <1>1, <1>2
<1>. QED  BY <1>1, <1>2, <1>3, <1>4 DEF n

\* LZ4_compress_fast and LZ4_compress_destSize start with an empty table.
LEMMA OneShotBegins ==
  ASSUME FastProgram(prog), ProgramInv, Begin, FramesStay, ~Continuing,
         NEW cap \in Nat, NEW limited \in BOOLEAN, NEW acc \in Nat, acc >= 1, NEW fill \in BOOLEAN, ~(limited /\ fill),
         stream' = FreshStream, block' = <<>>,
         enc' = Call(Source, Len(user.msg), cap, limited, OneShotType(Len(user.msg)), "none", FALSE, acc, fill)
  PROVE  ProgramInv'
<1>. DEFINE n == Len(user.msg)
            src == Source
            type == OneShotType(n)
<1>1. user.at = "compress" /\ mem' = mem
  BY DEF Begin
<1>2. /\ n \in Nat /\ n >= 1 /\ src \in Nat
      /\ \A v \in src .. src + n - 1 : mem[v] \in Nat
  BY <1>1, MessageBytes
<1>3. Settled(stream') /\ stream'.dictSize = 0 /\ stream'.dict = 0 /\ stream'.offset = 0
  BY FreshIsSettled
<1>4. type \in {"u16", "u32"} /\ (type = "u16" => n < Limit64K)
  <2>. HIDE DEF n
  <2>. QED  BY DEF OneShotType
<1>. HIDE DEF n, src, type
<1>. DEFINE dict == "none"
            small == FALSE
<1>5. enc' = Call(src, n, cap, limited, type, dict, small, acc, fill)
  BY DEF n, src, type
<1>d. /\ dict \in {"none", "prefix", "external"} /\ dict = "none" /\ dict # "prefix" /\ dict # "external"
      /\ small \in BOOLEAN /\ ~small
  OBVIOUS
<1>. HIDE DEF dict, small
<1>e. /\ small <=> stream'.dictSize < Window /\ stream'.dictSize < stream'.offset
      /\ dict = "none" => stream'.offset = 0
      /\ dict = "prefix" => DictEnd' = src
      /\ dict = "external" => DictEnd' # src /\ stream'.dict # src
      /\ type = "u16" => dict = "none" /\ n < Limit64K
      /\ stream'.dictSize = 0 \/ stream'.offset >= MinMatch
  BY <1>3, <1>4, <1>d
<1>6. /\ FastInv'
      /\ enc'.src = src /\ enc'.size = n /\ enc'.dict = dict /\ enc'.fill = fill /\ IEnd' = src + n
  <2>1. Settled(stream') /\ mem' = mem /\ block' = <<>>
    BY <1>1, <1>3
  <2>2. Startable(src, n, cap, limited, type, dict, small, acc, fill)
    BY <1>2, <1>4, <1>5, <1>d, <1>e, <2>1 DEF Startable
  <2>. QED  BY <2>2, CallStarts
<1>7. stream.dictSize = 0 /\ stream.dict = 0 /\ stream \in StreamRecord
  BY DEF ProgramInv, DictionaryOK
<1>8. DictEnd' = 0 /\ DictEnd = 0
  BY <1>3, <1>7 DEF DictEnd
<1>9. /\ stream'.dictSize <= stream.dictSize /\ DictEnd' = DictEnd /\ stream'.dict >= stream.dict /\ DictEnd' <= Source
  BY <1>2, <1>3, <1>7, <1>8 DEF src
<1>10. enc'.src = Source /\ enc'.size = Len(user.msg) /\ (Continuing <=> enc'.dict # "none") /\ (enc'.fill => ~Continuing)
  BY <1>6, <1>d DEF n, src
<1>. QED  BY <1>3, <1>6, <1>9, <1>10, BeginsWell

\* LZ4_compress_fast_continue keeps the part of the dictionary that the
\* message has not overwritten.
LEMMA ContinueBegins ==
  ASSUME FastProgram(prog), ProgramInv, Begin, FramesStay, Continuing,
         NEW cap \in Nat, NEW acc \in Int, Acceleration(acc) \in Nat, Acceleration(acc) >= 1,
         ContinueStream(stream, Source, Len(user.msg), cap, acc)
  PROVE  ProgramInv'
<1>. DEFINE n == Len(user.msg)
            src == Source
            e == src + n
            smallest == IF stream.dictSize > 0 THEN Min({src, stream.dict + stream.dictSize}) ELSE src
            r == Renormed(stream, smallest)
            s == Trimmed(r, e)
            dict == IF s.dict + s.dictSize = src THEN "prefix" ELSE "external"
            small == s.dictSize < Window /\ s.dictSize < s.offset
            a == Acceleration(acc)
            limited == TRUE
            fill == FALSE
            type == "u32"
<1>1. user.at = "compress" /\ mem' = mem
  BY DEF Begin
<1>2. /\ n \in Nat /\ n >= 1 /\ n <= prog.max /\ src \in Nat /\ prog.max \in Nat
      /\ \A v \in src .. src + n - 1 : mem[v] \in Nat
  BY <1>1, MessageBytes
<1>. HIDE DEF n, src
<1>3. stream' = s /\ block' = <<>> /\ enc' = Call(src, n, cap, limited, type, dict, small, a, fill)
  BY Zenon DEF ContinueStream, n, src
<1>. HIDE DEF r
<1>4. /\ Settled(stream) /\ (stream.dictSize = 0 \/ stream.offset >= MinMatch)
      /\ (DictEnd <= src \/ DictEnd > src + prog.max)
  <2>1. DictionaryOK /\ OffsetOK /\ Clear
    BY <1>1 DEF ProgramInv, Steady
  <2>. QED  BY <1>1, <2>1 DEF DictionaryOK, TableOK, OffsetOK, Clear, Settled, src
<1>5. /\ Settled(r) /\ r.dict + r.dictSize = stream.dict + stream.dictSize
      /\ r.dictSize <= stream.dictSize /\ r.dict >= stream.dict
      /\ (stream.offset >= MinMatch => r.offset >= MinMatch) /\ (stream.offset = 0 => r.offset = 0)
  <2>1. smallest \in Nat
    <3>1. stream.dict + stream.dictSize \in Nat
      BY <1>4 DEF Settled, StreamRecord
    <3>2. Min({src, stream.dict + stream.dictSize}) \in Nat
      BY <1>2, <3>1, MinOfTwo
    <3>. QED  BY <1>2, <3>2
  <2>. HIDE DEF smallest
  <2>. QED  BY <1>4, <2>1, RenormedIs DEF r
<1>6. /\ Settled(s) /\ s.offset = r.offset /\ s.dict + s.dictSize = r.dict + r.dictSize
      /\ s.dictSize <= r.dictSize /\ s.dict >= r.dict
      /\ (e <= s.dict \/ e >= s.dict + s.dictSize)
  <2>1. e \in Nat
    BY <1>2
  <2>. HIDE DEF e
  <2>. QED  BY <1>5, <2>1, TrimmedIs
<1>. HIDE DEF s
<1>t. /\ s.dict \in Nat /\ s.dictSize \in Nat /\ s.offset \in Nat /\ r.dict \in Nat /\ r.dictSize \in Nat /\ r.offset \in Nat
      /\ stream.dict \in Nat /\ stream.dictSize \in Nat /\ stream.offset \in Nat
      /\ DictEnd = stream.dict + stream.dictSize
  BY <1>4, <1>5, <1>6 DEF Settled, StreamRecord, DictEnd
<1>7. /\ s.dictSize <= stream.dictSize /\ s.dict >= stream.dict /\ s.dict + s.dictSize = DictEnd
      /\ (stream.offset >= MinMatch => s.offset >= MinMatch) /\ (stream.offset = 0 => s.offset = 0)
      /\ (s.dictSize = 0 \/ s.offset >= MinMatch)
  BY <1>t, <1>4, <1>5, <1>6
<1>8. DictEnd' = DictEnd
  BY <1>3, <1>7 DEF DictEnd
<1>9. DictEnd <= src \/ s.dict >= e
  BY <1>t, <1>2, <1>4, <1>6, <1>7
<1>10. dict = "external" => DictEnd # src /\ s.dict # src
  BY <1>t, <1>2, <1>7, <1>9
<1>11. /\ dict \in {"none", "prefix", "external"} /\ dict # "none" /\ (dict = "prefix" => DictEnd = src)
       /\ small \in BOOLEAN /\ (small <=> s.dictSize < Window /\ s.dictSize < s.offset)
       /\ limited = TRUE /\ fill = FALSE /\ type = "u32"
  BY <1>7
<1>. HIDE DEF dict, small, limited, fill, type, a
<1>12. Startable(src, n, cap, limited, type, dict, small, a, fill)
  <2>1. a \in Nat /\ a >= 1
    BY DEF a
  <2>2. limited \in BOOLEAN /\ fill \in BOOLEAN /\ ~(limited /\ fill) /\ type \in {"u16", "u32"} /\ type # "u16"
    BY <1>11
  <2>3. small <=> stream'.dictSize < Window /\ stream'.dictSize < stream'.offset
    BY <1>3, <1>11
  <2>4. /\ (dict = "none" => stream'.offset = 0) /\ (dict = "prefix" => DictEnd' = src)
        /\ (dict = "external" => DictEnd' # src /\ stream'.dict # src)
        /\ (stream'.dictSize = 0 \/ stream'.offset >= MinMatch) /\ Settled(stream')
    BY <1>3, <1>6, <1>7, <1>8, <1>10, <1>11
  <2>. QED  BY <1>1, <1>2, <1>3, <1>11, <2>1, <2>2, <2>3, <2>4 DEF Startable
<1>13. /\ FastInv'
       /\ enc'.src = src /\ enc'.size = n /\ enc'.dict = dict /\ enc'.fill = fill
  BY <1>12, CallStarts
<1>14. /\ Settled(stream') /\ stream'.dictSize <= stream.dictSize /\ stream'.dict >= stream.dict
       /\ (stream.offset = 0 => stream'.offset = 0) /\ (stream.offset >= MinMatch => stream'.offset >= MinMatch)
  BY <1>3, <1>6, <1>7
<1>15. /\ enc'.src = Source /\ enc'.size = Len(user.msg) /\ (Continuing <=> enc'.dict # "none") /\ ~enc'.fill
       /\ (DictEnd' <= Source \/ stream'.dict >= Source + Len(user.msg))
  BY <1>3, <1>8, <1>9, <1>11, <1>13 DEF n, src
<1>. QED  BY <1>8, <1>13, <1>14, <1>15, BeginsWell

LEMMA BeginKeeps ==
  ASSUME FastProgram(prog), ProgramInv, Begin, FramesStay
  PROVE  ProgramInv'
<1>. DEFINE n == Len(user.msg)
            src == Source
            cap == CapacityFor(n)
            bound == CompressBound(n)
            acc == Acceleration(prog.acc)
<1>t. n \in Nat /\ cap \in Nat /\ bound \in Nat /\ acc \in Nat /\ acc >= 1 /\ prog.acc \in Int
  <2>1. n \in Nat
    BY UserTypes DEF ProgramInv
  <2>. HIDE DEF n
  <2>. QED  BY <2>1, ParameterTypes, ProgramTypes
<1>1. CASE Continuing
  <2>1. prog.call = "continue"
    BY <1>1 DEF Continuing
  <2>2. CompressContinue(src, n, cap, prog.acc)
    BY <2>1, Zenon DEF Begin
  <2>3. ContinueStream(stream, Source, Len(user.msg), cap, prog.acc)
    BY <2>2 DEF CompressContinue
  <2>. HIDE DEF cap
  <2>. QED  BY <1>1, <1>t, <2>3, ContinueBegins
<1>2. CASE prog.call = "fast"
  <2>1. CompressFast(src, n, cap, prog.acc)
    BY <1>2, Zenon DEF Begin
  <2>. DEFINE limited == cap < bound
              fill == FALSE
  <2>2. stream' = FreshStream /\ block' = <<>>
        /\ enc' = Call(Source, Len(user.msg), cap, limited, OneShotType(Len(user.msg)), "none", FALSE, acc, fill)
    BY <2>1 DEF CompressFast
  <2>3. limited \in BOOLEAN /\ fill \in BOOLEAN /\ ~(limited /\ fill) /\ ~Continuing
    BY <1>2 DEF Continuing
  <2>. HIDE DEF cap, limited, fill, acc
  <2>. QED  BY <1>t, <2>2, <2>3, OneShotBegins
<1>3. CASE prog.call = "destSize"
  <2>1. CompressDestSize(src, n, cap)
    BY <1>3, Zenon DEF Begin
  <2>. DEFINE limited == cap < bound
              fill == cap < bound
              one == Acceleration(1)
  <2>2. one \in Nat /\ one >= 1 /\ one = 1
    BY DEF Acceleration
  <2>3. CASE cap >= bound
    <3>1. CompressFast(src, n, cap, 1)
      BY <2>1, <2>3 DEF CompressDestSize
    <3>. DEFINE no == FALSE
    <3>2. stream' = FreshStream /\ block' = <<>>
          /\ enc' = Call(Source, Len(user.msg), cap, limited, OneShotType(Len(user.msg)), "none", FALSE, one, no)
      BY <3>1 DEF CompressFast
    <3>3. limited \in BOOLEAN /\ no \in BOOLEAN /\ ~(limited /\ no) /\ ~Continuing
      BY <1>3 DEF Continuing
    <3>. HIDE DEF cap, limited, no, one
    <3>. QED  BY <1>t, <2>2, <3>2, <3>3, OneShotBegins
  <2>4. CASE ~(cap >= bound)
    <3>. DEFINE no == FALSE
                yes == TRUE
    <3>1. stream' = FreshStream /\ block' = <<>>
          /\ enc' = Call(Source, Len(user.msg), cap, no, OneShotType(Len(user.msg)), "none", FALSE, one, yes)
      BY <2>1, <2>2, <2>4 DEF CompressDestSize
    <3>2. no \in BOOLEAN /\ yes \in BOOLEAN /\ ~(no /\ yes) /\ ~Continuing
      BY <1>3 DEF Continuing
    <3>. HIDE DEF cap, no, yes, one
    <3>. QED  BY <1>t, <2>2, <3>1, <3>2, OneShotBegins
  <2>. QED  BY <2>3, <2>4
<1>4. prog.call \in {"fast", "destSize", "continue"}
  BY DEF FastProgram
<1>. QED  BY <1>1, <1>2, <1>3, <1>4 DEF Continuing

\* When a call returns, its source joins the dictionary or replaces it, and the
\* table has positions up to the end of the source.
LEMMA ReturnIs ==
  ASSUME FastInv, FastReturn, enc.dict # "none"
  PROVE  /\ Settled(stream') /\ stream'.offset = stream.offset + enc.size /\ DictEnd' = enc.src + enc.size
         /\ \/ enc.dict = "prefix" /\ DictEnd = enc.src
                /\ stream'.dict = stream.dict /\ stream'.dictSize = stream.dictSize + enc.size
            \/ stream'.dict = enc.src /\ stream'.dictSize = enc.size
<1>1. CallOK /\ enc.at = "return" /\ Entered(Text, stream.table, IEnd - MFLimit)
  BY DEF FastInv, FastReturn, PositionOK
<1>t. /\ stream.dict \in Nat /\ stream.dictSize \in Nat /\ stream.offset \in Nat /\ stream.table \in [Slots -> Nat]
      /\ enc.src \in Nat /\ enc.size \in Nat /\ enc.size >= 1 /\ stream.dictSize <= stream.offset
      /\ enc.dict \in {"prefix", "external"} /\ (enc.dict = "prefix" => DictEnd = enc.src)
      /\ DictEnd = stream.dict + stream.dictSize /\ stream \in StreamRecord
  BY <1>1 DEF CallOK, CallTyped, StreamRecord, DictEnd
<1>2. \A h \in Slots : stream.table[h] = 0 \/ stream.table[h] + MinMatch <= stream.offset + enc.size
  <2>. SUFFICES ASSUME NEW h \in Slots
                PROVE  stream.table[h] = 0 \/ stream.table[h] + MinMatch <= stream.offset + enc.size
    OBVIOUS
  <2>. DEFINE x == stream.table[h]
  <2>1. x \in Nat /\ Entry(Text, x, IEnd - MFLimit)
    BY <1>1, <1>t DEF Entered
  <2>2. x = 0 \/ x + MinMatch <= stream.offset \/ x - stream.offset + enc.src <= IEnd - MFLimit
    BY <2>1 DEF Entry, Text
  <2>3. IEnd = enc.src + enc.size
    BY DEF IEnd
  <2>. HIDE DEF x
  <2>4. x = 0 \/ x + MinMatch <= stream.offset + enc.size
    BY <1>t, <2>1, <2>2, <2>3
  <2>. QED  BY <2>4 DEF x
<1>3. CASE enc.dict = "prefix"
  <2>. DEFINE size == stream.dictSize + enc.size
              offset == stream.offset + enc.size
  <2>1. stream' = [stream EXCEPT !.dictSize = size, !.offset = offset]
    BY <1>3, <1>t DEF FastReturn, StreamRecord
  <2>2. size \in Nat /\ offset \in Nat /\ size <= offset /\ stream.dict + size = enc.src + enc.size
    BY <1>3, <1>t
  <2>. HIDE DEF size, offset
  <2>3. stream' \in StreamRecord /\ stream'.dict = stream.dict /\ stream'.dictSize = size /\ stream'.offset = offset
        /\ stream'.table = stream.table
    BY <1>t, <2>1, <2>2 DEF StreamRecord
  <2>4. Settled(stream') /\ DictEnd' = enc.src + enc.size
    BY <1>2, <2>2, <2>3 DEF Settled, DictEnd, offset
  <2>. QED  BY <1>3, <1>t, <2>3, <2>4 DEF size, offset
<1>4. CASE enc.dict = "external"
  <2>. DEFINE offset == stream.offset + enc.size
  <2>1. stream' = [stream EXCEPT !.dict = enc.src, !.dictSize = enc.size, !.offset = offset]
    BY <1>4, <1>t DEF FastReturn, StreamRecord
  <2>2. offset \in Nat /\ enc.size <= offset
    BY <1>t
  <2>. HIDE DEF offset
  <2>3. stream' \in StreamRecord /\ stream'.dict = enc.src /\ stream'.dictSize = enc.size /\ stream'.offset = offset
        /\ stream'.table = stream.table
    BY <1>t, <2>1, <2>2 DEF StreamRecord
  <2>4. Settled(stream') /\ DictEnd' = enc.src + enc.size
    BY <1>2, <2>2, <2>3 DEF Settled, DictEnd, offset
  <2>. QED  BY <2>3, <2>4 DEF offset
<1>. QED  BY <1>t, <1>3, <1>4

\* The next message goes where it does not overwrite the end of this one.
LEMMA NextFits ==
  ASSUME FastProgram(prog), Continuing, user.at = "compressing", user.sent \in Nat, NEW at \in Nat, at = user.enc, Fits(at),
         NEW n \in Nat, n >= 1, n <= prog.max
  PROVE  LET next == NextOffset(at, n, prog.ring)
         IN /\ next \in Nat
            /\ prog.layout = "double" => next \in {0, prog.max}
            /\ prog.layout = "ring" => next = 0 \/ next < prog.ring - prog.max
            /\ prog.layout = "follow" => next <= (user.sent + 1) * prog.max
            /\ prog.layout \notin {"double", "ring", "follow"} => next = 0
            /\ prog.layout \notin {"save", "dict"} => at + n <= next \/ at + n > next + prog.max
<1>. DEFINE next == NextOffset(at, n, prog.ring)
<1>t. prog.max \in Nat /\ prog.ring \in Nat
  BY ProgramTypes
<1>1. CASE prog.layout = "double"
  <2>1. next = IF at = 0 THEN prog.max ELSE 0
    BY <1>1 DEF NextOffset
  <2>2. at \in {0, prog.max}
    BY <1>1 DEF Fits
  <2>. HIDE DEF next
  <2>. QED  BY <1>t, <1>1, <2>1, <2>2 DEF next
<1>2. CASE prog.layout = "ring"
  <2>1. next = IF at + n >= prog.ring - prog.max THEN 0 ELSE at + n
    BY <1>2 DEF NextOffset
  <2>2. prog.ring > 2 * prog.max
    BY <1>2 DEF FastProgram, Continuing
  <2>. HIDE DEF next
  <2>. QED  BY <1>t, <1>2, <2>1, <2>2 DEF next
<1>3. CASE prog.layout = "follow"
  <2>1. next = at + n
    BY <1>3 DEF NextOffset
  <2>2. at <= user.sent * prog.max
    BY <1>3 DEF Fits, Gone
  <2>3. (user.sent + 1) * prog.max = user.sent * prog.max + prog.max /\ user.sent * prog.max \in Int
    <3>. DEFINE k == user.sent
                x == prog.max
    <3>1. k \in Nat /\ x \in Nat
      BY <1>t
    <3>. HIDE DEF k, x
    <3>2. (k + 1) * x = k * x + x /\ k * x \in Int
      BY <3>1
    <3>. QED  BY <3>2 DEF k, x
  <2>4. next <= (user.sent + 1) * prog.max
    <3>. DEFINE y == user.sent * prog.max
    <3>. HIDE DEF y, next
    <3>. QED  BY <1>t, <2>1, <2>2, <2>3 DEF y
  <2>. HIDE DEF next
  <2>. QED  BY <1>t, <1>3, <2>1, <2>4 DEF next
<1>4. CASE prog.layout \notin {"double", "ring", "follow"}
  <2>1. next = 0
    BY <1>4 DEF NextOffset
  <2>2. prog.layout \in {"save", "dict"}
    BY <1>4 DEF FastProgram, Continuing
  <2>. QED  BY <1>4, <2>1, <2>2
<1>. QED  BY <1>1, <1>2, <1>3, <1>4

\* The sender after a call: what is the same for both results.
LEMMA SentStream ==
  ASSUME FastProgram(prog), ProgramInv, Sent, FramesStay, user'.at \in {"stopped", "arrived"},
         user'.sent = user.sent, user'.past = user.past
  PROVE  DictionaryOK' /\ OffsetOK' /\ MemoryOK' /\ MessageOK' /\ CallInProgram' /\ Quiet' /\ Continuing' = Continuing
<1>1. user.at = "compressing" /\ FastReturn /\ prog' = prog
  BY DEF Sent
<1>2. mem' = mem /\ enc' = [enc EXCEPT !.at = "idle"]
  BY <1>1 DEF FastReturn
<1>3. Continuing' = Continuing
  BY <1>1 DEF Continuing
<1>4. FastInv /\ enc.src = Source /\ enc.size = Len(user.msg) /\ (Continuing <=> enc.dict # "none")
  BY <1>1 DEF ProgramInv, CallInProgram
<1>5. /\ Len(user.msg) \in Nat /\ Len(user.msg) >= 1 /\ Source \in Nat /\ Source >= 1
      /\ Source + Len(user.msg) <= EncAt + prog.ring /\ user.sent \in Nat
  <2>1. Len(user.msg) \in 1 .. prog.max /\ Source + Len(user.msg) <= EncAt + prog.ring
    BY <1>1 DEF ProgramInv, MessageOK
  <2>2. Len(user.msg) \in Nat /\ prog.max \in Nat /\ Source \in Nat /\ Source >= 1 /\ user.sent \in Nat
    BY ProgramTypes, UserTypes DEF ProgramInv
  <2>. QED  BY <2>1, <2>2
<1>6. DictionaryOK /\ OffsetOK /\ stream \in StreamRecord
  BY DEF ProgramInv, DictionaryOK
<1>7. stream.dict \in Nat /\ stream.dictSize \in Nat /\ stream.offset \in Nat
  BY <1>6, StreamTypes
<1>8. DictionaryOK' /\ OffsetOK'
  <2>1. CASE Continuing
    <3>1. /\ Settled(stream') /\ stream'.offset = stream.offset + enc.size /\ DictEnd' = enc.src + enc.size
          /\ \/ enc.dict = "prefix" /\ DictEnd = enc.src
                 /\ stream'.dict = stream.dict /\ stream'.dictSize = stream.dictSize + enc.size
             \/ stream'.dict = enc.src /\ stream'.dictSize = enc.size
      BY <1>1, <1>4, <2>1, ReturnIs
    <3>2. stream'.dict >= 1
      <4>1. CASE stream.dictSize = 0
        BY <1>4, <1>5, <1>7, <3>1, <4>1 DEF DictEnd
      <4>2. CASE stream.dictSize # 0
        BY <1>4, <1>5, <1>6, <3>1, <4>2 DEF DictionaryOK
      <4>. QED  BY <4>1, <4>2
    <3>3. DictEnd' <= EncAt + prog.ring
      BY <1>4, <1>5, <3>1
    <3>4. DictionaryOK'
      BY <1>1, <1>3, <2>1, <3>1, <3>2, <3>3 DEF DictionaryOK, Settled, TableOK
    <3>5. prog.layout # "dict" => stream'.offset >= MinMatch
      <4>1. prog.layout # "dict" => (user.sent > 0 => stream.offset >= MinMatch) /\ (user.sent = 0 => Len(user.msg) >= MinMatch)
        BY <1>1, <1>6, <2>1 DEF OffsetOK
      <4>. QED  BY <1>4, <1>5, <1>7, <3>1, <4>1
    <3>6. OffsetOK'
      BY <1>1, <3>5 DEF OffsetOK
    <3>. QED  BY <3>4, <3>6
  <2>2. CASE ~Continuing
    <3>1. stream' = stream
      BY <1>1, <1>4, <2>2 DEF FastReturn
    <3>2. DictEnd' = DictEnd
      BY <3>1 DEF DictEnd
    <3>. QED  BY <1>1, <1>3, <1>6, <2>2, <3>1, <3>2 DEF DictionaryOK, OffsetOK
  <2>. QED  BY <2>1, <2>2
<1>9. MemoryOK'
  BY <1>1, <1>2 DEF ProgramInv, MemoryOK
<1>10. MessageOK'
  BY <1>1, <1>2 DEF ProgramInv, MessageOK
<1>11. CallInProgram'
  BY DEF CallInProgram
<1>12. Quiet'
  <2>1. CallTyped(enc)
    BY <1>4 DEF FastInv, CallOK
  <2>2. enc'.at = "idle"
    BY <1>2, <2>1 DEF CallTyped
  <2>. QED  BY <2>2 DEF ProgramInv, Quiet, FramesStay
<1>. QED  BY <1>3, <1>8, <1>9, <1>10, <1>11, <1>12

\* What was sent joins what was said.
LEMMA SentRemembers ==
  ASSUME FastProgram(prog), ProgramInv, Sent, FramesStay, user'.at = "arrived", user'.past = user.past, user'.msg = user.msg, Continuing,
         prog.layout # "dict"
  PROVE  Remembers(Spoken, {})'
<1>. DEFINE msg == user.msg
            past == user.past
            n == Len(msg)
            k == Len(past)
            src == Source
            said == past \o msg
<1>1. user.at = "compressing" /\ FastReturn /\ mem' = mem
  BY DEF Sent, FastReturn
<1>2. FastInv /\ enc.src = src /\ enc.size = n /\ enc.dict # "none"
  BY <1>1 DEF ProgramInv, CallInProgram
<1>3. msg \in Seq(Nat) /\ past \in Seq(Nat)
  BY DEF ProgramInv, UserOK
<1>t. n \in Nat /\ k \in Nat /\ src \in Nat /\ stream.dictSize \in Nat /\ stream.dict \in Nat /\ DictEnd \in Nat
  <2>1. stream \in StreamRecord
    BY DEF ProgramInv, DictionaryOK
  <2>. QED  BY <2>1, UserTypes, StreamTypes DEF ProgramInv
<1>4. Spoken' = said
  BY Zenon DEF Spoken
<1>5. /\ Len(said) = k + n
      /\ \A j \in 1 .. n : said[k + j] = msg[j]
      /\ \A j \in 1 .. k : said[j] = past[j]
  <2>. HIDE DEF msg, past
  <2>1. Len(past \o msg) = Len(past) + Len(msg)
    BY <1>3
  <2>2. \A j \in 1 .. Len(past) : (past \o msg)[j] = past[j]
    BY <1>3
  <2>3. \A j \in 1 .. Len(msg) : (past \o msg)[Len(past) + j] = msg[j]
    BY <1>3
  <2>. QED  BY <2>1, <2>2, <2>3
<1>6. \A j \in 1 .. n : mem[src + j - 1] = msg[j]
  BY <1>1 DEF ProgramInv, MessageOK
<1>7. stream.dictSize <= k /\ \A j \in 1 .. stream.dictSize : mem[DictEnd - j] = past[k - j + 1]
  BY <1>1 DEF ProgramInv, HistoryOK, Remembers
<1>8. /\ DictEnd' = src + n
      /\ \/ DictEnd = src /\ stream'.dictSize = stream.dictSize + n
         \/ stream'.dictSize = n
  BY <1>1, <1>2, ReturnIs
<1>. HIDE DEF msg, past, n, k, src, said
<1>9. ASSUME NEW i \in 1 .. stream'.dictSize  PROVE mem[src + n - i] = said[k + n - i + 1]
  <2>1. CASE i <= n
    <3>. DEFINE j == n - i + 1
    <3>1. j \in 1 .. n /\ src + n - i = src + j - 1 /\ k + n - i + 1 = k + j
      BY <1>t, <1>8, <2>1
    <3>. HIDE DEF j
    <3>2. mem[src + j - 1] = msg[j] /\ said[k + j] = msg[j]
      BY <1>5, <1>6, <3>1
    <3>. QED  BY <3>1, <3>2
  <2>2. CASE ~(i <= n)
    <3>. DEFINE j == i - n
                l == k - j + 1
    <3>1. j \in 1 .. stream.dictSize /\ src + n - i = DictEnd - j /\ k + n - i + 1 = l /\ l \in 1 .. k
      BY <1>t, <1>7, <1>8, <2>2
    <3>2. mem[DictEnd - j] = past[k - j + 1]
      <4>. HIDE DEF j
      <4>. QED  BY <1>7, <3>1
    <3>3. said[l] = past[l]
      <4>. HIDE DEF l
      <4>. QED  BY <1>5, <3>1
    <3>. QED  BY <3>1, <3>2, <3>3
  <2>. QED  BY <2>1, <2>2
<1>10. stream'.dictSize <= k + n
  BY <1>t, <1>7, <1>8
<1>11. ASSUME NEW i \in 1 .. stream'.dictSize  PROVE mem'[DictEnd' - i] = said[Len(said) - i + 1]
  <2>. DEFINE a == src + n - i
              b == k + n - i + 1
  <2>1. mem[a] = said[b]
    BY <1>9
  <2>2. DictEnd' - i = a
    BY <1>t, <1>8
  <2>3. Len(said) - i + 1 = b
    BY <1>t, <1>5
  <2>. HIDE DEF a, b
  <2>. QED  BY <1>1, <2>1, <2>2, <2>3, Zenon
<1>. QED  BY <1>4, <1>5, <1>10, <1>11 DEF Remembers

LEMMA SentKeeps ==
  ASSUME FastProgram(prog), ProgramInv, Sent, FramesStay
  PROVE  ProgramInv'
<1>. DEFINE consumed == enc.anchor - enc.src
            msg == SubSeq(user.msg, 1, consumed)
            next == NextOffset(user.enc, consumed, prog.ring)
            n == Len(user.msg)
<1>1. user.at = "compressing" /\ FastReturn /\ enc.at = "return" /\ prog' = prog
  BY DEF Sent, FastReturn
<1>2. FastInv /\ enc.src = Source /\ enc.size = n /\ (Continuing <=> enc.dict # "none") /\ (enc.fill => ~Continuing)
  BY <1>1 DEF ProgramInv, CallInProgram
<1>3. /\ user' = IF enc.result = 0 THEN [user EXCEPT !.at = "stopped"]
                 ELSE [user EXCEPT !.at = "arrived", !.msg = msg, !.enc = next]
      /\ UserOK
  <2>1. UserOK
    BY DEF ProgramInv
  <2>. QED  BY <2>1 DEF Sent, UserOK
<1>t. /\ user.msg \in Seq(Nat) /\ n \in Nat /\ n >= 1 /\ n <= prog.max /\ prog.max \in Nat /\ user.sent \in Nat /\ user.enc \in Nat
      /\ Source = EncAt + user.enc /\ EncAt \in Nat /\ Source \in Nat
  <2>1. n \in 1 .. prog.max /\ user.msg \in Seq(Nat)
    BY <1>1 DEF ProgramInv, MessageOK, UserOK
  <2>2. n \in Nat /\ prog.max \in Nat /\ EncAt \in Nat /\ user.sent \in Nat /\ user.enc \in Nat
        /\ Source = EncAt + user.enc /\ Source \in Nat
    BY ProgramTypes, UserTypes DEF ProgramInv
  <2>. QED  BY <2>1, <2>2
<1>4. consumed \in 0 .. n
  <2>1. enc.src <= enc.anchor /\ enc.anchor <= IEnd /\ CallOK
    BY <1>2 DEF FastInv, PositionOK
  <2>2. enc.src \in Nat /\ enc.anchor \in Int /\ IEnd = enc.src + enc.size /\ enc.size \in Nat
    BY <2>1 DEF CallOK, CallTyped, IEnd
  <2>. HIDE DEF n
  <2>. QED  BY <1>2, <2>1, <2>2
<1>5. enc.result # 0 /\ Continuing => consumed = n
  <2>. SUFFICES ASSUME enc.result # 0, Continuing  PROVE consumed = n
    OBVIOUS
  <2>1. enc.result \in Nat /\ enc.src \in Nat /\ enc.size \in Nat
    BY <1>2 DEF FastInv, CallOK, CallTyped
  <2>2. enc.anchor = IEnd
    BY <1>1, <1>2, <2>1 DEF FastInv, PositionOK
  <2>. HIDE DEF n
  <2>. QED  BY <1>2, <2>1, <2>2 DEF IEnd
<1>6. msg \in Seq(Nat) /\ (consumed = n => msg = user.msg)
  <2>. HIDE DEF consumed
  <2>. QED  BY <1>t, <1>4
<1>7. CASE enc.result = 0
  <2>1. user' = [user EXCEPT !.at = "stopped"]
    BY <1>3, <1>7
  <2>2. /\ user'.at = "stopped" /\ user'.sent = user.sent /\ user'.past = user.past /\ UserOK'
    BY <1>3, <2>1 DEF UserOK, Stages
  <2>3. DictionaryOK' /\ OffsetOK' /\ MemoryOK' /\ MessageOK' /\ CallInProgram' /\ Quiet'
    BY <2>2, SentStream
  <2>4. StageOK' /\ ~Steady' /\ HistoryOK'
    BY <1>1, <2>2 DEF StageOK, Steady, HistoryOK, Between
  <2>. QED  BY <2>2, <2>3, <2>4 DEF ProgramInv
<1>8. CASE enc.result # 0
  <2>1. user' = [user EXCEPT !.at = "arrived", !.msg = msg, !.enc = next]
    BY <1>3, <1>8
  <2>2. /\ next \in Nat
        /\ prog.layout = "double" => next \in {0, prog.max}
        /\ prog.layout = "ring" => next = 0 \/ next < prog.ring - prog.max
        /\ prog.layout = "follow" => next <= (user.sent + 1) * prog.max
        /\ prog.layout \notin {"double", "ring", "follow"} => next = 0
        /\ Continuing /\ prog.layout \notin {"save", "dict"} =>
             user.enc + n <= next \/ user.enc + n > next + prog.max
    <3>1. CASE Continuing
      <4>1. consumed = n
        BY <1>5, <1>8, <3>1
      <4>2. Fits(user.enc)
        BY <1>1 DEF ProgramInv, StageOK
      <4>. DEFINE at == user.enc
      <4>3. next = NextOffset(at, n, prog.ring)
        BY <4>1, Zenon
      <4>. HIDE DEF n, next, at
      <4>4. LET to == NextOffset(at, n, prog.ring)
            IN /\ to \in Nat
               /\ prog.layout = "double" => to \in {0, prog.max}
               /\ prog.layout = "ring" => to = 0 \/ to < prog.ring - prog.max
               /\ prog.layout = "follow" => to <= (user.sent + 1) * prog.max
               /\ prog.layout \notin {"double", "ring", "follow"} => to = 0
               /\ prog.layout \notin {"save", "dict"} => at + n <= to \/ at + n > to + prog.max
        BY <1>1, <1>t, <3>1, <4>2, NextFits DEF at
      <4>. QED  BY <4>3, <4>4 DEF at
    <3>2. CASE ~Continuing
      <4>1. prog.layout = "simple"
        BY <3>2 DEF FastProgram, Continuing
      <4>2. next = 0
        BY <4>1 DEF NextOffset
      <4>. QED  BY <3>2, <4>1, <4>2
    <3>. QED  BY <3>1, <3>2
  <2>. HIDE DEF next
  <2>3. /\ user'.at = "arrived" /\ user'.sent = user.sent /\ user'.past = user.past /\ user'.msg = msg /\ user'.enc = next
        /\ UserOK'
    <3>. HIDE DEF msg
    <3>. QED  BY <1>3, <1>6, <2>1, <2>2 DEF UserOK, Stages
  <2>4. DictionaryOK' /\ OffsetOK' /\ MemoryOK' /\ MessageOK' /\ CallInProgram' /\ Quiet' /\ Continuing' = Continuing
    BY <2>3, SentStream
  <2>5. StageOK'
    <3>1. Gone' = user.sent + 1
      BY <2>3 DEF Gone
    <3>2. Fits(user.enc)'
      BY <1>1, <2>2, <2>3, <3>1 DEF Fits
    <3>. QED  BY <2>3, <3>2 DEF StageOK
  <2>6. Steady' => Clear'
    <3>1. Source' = EncAt + next
      BY <2>3 DEF Source
    <3>2. Steady' => prog.layout \notin {"save", "dict"}
      BY <1>1, <2>3 DEF Steady
    <3>3. CASE Continuing
      <4>1. DictEnd' = Source + n
        BY <1>1, <1>2, <3>3, ReturnIs
      <4>2. DictEnd' = EncAt + user.enc + n
        BY <1>t, <4>1
      <4>. HIDE DEF n
      <4>. QED  BY <1>1, <1>t, <2>2, <3>1, <3>2, <3>3, <4>2 DEF Clear
    <3>4. CASE ~Continuing
      <4>1. stream'.dictSize = 0 /\ stream'.dict = 0
        BY <2>4, <3>4 DEF DictionaryOK
      <4>2. DictEnd' = 0
        BY <4>1 DEF DictEnd
      <4>. QED  BY <1>t, <2>2, <3>1, <4>2 DEF Clear
    <3>. QED  BY <3>3, <3>4
  <2>7. HistoryOK'
    <3>. SUFFICES ASSUME prog.layout # "dict"  PROVE Remembers(Spoken, {})'
      BY <1>1, <2>3 DEF HistoryOK, Between
    <3>1. CASE Continuing
      <4>1. msg = user.msg
        BY <1>5, <1>6, <1>8, <3>1
      <4>. QED  BY <2>3, <3>1, <4>1, SentRemembers
    <3>2. CASE ~Continuing
      <4>1. stream'.dictSize = 0
        BY <2>4, <3>2 DEF DictionaryOK
      <4>2. Spoken' = user.past \o msg
        BY <2>3, Zenon DEF Spoken
      <4>3. user.past \in Seq(Nat)
        BY <1>3 DEF UserOK
      <4>4. user.past \o msg \in Seq(Nat)
        <5>. HIDE DEF msg
        <5>. QED  BY <1>6, <4>3
      <4>. DEFINE said == user.past \o msg
      <4>5. Len(said) \in Nat
        <5>. HIDE DEF said
        <5>. QED  BY <4>4 DEF said
      <4>. HIDE DEF said
      <4>6. Spoken' = said
        BY <4>2 DEF said
      <4>7. stream'.dictSize <= Len(said) /\ 1 .. stream'.dictSize = {}
        BY <4>1, <4>5
      <4>. QED  BY <4>6, <4>7 DEF Remembers
    <3>. QED  BY <3>1, <3>2
  <2>. QED  BY <2>3, <2>4, <2>5, <2>6, <2>7 DEF ProgramInv
<1>. QED  BY <1>7, <1>8

\* The dictionary is moved to where the next message does not go.
LEMMA SaveKeeps ==
  ASSUME FastProgram(prog), ProgramInv, Save, FramesStay
  PROVE  ProgramInv'
<1>. DEFINE size == Min({Window, Window, stream.dictSize})
            from == DictEnd - size
            bytes == Bytes(mem, from, size)
            K == EncAt + prog.ring
            past == user.past
            k == Len(past)
<1>1. /\ user.at = "write" /\ prog.layout = "save" /\ user' = [user EXCEPT !.at = "saved"] /\ enc' = enc /\ prog' = prog
  BY DEF Save
<1>2. Continuing /\ SafeAt + Window <= EncAt
  BY <1>1 DEF FastProgram, Continuing
<1>3. mem' = Store(mem, SafeAt, bytes) /\ stream' = [stream EXCEPT !.dict = SafeAt, !.dictSize = size]
  <2>1. prog.call \notin HighCalls
    BY <1>2 DEF Continuing, HighCalls
  <2>. QED  BY <2>1, Zenon DEF Save, SaveDict
<1>t. /\ stream \in StreamRecord /\ stream.dict \in Nat /\ stream.dictSize \in Nat /\ stream.offset \in Nat
      /\ DictEnd = stream.dict + stream.dictSize /\ Window \in Nat /\ EncAt \in Nat /\ SafeAt \in Nat /\ SafeAt >= 1
      /\ prog.ring \in Nat /\ K \in Nat /\ Source \in Nat /\ Source >= EncAt /\ k \in Nat
  <2>1. stream \in StreamRecord
    BY DEF ProgramInv, DictionaryOK
  <2>2. /\ EncAt \in Nat /\ SafeAt \in Nat /\ SafeAt >= 1 /\ prog.ring \in Nat /\ Source \in Nat /\ Source >= EncAt /\ k \in Nat
    BY ProgramTypes, UserTypes DEF ProgramInv
  <2>. QED  BY <2>1, <2>2, StreamTypes, FastAssumption
<1>4. size \in Nat /\ size <= Window /\ size <= stream.dictSize
  <2>. DEFINE d == stream.dictSize
  <2>1. size \in {Window, Window, d} /\ size <= Window /\ size <= d
    <3>1. Window \in Int /\ d \in Int /\ size = Min({Window, Window, d})
      BY <1>t
    <3>. HIDE DEF d, size
    <3>. QED  BY <3>1, MinOfThree
  <2>. HIDE DEF size
  <2>. QED  BY <1>t, <2>1
<1>5. /\ stream.dictSize <= stream.offset /\ (stream.dictSize # 0 => 1 <= stream.dict /\ DictEnd <= K) /\ TableOK
  BY <1>1, <1>2 DEF ProgramInv, DictionaryOK
<1>. HIDE DEF size
<1>6. mem \in [1 .. K -> Nat]
  BY DEF ProgramInv, MemoryOK
<1>7. from \in Int /\ \A v \in from .. from + size - 1 : v \in 1 .. K
  BY <1>t, <1>4, <1>5
<1>. HIDE DEF K
<1>8. \A v \in from .. from + size - 1 : mem[v] \in Nat
  BY <1>6, <1>7
<1>. HIDE DEF from
<1>9. bytes \in Seq(Nat) /\ Len(bytes) = size /\ \A j \in 1 .. size : bytes[j] = mem[from + j - 1]
  <2>1. bytes \in Seq(Nat) /\ Len(bytes) = size
    BY <1>4, <1>7, <1>8, BytesType
  <2>2. \A j \in 1 .. size : bytes[j] = mem[from + j - 1]
    BY DEF Bytes
  <2>. QED  BY <2>1, <2>2
<1>. HIDE DEF bytes
<1>10. /\ mem' \in [1 .. K -> Nat]
       /\ \A j \in 1 .. size : SafeAt + j - 1 <= K => mem'[SafeAt + j - 1] = bytes[j]
  <2>1. K \in Int /\ SafeAt \in Nat \ {0}
    BY <1>t
  <2>2. /\ Store(mem, SafeAt, bytes) \in [1 .. K -> Nat]
        /\ \A j \in 1 .. Len(bytes) : SafeAt + j - 1 <= K => Store(mem, SafeAt, bytes)[SafeAt + j - 1] = bytes[j]
    BY <1>6, <1>9, <2>1, StoreIs
  <2>. QED  BY <1>3, <1>9, <2>2
<1>11. /\ user'.at = "saved" /\ user'.msg = user.msg /\ user'.sent = user.sent /\ user'.enc = user.enc
       /\ user'.past = user.past /\ UserOK'
  BY <1>1 DEF ProgramInv, UserOK, Stages
<1>12. Source' = Source /\ Continuing' = Continuing /\ Gone' = Gone
  BY <1>1, <1>11 DEF Source, Continuing, Gone
<1>13. StageOK' /\ MemoryOK' /\ MessageOK' /\ CallInProgram'
  <2>1. StageOK'
    BY <1>1, <1>11, <1>12 DEF ProgramInv, StageOK, Fits
  <2>2. MemoryOK'
    BY <1>1, <1>10 DEF MemoryOK, K
  <2>3. MessageOK' /\ CallInProgram'
    BY <1>1, <1>11 DEF MessageOK, CallInProgram
  <2>. QED  BY <2>1, <2>2, <2>3
<1>14. /\ stream' \in StreamRecord /\ stream'.dict = SafeAt /\ stream'.dictSize = size /\ stream'.offset = stream.offset
       /\ stream'.table = stream.table
  BY <1>t, <1>3, <1>4 DEF StreamRecord
<1>15. DictEnd' = SafeAt + size /\ DictEnd' <= EncAt /\ EncAt <= K
  <2>1. DictEnd' = SafeAt + size
    BY <1>14 DEF DictEnd
  <2>. QED  BY <1>t, <1>2, <1>4, <2>1 DEF K
<1>16. DictionaryOK'
  <2>1. size <= stream.offset /\ DictEnd' <= K /\ K' = K
    BY <1>t, <1>1, <1>4, <1>5, <1>15 DEF K
  <2>. QED  BY <1>t, <1>2, <1>5, <1>12, <1>14, <2>1 DEF DictionaryOK, TableOK, K
<1>17. OffsetOK'
  BY <1>1, <1>11, <1>12, <1>14 DEF ProgramInv, OffsetOK
<1>18. Clear'
  BY <1>t, <1>12, <1>15 DEF Clear
<1>19. HistoryOK'
  <2>1. Spoken = past /\ Spoken' = past
    BY <1>1, <1>11 DEF Spoken
  <2>2. stream.dictSize <= k /\ \A i \in 1 .. stream.dictSize : mem[DictEnd - i] = past[k - i + 1]
    BY <1>1, <2>1 DEF ProgramInv, HistoryOK, Between, Remembers
  <2>. HIDE DEF past, k
  <2>3. ASSUME NEW i \in 1 .. size  PROVE mem'[DictEnd' - i] = past[k - i + 1]
    <3>. DEFINE j == size - i + 1
    <3>1. /\ j \in 1 .. size /\ DictEnd' - i = SafeAt + j - 1 /\ SafeAt + j - 1 <= K /\ from + j - 1 = DictEnd - i
          /\ i \in 1 .. stream.dictSize
      BY <1>t, <1>4, <1>15 DEF from
    <3>. HIDE DEF j
    <3>2. mem'[SafeAt + j - 1] = bytes[j] /\ bytes[j] = mem[from + j - 1]
      BY <1>9, <1>10, <3>1
    <3>3. mem[DictEnd - i] = past[k - i + 1]
      BY <2>2, <3>1
    <3>. QED  BY <3>1, <3>2, <3>3, Zenon
  <2>4. size <= k
    BY <1>t, <1>4, <2>2
  <2>5. Remembers(Spoken, {})'
    BY <1>14, <2>1, <2>3, <2>4 DEF Remembers, k
  <2>. QED  BY <1>11, <2>5 DEF HistoryOK, Between
<1>20. Quiet'
  BY <1>1, <1>11 DEF ProgramInv, Quiet, FramesStay
<1>. QED  BY <1>11, <1>13, <1>16, <1>17, <1>18, <1>19, <1>20 DEF ProgramInv

-----------------------------------------------------------------------------
(***************************************************************************)
(* The specification.                                                      *)
(***************************************************************************)
\* A program starts with an empty stream and its dictionary in memory.
LEMMA ProgramStarts ==
  ASSUME StreamInit, FrameOutInit, NoJob, FastProgram(prog)
  PROVE  ProgramInv
<1>. DEFINE K == EncAt + prog.ring
            start == [a \in 1 .. K |-> Junk]
            n == Len(prog.dict)
<1>1. /\ user = [at |-> "write", sent |-> 0, enc |-> 0, dec |-> 0, past |-> prog.dict, msg |-> <<>>]
      /\ stream = FreshStream /\ enc = Resting /\ mem = Store(start, SafeAt, prog.dict)
      /\ cop = [at |-> "idle", result |-> 0] /\ app = [at |-> "none"]
  BY DEF StreamInit, FastInit, FrameOutInit, NoJob
<1>t. /\ prog.max \in Nat /\ prog.ring \in Nat /\ prog.dict \in Seq(Nat) /\ n \in Nat /\ EncAt \in Nat /\ EncAt >= 1
      /\ SafeAt \in Nat /\ SafeAt >= 1 /\ Junk \in Nat /\ K \in Nat
  BY ProgramTypes
<1>2. /\ user.at = "write" /\ user.sent = 0 /\ user.enc = 0 /\ user.past = prog.dict
      /\ enc.at = "idle" /\ cop.at = "idle" /\ app.at = "none"
  BY <1>1 DEF Resting
<1>3. UserOK
  <2>1. <<>> \in Seq(Nat)
    OBVIOUS
  <2>. QED  BY <1>1, <1>t, <2>1 DEF UserOK, Stages
<1>4. StageOK
  <2>1. Gone = 0 /\ 0 <= 0 * prog.max
    BY <1>2, <1>t DEF Gone
  <2>2. Fits(0)
    BY <2>1 DEF Fits
  <2>. QED  BY <1>2, <2>2 DEF StageOK
<1>5. /\ mem \in [1 .. K -> Nat]
      /\ \A i \in 1 .. n : SafeAt + i - 1 <= K => mem[SafeAt + i - 1] = prog.dict[i]
  <2>1. start \in [1 .. K -> Nat] /\ K \in Int /\ SafeAt \in Nat \ {0} /\ prog.dict \in Seq(Nat)
    BY <1>t
  <2>. DEFINE d == prog.dict
  <2>. HIDE DEF start, K, d
  <2>2. /\ Store(start, SafeAt, d) \in [1 .. K -> Nat]
        /\ \A i \in 1 .. Len(d) : SafeAt + i - 1 <= K => Store(start, SafeAt, d)[SafeAt + i - 1] = d[i]
    BY <2>1, StoreIs DEF d
  <2>. QED  BY <1>1, <2>2 DEF d
<1>6. MemoryOK
  BY <1>5 DEF MemoryOK
<1>7. MessageOK
  <2>1. ASSUME prog.layout = "dict", NEW i \in 1 .. n  PROVE mem[SafeAt + i - 1] = prog.dict[i]
    <3>1. SafeAt + n <= EncAt
      BY <2>1 DEF FastProgram
    <3>2. SafeAt + i - 1 <= K
      BY <1>t, <3>1
    <3>. QED  BY <1>5, <3>2
  <2>. QED  BY <1>2, <2>1 DEF MessageOK
<1>8. Settled(stream) /\ stream.dictSize = 0 /\ stream.dict = 0 /\ stream.offset = 0
  BY <1>1, FreshIsSettled
<1>9. DictionaryOK /\ OffsetOK
  BY <1>2, <1>8 DEF DictionaryOK, OffsetOK, Settled, TableOK
<1>10. Clear
  <2>1. DictEnd = 0 /\ Source = EncAt
    BY <1>2, <1>8, <1>t DEF DictEnd, Source
  <2>. QED  BY <1>t, <2>1 DEF Clear
<1>11. HistoryOK
  <2>1. Spoken = prog.dict
    BY <1>2, Zenon DEF Spoken
  <2>2. 0 <= n /\ 1 .. stream.dictSize = {}
    BY <1>t, <1>8
  <2>3. Remembers(Spoken, {})
    BY <1>8, <2>1, <2>2 DEF Remembers
  <2>. QED  BY <1>2, <2>3 DEF HistoryOK
<1>12. CallInProgram /\ Quiet
  BY <1>2 DEF CallInProgram, Quiet
<1>. QED  BY <1>3, <1>4, <1>6, <1>7, <1>9, <1>10, <1>11, <1>12 DEF ProgramInv

LEMMA StreamInvStarts == Init => StreamInv
<1>. SUFFICES ASSUME Init, FastProgram(prog)  PROVE ProgramInv
  BY DEF StreamInv
<1>1. ~NoProgram
  <2>1. prog.call \in {"fast", "destSize", "continue"}
    BY DEF FastProgram
  <2>. QED  BY <2>1 DEF NoProgram
<1>2. StreamInit /\ FrameOutInit /\ NoJob
  BY <1>1 DEF Init
<1>. QED  BY <1>2, ProgramStarts

LEMMA StreamInvKept == HashOK /\ StreamInv /\ [Next]_vars => StreamInv'
<1>. SUFFICES ASSUME HashOK, StreamInv, [Next]_vars, FastProgram(prog)'  PROVE ProgramInv'
  BY DEF StreamInv
<1>1. prog' = prog
  <2>1. StreamNext => prog' = prog
    BY DEF StreamNext, Write, LoadDictionary, Begin, Step, HighStep, Sent, Save, Receive, DecodeStep, Arrived
  <2>. QED  BY <2>1 DEF Next, vars, streamVars
<1>2. FastProgram(prog)
  BY <1>1 DEF FastProgram
<1>3. ProgramInv
  BY <1>2 DEF StreamInv
<1>4. CASE StreamNext /\ FramesStay
  <2>1. CASE Write
    BY <1>2, <1>3, <1>4, <2>1, WriteKeeps
  <2>2. CASE LoadDictionary
    BY <1>2, <1>3, <1>4, <2>2, LoadKeeps
  <2>3. CASE Begin
    BY <1>2, <1>3, <1>4, <2>3, BeginKeeps
  <2>4. CASE Step
    BY <1>2, <1>3, <1>4, <2>4, StepKeeps
  <2>5. CASE HighStep
    BY <1>2, <1>3, <2>5, NoHighStep DEF HighStep
  <2>6. CASE Sent
    BY <1>2, <1>3, <1>4, <2>6, SentKeeps
  <2>7. CASE Save
    BY <1>2, <1>3, <1>4, <2>7, SaveKeeps
  <2>8. CASE Receive
    BY <1>2, <1>3, <1>4, <2>8, ReceiveKeeps
  <2>9. CASE DecodeStep
    BY <1>2, <1>3, <1>4, <2>9, DecodeStepKeeps
  <2>10. CASE Arrived
    BY <1>2, <1>3, <1>4, <2>10, ArrivedKeeps
  <2>. QED  BY <1>4, <2>1, <2>2, <2>3, <2>4, <2>5, <2>6, <2>7, <2>8, <2>9, <2>10 DEF StreamNext
<1>5. CASE UNCHANGED vars
  BY <1>2, <1>3, <1>5, RestKeeps DEF vars, streamVars, encoderVars, fastVars, frameOutVars, FramesStay
<1>6. app.at = "none"
  BY <1>3 DEF ProgramInv, Quiet
<1>7. (StreamNext /\ FramesStay) \/ UNCHANGED vars
  BY <1>6 DEF Next, FramesStay, frameOutVars
<1>. QED  BY <1>4, <1>5, <1>7

\* The sequences of a block follow each other.
LEMMA WrittenWithin ==
  ASSUME NEW b \in Seq(Sequence), NEW i \in 1 .. Len(b) + 1
  PROVE  Written(b, i) <= Written(b, Len(b) + 1)
<1>. DEFINE n == Len(b)
            w == Written(b, n + 1)
            x == n + 1 - i
            P == {k \in 0 .. x : ~(Written(b, n + 1 - k) <= w)}
<1>1. n \in Nat /\ w \in Nat
  <2>1. n \in Nat
    OBVIOUS
  <2>2. n + 1 \in 1 .. Len(b) + 1
    BY <2>1
  <2>. QED  BY <2>1, <2>2, WrittenType
<1>. HIDE DEF w
<1>x. x \in 0 .. n /\ n + 1 - x = i
  BY <1>1
<1>2. ASSUME ~(Written(b, i) <= w)  PROVE FALSE
  <2>1. \E k \in P : \A j \in 0 .. k - 1 : j \notin P
    <3>1. P \in SUBSET (0 .. x) /\ x \in P /\ x \in Nat
      BY <1>x, <1>2
    <3>. HIDE DEF P, x
    <3>. QED  BY <3>1, SmallestNumber
  <2>2. PICK k \in P : \A j \in 0 .. k - 1 : j \notin P
    BY <2>1
  <2>3. k \in 0 .. x /\ k \in 0 .. n /\ ~(Written(b, n + 1 - k) <= w)
    BY <1>1, <1>x
  <2>4. k # 0
    BY <1>1, <2>3 DEF w
  <2>. DEFINE j == n + 1 - k
  <2>5. j \in 1 .. n /\ j + 1 = n + 1 - (k - 1) /\ k - 1 \in 0 .. k - 1 /\ k - 1 \in 0 .. x
    BY <1>1, <1>x, <2>3, <2>4
  <2>6. Written(b, j + 1) <= w
    BY <2>2, <2>5
  <2>. HIDE DEF j
  <2>7. j \in DOMAIN b /\ j \in 1 .. Len(b)
    BY <2>5
  <2>8. Written(b, j) <= Written(b, j + 1) /\ Written(b, j) \in Nat /\ Written(b, j + 1) \in Nat
    <3>1. Written(b, j + 1) = Written(b, j) + Len(b[j].lit) + b[j].ml
      BY <2>7, WrittenNext
    <3>2. Written(b, j) \in Nat
      BY <2>7, WrittenType
    <3>3. b[j] \in Sequence
      BY <2>7
    <3>4. b[j].lit \in Seq(Nat) /\ b[j].ml \in Nat
      BY <3>3 DEF Sequence
    <3>5. Len(b[j].lit) \in Nat
      BY <3>4
    <3>. DEFINE u == Len(b[j].lit)
                v == b[j].ml
                a == Written(b, j)
    <3>6. u \in Nat /\ v \in Nat /\ a \in Nat /\ Written(b, j + 1) = a + u + v
      BY <3>1, <3>2, <3>4, <3>5
    <3>. HIDE DEF u, v, a
    <3>7. a <= Written(b, j + 1) /\ Written(b, j + 1) \in Nat
      BY <3>6
    <3>. QED  BY <3>6, <3>7 DEF a
  <2>. QED  BY <1>1, <2>3, <2>6, <2>8 DEF j
<1>. QED  BY <1>2 DEF w

\* While a call runs, the text is the end of what was said with the message.
LEMMA TextIsSaid ==
  ASSUME FastProgram(prog), ProgramInv, user.at = "compressing", NEW v \in Int, Text.low <= v, v < IEnd
  PROVE  LET j == Len(user.past) + (v - enc.src) + 1
         IN j \in 1 .. Len(user.past) + Len(user.msg) /\ TextAt(Text, v) = (user.past \o user.msg)[j]
<1>. DEFINE msg == user.msg
            past == user.past
            n == Len(msg)
            k == Len(past)
            said == past \o msg
            src == enc.src
            j == k + (v - src) + 1
<1>1. CallOK /\ src = Source /\ enc.size = n /\ msg \in Seq(Nat) /\ past \in Seq(Nat)
  BY DEF ProgramInv, CallInProgram, FastInv, UserOK
<1>t. /\ n \in Nat /\ k \in Nat /\ src \in Nat /\ IEnd = src + n /\ stream.dictSize \in Nat /\ DictEnd \in Nat
      /\ Text.low = src - stream.dictSize /\ Text.src = src /\ Text.mem = mem /\ Text.delta = DictEnd - src
  <2>1. n \in Nat /\ k \in Nat
    BY <1>1
  <2>2. stream \in StreamRecord /\ enc.src \in Nat
    BY <1>1 DEF CallOK, CallTyped
  <2>3. stream.dictSize \in Nat /\ DictEnd \in Nat
    BY <2>2, StreamTypes
  <2>4. Text.low = src - stream.dictSize /\ Text.src = src /\ Text.mem = mem /\ Text.delta = DictEnd - src
    BY DEF Text, DictDelta
  <2>5. IEnd = src + n
    BY <1>1 DEF IEnd
  <2>. QED  BY <2>1, <2>2, <2>3, <2>4, <2>5
<1>2. \A i \in 1 .. n : mem[src + i - 1] = msg[i]
  BY <1>1 DEF ProgramInv, MessageOK
<1>3. stream.dictSize <= k /\ \A i \in 1 .. stream.dictSize : mem[DictEnd - i] = past[k - i + 1]
  BY DEF ProgramInv, HistoryOK, Remembers
<1>4. /\ \A i \in 1 .. n : said[k + i] = msg[i]
      /\ \A i \in 1 .. k : said[i] = past[i]
  <2>. HIDE DEF msg, past
  <2>1. \A i \in 1 .. Len(past) : (past \o msg)[i] = past[i]
    BY <1>1
  <2>2. \A i \in 1 .. Len(msg) : (past \o msg)[Len(past) + i] = msg[i]
    BY <1>1
  <2>. QED  BY <2>1, <2>2
<1>. HIDE DEF msg, past, n, k, said, src
<1>5. j \in 1 .. k + n
  BY <1>t, <1>3
<1>6. TextAt(Text, v) = said[j]
  <2>1. CASE v >= src
    <3>. DEFINE i == v - src + 1
    <3>1. i \in 1 .. n /\ j = k + i /\ v = src + i - 1
      BY <1>t, <2>1
    <3>2. TextAt(Text, v) = mem[v]
      <4>1. TextAt(Text, v) = mem[v + 0]
        BY <1>t, <2>1 DEF TextAt
      <4>. QED  BY <4>1
    <3>. HIDE DEF i, j
    <3>3. mem[src + i - 1] = msg[i] /\ said[k + i] = msg[i]
      BY <1>2, <1>4, <3>1
    <3>. QED  BY <3>1, <3>2, <3>3, Zenon
  <2>2. CASE ~(v >= src)
    <3>. DEFINE i == src - v
                a == DictEnd - i
    <3>1. i \in 1 .. stream.dictSize /\ j = k - i + 1 /\ j \in 1 .. k /\ v + (DictEnd - src) = a
      BY <1>t, <1>3, <2>2
    <3>2. TextAt(Text, v) = mem[v + (DictEnd - src)]
      BY <1>t, <2>2 DEF TextAt
    <3>. HIDE DEF i, j
    <3>3. mem[DictEnd - i] = past[k - i + 1]
      BY <1>3, <3>1
    <3>4. said[j] = past[j]
      BY <1>4, <3>1
    <3>. QED  BY <3>1, <3>2, <3>3, <3>4, Zenon
  <2>. QED  BY <2>1, <2>2
<1>. QED  BY <1>5, <1>6 DEF msg, past, n, k, said, src, j

\* What a sequence of the block says, where it stands in what was said.
LEMMA SequenceIsHistory ==
  ASSUME FastProgram(prog), ProgramInv, user.at = "compressing", enc.at = "return", enc.result > 0, NEW i \in 1 .. Len(block)
  PROVE  LET said == user.past \o user.msg
             s == block[i]
             p == StartOf(block, i) + Len(s.lit)
         IN /\ Bytes(said, StartOf(block, i) + 1, Len(s.lit)) = s.lit
            /\ IsLast(s) <=> i = Len(block)
            /\ ~IsLast(s) => /\ s.off \in 1 .. Min({MaxDistance, p})
                             /\ \A j \in 1 .. s.ml : said[p + j] = said[p + j - s.off]
<1>. DEFINE s == block[i]
            lit == s.lit
            n == Len(lit)
            k == Len(user.past)
            src == enc.src
            w == Written(block, i)
            a == src + w
            q == a + n
            off == s.off
            ml == s.ml
            said == user.past \o user.msg
            size == enc.size
            p == k + w + n
<1>1. FastInv /\ CallOK /\ src = Source /\ size = Len(user.msg)
  BY DEF ProgramInv, CallInProgram, FastInv
<1>2. block \in Seq(Sequence) /\ src + Written(block, Len(block) + 1) = enc.anchor /\ Faithful(Text, s, a)
      /\ (s.ml = 0 <=> i = Len(block))
  <2>1. BlockOK
    BY <1>1 DEF FastInv
  <2>2. block \in Seq(Sequence) /\ src + Written(block, Len(block) + 1) = enc.anchor
    BY <2>1, Zenon DEF BlockOK
  <2>3. i \in DOMAIN block
    <3>. HIDE DEF Sequence
    <3>. QED  BY <2>2
  <2>4. Faithful(Text, s, a)
    BY <2>1, <2>3, Zenon DEF BlockOK
  <2>5. s.ml = 0 <=> i = Len(block)
    BY <2>1, <2>3 DEF BlockOK
  <2>. QED  BY <2>2, <2>4, <2>5
<1>3. s \in Sequence /\ lit \in Seq(Nat) /\ off \in Nat /\ ml \in Nat
  <2>1. s \in Sequence
    <3>. HIDE DEF Sequence
    <3>. QED  BY <1>2
  <2>. HIDE DEF s
  <2>. QED  BY <2>1 DEF Sequence
<1>t. /\ n \in Nat /\ k \in Nat /\ src \in Nat /\ size \in Nat /\ w \in Nat /\ stream.dictSize \in Nat
      /\ IEnd = src + size /\ Text.low = src - stream.dictSize /\ Text.mem = mem
  <2>1. n \in Nat
    <3>. HIDE DEF lit
    <3>. QED  BY <1>3
  <2>2. k \in Nat
    BY UserTypes DEF ProgramInv
  <2>3. src \in Nat /\ size \in Nat /\ stream.dictSize \in Nat
    BY <1>1 DEF CallOK, CallTyped, StreamRecord
  <2>4. w \in Nat
    <3>1. i \in 1 .. Len(block) + 1
      <4>1. Len(block) \in Nat
        <5>. HIDE DEF Sequence
        <5>. QED  BY <1>2
      <4>. QED  BY <4>1
    <3>. HIDE DEF Sequence
    <3>. QED  BY <1>2, <3>1, WrittenType
  <2>5. IEnd = src + size /\ Text.low = src - stream.dictSize /\ Text.mem = mem
    BY DEF IEnd, Text
  <2>. QED  BY <2>1, <2>2, <2>3, <2>4, <2>5
<1>4. w + n + ml <= size
  <2>. HIDE DEF Sequence
  <2>1. Len(block) \in Nat /\ i + 1 \in 1 .. Len(block) + 1 /\ Len(block) + 1 \in 1 .. Len(block) + 1
    <3>1. Len(block) \in Nat
      BY <1>2
    <3>. QED  BY <3>1
  <2>2. Written(block, i + 1) = w + n + ml
    BY <1>2, WrittenNext
  <2>3. Written(block, i + 1) <= Written(block, Len(block) + 1) /\ Written(block, i + 1) \in Nat
        /\ Written(block, Len(block) + 1) \in Nat
    BY <1>2, <2>1, WrittenWithin, WrittenType
  <2>4. enc.anchor <= IEnd
    BY <1>1 DEF FastInv, PositionOK
  <2>5. Written(block, Len(block) + 1) <= size
    <3>. DEFINE t == Written(block, Len(block) + 1)
    <3>1. t \in Nat /\ src + t <= src + size
      BY <1>2, <1>t, <2>3, <2>4
    <3>. HIDE DEF t, src, size
    <3>2. t <= size
      BY <1>t, <3>1
    <3>. QED  BY <3>2 DEF t
  <2>. HIDE DEF w, n, ml, size
  <2>. QED  BY <1>t, <1>3, <2>2, <2>3, <2>5
<1>5. StartOf(block, i) = k + w
  BY Zenon DEF StartOf, Written, Total
<1>6. Bytes(mem, a, n) = lit
  BY <1>2, <1>t DEF Faithful
<1>7. ml # 0 => off \in 1 .. MaxDistance /\ q - off >= Text.low /\ Alike(Text, q, q - off, ml)
  BY <1>2 DEF Faithful
<1>. HIDE DEF s, lit, n, k, w, off, ml, src, size, said
<1>8. ASSUME NEW v \in Int, src - stream.dictSize <= v, v < src + size
      PROVE  TextAt(Text, v) = said[k + (v - src) + 1] /\ k + (v - src) + 1 \in 1 .. k + size
  <2>1. Text.low <= v /\ v < IEnd
    BY <1>t, <1>8
  <2>2. LET j == Len(user.past) + (v - enc.src) + 1
        IN j \in 1 .. Len(user.past) + Len(user.msg) /\ TextAt(Text, v) = (user.past \o user.msg)[j]
    BY <2>1, TextIsSaid
  <2>. QED  BY <1>1, <2>2, Zenon DEF k, src, said
<1>9. Bytes(said, k + w + 1, n) = lit
  <2>1. ASSUME NEW j \in 1 .. n  PROVE said[k + w + 1 + j - 1] = mem[a + j - 1]
    <3>. DEFINE v == a + j - 1
    <3>1. v \in Int /\ src - stream.dictSize <= v /\ v < src + size /\ k + (v - src) + 1 = k + w + 1 + j - 1
          /\ Text.low <= v /\ v >= src
      BY <1>t, <1>3, <1>4
    <3>. HIDE DEF v
    <3>2. TextAt(Text, v) = said[k + (v - src) + 1]
      BY <1>8, <3>1
    <3>3. TextAt(Text, v) = mem[v]
      <4>1. Text.src = src
        BY DEF Text, src
      <4>2. TextAt(Text, v) = mem[v + 0]
        BY <1>t, <3>1, <4>1 DEF TextAt
      <4>. QED  BY <3>1, <4>2
    <3>. QED  BY <3>1, <3>2, <3>3, Zenon DEF v
  <2>2. Bytes(said, k + w + 1, n) = Bytes(mem, a, n)
    BY <2>1 DEF Bytes
  <2>. QED  BY <1>6, <2>2
<1>10. ASSUME ml # 0
       PROVE  off \in 1 .. Min({MaxDistance, p}) /\ \A j \in 1 .. ml : said[p + j] = said[p + j - off]
  <2>1. stream.dictSize <= k
    BY DEF ProgramInv, HistoryOK, Remembers, k
  <2>2. off \in 1 .. MaxDistance /\ q - off >= Text.low
    BY <1>7, <1>10
  <2>3. MaxDistance \in Int /\ p \in Int
    BY <1>t, FastAssumption
  <2>4. off <= p
    BY <1>t, <1>3, <2>1, <2>2
  <2>5. off \in 1 .. Min({MaxDistance, p})
    <3>. DEFINE x == MaxDistance
    <3>1. Min({x, p}) = IF x <= p THEN x ELSE p
      <4>. HIDE DEF x, p
      <4>. QED  BY <2>3, MinOfTwo DEF x
    <3>2. off \in 1 .. x
      BY <2>2
    <3>. HIDE DEF x, p
    <3>. QED  BY <2>3, <2>4, <3>1, <3>2, <1>3 DEF x
  <2>6. ASSUME NEW j \in 1 .. ml  PROVE said[p + j] = said[p + j - off]
    <3>. DEFINE v == q + (j - 1)
                u == q - off + (j - 1)
    <3>1. /\ v \in Int /\ src - stream.dictSize <= v /\ v < src + size
          /\ u \in Int /\ src - stream.dictSize <= u /\ u < src + size
          /\ k + (v - src) + 1 = p + j /\ k + (u - src) + 1 = p + j - off /\ j - 1 \in 0 .. ml - 1
      BY <1>t, <1>3, <1>4, <2>2
    <3>2. TextAt(Text, v) = TextAt(Text, u)
      <4>1. Alike(Text, q, q - off, ml)
        BY <1>7, <1>10
      <4>. DEFINE x == j - 1
      <4>2. x \in 0 .. ml - 1
        BY <3>1
      <4>. HIDE DEF x, q
      <4>3. TextAt(Text, q + x) = TextAt(Text, q - off + x)
        BY <4>1, <4>2 DEF Alike
      <4>. QED  BY <4>3 DEF x
    <3>. HIDE DEF v, u
    <3>3. TextAt(Text, v) = said[k + (v - src) + 1]
      BY <1>8, <3>1
    <3>4. TextAt(Text, u) = said[k + (u - src) + 1]
      BY <1>8, <3>1
    <3>. QED  BY <3>1, <3>2, <3>3, <3>4, Zenon
  <2>. QED  BY <2>5, <2>6
<1>11. IsLast(s) <=> ml = 0
  BY DEF IsLast, ml
<1>12. ml = 0 <=> i = Len(block)
  BY <1>2 DEF ml
<1>. DEFINE Says == /\ Bytes(said, StartOf(block, i) + 1, n) = lit
                    /\ IsLast(s) <=> i = Len(block)
                    /\ ~IsLast(s) => /\ off \in 1 .. Min({MaxDistance, StartOf(block, i) + n})
                                     /\ \A j \in 1 .. ml : said[StartOf(block, i) + n + j] = said[StartOf(block, i) + n + j - off]
<1>13. Says
  BY <1>5, <1>9, <1>10, <1>11, <1>12, Zenon
<1>. QED  BY <1>13, Zenon DEF s, lit, n, off, ml, said

LEMMA HistoryHolds ==
  ASSUME FastProgram(prog), ProgramInv
  PROVE  MatchesAreHistory
<1>. SUFFICES ASSUME user.at = "compressing", enc.at = "return", enc.result > 0
              PROVE  LET said == user.past \o user.msg
                     IN \A i \in 1 .. Len(block) :
                          LET s == block[i]
                              p == StartOf(block, i) + Len(s.lit)
                          IN /\ Bytes(said, StartOf(block, i) + 1, Len(s.lit)) = s.lit
                             /\ IsLast(s) <=> i = Len(block)
                             /\ ~IsLast(s) => /\ s.off \in 1 .. Min({MaxDistance, p})
                                              /\ \A j \in 1 .. s.ml : said[p + j] = said[p + j - s.off]
  BY Zenon DEF MatchesAreHistory
<1>. QED  BY SequenceIsHistory, Zenon

\* What a call writes stays within the destination: the copies in steps of
\* eight bytes too.  With a capacity of the caller's the test of the room counts
\* a byte of the length of a match for every 256, not for every 255, and what it
\* reserves for the end makes up for that up to a source of 128 KB.
EncoderFits ==
    enc.at # "idle" /\ (enc.limited => enc.size <= Largest) =>
        enc.high <= IF enc.limited \/ enc.fill THEN enc.cap ELSE CompressBound(enc.size)

LEMMA OutputHolds ==
  ASSUME FastProgram(prog), ProgramInv
  PROVE  BoundsSuffice /\ EncoderFits
<1>1. cop.at = "idle" /\ (user.at # "compressing" => enc.at = "idle")
  BY DEF ProgramInv, Quiet
<1>2. user.at = "compressing" => OutputOK
  BY DEF ProgramInv, CallInProgram, FastInv
<1>3. BoundsSuffice
  BY <1>1, <1>2 DEF BoundsSuffice, FrameBound, BlockBound, OutputOK
<1>4. EncoderFits
  BY <1>1, <1>2 DEF EncoderFits, OutputOK, HighOK, Capacity
<1>. QED  BY <1>3, <1>4

\* The inductive invariant of the programs that call the fast compressor.
THEOREM StreamInvariant ==
  ASSUME HashOK
  PROVE  Spec => []StreamInv
<1>1. Init => StreamInv
  BY StreamInvStarts
<1>2. StreamInv /\ [Next]_vars => StreamInv'
  BY StreamInvKept
<1>. QED  BY <1>1, <1>2, PTL DEF Spec

\* What a match of a block repeats is what the messages before it say at that
\* distance (LZ4_compress_generic): whatever the table, the dictionary, their
\* rescaling and the overwritten source have become by then.
THEOREM FastMatchesAreHistory ==
  ASSUME HashOK
  PROVE  Spec => [](FastProgram(prog) => MatchesAreHistory)
<1>1. StreamInv => (FastProgram(prog) => MatchesAreHistory)
  BY HistoryHolds DEF StreamInv
<1>. QED  BY <1>1, StreamInvariant, PTL

\* A destination of LZ4_compressBound bytes is enough, and a call that fills
\* one succeeds if there is a byte, and takes some of the source if there are
\* three.
THEOREM FastBoundsSuffice ==
  ASSUME HashOK
  PROVE  Spec => [](FastProgram(prog) => BoundsSuffice)
<1>1. StreamInv => (FastProgram(prog) => BoundsSuffice)
  BY OutputHolds DEF StreamInv
<1>. QED  BY <1>1, StreamInvariant, PTL

\* The compressor does not write past its destination.
THEOREM FastWritesFit ==
  ASSUME HashOK
  PROVE  Spec => [](FastProgram(prog) => EncoderFits)
<1>1. StreamInv => (FastProgram(prog) => EncoderFits)
  BY OutputHolds DEF StreamInv
<1>. QED  BY <1>1, StreamInvariant, PTL
=============================================================================
