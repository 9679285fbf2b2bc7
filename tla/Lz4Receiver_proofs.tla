------------------------- MODULE Lz4Receiver_proofs -------------------------
(***************************************************************************)
(* Theorems of the decompressor of LZ4, on the blocks that the fast        *)
(* compressor makes in the programs of Lz4Stream: the message arrives, and *)
(* nothing is written past the destination.                                *)
(*                                                                         *)
(* The inductive invariant again has two levels.  DecodeOK is about a call *)
(* of the decompressor: what it has decoded, where it finds the past, and  *)
(* that the copies in steps of eight bytes, which write more than they     *)
(* should and read what they have written, are made right by what follows. *)
(* ReceiverInv is about the calls of a receiver: where in its ring, or     *)
(* next to its dictionary, a message goes, and what of the past is left.   *)
(* Both rest on EndOK, of the compressor: how far a match stays from the   *)
(* end of a block.                                                         *)
(***************************************************************************)
EXTENDS Lz4_proofs

-----------------------------------------------------------------------------
(***************************************************************************)
(* The copies of the decoder.  F is what the memory is to say up to e.  In *)
(* each lemma F repeats itself at the distance of the copy.                *)
(***************************************************************************)
LEMMA DivisionIs ==
  ASSUME NEW x \in Nat, NEW d \in Nat, d > 0
  PROVE  \E q \in Int : \E r \in 0 .. d - 1 : x = d * q + r
<1>. DEFINE P == {r \in 0 .. x : \E q \in Int : x = d * q + r}
<1>1. x \in P /\ P \in SUBSET (0 .. x)
  <2>1. x = d * 0 + x
    OBVIOUS
  <2>. QED  BY <2>1
<1>2. PICK r \in P : \A j \in 0 .. r - 1 : j \notin P
  <2>. HIDE DEF P
  <2>. QED  BY <1>1, SmallestNumber
<1>3. PICK q \in Int : x = d * q + r
  OBVIOUS
<1>4. r \in 0 .. x
  OBVIOUS
<1>5. r < d
  <2>. SUFFICES ASSUME r >= d  PROVE FALSE
    BY <1>4
  <2>. DEFINE j == r - d
              y == d * q
  <2>1. d * (q + 1) = y + d /\ y \in Int
    OBVIOUS
  <2>2. x = y + r
    BY <1>3
  <2>. HIDE DEF y
  <2>3. j \in 0 .. r - 1 /\ j \in 0 .. x /\ x = d * (q + 1) + j
    BY <1>4, <2>1, <2>2
  <2>. HIDE DEF j
  <2>4. j \in P
    <3>1. q + 1 \in Int
      OBVIOUS
    <3>. QED  BY <2>3, <3>1
  <2>. HIDE DEF P
  <2>. QED  BY <1>2, <2>3, <2>4
<1>. QED  BY <1>3, <1>4, <1>5

\* A remainder from a quotient.
LEMMA RemainderOf ==
  ASSUME NEW x \in Nat, NEW d \in Nat, d > 0, NEW q \in Int, NEW r \in 0 .. d - 1, x = d * q + r
  PROVE  x % d = r
OBVIOUS

\* A remainder stays when the divisor is taken off.
LEMMA RemainderIs ==
  ASSUME NEW x \in Nat, NEW d \in Nat, d > 0
  PROVE  /\ x % d \in 0 .. d - 1
         /\ x < d => x % d = x
         /\ x >= d => x % d = (x - d) % d
<1>1. x % d \in 0 .. d - 1
  OBVIOUS
<1>2. x < d => x % d = x
  OBVIOUS
<1>3. ASSUME x >= d  PROVE x % d = (x - d) % d
  <2>. DEFINE y == x - d
  <2>1. y \in Nat /\ x = y + d
    BY <1>3
  <2>. HIDE DEF y
  <2>2. PICK q \in Int : \E r \in 0 .. d - 1 : y = d * q + r
    BY <2>1, DivisionIs
  <2>3. PICK r \in 0 .. d - 1 : y = d * q + r
    BY <2>2
  <2>4. x = d * (q + 1) + r
    <3>. DEFINE z == d * q
    <3>1. d * (q + 1) = z + d /\ z \in Int /\ y = z + r
      BY <2>3
    <3>. HIDE DEF z
    <3>. QED  BY <2>1, <3>1
  <2>5. y % d = r
    BY <2>1, <2>3, RemainderOf
  <2>6. x % d = r
    <3>1. q + 1 \in Int
      OBVIOUS
    <3>. QED  BY <2>4, <3>1, RemainderOf
  <2>. QED  BY <2>5, <2>6 DEF y
<1>. QED  BY <1>1, <1>2, <1>3

\* A match at op, of what is off bytes before it, is to be copied up to e.
MatchReady(m, F, op, off, e) ==
    /\ \A x \in op .. e - 1 : F[x] = F[x - off] /\ x \in DOMAIN m
    /\ \A x \in op - off .. op - 1 : m[x] = F[x] /\ x \in DOMAIN m

\* The bytes from d to n are what F says, as far as it goes up to e; no other byte
\* changed.
Copied(m, new, F, d, n, e) ==
    /\ DOMAIN new = DOMAIN m
    /\ \A a \in DOMAIN m : a \notin d .. n - 1 => new[a] = m[a]
    /\ \A a \in d .. e - 1 : a \in DOMAIN m /\ a < n => new[a] = F[a]

\* A copy upwards, byte by byte, may read what it wrote itself.
LEMMA UpwardsIs ==
  ASSUME NEW m, NEW d \in Int, NEW b \in Nat, b > 0, NEW n \in Int, NEW F, NEW e \in Int,
         \A a \in d .. e - 1 : F[a] = F[a - b],
         d < e => \A a \in d - b .. d - 1 : m[a] = F[a]
  PROVE  Copied(m, Upwards(m, d, d - b, n), F, d, d + n, e)
<1>. DEFINE new == Upwards(m, d, d - b, n)
            s == d - b
<1>1. /\ DOMAIN new = DOMAIN m
      /\ \A a \in DOMAIN m : new[a] = IF a \notin d .. d + n - 1 THEN m[a] ELSE m[s + ((a - d) % b)]
  <2>1. d - s = b /\ s < d
    OBVIOUS
  <2>. HIDE DEF s
  <2>2. \A a : (IF s < d THEN (a - d) % (d - s) ELSE a - d) = (a - d) % b
    BY <2>1, Zenon
  <2>3. new = [a \in DOMAIN m |-> IF a \notin d .. d + n - 1 THEN m[a]
                                ELSE m[s + IF s < d THEN (a - d) % (d - s) ELSE a - d]]
    BY Zenon DEF Upwards, s
  <2>. HIDE DEF new
  <2>4. ASSUME NEW a \in DOMAIN m
        PROVE  new[a] = IF a \notin d .. d + n - 1 THEN m[a] ELSE m[s + ((a - d) % b)]
    <3>. DEFINE x == IF s < d THEN (a - d) % (d - s) ELSE a - d
    <3>1. new[a] = IF a \notin d .. d + n - 1 THEN m[a] ELSE m[s + x]
      BY <2>3, Zenon
    <3>2. x = (a - d) % b
      BY <2>2, Zenon
    <3>. QED  BY <3>1, <3>2, Zenon
  <2>5. DOMAIN new = DOMAIN m
    BY <2>3
  <2>. QED  BY <2>4, <2>5
<1>2. ASSUME NEW i \in Nat, d + i < e  PROVE F[s + (i % b)] = F[d + i]
  <2>. DEFINE P == {j \in 0 .. i : F[s + (j % b)] # F[d + j]}
  <2>1. SUFFICES ASSUME i \in P  PROVE FALSE
    OBVIOUS
  <2>2. PICK k \in P : \A j \in 0 .. k - 1 : j \notin P
    <3>1. P \in SUBSET (0 .. i)
      OBVIOUS
    <3>. HIDE DEF P
    <3>. QED  BY <2>1, <3>1, SmallestNumber
  <2>3. k \in 0 .. i /\ F[s + (k % b)] # F[d + k]
    OBVIOUS
  <2>4. F[d + k] = F[d + k - b]
    <3>1. d + k \in d .. e - 1
      BY <1>2, <2>3
    <3>. QED  BY <3>1
  <2>5. CASE k < b
    <3>1. k % b = k
      BY <2>3, <2>5, RemainderIs
    <3>2. s + k = d + k - b
      BY <2>3
    <3>. QED  BY <2>3, <2>4, <3>1, <3>2, Zenon
  <2>6. CASE k >= b
    <3>. DEFINE j == k - b
    <3>1. j \in 0 .. k - 1 /\ j \in 0 .. i
      BY <2>3, <2>6
    <3>2. F[s + (j % b)] = F[d + j]
      BY <2>2, <3>1
    <3>3. k % b = j % b
      BY <2>3, <2>6, RemainderIs
    <3>4. d + j = d + k - b
      BY <2>3
    <3>. HIDE DEF j
    <3>. QED  BY <2>3, <2>4, <3>2, <3>3, <3>4, Zenon
  <2>. QED  BY <2>3, <2>5, <2>6
<1>3. ASSUME NEW a \in d .. e - 1, a \in DOMAIN m, a < d + n  PROVE new[a] = F[a]
  <2>. DEFINE i == a - d
              r == i % b
  <2>1. i \in Nat /\ d + i < e /\ d + i = a /\ d < e /\ a \in d .. d + n - 1
    BY <1>3
  <2>2. new[a] = m[s + r]
    BY <1>1, <1>3, <2>1, Zenon
  <2>. HIDE DEF i
  <2>3. r \in 0 .. b - 1
    BY <2>1, RemainderIs
  <2>4. F[s + r] = F[a]
    BY <1>2, <2>1
  <2>. HIDE DEF r
  <2>5. s + r \in d - b .. d - 1
    BY <2>3
  <2>6. m[s + r] = F[s + r]
    BY <2>1, <2>5
  <2>. QED  BY <2>2, <2>4, <2>6
<1>4. DOMAIN new = DOMAIN m /\ \A a \in DOMAIN m : a \notin d .. d + n - 1 => new[a] = m[a]
  BY <1>1, Zenon
<1>. HIDE DEF new
<1>. QED  BY <1>3, <1>4 DEF Copied, new

\* A copy of a run that is not overwritten while it is read.
LEMMA RunCopied ==
  ASSUME NEW m, NEW d \in Int, NEW s \in Int, NEW n \in Int, NEW F, NEW e \in Int,
         \A i \in 0 .. n - 1 : d + i < e => m[s + i] = F[d + i]
  PROVE  Copied(m, Block(m, d, s, n), F, d, d + n, e)
<1>. DEFINE new == Block(m, d, s, n)
<1>1. new = [a \in DOMAIN m |-> IF a \in d .. d + n - 1 THEN m[s + (a - d)] ELSE m[a]]
  BY DEF Block
<1>2. ASSUME NEW a \in d .. e - 1, a \in DOMAIN m, a < d + n  PROVE new[a] = F[a]
  <2>. DEFINE i == a - d
  <2>1. i \in 0 .. n - 1 /\ d + i < e /\ d + i = a /\ a \in d .. d + n - 1
    BY <1>2
  <2>2. new[a] = m[s + i]
    BY <1>1, <1>2, <2>1
  <2>. HIDE DEF i
  <2>3. m[s + i] = F[d + i]
    BY <2>1
  <2>. QED  BY <2>1, <2>2, <2>3
<1>3. DOMAIN new = DOMAIN m /\ \A a \in DOMAIN m : a \notin d .. d + n - 1 => new[a] = m[a]
  BY <1>1
<1>. HIDE DEF new
<1>. QED  BY <1>2, <1>3 DEF Copied, new

\* A run that repeats itself after off bytes does so after a multiple of them.
Multiple(shift, off) == \E k \in Nat : shift = k * off
Repeats(F, op, off, e) == \A x \in op .. e - 1 : F[x] = F[x - off]

\* What repeats at a distance repeats at its multiples.
LEMMA MultipleRepeats ==
  ASSUME NEW F, NEW op \in Int, NEW off \in Nat, NEW e \in Int, Repeats(F, op, off, e),
         NEW shift \in Int, Multiple(shift, off), NEW x \in Int, x < e, x - shift >= op - off
  PROVE  F[x] = F[x - shift]
<1>. PICK k \in Nat : shift = k * off
  BY DEF Multiple
<1>0. x - k * off >= op - off
  OBVIOUS
<1>. DEFINE P == {j \in 0 .. k : F[x] # F[x - j * off]}
<1>1. SUFFICES ASSUME k \in P  PROVE FALSE
  <2>1. F[x] # F[x - shift] => k \in P
    OBVIOUS
  <2>. QED  BY <2>1
<1>2. PICK j \in P : \A i \in 0 .. j - 1 : i \notin P
  <2>1. P \in SUBSET (0 .. k)
    OBVIOUS
  <2>. HIDE DEF P
  <2>. QED  BY <1>1, <2>1, SmallestNumber
<1>3. j \in 0 .. k /\ F[x] # F[x - j * off] /\ j # 0
  <2>1. j \in 0 .. k /\ F[x] # F[x - j * off]
    OBVIOUS
  <2>2. x - 0 * off = x
    OBVIOUS
  <2>. QED  BY <2>1, <2>2, Zenon
<1>. DEFINE i == j - 1
            y == x - i * off
<1>4. i \in 0 .. j - 1 /\ i \in 0 .. k /\ i \in Nat
  BY <1>3
<1>5. F[x] = F[y]
  <2>. HIDE DEF i
  <2>. QED  BY <1>2, <1>4
<1>6. j * off = i * off + off /\ i * off \in Nat /\ j * off <= k * off /\ k * off \in Int
  <2>1. j * off <= k * off
    BY <1>3
  <2>2. j * off = i * off + off
    BY <1>3
  <2>3. i * off \in Nat /\ k * off \in Int
    <3>. HIDE DEF i
    <3>. QED  BY <1>4
  <2>. QED  BY <2>1, <2>2, <2>3
<1>7. y \in op .. e - 1 /\ y - off = x - j * off
  <2>. DEFINE a == i * off
              b == j * off
              c == k * off
  <2>1. a \in Nat /\ b = a + off /\ b <= c /\ c \in Int /\ x - c >= op - off
    BY <1>0, <1>6
  <2>. HIDE DEF a, b, c
  <2>2. x - a \in op .. e - 1 /\ x - a - off = x - b
    BY <2>1
  <2>. QED  BY <2>2 DEF a, b
<1>8. F[y] = F[y - off]
  <2>. HIDE DEF y
  <2>. QED  BY <1>7 DEF Repeats
<1>. QED  BY <1>3, <1>5, <1>7, <1>8, Zenon

\* What the tables for short distances say: the second step of four bytes and
\* the steps of eight that follow copy at multiples of the distance.
LEMMA TablesAre ==
  ASSUME NEW off \in 1 .. 7
  PROVE  /\ inc32table[off + 1] \in 0 .. off
         /\ Multiple(4 + off - inc32table[off + 1], off)
         /\ dec64table[off + 1] \in Int
         /\ 8 + off - inc32table[off + 1] + dec64table[off + 1] \in 8 .. off + 8
         /\ Multiple(8 + off - inc32table[off + 1] + dec64table[off + 1], off)
<1>1. CASE off = 1
  <2>1. inc32table[off + 1] = 1 /\ dec64table[off + 1] = 0
    BY <1>1 DEF inc32table, dec64table
  <2>2. 4 + 1 - 1 = 4 * 1 /\ 8 + 1 - 1 + 0 = 8 * 1
    OBVIOUS
  <2>. QED  BY <1>1, <2>1, <2>2 DEF Multiple
<1>2. CASE off = 2
  <2>1. inc32table[off + 1] = 2 /\ dec64table[off + 1] = 0
    BY <1>2 DEF inc32table, dec64table
  <2>2. 4 + 2 - 2 = 2 * 2 /\ 8 + 2 - 2 + 0 = 4 * 2
    OBVIOUS
  <2>. QED  BY <1>2, <2>1, <2>2 DEF Multiple
<1>3. CASE off = 3
  <2>1. inc32table[off + 1] = 1 /\ dec64table[off + 1] = -1
    BY <1>3 DEF inc32table, dec64table
  <2>2. 4 + 3 - 1 = 2 * 3 /\ 8 + 3 - 1 + (-1) = 3 * 3
    OBVIOUS
  <2>. QED  BY <1>3, <2>1, <2>2 DEF Multiple
<1>4. CASE off = 4
  <2>1. inc32table[off + 1] = 0 /\ dec64table[off + 1] = -4
    BY <1>4 DEF inc32table, dec64table
  <2>2. 4 + 4 - 0 = 2 * 4 /\ 8 + 4 - 0 + (-4) = 2 * 4
    OBVIOUS
  <2>. QED  BY <1>4, <2>1, <2>2 DEF Multiple
<1>5. CASE off = 5
  <2>1. inc32table[off + 1] = 4 /\ dec64table[off + 1] = 1
    BY <1>5 DEF inc32table, dec64table
  <2>2. 4 + 5 - 4 = 1 * 5 /\ 8 + 5 - 4 + 1 = 2 * 5
    OBVIOUS
  <2>. QED  BY <1>5, <2>1, <2>2 DEF Multiple
<1>6. CASE off = 6
  <2>1. inc32table[off + 1] = 4 /\ dec64table[off + 1] = 2
    BY <1>6 DEF inc32table, dec64table
  <2>2. 4 + 6 - 4 = 1 * 6 /\ 8 + 6 - 4 + 2 = 2 * 6
    OBVIOUS
  <2>. QED  BY <1>6, <2>1, <2>2 DEF Multiple
<1>7. CASE off = 7
  <2>1. inc32table[off + 1] = 4 /\ dec64table[off + 1] = 3
    BY <1>7 DEF inc32table, dec64table
  <2>2. 4 + 7 - 4 = 1 * 7 /\ 8 + 7 - 4 + 3 = 2 * 7
    OBVIOUS
  <2>. QED  BY <1>7, <2>1, <2>2 DEF Multiple
<1>. QED  BY <1>1, <1>2, <1>3, <1>4, <1>5, <1>6, <1>7

\* The first eight bytes, with the tables inc32table and dec64table where the
\* distance is less than eight.
LEMMA FirstEightIs ==
  ASSUME NEW m, NEW F, NEW op \in Int, NEW off \in Nat, off >= 1, NEW e \in Int, MatchReady(m, F, op, off, e)
  PROVE  Copied(m, FirstEight(m, op, off), F, op, op + 8, e)
<1>. DEFINE new == FirstEight(m, op, off)
<1>1. /\ \A x \in op .. e - 1 : F[x] = F[x - off]
      /\ \A x \in op .. e - 1 : x \in DOMAIN m
      /\ \A x \in op - off .. op - 1 : m[x] = F[x]
      /\ \A x \in op - off .. op - 1 : x \in DOMAIN m
  BY DEF MatchReady
<1>2. CASE off >= 8
  <2>1. new = Block(m, op, op - off, 8)
    BY <1>2 DEF FirstEight
  <2>2. \A i \in 0 .. 8 - 1 : op + i < e => m[op - off + i] = F[op + i]
    <3>. SUFFICES ASSUME NEW i \in 0 .. 7, op + i < e  PROVE m[op - off + i] = F[op + i]
      OBVIOUS
    <3>. DEFINE x == op + i
    <3>1. x \in op .. e - 1 /\ x - off \in op - off .. op - 1 /\ op - off + i = x - off
      BY <1>2
    <3>. HIDE DEF x
    <3>. QED  BY <1>1, <3>1 DEF x
  <2>. DEFINE s == op - off
              k == 8
  <2>3. s \in Int /\ k \in Int
    OBVIOUS
  <2>. HIDE DEF s, k
  <2>4. Copied(m, Block(m, op, s, k), F, op, op + k, e)
    BY <2>2, <2>3, RunCopied DEF s, k
  <2>. QED  BY <2>1, <2>4, Zenon DEF s, k
<1>3. CASE off < 8
  <2>. DEFINE inc == inc32table[off + 1]
              four == Upwards(m, op, op - off, 4)
              s == op - off + inc
              d == op + 4
  <2>1. new = Block(four, d, s, 4)
    BY <1>3 DEF FirstEight
  <2>2. off \in 1 .. 7
    BY <1>3
  <2>3. inc \in 0 .. off /\ Multiple(4 + off - inc, off)
    BY <2>2, TablesAre
  <2>4. /\ DOMAIN four = DOMAIN m
        /\ \A a \in DOMAIN m : a \notin op .. d - 1 => four[a] = m[a]
        /\ \A a \in op .. e - 1 : a \in DOMAIN m /\ a < d => four[a] = F[a]
    <3>. DEFINE k == 4
    <3>1. k \in Int /\ off > 0 /\ (op < e => \A a \in op - off .. op - 1 : m[a] = F[a])
      BY <1>1
    <3>. HIDE DEF k
    <3>2. Copied(m, Upwards(m, op, op - off, k), F, op, op + k, e)
      BY <1>1, <3>1, UpwardsIs
    <3>3. Copied(m, four, F, op, d, e)
      BY <3>2, Zenon DEF k
    <3>. HIDE DEF four, d
    <3>. QED  BY <3>3 DEF Copied
  <2>. HIDE DEF four, inc
  <2>6. ASSUME NEW i \in 0 .. 3, d + i < e  PROVE four[s + i] = F[d + i]
    <3>. DEFINE x == d + i
                y == s + i
    <3>1. x \in op .. e - 1 /\ y \in op - off .. d - 1 /\ y < x /\ x - (4 + off - inc) = y /\ x \in Int /\ x < e
      BY <2>3, <2>6
    <3>2. F[x] = F[y]
      <4>. DEFINE shift == 4 + off - inc
      <4>1. x - shift = y /\ shift \in Int /\ x - shift >= op - off
        BY <2>3, <3>1
      <4>3. Multiple(shift, off) /\ Repeats(F, op, off, e)
        BY <1>1, <2>3 DEF Repeats
      <4>. HIDE DEF x, y, shift
      <4>2. F[x] = F[x - shift]
        BY <3>1, <4>1, <4>3, MultipleRepeats
      <4>. QED  BY <4>1, <4>2, Zenon
    <3>. HIDE DEF x, y
    <3>3. four[y] = F[y]
      <4>1. CASE y < op
        <5>1. y \in op - off .. op - 1 /\ y \notin op .. d - 1
          BY <2>3, <3>1, <4>1
        <5>2. m[y] = F[y]
          BY <1>1, <5>1
        <5>. QED  BY <1>1, <2>4, <5>1, <5>2
      <4>2. CASE y >= op
        <5>1. y \in op .. e - 1 /\ y < d
          BY <2>3, <3>1, <4>2
        <5>. QED  BY <1>1, <2>4, <5>1
      <4>. QED  BY <2>3, <3>1, <4>1, <4>2
    <3>. QED  BY <3>2, <3>3 DEF x, y
  <2>. DEFINE n == 4
  <2>7. n \in Int /\ d \in Int /\ s \in Int
    BY <2>3
  <2>8. \A i \in 0 .. n - 1 : d + i < e => four[s + i] = F[d + i]
    BY <2>6
  <2>. HIDE DEF n, s
  <2>9. Copied(four, Block(four, d, s, n), F, d, d + n, e)
    <3>. HIDE DEF d
    <3>. QED  BY <2>7, <2>8, RunCopied
  <2>. HIDE DEF new
  <2>10. /\ DOMAIN new = DOMAIN four
         /\ \A a \in DOMAIN four : a \notin d .. d + 3 => new[a] = four[a]
         /\ \A a \in d .. e - 1 : a \in DOMAIN four /\ a < d + 4 => new[a] = F[a]
    <3>1. Copied(four, new, F, d, d + 4, e)
      BY <2>1, <2>9, Zenon DEF n
    <3>. HIDE DEF d
    <3>. QED  BY <2>7, <3>1 DEF Copied
  <2>11. \A a \in DOMAIN m : a \notin op .. op + 7 => new[a] = m[a]
    BY <2>4, <2>10
  <2>12. ASSUME NEW a \in op .. e - 1, a < op + 8  PROVE new[a] = F[a]
    <3>1. a \in DOMAIN m
      BY <1>1
    <3>2. CASE a < d
      BY <2>4, <2>10, <3>1, <3>2
    <3>3. CASE a >= d
      BY <2>4, <2>10, <2>12, <3>1, <3>3
    <3>. QED  BY <3>2, <3>3
  <2>13. DOMAIN new = DOMAIN m
    BY <2>4, <2>10, Zenon
  <2>. HIDE DEF d
  <2>14. \A a \in DOMAIN m : a \notin op .. op + 8 - 1 => new[a] = m[a]
    BY <2>11
  <2>15. \A a \in op .. e - 1 : a \in DOMAIN m /\ a < op + 8 => new[a] = F[a]
    BY <2>12
  <2>16. Copied(m, new, F, op, op + 8, e)
    BY <2>13, <2>14, <2>15 DEF Copied
  <2>. QED  BY <2>16 DEF new
<1>. QED  BY <1>2, <1>3

\* A copy may be said to write more than it does.
LEMMA CopiedWider ==
  ASSUME NEW m, NEW new, NEW F, NEW d \in Int, NEW n \in Int, NEW e \in Int, NEW k \in Int, n >= e, n <= k,
         Copied(m, new, F, d, n, e)
  PROVE  Copied(m, new, F, d, k, e)
BY DEF Copied

\* A copy after a copy.
LEMMA CopiedTwice ==
  ASSUME NEW m, NEW mid, NEW new, NEW F, NEW d \in Int, NEW q \in Int, NEW e \in Int, d <= q,
         NEW n \in Int, NEW l \in Int, NEW k \in Int, q <= n, n <= k, e <= l, l <= k,
         Copied(m, mid, F, d, n, q), Copied(mid, new, F, q, l, e)
  PROVE  Copied(m, new, F, d, k, e)
<1>1. /\ DOMAIN mid = DOMAIN m
      /\ \A a \in DOMAIN m : a \notin d .. n - 1 => mid[a] = m[a]
      /\ \A a \in d .. q - 1 : a \in DOMAIN m /\ a < n => mid[a] = F[a]
  BY DEF Copied
<1>2. /\ DOMAIN new = DOMAIN mid
      /\ \A a \in DOMAIN mid : a \notin q .. l - 1 => new[a] = mid[a]
      /\ \A a \in q .. e - 1 : a \in DOMAIN mid /\ a < l => new[a] = F[a]
  BY DEF Copied
<1>3. ASSUME NEW a \in DOMAIN m, a \notin d .. k - 1  PROVE new[a] = m[a]
  <2>1. a \notin d .. n - 1 /\ a \notin q .. l - 1
    BY <1>3
  <2>. QED  BY <1>1, <1>2, <2>1
<1>4. ASSUME NEW a \in d .. e - 1, a \in DOMAIN m  PROVE new[a] = F[a]
  <2>1. CASE a < q
    <3>1. a \in d .. q - 1 /\ a < n /\ a \notin q .. l - 1
      BY <2>1
    <3>. QED  BY <1>1, <1>2, <1>4, <3>1
  <2>2. CASE a >= q
    <3>1. a \in q .. e - 1 /\ a < l
      BY <2>2
    <3>. QED  BY <1>1, <1>2, <1>4, <3>1
  <2>. QED  BY <2>1, <2>2
<1>5. DOMAIN new = DOMAIN m
  BY <1>1, <1>2
<1>. QED  BY <1>3, <1>4, <1>5 DEF Copied

\* The distance at which the steps of eight go on after the first eight bytes.
Further(off) == IF off >= 8 THEN off ELSE 8 + off - inc32table[off + 1] + dec64table[off + 1]

\* After the first eight bytes the source is a multiple of the distance away
\* that is at least eight.
LEMMA AfterEightIs ==
  ASSUME NEW op \in Int, NEW off \in Nat, off >= 1
  PROVE  /\ Further(off) \in 8 .. off + 8
         /\ Multiple(Further(off), off)
         /\ AfterEight(op, off) = op + 8 - Further(off)
<1>1. CASE off >= 8
  <2>1. Further(off) = off /\ AfterEight(op, off) = op - off + 8
    BY <1>1 DEF Further, AfterEight
  <2>2. Multiple(off, off)
    <3>1. off = 1 * off /\ 1 \in Nat
      OBVIOUS
    <3>. QED  BY <3>1 DEF Multiple
  <2>. QED  BY <1>1, <2>1, <2>2
<1>2. CASE off < 8
  <2>. DEFINE i == inc32table[off + 1]
              d == dec64table[off + 1]
  <2>1. Further(off) = 8 + off - i + d /\ AfterEight(op, off) = op - off + i - d
    BY <1>2 DEF Further, AfterEight
  <2>2. i \in 0 .. off /\ d \in Int /\ 8 + off - i + d \in 8 .. off + 8 /\ Multiple(8 + off - i + d, off)
    <3>1. off \in 1 .. 7
      BY <1>2
    <3>. QED  BY <3>1, TablesAre
  <2>. HIDE DEF i, d
  <2>3. op - off + i - d = op + 8 - (8 + off - i + d)
    BY <2>2
  <2>. QED  BY <2>1, <2>2, <2>3
<1>. QED  BY <1>1, <1>2

\* A copy that goes on behind the first eight bytes of a match.
LEMMA FurtherCopied ==
  ASSUME NEW m, NEW cur, NEW F, NEW op \in Int, NEW off \in Nat, off >= 1, NEW e \in Int,
         MatchReady(m, F, op, off, e),
         NEW d \in Int, d >= op + 8, NEW g \in Int, g >= d, Copied(m, cur, F, op, g, e),
         NEW n \in Nat, NEW k \in Int, k >= g, k >= d + n, k = d + n \/ e <= d + n
  PROVE  Copied(m, Upwards(cur, d, d - Further(off), n), F, op, k, e)
<1>. DEFINE b == Further(off)
            new == Upwards(cur, d, d - b, n)
<1>1. b \in 8 .. off + 8 /\ Multiple(b, off)
  BY AfterEightIs
<1>. HIDE DEF b
<1>2. /\ \A x \in op .. e - 1 : x \in DOMAIN m
      /\ \A x \in op - off .. op - 1 : m[x] = F[x]
      /\ \A x \in op - off .. op - 1 : x \in DOMAIN m
      /\ Repeats(F, op, off, e)
  BY DEF MatchReady, Repeats
<1>3. /\ DOMAIN cur = DOMAIN m
      /\ \A a \in DOMAIN m : a \notin op .. g - 1 => cur[a] = m[a]
      /\ \A a \in op .. e - 1 : a \in DOMAIN m /\ a < g => cur[a] = F[a]
  BY DEF Copied
<1>4. \A a \in d .. e - 1 : F[a] = F[a - b]
  <2>. SUFFICES ASSUME NEW a \in d .. e - 1  PROVE F[a] = F[a - b]
    OBVIOUS
  <2>1. b \in Int /\ a \in Int /\ a < e /\ a - b >= op - off
    BY <1>1
  <2>. QED  BY <1>1, <1>2, <2>1, MultipleRepeats
<1>5. ASSUME d < e, NEW a \in d - b .. d - 1  PROVE cur[a] = F[a]
  <2>1. CASE a < op
    <3>1. a \in op - off .. op - 1 /\ a \notin op .. g - 1
      BY <1>1, <2>1
    <3>. QED  BY <1>2, <1>3, <3>1
  <2>2. CASE a >= op
    <3>1. a \in op .. e - 1 /\ a < g
      BY <1>5, <2>2
    <3>. QED  BY <1>2, <1>3, <3>1
  <2>. QED  BY <1>1, <2>1, <2>2
<1>6. Copied(cur, new, F, d, d + n, e)
  <2>1. b \in Nat /\ b > 0 /\ n \in Int
    BY <1>1
  <2>2. d < e => \A a \in d - b .. d - 1 : cur[a] = F[a]
    BY <1>5
  <2>. QED  BY <1>4, <2>1, <2>2, UpwardsIs
<1>. HIDE DEF new
<1>7. /\ DOMAIN new = DOMAIN cur
      /\ \A a \in DOMAIN cur : a \notin d .. d + n - 1 => new[a] = cur[a]
      /\ \A a \in d .. e - 1 : a \in DOMAIN cur /\ a < d + n => new[a] = F[a]
  BY <1>6 DEF Copied
<1>8. ASSUME NEW a \in DOMAIN m, a \notin op .. k - 1  PROVE new[a] = m[a]
  <2>1. a \notin op .. g - 1 /\ a \notin d .. d + n - 1
    BY <1>8
  <2>. QED  BY <1>3, <1>7, <2>1
<1>9. ASSUME NEW a \in op .. e - 1, a \in DOMAIN m, a < k  PROVE new[a] = F[a]
  <2>1. CASE a < d
    <3>1. a \notin d .. d + n - 1 /\ a < g
      BY <2>1
    <3>. QED  BY <1>3, <1>7, <1>9, <2>1, <3>1
  <2>2. CASE a >= d
    <3>1. a \in d .. e - 1 /\ a < d + n
      BY <1>9, <2>2
    <3>. QED  BY <1>3, <1>7, <1>9, <3>1
  <2>. QED  BY <2>1, <2>2
<1>10. DOMAIN new = DOMAIN m
  BY <1>3, <1>7
<1>11. Copied(m, new, F, op, k, e)
  BY <1>8, <1>9, <1>10 DEF Copied
<1>. QED  BY <1>11 DEF new, b

\* A match far from the end of the destination.
LEMMA ElsewhereCopied ==
  ASSUME NEW m, NEW F, NEW op \in Int, NEW off \in Nat, off >= 1, NEW ml \in Nat, ml >= MinMatch,
         MatchReady(m, F, op, off, op + ml)
  PROVE  Copied(m, Elsewhere(m, op, off, ml), F, op, op + ml + 14, op + ml)
<1>. DEFINE e == op + ml
            d == op + 8
            eight == FirstEight(m, op, off)
            n == IF ml > 16 THEN 8 + WildBytes(ml - 16) ELSE 8
            new == Elsewhere(m, op, off, ml)
            k == op + ml + 14
<1>1. new = Upwards(eight, d, AfterEight(op, off), n)
  BY DEF Elsewhere
<1>2. AfterEight(op, off) = d - Further(off)
  BY AfterEightIs
<1>3. n \in Nat /\ e <= d + n /\ d + n <= k
  <2>1. CASE ml > 16
    <3>. DEFINE x == ml - 16
                w == WildBytes(x)
    <3>1. x \in Nat /\ x > 0 /\ ml = x + 16
      BY <2>1
    <3>. HIDE DEF x
    <3>2. w \in Nat /\ x <= w /\ w <= x + 7
      BY <3>1, WildBytesIs
    <3>3. n = 8 + w
      BY <2>1 DEF x
    <3>. HIDE DEF w, n
    <3>. QED  BY <3>1, <3>2, <3>3
  <2>2. CASE ml <= 16
    <3>1. n = 8
      BY <2>2
    <3>. QED  BY <2>2, <3>1 DEF MinMatch
  <2>. QED  BY <2>1, <2>2
<1>4. d >= op + 8 /\ d \in Int /\ e \in Int /\ k \in Int /\ d <= k
  BY DEF MinMatch
<1>5. Copied(m, eight, F, op, d, e)
  BY FirstEightIs
<1>6. MatchReady(m, F, op, off, e)
  OBVIOUS
<1>7. new = Upwards(eight, d, d - Further(off), n)
  BY <1>1, <1>2, Zenon
<1>. HIDE DEF e, d, eight, n, new, k
<1>8. Copied(m, new, F, op, k, e)
  BY <1>3, <1>4, <1>5, <1>6, <1>7, FurtherCopied
<1>. QED  BY <1>8 DEF new, e, k

\* A match near the end of the destination, of which the last bytes are copied
\* one by one.
LEMMA NearEndCopied ==
  ASSUME NEW m, NEW F, NEW op \in Int, NEW off \in Nat, off >= 1, NEW ml \in Nat, ml >= MinMatch,
         MatchReady(m, F, op, off, op + ml), OEnd \in Int, op + ml > OEnd - 12
  PROVE  Copied(m, NearEnd(m, op, off, ml), F, op, op + ml + 14, op + ml)
<1>. DEFINE e == op + ml
            d == op + 8
            o == OEnd
            limit == o - (WildCopyLength - 1)
            eight == FirstEight(m, op, off)
            wide == WildBytes(limit - op - 8)
            wild == IF d < limit THEN Upwards(eight, d, AfterEight(op, off), wide) ELSE eight
            at == Max({d, limit})
            rest == Max({0, op + ml - at})
            new == NearEnd(m, op, off, ml)
            k == op + ml + 14
<1>1. new = Upwards(wild, at, AfterEight(op, off) + at - op - 8, rest)
  BY DEF NearEnd
<1>2. AfterEight(op, off) = d - Further(off) /\ Further(off) \in Int
  BY AfterEightIs
<1>3. d >= op + 8 /\ d \in Int /\ e \in Int /\ k \in Int /\ d <= k /\ o \in Int /\ limit \in Int /\ o <= k /\ e <= k
      /\ limit = o - 7
  BY DEF MinMatch, WildCopyLength
<1>4. at \in Int /\ at >= d /\ at >= limit /\ (at = d \/ at = limit)
  <2>. HIDE DEF d, limit
  <2>. QED  BY <1>3, MaxOfTwo
<1>5. Copied(m, eight, F, op, d, e)
  BY FirstEightIs
<1>6. MatchReady(m, F, op, off, e)
  OBVIOUS
<1>7. \E g \in Int : g >= at /\ g <= k /\ Copied(m, wild, F, op, g, e)
  <2>1. CASE d < limit
    <3>. DEFINE x == limit - op - 8
                g == d + wide
    <3>1. x \in Nat /\ x > 0 /\ limit = d + x /\ o = limit + 7
      BY <1>3, <2>1
    <3>. HIDE DEF x
    <3>2. WildBytes(x) \in Nat /\ x <= WildBytes(x) /\ WildBytes(x) <= x + 7
      BY <3>1, WildBytesIs
    <3>3. wide \in Nat /\ x <= wide /\ wide <= x + 7
      BY <3>2 DEF x
    <3>. HIDE DEF wide
    <3>4. g \in Int /\ g >= limit /\ g <= k /\ g >= d /\ g = d + wide
      <4>. HIDE DEF d, limit, o, k
      <4>. QED  BY <1>3, <3>1, <3>3
    <3>5. wild = Upwards(eight, d, d - Further(off), wide)
      BY <1>2, <2>1, Zenon
    <3>6. Copied(m, wild, F, op, g, e)
      <4>. HIDE DEF e, d, eight, wild, g, limit
      <4>. QED  BY <1>3, <1>5, <1>6, <3>3, <3>4, <3>5, FurtherCopied
    <3>. HIDE DEF g, wild, at, limit, d, k
    <3>. QED  BY <1>4, <2>1, <3>4, <3>6
  <2>2. CASE ~(d < limit)
    <3>1. wild = eight
      BY <2>2
    <3>. HIDE DEF wild, eight, limit, d, k, at
    <3>. QED  BY <1>3, <1>4, <1>5, <2>2, <3>1
  <2>. QED  BY <2>1, <2>2
<1>8. PICK g \in Int : g >= at /\ g <= k /\ Copied(m, wild, F, op, g, e)
  BY <1>7
<1>9. rest \in Nat /\ e <= at + rest /\ at + rest <= k
  <2>. HIDE DEF at, e
  <2>. DEFINE left == op + ml - at
  <2>1. 0 \in Int /\ left \in Int /\ left = e - at
    BY <1>3, <1>4 DEF e
  <2>. HIDE DEF left
  <2>2. Max({0, left}) = IF 0 >= left THEN 0 ELSE left
    BY <2>1, MaxOfTwo
  <2>3. rest = IF 0 >= e - at THEN 0 ELSE e - at
    BY <2>1, <2>2 DEF left
  <2>. HIDE DEF rest, k
  <2>. QED  BY <1>3, <1>4, <1>8, <2>3
<1>10. new = Upwards(wild, at, at - Further(off), rest)
  <2>. DEFINE from == AfterEight(op, off)
  <2>1. from = d - Further(off)
    BY <1>2
  <2>. HIDE DEF from, at
  <2>2. from + at - op - 8 = at - Further(off)
    BY <1>2, <1>4, <2>1
  <2>3. new = Upwards(wild, at, from + at - op - 8, rest)
    BY <1>1 DEF from
  <2>. HIDE DEF new, wild, rest
  <2>. QED  BY <2>2, <2>3, Zenon
<1>11. at >= op + 8
  <2>. HIDE DEF at
  <2>. QED  BY <1>4
<1>. HIDE DEF e, d, eight, new, k, at, wild, rest, limit
<1>12. Copied(m, new, F, op, k, e)
  BY <1>3, <1>4, <1>6, <1>8, <1>9, <1>10, <1>11, FurtherCopied
<1>. QED  BY <1>12 DEF new, e, k

\* The eighteen bytes of the shortcut.
LEMMA ShortcutCopied ==
  ASSUME NEW m, NEW F, NEW op \in Int, NEW off \in Nat, off >= 1, NEW ml \in Nat, ml >= MinMatch, ml <= 18,
         MatchReady(m, F, op, off, op + ml)
  PROVE  Copied(m, Upwards(m, op, op - off, 18), F, op, op + ml + 14, op + ml)
<1>. DEFINE e == op + ml
            k == op + ml + 14
            n == 18
            new == Upwards(m, op, op - off, n)
<1>1. Repeats(F, op, off, e) /\ \A x \in op - off .. op - 1 : m[x] = F[x]
  BY DEF MatchReady, Repeats
<1>2. e \in Int /\ n \in Int /\ k \in Int /\ off > 0 /\ op + n >= e /\ op + n <= k /\ op + n \in Int
  BY DEF MinMatch
<1>3. \A x \in op .. e - 1 : F[x] = F[x - off]
  BY <1>1 DEF Repeats
<1>. HIDE DEF e, k, n
<1>4. Copied(m, new, F, op, op + n, e)
  BY <1>1, <1>2, <1>3, UpwardsIs
<1>. HIDE DEF new
<1>5. Copied(m, new, F, op, k, e)
  <2>. DEFINE l == op + n
  <2>1. l \in Int /\ l >= e /\ l <= k /\ Copied(m, new, F, op, l, e)
    BY <1>2, <1>4
  <2>. HIDE DEF l
  <2>. QED  BY <1>2, <2>1, CopiedWider
<1>. QED  BY <1>5 DEF new, n, k, e

\* A match that begins in an external dictionary and may end in the prefix.
LEMMA DictionaryCopied ==
  ASSUME NEW m, NEW F, NEW op \in Int, NEW off \in Nat, off >= 1, NEW ml \in Nat, ml >= MinMatch,
         \A x \in op .. op + ml - 1 : F[x] = F[x - off] /\ x \in DOMAIN m,
         dec.low \in Int, DecDictEnd \in Int, op - off < dec.low, dec.low <= op,
         \A x \in op - off .. op - 1 : m[IF x < dec.low THEN x + DecDictEnd - dec.low ELSE x] = F[x],
         \A x \in dec.low .. op - 1 : x \in DOMAIN m
  PROVE  Copied(m, FromDictionary(m, op, op - off, ml), F, op, op + ml + 14, op + ml)
<1>. DEFINE e == op + ml
            k == op + ml + 14
            low == dec.low
            end == DecDictEnd
            n == low - (op - off)
            from == end - n
            first == Block(m, op, from, n)
            new == FromDictionary(m, op, op - off, ml)
<1>1. new = IF ml <= n THEN Block(m, op, from, ml) ELSE Upwards(first, op + n, low, ml - n)
  BY DEF FromDictionary
<1>2. e \in Int /\ k \in Int /\ low \in Int /\ end \in Int /\ n \in Nat /\ n > 0 /\ from \in Int /\ e <= k /\ e = op + ml
      /\ n = low - op + off /\ low <= op
  <2>. HIDE DEF low, end
  <2>1. low \in Int /\ end \in Int /\ op - off < low /\ low <= op
    BY DEF low, end
  <2>. QED  BY <2>1
<1>3. Repeats(F, op, off, e) /\ \A x \in op .. e - 1 : x \in DOMAIN m
  BY DEF Repeats
<1>4. ASSUME NEW x \in op - off .. low - 1  PROVE m[x + end - low] = F[x]
  <2>1. x \in op - off .. op - 1 /\ x < low
    BY <1>2
  <2>. QED  BY <2>1
<1>5. ASSUME NEW x \in low .. op - 1  PROVE m[x] = F[x] /\ x \in DOMAIN m
  <2>1. x \in op - off .. op - 1 /\ ~(x < low)
    BY <1>2
  <2>. QED  BY <2>1
<1>. HIDE DEF e, k, low, end, n, from
<1>6. ASSUME NEW l \in Int, l <= n, NEW i \in 0 .. l - 1, op + i < e  PROVE m[from + i] = F[op + i]
  <2>. DEFINE x == op + i
              y == op + i - off
  <2>1. x \in op .. e - 1 /\ x - off = y /\ y \in op - off .. low - 1 /\ y + end - low = from + i
    BY <1>2, <1>6 DEF from
  <2>. HIDE DEF y
  <2>2. m[from + i] = F[y]
    BY <1>4, <2>1
  <2>. HIDE DEF x
  <2>3. F[x] = F[y]
    BY <1>3, <2>1 DEF Repeats
  <2>. QED  BY <2>2, <2>3 DEF x
<1>7. CASE ml <= n
  <2>1. new = Block(m, op, from, ml)
    BY <1>1, <1>7
  <2>2. ml \in Int /\ \A i \in 0 .. ml - 1 : op + i < e => m[from + i] = F[op + i]
    BY <1>6, <1>7
  <2>3. Copied(m, Block(m, op, from, ml), F, op, op + ml, e)
    BY <1>2, <2>2, RunCopied
  <2>. HIDE DEF new
  <2>4. Copied(m, new, F, op, e, e)
    BY <2>1, <2>3 DEF e
  <2>5. Copied(m, new, F, op, k, e)
    BY <1>2, <2>4, CopiedWider
  <2>. QED  BY <2>5 DEF new, k, e
<1>8. CASE ml > n
  <2>. DEFINE q == op + n
  <2>1. new = Upwards(first, q, low, ml - n)
    BY <1>1, <1>2, <1>8
  <2>2. n \in Int /\ \A i \in 0 .. n - 1 : op + i < e => m[from + i] = F[op + i]
    BY <1>2, <1>6
  <2>3. Copied(m, first, F, op, q, e)
    BY <1>2, <2>2, RunCopied
  <2>. HIDE DEF first
  <2>4. q \in Int /\ low = q - off /\ q + (ml - n) = e /\ ml - n \in Int /\ q < e /\ op <= q /\ q <= k /\ off > 0
    BY <1>2, <1>8
  <2>. HIDE DEF q
  <2>5. /\ DOMAIN first = DOMAIN m
        /\ \A a \in DOMAIN m : a \notin op .. q - 1 => first[a] = m[a]
        /\ \A a \in op .. e - 1 : a \in DOMAIN m /\ a < q => first[a] = F[a]
    BY <2>3 DEF Copied
  <2>6. ASSUME NEW a \in q - off .. q - 1  PROVE first[a] = F[a]
    <3>1. CASE a < op
      <4>1. a \in low .. op - 1 /\ a \notin op .. q - 1
        BY <2>4, <3>1
      <4>2. m[a] = F[a] /\ a \in DOMAIN m
        BY <1>5, <4>1
      <4>3. first[a] = m[a]
        BY <2>5, <4>1, <4>2
      <4>. QED  BY <4>2, <4>3
    <3>2. CASE a >= op
      <4>1. a \in op .. e - 1 /\ a < q
        BY <2>4, <3>2
      <4>. QED  BY <1>3, <2>5, <4>1
    <3>. QED  BY <2>4, <3>1, <3>2
  <2>7. \A a \in q .. e - 1 : F[a] = F[a - off]
    <3>1. \A a \in q .. e - 1 : a \in op .. e - 1
      BY <2>4
    <3>. QED  BY <1>3, <3>1 DEF Repeats
  <2>. DEFINE last == ml - n
  <2>8. last \in Int /\ q + last = e
    BY <2>4
  <2>. HIDE DEF last
  <2>9. Copied(first, Upwards(first, q, q - off, last), F, q, q + last, e)
    BY <1>2, <2>4, <2>6, <2>7, <2>8, UpwardsIs
  <2>. HIDE DEF new
  <2>10. Copied(first, new, F, q, e, e)
    BY <2>1, <2>4, <2>8, <2>9 DEF last
  <2>11. Copied(m, first, F, op, q, q)
    <3>1. \A a \in op .. q - 1 : a \in op .. e - 1 /\ a < q
      BY <2>4
    <3>. QED  BY <2>5, <3>1 DEF Copied
  <2>12. Copied(m, new, F, op, k, e)
    BY <1>2, <2>4, <2>10, <2>11, CopiedTwice
  <2>. QED  BY <2>12 DEF new, k, e
<1>. QED  BY <1>2, <1>7, <1>8

\* Literals, of which the copy leaves junk behind them.
LEMMA JunkedIs ==
  ASSUME NEW m, NEW p, NEW n
  PROVE  /\ DOMAIN Junked(m, p, n) = DOMAIN m
         /\ \A a \in DOMAIN m : a \notin p .. p + n - 1 => Junked(m, p, n)[a] = m[a]
BY DEF Junked

\* Literals that are copied exactly.
LEMMA StoreCopied ==
  ASSUME NEW m, NEW at \in Int, NEW lit, Len(lit) \in Nat, NEW F, \A j \in 1 .. Len(lit) : lit[j] = F[at + j - 1]
  PROVE  Copied(m, Store(m, at, lit), F, at, at + Len(lit), at + Len(lit))
<1>. DEFINE n == Len(lit)
            new == Store(m, at, lit)
<1>1. /\ DOMAIN new = DOMAIN m
      /\ \A a \in DOMAIN m : new[a] = IF a \in at .. at + n - 1 THEN lit[a - at + 1] ELSE m[a]
  BY DEF Store
<1>. HIDE DEF n, new
<1>2. ASSUME NEW a \in at .. at + n - 1, a \in DOMAIN m  PROVE new[a] = F[a]
  <2>. DEFINE j == a - at + 1
  <2>1. j \in 1 .. n /\ at + j - 1 = a /\ n \in Nat
    BY DEF n
  <2>2. new[a] = lit[j]
    BY <1>1, <1>2
  <2>. HIDE DEF j
  <2>3. lit[j] = F[at + j - 1]
    BY <2>1 DEF n
  <2>. QED  BY <2>1, <2>2, <2>3
<1>. DEFINE end == at + n
<1>3. n \in Nat /\ end \in Int /\ at + n - 1 = end - 1
  BY DEF n
<1>. HIDE DEF end
<1>4. /\ \A a \in DOMAIN m : a \notin at .. end - 1 => new[a] = m[a]
      /\ \A a \in at .. end - 1 : a \in DOMAIN m => new[a] = F[a]
  BY <1>1, <1>2, <1>3
<1>5. Copied(m, new, F, at, end, end)
  BY <1>1, <1>4 DEF Copied
<1>. QED  BY <1>5 DEF n, new, end

\* Literals that are copied in steps of eight: what is written after them is
\* written again later.
LEMMA LiteralsCopied ==
  ASSUME NEW m, NEW at \in Int, NEW lit, Len(lit) \in Nat, NEW F, \A j \in 1 .. Len(lit) : lit[j] = F[at + j - 1],
         NEW w \in Int, NEW g \in Int, g >= at + w, g >= at + Len(lit)
  PROVE  /\ Copied(m, Store(Junked(m, at, w), at, lit), F, at, g, at + Len(lit))
         /\ g >= at + Len(lit) + 4 =>
              Copied(m, Junked(Store(Junked(m, at, w), at, lit), at + Len(lit), 4), F, at, g, at + Len(lit))
<1>. DEFINE n == Len(lit)
            end == at + n
            under == Junked(m, at, w)
            said == Store(under, at, lit)
            new == Junked(said, end, 4)
<1>1. DOMAIN under = DOMAIN m /\ \A a \in DOMAIN m : a \notin at .. at + w - 1 => under[a] = m[a]
  BY JunkedIs
<1>2. Copied(under, said, F, at, end, end)
  <2>. HIDE DEF under
  <2>. QED  BY StoreCopied
<1>3. DOMAIN new = DOMAIN said /\ \A a \in DOMAIN said : a \notin end .. end + 4 - 1 => new[a] = said[a]
  <2>. HIDE DEF said, end
  <2>. QED  BY JunkedIs
<1>4. end \in Int /\ g >= end /\ end >= at
  OBVIOUS
<1>. HIDE DEF under, said, new, end
<1>5. /\ DOMAIN said = DOMAIN under
      /\ \A a \in DOMAIN under : a \notin at .. end - 1 => said[a] = under[a]
      /\ \A a \in at .. end - 1 : a \in DOMAIN under /\ a < end => said[a] = F[a]
  BY <1>2 DEF Copied
<1>6. ASSUME NEW a \in DOMAIN m, a \notin at .. g - 1  PROVE said[a] = m[a]
  <2>1. a \notin at .. at + w - 1 /\ a \notin at .. end - 1
    BY <1>4, <1>6
  <2>. QED  BY <1>1, <1>5, <2>1
<1>7. ASSUME NEW a \in at .. end - 1, a \in DOMAIN m  PROVE said[a] = F[a]
  <2>1. a < end
    BY <1>4
  <2>. QED  BY <1>1, <1>5, <1>7, <2>1
<1>8. DOMAIN said = DOMAIN m
  BY <1>1, <1>5
<1>9. Copied(m, said, F, at, g, end)
  BY <1>6, <1>7, <1>8 DEF Copied
<1>10. ASSUME g >= end + 4  PROVE Copied(m, new, F, at, g, end)
  <2>1. ASSUME NEW a \in DOMAIN m, a \notin at .. g - 1  PROVE new[a] = m[a]
    <3>1. a \notin end .. end + 4 - 1
      BY <1>4, <1>10, <2>1
    <3>. QED  BY <1>3, <1>6, <1>8, <2>1, <3>1
  <2>2. ASSUME NEW a \in at .. end - 1, a \in DOMAIN m  PROVE new[a] = F[a]
    <3>1. a \notin end .. end + 4 - 1
      BY <1>4
    <3>. QED  BY <1>3, <1>7, <1>8, <2>2, <3>1
  <2>. QED  BY <1>3, <1>8, <2>1, <2>2 DEF Copied
<1>. QED  BY <1>9, <1>10 DEF said, under, new, end

-----------------------------------------------------------------------------
(***************************************************************************)
(* Where the sequences of a block begin among its bytes.                   *)
(***************************************************************************)
Sizes(b) == [i \in 1 .. Len(b) |-> SizeOf(b[i])]
Sized(b, i) == Total(SubSeq(Sizes(b), 1, i - 1))

\* The bytes of a sequence.
LEMMA SizeIs ==
  ASSUME NEW s \in Sequence
  PROVE  /\ Len(s.lit) \in Nat /\ LengthBytes(Len(s.lit)) \in Nat
         /\ LiteralsEnd(s) = 1 + LengthBytes(Len(s.lit)) + Len(s.lit)
         /\ s.ml = 0 => SizeOf(s) = LiteralsEnd(s)
         /\ s.ml >= MinMatch => SizeOf(s) >= LiteralsEnd(s) + 2 /\ MatchCode(s) = s.ml - 4
         /\ s.ml = 0 \/ s.ml >= MinMatch => SizeOf(s) \in Nat
<1>1. Len(s.lit) \in Nat /\ s.ml \in Nat
  <2>1. s.lit \in Seq(Nat) /\ s.ml \in Nat
    BY DEF Sequence
  <2>. QED  BY <2>1
<1>2. LengthBytes(Len(s.lit)) \in Nat
  BY <1>1, LengthBytesIs
<1>3. LiteralsEnd(s) = 1 + LengthBytes(Len(s.lit)) + Len(s.lit)
  BY DEF LiteralsEnd
<1>4. ASSUME s.ml = 0  PROVE SizeOf(s) = LiteralsEnd(s)
  <2>1. SizeOf(s) = LiteralsEnd(s) + 0
    BY <1>4 DEF SizeOf, IsLast
  <2>. QED  BY <1>1, <1>2, <1>3, <2>1
<1>5. ASSUME s.ml >= MinMatch
      PROVE SizeOf(s) >= LiteralsEnd(s) + 2 /\ MatchCode(s) = s.ml - 4 /\ SizeOf(s) \in Nat
  <2>1. MatchCode(s) = s.ml - 4 /\ s.ml - 4 \in Nat /\ ~IsLast(s)
    BY <1>1, <1>5 DEF MatchCode, IsLast, MinMatch
  <2>. DEFINE l == LengthBytes(MatchCode(s))
  <2>2. l \in Nat
    BY <2>1, LengthBytesIs
  <2>3. SizeOf(s) = LiteralsEnd(s) + (2 + l)
    BY <2>1 DEF SizeOf
  <2>. HIDE DEF l
  <2>. QED  BY <1>1, <1>2, <1>3, <2>1, <2>2, <2>3
<1>. QED  BY <1>1, <1>2, <1>3, <1>4, <1>5

\* A block of the format: every match is at least as long as the shortest.
Formed(b) == b \in Seq(Sequence) /\ \A i \in 1 .. Len(b) : b[i].ml = 0 \/ b[i].ml >= MinMatch

\* The sizes of the sequences of a block.
LEMMA SizesType ==
  ASSUME NEW b, Formed(b)
  PROVE  /\ Sizes(b) \in Seq(Nat) /\ Len(Sizes(b)) = Len(b) /\ Len(b) \in Nat
         /\ \A i \in 1 .. Len(b) : Sizes(b)[i] = SizeOf(b[i]) /\ SizeOf(b[i]) \in Nat
<1>1. Len(b) \in Nat /\ \A i \in 1 .. Len(b) : b[i] \in Sequence /\ (b[i].ml = 0 \/ b[i].ml >= MinMatch)
  <2>1. b \in Seq(Sequence) /\ \A i \in 1 .. Len(b) : b[i].ml = 0 \/ b[i].ml >= MinMatch
    BY DEF Formed
  <2>. HIDE DEF Sequence
  <2>. QED  BY <2>1
<1>2. \A i \in 1 .. Len(b) : SizeOf(b[i]) \in Nat
  BY <1>1, SizeIs
<1>3. Sizes(b) \in [1 .. Len(b) -> Nat]
  BY <1>2 DEF Sizes
<1>. QED  BY <1>1, <1>2, <1>3 DEF Sizes

\* The first sequence begins with the block.
LEMMA SizedFirst ==
  ASSUME NEW b, Formed(b)
  PROVE  Sized(b, 1) = 0
<1>. DEFINE e == SubSeq(Sizes(b), 1, 1 - 1)
<1>1. e = <<>>
  BY SizesType
<1>. HIDE DEF e
<1>2. Total(e) = 0
  BY <1>1, TotalOfNone
<1>. QED  BY <1>2 DEF Sized, e

\* A sequence begins where the one before it ends.
LEMMA SizedNext ==
  ASSUME NEW b, Formed(b), NEW i \in 1 .. Len(b)
  PROVE  Sized(b, i + 1) = Sized(b, i) + SizeOf(b[i]) /\ Sized(b, i) \in Nat /\ SizeOf(b[i]) \in Nat
<1>1. Sizes(b) \in Seq(Int) /\ i \in 1 .. Len(Sizes(b)) /\ i + 1 - 1 = i /\ Sizes(b) \in Seq(Nat) /\ i - 1 \in 0 .. Len(Sizes(b))
  BY SizesType
<1>2. Total(SubSeq(Sizes(b), 1, i)) = Total(SubSeq(Sizes(b), 1, i - 1)) + Sizes(b)[i]
  BY <1>1, TotalGrows
<1>3. Sizes(b)[i] = SizeOf(b[i]) /\ SizeOf(b[i]) \in Nat
  BY SizesType
<1>4. Sized(b, i) \in Nat
  BY <1>1, TotalType DEF Sized
<1>. QED  BY <1>1, <1>2, <1>3, <1>4 DEF Sized

\* The block ends where its last sequence does.
LEMMA SizedAll ==
  ASSUME NEW b, Formed(b)
  PROVE  BlockSize(b) = Sized(b, Len(b) + 1)
<1>. DEFINE s == Sizes(b)
            n == Len(b)
<1>1. s \in Seq(Nat) /\ Len(s) = n /\ n \in Nat
  BY SizesType
<1>2. SubSeq(s, 1, (n + 1) - 1) = s
  <2>. HIDE DEF s, n
  <2>1. (n + 1) - 1 = Len(s)
    BY <1>1
  <2>2. SubSeq(s, 1, Len(s)) = s
    BY <1>1
  <2>. QED  BY <2>1, <2>2, Zenon
<1>3. BlockSize(b) = Total(s)
  BY DEF BlockSize, Sizes
<1>. QED  BY <1>2, <1>3 DEF Sized

\* What comes before the last sequence leaves room for it.
LEMMA SizedWithin ==
  ASSUME NEW b, Formed(b), NEW i \in 1 .. Len(b)
  PROVE  Sized(b, i) + SizeOf(b[Len(b)]) <= BlockSize(b) /\ BlockSize(b) \in Nat
<1>. DEFINE n == Len(b)
            w == Sized(b, n)
            x == n - i
            P == {k \in 0 .. x : ~(Sized(b, n - k) <= w)}
<1>1. n \in Nat /\ n >= 1 /\ n \in 1 .. Len(b) /\ x \in 0 .. n - 1 /\ n - x = i
  BY SizesType
<1>2. ASSUME ~(Sized(b, i) <= w)  PROVE FALSE
  <2>1. P \in SUBSET (0 .. x) /\ x \in P /\ x \in Nat
    BY <1>1, <1>2
  <2>2. PICK k \in P : \A j \in 0 .. k - 1 : j \notin P
    <3>. HIDE DEF P, x
    <3>. QED  BY <2>1, SmallestNumber
  <2>3. k \in 0 .. x /\ ~(Sized(b, n - k) <= w)
    OBVIOUS
  <2>4. k # 0
    <3>1. w \in Nat
      BY <1>1, SizedNext
    <3>2. n - 0 = n
      BY <1>1
    <3>. HIDE DEF n
    <3>. QED  BY <2>3, <3>1, <3>2
  <2>. DEFINE j == n - k
  <2>5. j \in 1 .. n /\ j + 1 = n - (k - 1) /\ k - 1 \in 0 .. k - 1 /\ k - 1 \in 0 .. x
    BY <1>1, <2>3, <2>4
  <2>6. Sized(b, j + 1) <= w
    <3>1. k - 1 \notin P
      BY <2>2, <2>5
    <3>2. Sized(b, n - (k - 1)) <= w
      BY <2>5, <3>1
    <3>. QED  BY <2>5, <3>2, Zenon
  <2>. HIDE DEF j
  <2>7. j \in 1 .. Len(b)
    BY <2>5
  <2>8. Sized(b, j + 1) = Sized(b, j) + SizeOf(b[j]) /\ Sized(b, j) \in Nat /\ SizeOf(b[j]) \in Nat
    BY <2>7, SizedNext
  <2>9. w \in Nat
    BY <1>1, SizedNext
  <2>. HIDE DEF w
  <2>10. Sized(b, j) <= w
    BY <2>6, <2>8, <2>9
  <2>. QED  BY <2>3, <2>10 DEF j
<1>3. BlockSize(b) = w + SizeOf(b[n]) /\ w \in Nat /\ SizeOf(b[n]) \in Nat
  BY <1>1, SizedAll, SizedNext
<1>4. Sized(b, i) \in Nat
  BY SizedNext
<1>. HIDE DEF w
<1>5. Sized(b, i) <= w
  BY <1>2
<1>. QED  BY <1>3, <1>4, <1>5

-----------------------------------------------------------------------------
(***************************************************************************)
(* The block that is on its way: what it says and where its matches are.   *)
(***************************************************************************)
\* How far before the message its matches may begin.
Before == IF Continuing THEN Len(user.past) ELSE 0

SequenceArrives(i) ==
    LET s == block[i]
        n == Len(user.msg)
        w == Written(block, i)
        p == w + Len(s.lit)
        said == user.past \o user.msg
        k == Len(user.past)
    IN /\ \A j \in 1 .. Len(s.lit) : s.lit[j] = said[k + w + j]
       /\ s.ml = 0 <=> i = Len(block)
       /\ s.ml # 0 => /\ s.ml >= MinMatch /\ p + s.ml + LastLiterals <= n /\ p + MFLimit <= n
                      /\ s.off \in 1 .. MaxDistance /\ s.off <= p + Before
                      /\ \A j \in 1 .. s.ml : said[k + p + j] = said[k + p + j - s.off]

BlockArrives ==
    /\ block \in Seq(Sequence) /\ block # <<>> /\ Written(block, Len(block) + 1) = Len(user.msg)
    /\ prog.call # "destSize" => Len(user.msg) >= 1
    /\ Len(user.msg) <= prog.max /\ prog.max >= 1
    /\ \A i \in 1 .. Len(block) : SequenceArrives(i)

\* What the memory of the receiver is to say, with the message at dst.
Heard(dst) == [x \in Int |-> (user.past \o user.msg)[Len(user.past) + (x - dst) + 1]]

\* What the message at dst says of the sequence i.
Says(i, dst) ==
    LET s == block[i]
        n == Len(user.msg)
        w == Written(block, i)
        p == w + Len(s.lit)
        F == Heard(dst)
    IN /\ s \in Sequence /\ Len(s.lit) \in Nat /\ s.ml \in Nat /\ s.off \in Nat /\ w \in Nat
       /\ Written(block, i + 1) = p + s.ml /\ p + s.ml <= n
       /\ \A j \in 1 .. Len(s.lit) : s.lit[j] = F[dst + w + j - 1]
       /\ s.ml = 0 <=> i = Len(block)
       /\ s.ml = 0 => p = n
       /\ s.ml # 0 => /\ s.ml >= MinMatch /\ p + s.ml + 5 <= n /\ p + 12 <= n
                      /\ s.off >= 1 /\ s.off <= MaxDistance /\ s.off <= p + Before
                      /\ \A x \in dst + p .. dst + p + s.ml - 1 : F[x] = F[x - s.off]

\* Heard puts the message at dst and the past right before it.
LEMMA HeardIs ==
  ASSUME user.past \in Seq(Nat), user.msg \in Seq(Nat), NEW dst \in Int
  PROVE  /\ \A j \in 1 .. Len(user.msg) : Heard(dst)[dst + j - 1] = user.msg[j]
         /\ \A k \in 1 .. Len(user.past) : Heard(dst)[dst - k] = user.past[Len(user.past) - k + 1]
         /\ \A x \in Int : Heard(dst)[x] = (user.past \o user.msg)[Len(user.past) + (x - dst) + 1]
<1>. DEFINE past == user.past
            msg == user.msg
            said == past \o msg
            k == Len(past)
            n == Len(msg)
            F == Heard(dst)
<1>1. \A x \in Int : F[x] = said[k + (x - dst) + 1]
  BY DEF Heard
<1>2. /\ k \in Nat /\ n \in Nat
      /\ \A i \in 1 .. n : said[k + i] = msg[i]
      /\ \A i \in 1 .. k : said[i] = past[i]
  <2>. HIDE DEF past, msg
  <2>1. past \in Seq(Nat) /\ msg \in Seq(Nat)
    BY DEF past, msg
  <2>2. \A i \in 1 .. Len(past) : (past \o msg)[i] = past[i]
    BY <2>1
  <2>3. \A i \in 1 .. Len(msg) : (past \o msg)[Len(past) + i] = msg[i]
    BY <2>1
  <2>. QED  BY <2>1, <2>2, <2>3
<1>. HIDE DEF past, msg, said, k, n, F
<1>3. ASSUME NEW j \in 1 .. n  PROVE F[dst + j - 1] = msg[j]
  <2>. DEFINE x == dst + j - 1
  <2>1. x \in Int /\ k + (x - dst) + 1 = k + j
    BY <1>2
  <2>. HIDE DEF x
  <2>2. F[x] = said[k + j]
    BY <1>1, <2>1
  <2>. QED  BY <1>2, <2>2 DEF x
<1>4. ASSUME NEW j \in 1 .. k  PROVE F[dst - j] = past[k - j + 1]
  <2>. DEFINE x == dst - j
              i == k - j + 1
  <2>1. x \in Int /\ k + (x - dst) + 1 = i /\ i \in 1 .. k
    BY <1>2
  <2>. HIDE DEF x, i
  <2>2. F[x] = said[i]
    BY <1>1, <2>1
  <2>. QED  BY <1>2, <2>1, <2>2 DEF x, i
<1>. QED  BY <1>1, <1>3, <1>4 DEF past, msg, said, k, n, F

\* The sequences of a block that arrives, in places of the memory.
LEMMA SequenceSays ==
  ASSUME user.past \in Seq(Nat), user.msg \in Seq(Nat), BlockArrives, NEW i \in 1 .. Len(block), NEW dst \in Int
  PROVE  Says(i, dst)
<1>. DEFINE s == block[i]
            n == Len(user.msg)
            w == Written(block, i)
            u == Len(s.lit)
            p == w + u
            v == Written(block, i + 1)
            said == user.past \o user.msg
            k == Len(user.past)
            F == Heard(dst)
            ml == s.ml
            off == s.off
<1>1. block \in Seq(Sequence) /\ Written(block, Len(block) + 1) = n /\ SequenceArrives(i)
  BY DEF BlockArrives
<1>2. s \in Sequence
  <2>. HIDE DEF Sequence
  <2>. QED  BY <1>1
<1>3. u \in Nat /\ ml \in Nat /\ off \in Nat /\ s.lit \in Seq(Nat)
  <2>1. s.lit \in Seq(Nat) /\ ml \in Nat /\ off \in Nat
    BY <1>2 DEF Sequence
  <2>. QED  BY <2>1
<1>4. k \in Nat /\ n \in Nat
  OBVIOUS
<1>5. w \in Nat /\ v \in Nat /\ v = w + u + ml /\ v <= n
  <2>1. i \in 1 .. Len(block) + 1 /\ i + 1 \in 1 .. Len(block) + 1
    BY <1>1
  <2>2. w \in Nat /\ v \in Nat
    BY <1>1, <2>1, WrittenType
  <2>3. v = w + u + ml
    BY <1>1, WrittenNext
  <2>4. v <= n
    BY <1>1, <2>1, WrittenWithin
  <2>. QED  BY <2>2, <2>3, <2>4
<1>6. /\ \A j \in 1 .. u : s.lit[j] = said[k + w + j]
      /\ ml = 0 <=> i = Len(block)
      /\ ml # 0 => /\ ml >= MinMatch /\ p + ml + LastLiterals <= n /\ p + MFLimit <= n
                   /\ off \in 1 .. MaxDistance /\ off <= p + Before
                   /\ \A j \in 1 .. ml : said[k + p + j] = said[k + p + j - off]
  BY <1>1 DEF SequenceArrives
<1>7. \A x \in Int : F[x] = said[k + (x - dst) + 1]
  BY HeardIs
<1>8. MFLimit = 12 /\ LastLiterals = 5 /\ MaxDistance = Window - 1 /\ Window \in Nat
  BY FastAssumption DEF MFLimit, LastLiterals, WildCopyLength, MinMatch, MaxDistance
<1>9. ml = 0 => v = n
  BY <1>1, <1>6
<1>10. block[i].lit = s.lit
  OBVIOUS
<1>. HIDE DEF s, n, w, u, v, said, k, F, ml, off
<1>11. ASSUME NEW j \in 1 .. u  PROVE s.lit[j] = F[dst + w + j - 1]
  <2>. DEFINE x == dst + w + j - 1
  <2>1. x \in Int /\ k + (x - dst) + 1 = k + w + j
    BY <1>3, <1>4, <1>5
  <2>. HIDE DEF x
  <2>2. F[x] = said[k + w + j]
    BY <1>7, <2>1
  <2>3. s.lit[j] = said[k + w + j]
    BY <1>6
  <2>. QED  BY <2>2, <2>3 DEF x
<1>12. ASSUME ml # 0, NEW x \in dst + p .. dst + p + ml - 1  PROVE F[x] = F[x - off]
  <2>. DEFINE j == x - (dst + p) + 1
              y == x - off
              a == k + p + j
              b == k + p + j - off
  <2>1. x \in Int /\ y \in Int /\ j \in 1 .. ml /\ k + (x - dst) + 1 = a /\ k + (y - dst) + 1 = b
    BY <1>3, <1>4, <1>5
  <2>2. F[x] = said[k + (x - dst) + 1] /\ F[y] = said[k + (y - dst) + 1]
    <3>. HIDE DEF y
    <3>. QED  BY <1>7, <2>1
  <2>3. said[a] = said[b]
    <3>. HIDE DEF j, p
    <3>. QED  BY <1>6, <1>12, <2>1
  <2>. HIDE DEF a, b, y, j
  <2>4. F[x] = F[y]
    BY <2>1, <2>2, <2>3
  <2>. QED  BY <2>4 DEF y
<1>13. p = w + u /\ v = p + ml /\ p \in Nat
  BY <1>3, <1>5
<1>. HIDE DEF p
<1>14. /\ s \in Sequence /\ u \in Nat /\ ml \in Nat /\ off \in Nat /\ w \in Nat
       /\ v = p + ml /\ p + ml <= n
       /\ \A j \in 1 .. u : s.lit[j] = F[dst + w + j - 1]
       /\ ml = 0 <=> i = Len(block)
       /\ ml = 0 => p = n
  BY <1>2, <1>3, <1>4, <1>5, <1>6, <1>9, <1>11, <1>13
<1>15. ml # 0 => /\ ml >= MinMatch /\ p + ml + 5 <= n /\ p + 12 <= n
                 /\ off >= 1 /\ off <= MaxDistance /\ off <= p + Before
                 /\ \A x \in dst + p .. dst + p + ml - 1 : F[x] = F[x - off]
  BY <1>6, <1>8, <1>12
<1>. QED  BY <1>14, <1>15, Zenon DEF Says, s, n, w, u, p, v, F, ml, off

-----------------------------------------------------------------------------
(***************************************************************************)
(* The memory of the receiver while it decodes.                            *)
(***************************************************************************)
\* What of the past the receiver has.
Held == IF Continuing THEN Min({Len(user.past), Window}) ELSE 0

\* Where the decoder looks for what would be at a, before the message.
Where(a) == IF a < dec.low THEN a + DecDictEnd - dec.low ELSE a

OutEnd == DecAt + prog.decRing

\* The past, as far as w bytes of the message leave it within reach.
PastIn(m, w) ==
    \A k \in 1 .. Held :
        w + k <= MaxDistance =>
            /\ Where(dec.dst - k) \in 1 .. OutEnd
            /\ m[Where(dec.dst - k)] = user.past[Len(user.past) - k + 1]

DecodedIn(m, n) == \A j \in 1 .. n : m[dec.dst + j - 1] = user.msg[j]

DecodeTyped ==
    /\ DOMAIN dec = {"at", "dst", "cap", "safe", "partial", "target", "ext", "low", "dictStart", "dictSize", "then",
                     "ip", "op", "next", "high", "result"}
    /\ dec.at \in {"decode", "return"} /\ dec.cap \in Nat /\ dec.safe \in BOOLEAN /\ dec.target \in Nat
    /\ dec.partial = (dec.target > 0) /\ dec.ext \in BOOLEAN /\ dec.low \in Int /\ dec.dictStart \in Nat
    /\ dec.dictSize \in Nat /\ dec.ip \in Nat /\ dec.op \in Nat /\ dec.next \in Nat /\ dec.high \in Int

DecodeCall ==
    /\ dec.dst = Destination /\ dec.low <= dec.dst
    /\ dec.cap >= 1 /\ dec.cap >= Len(user.msg)
    /\ ~dec.safe => dec.cap = Len(user.msg) /\ ~dec.partial
    /\ dec.partial => dec.cap = Len(user.msg)
    /\ dec.low - (IF dec.ext THEN dec.dictSize ELSE 0) <= dec.dst - Held
    /\ dec.ext /\ dec.low > dec.dst - Held => DecDictEnd <= dec.dst \/ DecDictEnd - dec.low >= Window + 13

\* The receiver has room for the message where it decodes it.
Roomy == dec.dst \in Nat \ {0} /\ dec.dst + Len(user.msg) <= OutEnd /\ OutEnd \in Nat /\ DOMAIN out = 1 .. OutEnd

\* Every distance that a match may have is within what the receiver has.
LEMMA HeldIs ==
  ASSUME user.past \in Seq(Nat)
  PROVE  /\ Held \in Nat /\ Held <= Len(user.past) /\ Window \in Nat /\ MaxDistance = Window - 1
         /\ \A k \in Int : k <= MaxDistance /\ k <= Before => k <= Held
<1>1. Len(user.past) \in Nat /\ Window \in Nat /\ MaxDistance = Window - 1
  BY FastAssumption DEF MaxDistance
<1>2. Min({Len(user.past), Window}) = IF Len(user.past) <= Window THEN Len(user.past) ELSE Window
  <2>. DEFINE l == Len(user.past)
  <2>1. l \in Int /\ Window \in Int
    BY <1>1
  <2>. HIDE DEF l
  <2>2. Min({l, Window}) = IF l <= Window THEN l ELSE Window
    BY <2>1, MinOfTwo
  <2>. QED  BY <2>2 DEF l
<1>. DEFINE l == Len(user.past)
            x == Min({l, Window})
<1>3. l \in Nat /\ x = IF l <= Window THEN l ELSE Window
  BY <1>1, <1>2
<1>4. Held = (IF Continuing THEN x ELSE 0) /\ Before = IF Continuing THEN l ELSE 0
  BY DEF Held, Before
<1>. HIDE DEF l, x
<1>5. CASE Continuing
  <2>1. Held = x /\ Before = l
    BY <1>4, <1>5
  <2>. QED  BY <1>1, <1>3, <2>1 DEF l
<1>6. CASE ~Continuing
  <2>1. Held = 0 /\ Before = 0
    BY <1>4, <1>6
  <2>. QED  BY <1>1, <1>3, <2>1 DEF l
<1>. QED  BY <1>5, <1>6

\* Where the past of the message is, relative to the part that is being decoded.
LEMMA PastIsElsewhere ==
  ASSUME DecodeTyped, DecodeCall, user.past \in Seq(Nat), dec.dst \in Int, NEW w \in Nat, NEW k \in 1 .. Held, w + k <= MaxDistance
  PROVE  /\ Where(dec.dst - k) < dec.dst \/ Where(dec.dst - k) >= dec.dst + w + 14
         /\ dec.dst - k < dec.low => dec.ext
         /\ Where(dec.dst - k) \in Int
         /\ dec.safe /\ dec.dictSize < Window => dec.dst - k + dec.dictSize >= dec.low
<1>. DEFINE dst == dec.dst
            low == dec.low
            end == DecDictEnd
            x == dst - k
            size == dec.dictSize
            h == Held
<1>1. /\ dst \in Int /\ low \in Int /\ end \in Int /\ size \in Nat /\ low <= dst /\ h \in Nat
      /\ low - (IF dec.ext THEN size ELSE 0) <= dst - h
      /\ dec.ext /\ low > dst - h => end <= dst \/ end - low >= Window + 13
      /\ dec.ext \in BOOLEAN
  BY HeldIs DEF DecodeTyped, DecodeCall, DecDictEnd
<1>2. Window \in Nat /\ w + k <= Window - 1 /\ k \in Nat /\ k >= 1 /\ k <= h /\ x = dst - k
  <2>1. h \in Nat /\ Window \in Nat /\ MaxDistance = Window - 1
    BY HeldIs
  <2>2. k \in 1 .. h
    OBVIOUS
  <2>. HIDE DEF h
  <2>. QED  BY <2>1, <2>2
<1>3. Where(x) = IF x < low THEN x + end - low ELSE x
  BY DEF Where
<1>. HIDE DEF dst, low, end, x, size, h
<1>4. x < low => dec.ext
  BY <1>1, <1>2
<1>5. Where(x) < dst \/ Where(x) >= dst + w + 14
  <2>1. CASE x < low
    <3>1. end <= dst \/ end - low >= Window + 13
      BY <1>1, <1>2, <1>4, <2>1
    <3>2. Where(x) = x + end - low
      BY <1>3, <2>1
    <3>. QED  BY <1>1, <1>2, <2>1, <3>1, <3>2
  <2>2. CASE ~(x < low)
    BY <1>1, <1>2, <1>3, <2>2
  <2>. QED  BY <2>1, <2>2
<1>6. x + size >= low
  BY <1>1, <1>2
<1>7. Where(x) \in Int
  BY <1>1, <1>2, <1>3
<1>. QED  BY <1>4, <1>5, <1>6, <1>7 DEF dst, low, x, size

\* Once the literals of a sequence are written, the match is where it is looked for.
Reading(m, w, p, g, off) ==
    /\ PastIn(out, w) /\ DecodedIn(out, w) /\ w <= p /\ p <= Len(user.msg)
    /\ Copied(out, m, Heard(dec.dst), dec.dst + w, g, dec.dst + p) /\ dec.dst + p <= g
    /\ off >= 1 /\ off <= MaxDistance /\ off <= p + Before

\* What a match repeats is where the decoder looks for it, and it finds the
\* match within the dictionary it was given.
LEMMA SourceIsThere ==
  ASSUME DecodeTyped, DecodeCall, Roomy, user.past \in Seq(Nat), user.msg \in Seq(Nat), NEW w \in Nat, NEW p \in Nat, NEW m, NEW g \in Int,
         NEW off \in Nat, Reading(m, w, p, g, off), NEW x \in Int, x >= dec.dst + p - off, x < dec.dst + p,
         g <= dec.dst + p + 14 \/ x >= dec.low
  PROVE  /\ m[Where(x)] = Heard(dec.dst)[x]
         /\ x >= dec.low => x \in DOMAIN m
         /\ x < dec.low => dec.ext
         /\ dec.safe /\ dec.dictSize < Window => x + dec.dictSize >= dec.low
<1>. DEFINE dst == dec.dst
            low == dec.low
            F == Heard(dst)
            n == Len(user.msg)
            K == Len(user.past)
            at == dst + w
            op == dst + p
            h == Held
<1>1. /\ dst \in Nat /\ dst >= 1 /\ low \in Int /\ low <= dst /\ n \in Nat /\ K \in Nat /\ dst + n <= OutEnd /\ OutEnd \in Nat
      /\ DOMAIN out = 1 .. OutEnd /\ dec.dictSize \in Nat /\ p <= n
  <2>1. low \in Int /\ dec.dictSize \in Nat
    BY DEF DecodeTyped
  <2>2. low <= dst
    BY DEF DecodeCall
  <2>3. dst \in Nat /\ dst >= 1 /\ dst + n <= OutEnd /\ OutEnd \in Nat /\ DOMAIN out = 1 .. OutEnd
    BY DEF Roomy
  <2>4. n \in Nat /\ K \in Nat /\ p <= n
    BY DEF Reading
  <2>. QED  BY <2>1, <2>2, <2>3, <2>4
<1>2. /\ \A j \in 1 .. n : F[dst + j - 1] = user.msg[j]
      /\ \A k \in 1 .. K : F[dst - k] = user.past[K - k + 1]
  <2>1. dst \in Int
    BY <1>1
  <2>. HIDE DEF dst
  <2>. QED  BY <2>1, HeardIs
<1>3. h \in Nat /\ h <= K /\ Window \in Nat /\ MaxDistance = Window - 1
      /\ \A k \in Int : k <= MaxDistance /\ k <= Before => k <= h
  BY HeldIs
<1>4. /\ DOMAIN m = DOMAIN out
      /\ \A a \in DOMAIN out : a \notin at .. g - 1 => m[a] = out[a]
      /\ \A a \in at .. op - 1 : a \in DOMAIN out /\ a < g => m[a] = F[a]
  BY DEF Reading, Copied
<1>5. /\ \A k \in 1 .. h : w + k <= MaxDistance =>
            Where(dst - k) \in 1 .. OutEnd /\ out[Where(dst - k)] = user.past[K - k + 1]
      /\ \A j \in 1 .. w : out[dst + j - 1] = user.msg[j]
  BY DEF Reading, PastIn, DecodedIn
<1>6. Where(x) = IF x < low THEN x + DecDictEnd - low ELSE x
  BY DEF Where
<1>7. x \in Int /\ x >= op - off /\ x < op /\ op <= g
      /\ off >= 1 /\ off <= MaxDistance /\ off <= p + Before /\ w <= p
  BY <1>1 DEF Reading
<1>p. at = dst + w /\ op = dst + p /\ at \in Int /\ op \in Int /\ at <= op
  <2>. HIDE DEF dst
  <2>. QED  BY <1>1 DEF Reading
<1>g. g <= dst + p + 14 \/ x >= low
  OBVIOUS
<1>. HIDE DEF dst, low, F, n, K, at, op, h
<1>8. CASE x >= dst
  <2>. DEFINE j == x - dst + 1
  <2>1. j \in 1 .. n /\ dst + j - 1 = x /\ ~(x < low) /\ x \in 1 .. OutEnd
    BY <1>1, <1>7, <1>8, <1>p
  <2>2. Where(x) = x /\ x \in DOMAIN m
    BY <1>1, <1>4, <1>6, <2>1
  <2>3. ASSUME x >= at  PROVE m[x] = F[x]
    <3>1. x \in at .. op - 1 /\ x < g
      BY <1>7, <1>p, <2>3
    <3>. QED  BY <1>1, <1>4, <2>1, <3>1
  <2>4. ASSUME x < at  PROVE m[x] = F[x]
    <3>1. j \in 1 .. w /\ x \notin at .. g - 1
      BY <1>7, <1>8, <1>p, <1>1, <2>4
    <3>. HIDE DEF j
    <3>2. out[x] = user.msg[j] /\ F[x] = user.msg[j]
      BY <1>2, <1>5, <2>1, <3>1
    <3>3. m[x] = out[x]
      BY <1>1, <1>4, <2>1, <3>1
    <3>. QED  BY <3>2, <3>3
  <2>5. x + dec.dictSize >= low /\ ~(x < low)
    BY <1>1, <1>7, <1>8
  <2>6. m[x] = F[x]
    BY <1>7, <1>p, <2>3, <2>4
  <2>7. m[Where(x)] = F[x] /\ x \in DOMAIN m /\ ~(x < low) /\ x + dec.dictSize >= low
    BY <2>2, <2>5, <2>6
  <2>. QED  BY <2>7, Zenon DEF dst, low, F
<1>9. CASE x < dst
  <2>. DEFINE k == dst - x
              y == Where(dst - k)
  <2>1. k \in Int /\ k >= 1 /\ dst - k = x /\ p + k <= off /\ k <= MaxDistance /\ k <= Before
    <3>1. Before \in Int
      BY DEF Before
    <3>. QED  BY <1>1, <1>3, <1>7, <1>9, <1>p, <3>1
  <2>. HIDE DEF k
  <2>2. k \in 1 .. h /\ p + k <= MaxDistance /\ w + k <= MaxDistance /\ k \in 1 .. K
    <3>1. k <= h
      BY <1>3, <2>1
    <3>. QED  BY <1>1, <1>3, <1>7, <2>1, <3>1
  <2>3. /\ y < dst \/ y >= dst + p + 14
        /\ x < low => dec.ext
        /\ y \in Int
        /\ dec.safe /\ dec.dictSize < Window => x + dec.dictSize >= low
    <3>1. k \in 1 .. Held /\ dec.dst \in Int
      BY <1>1, <2>2 DEF h, dst
    <3>2. /\ Where(dec.dst - k) < dec.dst \/ Where(dec.dst - k) >= dec.dst + p + 14
          /\ dec.dst - k < dec.low => dec.ext
          /\ Where(dec.dst - k) \in Int
          /\ dec.safe /\ dec.dictSize < Window => dec.dst - k + dec.dictSize >= dec.low
      BY <2>2, <3>1, PastIsElsewhere
    <3>3. dst - k = x
      BY <2>1
    <3>. QED  BY <3>2, <3>3, Zenon DEF dst, low
  <2>4. y \in 1 .. OutEnd /\ out[y] = user.past[K - k + 1] /\ F[x] = user.past[K - k + 1]
    <3>1. F[dst - k] = user.past[K - k + 1]
      BY <1>2, <2>2
    <3>2. Where(dst - k) \in 1 .. OutEnd /\ out[Where(dst - k)] = user.past[K - k + 1]
      BY <1>5, <2>2
    <3>. QED  BY <2>1, <3>1, <3>2, Zenon
  <2>5. Where(x) = y
    BY <2>1
  <2>. HIDE DEF y
  <2>6. y \notin at .. g - 1
    <3>1. x >= low => y = x
      BY <1>1, <1>6, <1>7, <2>5
    <3>. QED  BY <1>1, <1>9, <1>g, <1>p, <1>7, <2>3, <3>1
  <2>7. m[y] = F[x]
    <3>1. y \in DOMAIN out
      BY <1>1, <2>4
    <3>. QED  BY <1>4, <2>4, <2>6, <3>1
  <2>8. x >= low => x \in DOMAIN m
    <3>1. x >= low => y = x
      BY <1>1, <1>6, <1>7, <2>5
    <3>. QED  BY <1>1, <1>4, <2>4, <3>1
  <2>. QED  BY <2>3, <2>5, <2>7, <2>8 DEF dst, low, F
<1>. QED  BY <1>1, <1>7, <1>8, <1>9

\* What a sequence writes leaves the past in place that the rest may refer to.
Extending(m, w, q, g) ==
    /\ PastIn(out, w) /\ DecodedIn(out, w) /\ w <= q /\ q <= Len(user.msg)
    /\ Copied(out, m, Heard(dec.dst), dec.dst + w, g, dec.dst + q) /\ dec.dst + q <= g /\ g <= dec.dst + q + 14

\* A step overwrites nothing of the past that a later match may repeat.
LEMMA PastStays ==
  ASSUME DecodeTyped, DecodeCall, Roomy, user.past \in Seq(Nat), user.msg \in Seq(Nat), NEW w \in Nat, NEW q \in Nat, NEW m,
         NEW g \in Int, Extending(m, w, q, g)
  PROVE  PastIn(m, q) /\ DecodedIn(m, q) /\ DOMAIN m = DOMAIN out
<1>. DEFINE dst == dec.dst
            F == Heard(dst)
            n == Len(user.msg)
            K == Len(user.past)
            at == dst + w
            e == dst + q
            h == Held
<1>1. /\ dst \in Nat /\ dst >= 1 /\ n \in Nat /\ K \in Nat /\ dst + n <= OutEnd /\ OutEnd \in Nat /\ DOMAIN out = 1 .. OutEnd
      /\ q <= n
  <2>1. q <= n
    BY DEF Extending
  <2>. QED  BY <2>1 DEF Roomy
<1>2. \A j \in 1 .. n : F[dst + j - 1] = user.msg[j]
  <2>1. dst \in Int
    BY <1>1
  <2>. HIDE DEF dst
  <2>. QED  BY <2>1, HeardIs
<1>3. h \in Nat /\ MaxDistance \in Int
  BY HeldIs
<1>4. /\ DOMAIN m = DOMAIN out
      /\ \A a \in DOMAIN out : a \notin at .. g - 1 => m[a] = out[a]
      /\ \A a \in at .. e - 1 : a \in DOMAIN out /\ a < g => m[a] = F[a]
  BY DEF Copied, Extending
<1>5. /\ \A k \in 1 .. h : w + k <= MaxDistance =>
            Where(dst - k) \in 1 .. OutEnd /\ out[Where(dst - k)] = user.past[K - k + 1]
      /\ \A j \in 1 .. w : out[dst + j - 1] = user.msg[j]
  BY DEF PastIn, DecodedIn, Extending
<1>p. at = dst + w /\ e = dst + q /\ at \in Int /\ e \in Int /\ at <= e /\ e <= g /\ g <= dst + q + 14
  <2>1. w <= q /\ e <= g /\ g <= dst + q + 14
    BY DEF Extending
  <2>. QED  BY <1>1, <2>1
<1>6. ASSUME NEW k \in 1 .. h, q + k <= MaxDistance
      PROVE  Where(dst - k) \in 1 .. OutEnd /\ m[Where(dst - k)] = user.past[K - k + 1]
  <2>. DEFINE y == Where(dst - k)
  <2>1. (y < dst \/ y >= dst + q + 14) /\ y \in Int
    <3>1. dec.dst \in Int /\ q + k <= MaxDistance
      BY <1>1, <1>6
    <3>. QED  BY <3>1, PastIsElsewhere
  <2>2. y \in 1 .. OutEnd /\ out[y] = user.past[K - k + 1]
    <3>. HIDE DEF dst, h, K
    <3>1. w + k <= MaxDistance
      <4>1. w <= q
        BY DEF Extending
      <4>. QED  BY <1>3, <1>6, <4>1
    <3>. QED  BY <1>5, <3>1
  <2>. HIDE DEF y, dst, F, n, K, at, e, h
  <2>3. y \notin at .. g - 1
    BY <1>1, <1>p, <2>1
  <2>4. m[y] = out[y]
    BY <1>1, <1>4, <2>2, <2>3
  <2>. QED  BY <2>2, <2>4 DEF y
<1>7. ASSUME NEW j \in 1 .. q  PROVE m[dst + j - 1] = user.msg[j]
  <2>. HIDE DEF dst, F, n, K, at, e, h
  <2>. DEFINE a == dst + j - 1
  <2>1. a \in 1 .. OutEnd /\ j \in 1 .. n
    <3>. HIDE DEF a
    <3>1. n = Len(user.msg)
      BY DEF n
    <3>. QED  BY <1>1, <3>1 DEF a
  <2>2. CASE a >= at
    <3>1. a \in at .. e - 1 /\ a < g
      BY <1>1, <1>p, <2>2
    <3>. HIDE DEF a
    <3>2. m[a] = F[a]
      BY <1>1, <1>4, <2>1, <3>1
    <3>. QED  BY <1>2, <2>1, <3>2 DEF a
  <2>3. CASE a < at
    <3>1. j \in 1 .. w /\ a \notin at .. g - 1
      BY <1>1, <1>p, <2>3
    <3>. HIDE DEF a
    <3>2. m[a] = out[a]
      BY <1>1, <1>4, <2>1, <3>1
    <3>. QED  BY <1>5, <3>1, <3>2 DEF a
  <2>. QED  BY <1>1, <1>p, <2>2, <2>3
<1>. QED  BY <1>4, <1>6, <1>7 DEF PastIn, DecodedIn

-----------------------------------------------------------------------------
(***************************************************************************)
(* The steps of the decoder.                                               *)
(***************************************************************************)
DecodingOK ==
    /\ dec.next \in 1 .. Len(block) /\ dec.op = dec.dst + Written(block, dec.next) /\ dec.ip = Sized(block, dec.next)
    /\ PastIn(out, Written(block, dec.next)) /\ DecodedIn(out, Written(block, dec.next))

DecodeDone ==
    /\ DecodedIn(out, DecodedSize) /\ DecodedSize \in Nat
    /\ IF dec.partial THEN DecodedSize >= dec.target \/ DecodedSize = Len(user.msg) ELSE DecodedSize = Len(user.msg)
    /\ DecodedSize <= Len(user.msg)
    /\ ~dec.partial => PastIn(out, Len(user.msg))
    /\ ~dec.safe => dec.result = BlockSize(block)

DecodeRuns ==
    /\ BlockArrives /\ DecodeTyped /\ DecodeCall /\ Roomy /\ user.past \in Seq(Nat) /\ user.msg \in Seq(Nat)
    /\ dec.high <= OEnd

DecodeOK ==
    /\ DecodeRuns
    /\ dec.at = "decode" => DecodingOK
    /\ dec.at = "return" => DecodeDone

\* A block that arrives has sizes.
LEMMA BlockIsFormed ==
  ASSUME BlockArrives
  PROVE  Formed(block)
<1>1. block \in Seq(Sequence) /\ \A i \in 1 .. Len(block) : SequenceArrives(i)
  BY DEF BlockArrives
<1>2. ASSUME NEW i \in 1 .. Len(block)  PROVE block[i].ml = 0 \/ block[i].ml >= MinMatch
  BY <1>1 DEF SequenceArrives
<1>. QED  BY <1>1, <1>2 DEF Formed

\* The fields of the call that its steps leave alone.
SameDecode ==
    /\ dec'.dst = dec.dst /\ dec'.cap = dec.cap /\ dec'.safe = dec.safe /\ dec'.partial = dec.partial
    /\ dec'.target = dec.target /\ dec'.ext = dec.ext /\ dec'.low = dec.low /\ dec'.dictStart = dec.dictStart
    /\ dec'.dictSize = dec.dictSize /\ dec'.then = dec.then
    /\ DOMAIN dec' = DOMAIN dec

StepStays == user' = user /\ prog' = prog /\ block' = block

\* The step to the next sequence.
LEMMA GoIs ==
  ASSUME DecodeTyped, NEW m, NEW ip, NEW op, NEW high, Go(m, ip, op, high)
  PROVE  /\ SameDecode /\ out' = m
         /\ dec'.at = dec.at /\ dec'.ip = ip /\ dec'.op = op /\ dec'.next = dec.next + 1 /\ dec'.high = Max({dec.high, high})
<1>1. DOMAIN dec = {"at", "dst", "cap", "safe", "partial", "target", "ext", "low", "dictStart", "dictSize", "then",
                     "ip", "op", "next", "high", "result"}
  BY DEF DecodeTyped
<1>2. dec' = [dec EXCEPT !.ip = ip, !.op = op, !.next = @ + 1, !.high = Max({@, high})] /\ out' = m
  BY DEF Go
<1>3. DOMAIN dec' = DOMAIN dec
  BY <1>2
<1>4. /\ dec'.dst = dec.dst /\ dec'.cap = dec.cap /\ dec'.safe = dec.safe /\ dec'.partial = dec.partial
      /\ dec'.target = dec.target /\ dec'.ext = dec.ext /\ dec'.low = dec.low /\ dec'.dictStart = dec.dictStart
      /\ dec'.dictSize = dec.dictSize /\ dec'.then = dec.then /\ dec'.at = dec.at
  BY <1>1, <1>2
<1>5. dec'.ip = ip /\ dec'.op = op /\ dec'.next = dec.next + 1 /\ dec'.high = Max({dec.high, high})
  BY <1>1, <1>2
<1>. QED  BY <1>2, <1>3, <1>4, <1>5 DEF SameDecode

\* Which a step of a call keeps.
LEMMA RunsOn ==
  ASSUME DecodeRuns, SameDecode, StepStays, DOMAIN out' = DOMAIN out, dec'.high \in Int, dec'.high <= OEnd,
         dec'.at \in {"decode", "return"}, dec'.ip \in Nat, dec'.op \in Nat, dec'.next \in Nat
  PROVE  DecodeRuns'
<1>1. DecodeTyped'
  <2>1. DecodeTyped
    BY DEF DecodeRuns
  <2>. QED  BY <2>1 DEF DecodeTyped, SameDecode
<1>2. BlockArrives'
  <2>1. BlockArrives
    BY DEF DecodeRuns
  <2>2. \A i : SequenceArrives(i)' <=> SequenceArrives(i)
    BY DEF StepStays, SequenceArrives, Before, Continuing, Written, Lengths
  <2>3. Written(block, Len(block) + 1)' = Written(block, Len(block) + 1)
    BY DEF StepStays, Written, Lengths
  <2>. QED  BY <2>1, <2>2, <2>3 DEF BlockArrives, StepStays
<1>3. DecodeCall'
  <2>1. DecodeCall
    BY DEF DecodeRuns
  <2>2. Held' = Held /\ Destination' = Destination /\ DecDictEnd' = DecDictEnd
    BY DEF SameDecode, StepStays, Held, Continuing, Destination, DecDictEnd
  <2>. QED  BY <2>1, <2>2 DEF DecodeCall, SameDecode, StepStays
<1>4. Roomy'
  <2>1. Roomy
    BY DEF DecodeRuns
  <2>. QED  BY <2>1 DEF Roomy, SameDecode, StepStays, OutEnd
<1>5. (user.past \in Seq(Nat) /\ user.msg \in Seq(Nat))'
  BY DEF DecodeRuns, StepStays
<1>6. (dec.high <= OEnd)'
  BY DEF OEnd, SameDecode
<1>. QED  BY <1>1, <1>2, <1>3, <1>4, <1>5, <1>6 DEF DecodeRuns

\* What a step writes is not below the message.
BelowStays == \A a \in DOMAIN out : a < dec.dst => out'[a] = out[a]

\* A sequence was decoded as it should be.
LEMMA GoKeeps ==
  ASSUME DecodeRuns, DecodingOK, dec.at = "decode", StepStays, block[dec.next].ml # 0,
         NEW m, NEW high \in Int, high <= OEnd, NEW ip, ip = dec.ip + SizeOf(block[dec.next]), NEW e \in Int,
         e = dec.dst + Written(block, dec.next + 1),
         Copied(out, m, Heard(dec.dst), dec.op, e + 14, e), Go(m, ip, e, high)
  PROVE  DecodeOK' /\ SameDecode /\ BelowStays /\ dec'.at = "decode"
<1>. DEFINE i == dec.next
            q == Written(block, i + 1)
            w == Written(block, i)
            n == Len(user.msg)
            dst == dec.dst
<1>1. DecodeTyped /\ DecodeCall /\ Roomy /\ BlockArrives /\ user.past \in Seq(Nat) /\ user.msg \in Seq(Nat)
  BY DEF DecodeRuns
<1>2. i \in 1 .. Len(block) /\ dec.op = dst + w /\ dec.ip = Sized(block, i) /\ PastIn(out, w) /\ DecodedIn(out, w)
  BY DEF DecodingOK
<1>3. dst \in Nat /\ DOMAIN out = 1 .. OutEnd
  BY <1>1 DEF Roomy
<1>4. Says(i, dst)
  <2>1. dst \in Int
    BY <1>3
  <2>. QED  BY <1>1, <1>2, <2>1, SequenceSays
<1>5. w \in Nat /\ q \in Nat /\ w <= q /\ q <= n /\ i # Len(block) /\ n \in Nat
  <2>. DEFINE u == Len(block[i].lit)
              l == block[i].ml
  <2>1. u \in Nat /\ l \in Nat /\ w \in Nat /\ q = w + u + l /\ w + u + l <= n /\ (l = 0 <=> i = Len(block)) /\ l # 0
    <3>1. u \in Nat /\ l \in Nat /\ w \in Nat /\ q = (w + u) + l /\ (w + u) + l <= n /\ (l = 0 <=> i = Len(block)) /\ l # 0
      BY <1>4, Zenon DEF Says
    <3>. HIDE DEF u, l, w, q, n
    <3>. QED  BY <3>1
  <2>2. n \in Nat
    BY <1>1
  <2>. HIDE DEF u, l, w, q, n
  <2>. QED  BY <2>1, <2>2
<1>6. /\ SameDecode /\ out' = m /\ dec'.at = dec.at /\ dec'.ip = ip /\ dec'.op = e /\ dec'.next = i + 1
      /\ dec'.high = Max({dec.high, high})
  BY <1>1, GoIs
<1>7. i + 1 \in 1 .. Len(block) /\ i + 1 \in Nat
  <2>1. Len(block) \in Nat
    BY <1>1 DEF BlockArrives
  <2>. QED  BY <1>2, <1>5, <2>1
<1>8. dec'.ip = Sized(block, i + 1) /\ dec'.ip \in Nat
  <2>1. Formed(block)
    BY <1>1, BlockIsFormed
  <2>2. Sized(block, i + 1) = Sized(block, i) + SizeOf(block[i]) /\ Sized(block, i) \in Nat /\ SizeOf(block[i]) \in Nat
    BY <1>2, <2>1, SizedNext
  <2>3. ip = Sized(block, i) + SizeOf(block[i])
    BY <1>2
  <2>. QED  BY <1>6, <2>2, <2>3
<1>9. PastIn(m, q) /\ DecodedIn(m, q) /\ DOMAIN m = DOMAIN out
  <2>. DEFINE g == e + 14
              at == dst + w
              end == dst + q
  <2>1. g \in Int /\ Copied(out, m, Heard(dst), at, g, end) /\ end <= g /\ g <= dst + q + 14
    <3>1. end = e /\ at = dec.op
      BY <1>2
    <3>2. Copied(out, m, Heard(dst), at, g, end)
      BY <3>1, Zenon
    <3>3. end <= e + 14 /\ e + 14 <= dst + q + 14
      <4>. HIDE DEF end, q, dst
      <4>1. end = dst + q /\ end = e
        BY <3>1 DEF end, dst, q
      <4>. QED  BY <1>3, <1>5, <4>1
    <3>. QED  BY <3>2, <3>3
  <2>2. Extending(m, w, q, g)
    BY <1>2, <1>5, <2>1 DEF Extending
  <2>. HIDE DEF g, q, w
  <2>. QED  BY <1>1, <1>5, <2>1, <2>2, PastStays
<1>10. dec'.high \in Int /\ dec'.high <= OEnd
  <2>. DEFINE h == dec.high
  <2>1. h \in Int /\ h <= OEnd /\ OEnd \in Int
    <3>1. h \in Int /\ dec.cap \in Int
      BY <1>1 DEF DecodeTyped
    <3>2. OEnd \in Int
      BY <1>3, <3>1 DEF OEnd
    <3>. QED  BY <3>1, <3>2 DEF DecodeRuns
  <2>. HIDE DEF h
  <2>2. Max({h, high}) = IF h >= high THEN h ELSE high
    BY <2>1, MaxOfTwo
  <2>3. dec'.high = Max({h, high})
    BY <1>6 DEF h
  <2>. QED  BY <2>1, <2>2, <2>3
<1>11. e \in Nat
  BY <1>3, <1>5
<1>12. DecodeRuns'
  BY <1>6, <1>7, <1>8, <1>9, <1>10, <1>11, RunsOn
<1>13. DecodingOK'
  <2>1. Written(block, dec.next)' = q /\ Sized(block, dec.next)' = Sized(block, i + 1) /\ block' = block
    BY <1>6 DEF Written, Sized, Sizes, Lengths, StepStays
  <2>2. PastIn(out', q) /\ DecodedIn(out', q)
    BY <1>6, <1>9
  <2>. HIDE DEF q
  <2>3. PastIn(out, Written(block, dec.next))' /\ DecodedIn(out, Written(block, dec.next))'
    <3>1. PastIn(out', Written(block, dec.next)') /\ DecodedIn(out', Written(block, dec.next)')
      BY <2>1, <2>2
    <3>2. /\ Held' = Held /\ OutEnd' = OutEnd /\ DecDictEnd' = DecDictEnd /\ dec'.low = dec.low /\ dec'.dst = dec.dst
          /\ user' = user
      BY <1>6 DEF SameDecode, StepStays, Held, Continuing, OutEnd, DecDictEnd
    <3>. QED  BY <3>1, <3>2 DEF PastIn, DecodedIn, Where
  <2>4. dec'.dst = dst
    BY <1>6 DEF SameDecode
  <2>. QED  BY <1>6, <1>7, <1>8, <2>1, <2>3, <2>4 DEF DecodingOK, q
<1>14. BelowStays
  <2>1. \A a \in DOMAIN out : a \notin dec.op .. e + 14 - 1 => m[a] = out[a]
    BY DEF Copied
  <2>2. ASSUME NEW a \in DOMAIN out, a < dst  PROVE m[a] = out[a]
    <3>1. a \notin dec.op .. e + 14 - 1
      <4>. HIDE DEF dst, w
      <4>. QED  BY <1>2, <1>3, <1>5, <2>2
    <3>. QED  BY <2>1, <3>1
  <2>. QED  BY <1>6, <2>2 DEF BelowStays
<1>. QED  BY <1>6, <1>12, <1>13, <1>14 DEF DecodeOK

\* The sequence that comes next, where it begins and where its match does.
Current == block[dec.next]
LitAt == Written(block, dec.next)
MatchAt == LitAt + Len(Current.lit)

CurrentSays ==
    /\ dec.dst \in Nat /\ dec.dst >= 1 /\ Len(user.msg) \in Nat /\ dec.ip \in Nat /\ dec.dst + Len(user.msg) <= OutEnd /\ OutEnd \in Nat
    /\ LitAt \in Nat /\ MatchAt \in Nat /\ Len(Current.lit) \in Nat /\ MatchAt = LitAt + Len(Current.lit)
    /\ Current.ml \in Nat /\ Current.off \in Nat /\ MatchAt + Current.ml <= Len(user.msg)
    /\ dec.op = dec.dst + LitAt /\ dec.op + Len(Current.lit) = dec.dst + MatchAt
    /\ Written(block, dec.next + 1) = MatchAt + Current.ml
    /\ \A j \in 1 .. Len(Current.lit) : Current.lit[j] = Heard(dec.dst)[dec.op + j - 1]
    /\ BlockSize(block) \in Nat /\ LiteralsEnd(Current) \in Nat /\ SizeOf(Current) \in Nat
    /\ LiteralsEnd(Current) = 1 + LengthBytes(Len(Current.lit)) + Len(Current.lit)

CurrentMatches ==
    IF Current.ml = 0 THEN MatchAt = Len(user.msg) /\ BlockSize(block) = dec.ip + LiteralsEnd(Current)
    ELSE /\ Current.ml >= 4 /\ MatchAt + Current.ml + 5 <= Len(user.msg) /\ MatchAt + 12 <= Len(user.msg)
         /\ Current.off >= 1 /\ Current.off <= MaxDistance /\ Current.off <= MatchAt + Before
         /\ \A x \in dec.dst + MatchAt .. dec.dst + MatchAt + Current.ml - 1 :
                Heard(dec.dst)[x] = Heard(dec.dst)[x - Current.off]
         /\ BlockSize(block) >= dec.ip + SizeOf(Current) + 6 /\ SizeOf(Current) >= LiteralsEnd(Current) + 2
         /\ MatchCode(Current) = Current.ml - 4

\* The last sequence after others has five literals and their token.
LEMMA LastIsLong ==
  ASSUME BlockArrives, user.past \in Seq(Nat), user.msg \in Seq(Nat), Len(block) >= 2
  PROVE  SizeOf(block[Len(block)]) >= 6
<1>. DEFINE k == Len(block)
            s == block[k]
            r == block[k - 1]
            n == Len(user.msg)
            w == Written(block, k)
            u == Len(s.lit)
<1>1. k \in Nat /\ k \in 1 .. Len(block) /\ k - 1 \in 1 .. Len(block) /\ k - 1 # k /\ (k - 1) + 1 = k
  BY DEF BlockArrives
<1>2. Says(k, 0) /\ Says(k - 1, 0)
  <2>1. 0 \in Int
    OBVIOUS
  <2>. HIDE DEF k
  <2>. QED  BY <1>1, <2>1, SequenceSays
<1>3. s \in Sequence /\ s.ml = 0 /\ u \in Nat /\ w \in Nat /\ n = w + u
  <2>1. /\ s \in Sequence /\ u \in Nat /\ w \in Nat /\ (s.ml = 0 <=> k = Len(block)) /\ (s.ml = 0 => w + u = n)
    <3>. HIDE DEF k
    <3>. QED  BY <1>2, Zenon DEF Says
  <2>. QED  BY <2>1
<1>4. w + 5 <= n
  <2>. DEFINE a == Written(block, k - 1)
              b == Len(r.lit)
              c == r.ml
  <2>1. /\ a \in Nat /\ b \in Nat /\ c \in Nat /\ Written(block, (k - 1) + 1) = (a + b) + c
        /\ (c = 0 <=> k - 1 = Len(block)) /\ (c # 0 => (a + b) + c + 5 <= n)
    <3>. HIDE DEF k
    <3>. QED  BY <1>2, Zenon DEF Says
  <2>2. n \in Nat
    OBVIOUS
  <2>3. Written(block, (k - 1) + 1) = w
    <3>. HIDE DEF k
    <3>. QED  BY <1>1, Zenon
  <2>4. c # 0
    BY <1>1, <2>1
  <2>. HIDE DEF a, b, c, n, w, k
  <2>. QED  BY <2>1, <2>2, <2>3, <2>4
<1>5. SizeOf(s) = 1 + LengthBytes(u) + u /\ LengthBytes(u) \in Nat
  <2>. HIDE DEF s
  <2>. QED  BY <1>3, SizeIs
<1>6. n \in Nat
  OBVIOUS
<1>. HIDE DEF u, w, n
<1>. QED  BY <1>3, <1>4, <1>5, <1>6

\* The current sequence, as the decoder meets it.
LEMMA CurrentIs ==
  ASSUME DecodeRuns, DecodingOK
  PROVE  CurrentSays /\ CurrentMatches
<1>. DEFINE i == dec.next
            s == Current
            dst == dec.dst
            n == Len(user.msg)
<1>1. DecodeTyped /\ DecodeCall /\ Roomy /\ BlockArrives /\ user.past \in Seq(Nat) /\ user.msg \in Seq(Nat)
  BY DEF DecodeRuns
<1>2. i \in 1 .. Len(block) /\ dec.op = dst + LitAt /\ dec.ip = Sized(block, i)
  BY DEF DecodingOK, LitAt
<1>3. dst \in Nat /\ dst >= 1 /\ dst + n <= OutEnd /\ OutEnd \in Nat /\ n \in Nat
  BY <1>1 DEF Roomy
<1>4. Says(i, dst)
  <2>1. dst \in Int
    BY <1>3
  <2>. QED  BY <1>1, <1>2, <2>1, SequenceSays
<1>5. /\ s \in Sequence /\ Len(s.lit) \in Nat /\ s.ml \in Nat /\ s.off \in Nat /\ LitAt \in Nat
      /\ Written(block, i + 1) = MatchAt + s.ml /\ MatchAt + s.ml <= n
      /\ \A j \in 1 .. Len(s.lit) : s.lit[j] = Heard(dst)[dst + LitAt + j - 1]
      /\ s.ml = 0 <=> i = Len(block)
      /\ s.ml = 0 => MatchAt = n
      /\ s.ml # 0 => /\ s.ml >= MinMatch /\ MatchAt + s.ml + 5 <= n /\ MatchAt + 12 <= n
                     /\ s.off >= 1 /\ s.off <= MaxDistance /\ s.off <= MatchAt + Before
                     /\ \A x \in dst + MatchAt .. dst + MatchAt + s.ml - 1 : Heard(dst)[x] = Heard(dst)[x - s.off]
  BY <1>4, Zenon DEF Says, MatchAt, LitAt, Current
<1>6. MatchAt = LitAt + Len(s.lit) /\ MatchAt \in Nat
  <2>1. MatchAt = LitAt + Len(s.lit)
    BY DEF MatchAt
  <2>. QED  BY <1>5, <2>1
<1>7. Formed(block) /\ Len(block) \in Nat
  BY <1>1, BlockIsFormed DEF BlockArrives
<1>8. /\ Sized(block, i + 1) = dec.ip + SizeOf(s) /\ dec.ip \in Nat /\ SizeOf(s) \in Nat /\ BlockSize(block) \in Nat
  <2>1. s = block[i]
    BY DEF Current
  <2>. HIDE DEF s, i
  <2>2. Sized(block, i + 1) = Sized(block, i) + SizeOf(block[i]) /\ Sized(block, i) \in Nat /\ SizeOf(block[i]) \in Nat
    BY <1>2, <1>7, SizedNext
  <2>3. BlockSize(block) \in Nat
    BY <1>2, <1>7, SizedWithin
  <2>. QED  BY <1>2, <2>1, <2>2, <2>3
<1>9. /\ LiteralsEnd(s) = 1 + LengthBytes(Len(s.lit)) + Len(s.lit) /\ LiteralsEnd(s) \in Nat
      /\ s.ml = 0 => SizeOf(s) = LiteralsEnd(s)
      /\ s.ml >= MinMatch => SizeOf(s) >= LiteralsEnd(s) + 2 /\ MatchCode(s) = s.ml - 4
  <2>1. /\ LengthBytes(Len(s.lit)) \in Nat /\ LiteralsEnd(s) = 1 + LengthBytes(Len(s.lit)) + Len(s.lit)
        /\ s.ml = 0 => SizeOf(s) = LiteralsEnd(s)
        /\ s.ml >= MinMatch => SizeOf(s) >= LiteralsEnd(s) + 2 /\ MatchCode(s) = s.ml - 4
    BY <1>5, SizeIs
  <2>. QED  BY <1>5, <2>1
<1>10. CurrentSays
  <2>1. dec.op + Len(s.lit) = dst + MatchAt
    BY <1>2, <1>3, <1>5, <1>6
  <2>2. \A j \in 1 .. Len(s.lit) : s.lit[j] = Heard(dst)[dec.op + j - 1]
    <3>. SUFFICES ASSUME NEW j \in 1 .. Len(s.lit)  PROVE s.lit[j] = Heard(dst)[dec.op + j - 1]
      OBVIOUS
    <3>1. dst + LitAt + j - 1 = dec.op + j - 1
      BY <1>2, <1>3, <1>5
    <3>2. s.lit[j] = Heard(dst)[dst + LitAt + j - 1]
      BY <1>5
    <3>. QED  BY <3>1, <3>2, Zenon
  <2>. QED  BY <1>2, <1>3, <1>5, <1>6, <1>8, <1>9, <2>1, <2>2, Zenon DEF CurrentSays
<1>11. CASE s.ml = 0
  <2>1. BlockSize(block) = Sized(block, i + 1)
    BY <1>5, <1>7, <1>11, SizedAll
  <2>2. MatchAt = n /\ BlockSize(block) = dec.ip + LiteralsEnd(s)
    BY <1>5, <1>8, <1>9, <1>11, <2>1
  <2>. QED  BY <1>10, <1>11, <2>2 DEF CurrentMatches
<1>12. CASE s.ml # 0
  <2>1. i + 1 \in 1 .. Len(block) /\ Len(block) >= 2
    BY <1>2, <1>5, <1>7, <1>12
  <2>2. SizeOf(block[Len(block)]) >= 6 /\ SizeOf(block[Len(block)]) \in Nat
    <3>1. Len(block) \in 1 .. Len(block)
      BY <1>7, <2>1
    <3>. QED  BY <1>1, <1>7, <2>1, <3>1, LastIsLong, SizesType
  <2>3. Sized(block, i + 1) + SizeOf(block[Len(block)]) <= BlockSize(block)
    BY <1>7, <2>1, SizedWithin
  <2>4. BlockSize(block) >= dec.ip + SizeOf(s) + 6
    BY <1>8, <2>2, <2>3
  <2>5. s.ml >= 4
    BY <1>5, <1>12 DEF MinMatch
  <2>. QED  BY <1>5, <1>9, <1>10, <1>12, <2>4, <2>5 DEF CurrentMatches
<1>. QED  BY <1>11, <1>12

\* Once its literals are written, a match can be copied.
SourceReady(m, F, op, off, e) ==
    /\ \A x \in op .. e - 1 : F[x] = F[x - off] /\ x \in DOMAIN m
    /\ \A x \in op - off .. op - 1 :
         /\ m[Where(x)] = F[x]
         /\ x >= dec.low => x \in DOMAIN m
         /\ x < dec.low => dec.ext
         /\ dec.safe /\ dec.dictSize < Window => x + dec.dictSize >= dec.low

\* After its literals are copied a match has what it repeats.
LEMMA MatchIsReady ==
  ASSUME DecodeRuns, DecodingOK, Current.ml # 0, NEW m, NEW op \in Int, op = dec.dst + MatchAt,
         NEW g \in Int, Copied(out, m, Heard(dec.dst), dec.op, g, op), op <= g,
         g <= op + 14 \/ op - Current.off >= dec.low
  PROVE  /\ SourceReady(m, Heard(dec.dst), op, Current.off, op + Current.ml)
         /\ op - Current.off >= dec.low => MatchReady(m, Heard(dec.dst), op, Current.off, op + Current.ml)
<1>. DEFINE F == Heard(dec.dst)
            off == Current.off
            ml == Current.ml
            dst == dec.dst
            n == Len(user.msg)
            u == Len(Current.lit)
            e == op + ml
<1>1. DecodeTyped /\ DecodeCall /\ Roomy /\ user.past \in Seq(Nat) /\ user.msg \in Seq(Nat) /\ dec.low \in Int
  BY DEF DecodeRuns, DecodeTyped
<1>2. CurrentSays /\ CurrentMatches
  BY CurrentIs
<1>3. /\ dst \in Nat /\ dst >= 1 /\ n \in Nat /\ dst + n <= OutEnd /\ OutEnd \in Nat /\ LitAt \in Nat /\ MatchAt \in Nat
      /\ u \in Nat /\ MatchAt = LitAt + u /\ ml \in Nat /\ off \in Nat /\ MatchAt + ml <= n
      /\ dec.op = dst + LitAt
  BY <1>2 DEF CurrentSays
<1>4. /\ off >= 1 /\ off <= MaxDistance /\ off <= MatchAt + Before
      /\ \A x \in dst + MatchAt .. dst + MatchAt + ml - 1 : F[x] = F[x - off]
  BY <1>2 DEF CurrentMatches
<1>5. PastIn(out, LitAt) /\ DecodedIn(out, LitAt) /\ DOMAIN out = 1 .. OutEnd /\ DOMAIN m = DOMAIN out
  BY <1>1 DEF DecodingOK, LitAt, Roomy, Copied
<1>a. op = dst + MatchAt /\ e = op + ml /\ e \in Int /\ op <= g /\ (g <= op + 14 \/ op - off >= dec.low)
  BY <1>3
<1>b. Copied(out, m, F, dec.op, g, op)
  OBVIOUS
<1>. HIDE DEF F, off, ml, dst, n, u, e
<1>6. ASSUME NEW x \in op - off .. op - 1
      PROVE  /\ m[Where(x)] = F[x]
             /\ x >= dec.low => x \in DOMAIN m
             /\ x < dec.low => dec.ext
             /\ dec.safe /\ dec.dictSize < Window => x + dec.dictSize >= dec.low
  <2>. DEFINE w == LitAt
              p == MatchAt
  <2>1. w \in Nat /\ p \in Nat /\ w <= p /\ p <= Len(user.msg) /\ off \in Nat
    <3>1. p <= n
      BY <1>3
    <3>. QED  BY <1>3, <3>1 DEF n
  <2>2. x \in Int /\ x >= dst + p - off /\ x < dst + p /\ (g <= dst + p + 14 \/ x >= dec.low)
    BY <1>1, <1>3, <1>a
  <2>3. Reading(m, w, p, g, off)
    BY <1>1, <1>3, <1>4, <1>5, <1>a, <1>b, <2>1 DEF F, dst, Reading
  <2>4. x >= dec.dst + p - off /\ x < dec.dst + p /\ (g <= dec.dst + p + 14 \/ x >= dec.low)
    BY <2>2 DEF dst
  <2>. HIDE DEF w, p
  <2>5. m[Where(x)] = Heard(dec.dst)[x] /\ (x >= dec.low => x \in DOMAIN m) /\ (x < dec.low => dec.ext)
        /\ (dec.safe /\ dec.dictSize < Window => x + dec.dictSize >= dec.low)
    BY <1>1, <2>1, <2>2, <2>3, <2>4, SourceIsThere
  <2>. QED  BY <2>5 DEF F
<1>7. ASSUME NEW x \in op .. e - 1  PROVE F[x] = F[x - off] /\ x \in DOMAIN m
  <2>1. x \in dst + MatchAt .. dst + MatchAt + ml - 1
    BY <1>3, <1>a
  <2>2. x \in 1 .. OutEnd
    BY <1>3, <2>1
  <2>. QED  BY <1>4, <1>5, <2>1, <2>2
<1>8. SourceReady(m, F, op, off, e)
  BY <1>6, <1>7 DEF SourceReady
<1>9. ASSUME op - off >= dec.low  PROVE MatchReady(m, F, op, off, e)
  <2>1. ASSUME NEW x \in op - off .. op - 1  PROVE m[x] = F[x] /\ x \in DOMAIN m
    <3>1. x >= dec.low /\ ~(x < dec.low)
      BY <1>1, <1>3, <1>9
    <3>2. Where(x) = x
      BY <3>1 DEF Where
    <3>. QED  BY <1>6, <3>1, <3>2
  <2>. QED  BY <1>7, <2>1 DEF MatchReady
<1>. QED  BY <1>8, <1>9 DEF F, off, ml, e

\* The shortcut for short literals and matches.
LEMMA ShortcutKeeps ==
  ASSUME DecodeRuns, DecodingOK, StepStays, DecodeShortcut(block)
  PROVE  DecodeOK' /\ SameDecode /\ BelowStays /\ dec'.at = "decode"
<1>. DEFINE s == Current
            u == Len(s.lit)
            op == dec.op + u
            F == Heard(dec.dst)
            lits == Store(Junked(out, dec.op, 16), dec.op, s.lit)
            new == Upwards(lits, op, op - s.off, 18)
            e == op + s.ml
            o == OEnd
            high == Max({dec.op + 16, op + 18})
<1>1. dec.at = "decode" /\ Common(block, s) /\ Go(new, dec.ip + SizeOf(s), e, high)
  BY DEF DecodeShortcut, Decoding, Current
<1>2. CurrentSays /\ CurrentMatches
  BY CurrentIs
<1>3. /\ dec.ip + 1 + 14 + 2 <= IEndOf(block) /\ dec.op + 14 + 18 <= OEnd /\ u < RunMask /\ MatchCode(s) < MlMask
      /\ s.off >= 8 /\ dec.op + u - s.off >= dec.low
  BY <1>1 DEF Common
<1>4. /\ dec.dst \in Nat /\ dec.ip \in Nat /\ LitAt \in Nat /\ MatchAt \in Nat /\ u \in Nat /\ MatchAt = LitAt + u
      /\ s.ml \in Nat /\ s.off \in Nat /\ dec.op = dec.dst + LitAt /\ op = dec.dst + MatchAt
      /\ Written(block, dec.next + 1) = MatchAt + s.ml /\ BlockSize(block) \in Nat
      /\ LiteralsEnd(s) = 1 + LengthBytes(u) + u
  BY <1>2 DEF CurrentSays
<1>l. op - s.off >= dec.low /\ op = dec.op + u /\ u < 15
  <2>1. dec.low \in Int
    BY DEF DecodeRuns, DecodeTyped
  <2>. HIDE DEF u
  <2>. QED  BY <1>3, <1>4, <2>1 DEF RunMask
<1>. HIDE DEF u
<1>5. s.ml # 0
  <2>. SUFFICES ASSUME s.ml = 0  PROVE FALSE
    OBVIOUS
  <2>1. BlockSize(block) = dec.ip + LiteralsEnd(s)
    BY <1>2 DEF CurrentMatches
  <2>2. LengthBytes(u) = 0 /\ u < 15
    BY <1>4, <1>l DEF LengthBytes
  <2>3. IEndOf(block) = BlockSize(block) \/ IEndOf(block) = 0
    BY DEF IEndOf
  <2>. HIDE DEF s, op
  <2>. QED  BY <1>3, <1>4, <2>1, <2>2, <2>3
<1>6. s.ml >= 4 /\ s.ml <= 18 /\ s.off >= 1
  <2>1. s.ml >= 4 /\ MatchCode(s) = s.ml - 4
    BY <1>2, <1>5 DEF CurrentMatches
  <2>2. MatchCode(s) < 15
    BY <1>3 DEF MlMask
  <2>. HIDE DEF s
  <2>. QED  BY <1>3, <1>4, <2>1, <2>2
<1>7. dec.op \in Int /\ op \in Int /\ e \in Int /\ op <= dec.op + 16 /\ dec.op <= op /\ dec.op + 16 <= e + 14
  <2>. HIDE DEF s
  <2>. QED  BY <1>4, <1>6, <1>l
<1>8. Copied(out, lits, F, dec.op, dec.op + 16, op)
  <2>. DEFINE at == dec.op
              lit == s.lit
              g == dec.op + 16
              k == 16
  <2>1. at \in Int /\ u \in Nat /\ g \in Int /\ k \in Int /\ g >= at + k /\ g >= at + u
    BY <1>4, <1>7, <1>l
  <2>3. Len(lit) = u
    BY DEF u
  <2>2. \A j \in 1 .. Len(lit) : lit[j] = F[at + j - 1]
    BY <1>2 DEF CurrentSays
  <2>. HIDE DEF at, lit, g, k, F
  <2>4. Copied(out, Store(Junked(out, at, k), at, lit), F, at, g, at + Len(lit))
    BY <2>1, <2>2, <2>3, LiteralsCopied
  <2>. QED  BY <2>4 DEF at, lit, g, k, u
<1>9. MatchReady(lits, F, op, s.off, e)
  <2>. DEFINE g == dec.op + 16
  <2>1. g \in Int /\ op = dec.dst + MatchAt /\ op <= g /\ op - Current.off >= dec.low /\ op \in Int
    BY <1>3, <1>4, <1>7, <1>l
  <2>2. Copied(out, lits, Heard(dec.dst), dec.op, g, op) /\ Current.ml # 0
    BY <1>5, <1>8
  <2>. HIDE DEF g, op, lits
  <2>3. MatchReady(lits, Heard(dec.dst), op, Current.off, op + Current.ml)
    BY <2>1, <2>2, MatchIsReady
  <2>. QED  BY <2>3
<1>10. Copied(lits, new, F, op, e + 14, e)
  <2>. DEFINE ml == s.ml
              off == s.off
              b == op
  <2>1. b \in Int /\ off \in Nat /\ off >= 1 /\ ml \in Nat /\ ml >= MinMatch /\ ml <= 18
    BY <1>4, <1>6, <1>7 DEF MinMatch
  <2>2. MatchReady(lits, F, b, off, b + ml)
    BY <1>9
  <2>. HIDE DEF ml, off, b, lits, F
  <2>3. Copied(lits, Upwards(lits, b, b - off, 18), F, b, b + ml + 14, b + ml)
    BY <2>1, <2>2, ShortcutCopied
  <2>4. b + ml + 14 = e + 14
    BY <2>1 DEF b, ml
  <2>5. Copied(lits, Upwards(lits, b, b - off, 18), F, b, e + 14, b + ml)
    BY <2>3, <2>4, Zenon
  <2>. QED  BY <2>5 DEF b, ml, off
<1>11. Copied(out, new, F, dec.op, e + 14, e)
  <2>. DEFINE n == dec.op + 16
              k == e + 14
              d == dec.op
  <2>1. d \in Int /\ op \in Int /\ e \in Int /\ n \in Int /\ k \in Int /\ d <= op /\ op <= n /\ n <= k /\ e <= k
    BY <1>7
  <2>2. Copied(out, lits, F, d, n, op) /\ Copied(lits, new, F, op, k, e)
    BY <1>8, <1>10
  <2>. HIDE DEF n, k, d, op, e, F, lits, new
  <2>3. Copied(out, new, F, d, k, e)
    BY <2>1, <2>2, CopiedTwice
  <2>. QED  BY <2>3 DEF d, k
<1>12. high \in Int /\ high <= o
  <2>. DEFINE a == dec.op + 16
              b == op + 18
  <2>2. a \in Int /\ b \in Int /\ a <= dec.op + 14 + 18 /\ b <= dec.op + 14 + 18
    BY <1>4, <1>7, <1>l
  <2>3. o \in Int
    <3>1. dec.cap \in Int
      BY DEF DecodeRuns, DecodeTyped
    <3>. QED  BY <1>4, <3>1 DEF OEnd
  <2>4. dec.op + 14 + 18 <= o
    BY <1>3
  <2>. HIDE DEF a, b, o
  <2>5. Max({a, b}) = IF a >= b THEN a ELSE b
    BY <2>2, MaxOfTwo
  <2>6. high = Max({a, b})
    BY DEF a, b
  <2>. HIDE DEF high
  <2>. QED  BY <1>7, <2>2, <2>3, <2>4, <2>5, <2>6
<1>13. e = dec.dst + Written(block, dec.next + 1)
  <2>. HIDE DEF op, s
  <2>. QED  BY <1>4
<1>. DEFINE ip == dec.ip + SizeOf(s)
<1>14. block[dec.next].ml # 0 /\ ip = dec.ip + SizeOf(block[dec.next])
  BY <1>5 DEF Current
<1>15. Go(new, ip, e, high)
  BY <1>1
<1>. HIDE DEF ip, e, high, new, F
<1>16. Copied(out, new, Heard(dec.dst), dec.op, e + 14, e)
  BY <1>11 DEF F
<1>. QED  BY <1>1, <1>7, <1>12, <1>13, <1>14, <1>15, <1>16, GoKeeps

\* The call as far as the steps of the decoder look at it.
LEMMA CallIs ==
  ASSUME DecodeRuns
  PROVE  /\ OEnd = dec.dst + dec.cap /\ OEnd \in Int /\ dec.cap \in Nat /\ dec.high \in Int /\ dec.high <= OEnd
         /\ dec.dst \in Nat /\ Len(user.msg) \in Nat
         /\ dec.cap >= Len(user.msg)
         /\ ~dec.safe => dec.cap = Len(user.msg) /\ ~dec.partial
         /\ dec.partial => dec.cap = Len(user.msg) /\ dec.target \in Nat /\ dec.target > 0
         /\ dec.partial \in BOOLEAN /\ dec.safe \in BOOLEAN /\ dec.low \in Int /\ dec.target \in Nat
         /\ dec.dictSize \in Nat /\ dec.ext \in BOOLEAN /\ DecDictEnd \in Int /\ dec.low <= dec.dst /\ dec.ip \in Nat
<1>1. DecodeTyped /\ DecodeCall /\ Roomy /\ dec.high <= OEnd /\ user.msg \in Seq(Nat)
  BY DEF DecodeRuns
<1>2. /\ dec.cap \in Nat /\ dec.safe \in BOOLEAN /\ dec.target \in Nat /\ dec.partial = (dec.target > 0) /\ dec.low \in Int
      /\ dec.dictSize \in Nat /\ dec.dictStart \in Nat /\ dec.ext \in BOOLEAN /\ dec.high \in Int /\ dec.ip \in Nat
  BY <1>1 DEF DecodeTyped
<1>3. /\ dec.low <= dec.dst /\ dec.cap >= Len(user.msg)
      /\ ~dec.safe => dec.cap = Len(user.msg) /\ ~dec.partial
      /\ dec.partial => dec.cap = Len(user.msg)
  BY <1>1 DEF DecodeCall
<1>4. dec.dst \in Nat
  BY <1>1 DEF Roomy
<1>5. OEnd = dec.dst + dec.cap /\ OEnd \in Int /\ DecDictEnd \in Int
  BY <1>2, <1>4 DEF OEnd, DecDictEnd
<1>6. Len(user.msg) \in Nat
  BY <1>1
<1>7. dec.partial \in BOOLEAN /\ (dec.partial => dec.target > 0)
  <2>. DEFINE t == dec.target
  <2>1. (t > 0) \in BOOLEAN
    BY <1>2
  <2>2. dec.partial = (t > 0)
    BY <1>2
  <2>. HIDE DEF t
  <2>. QED  BY <2>1, <2>2, Zenon DEF t
<1>. QED  BY <1>1, <1>2, <1>3, <1>4, <1>5, <1>6, <1>7

\* Literals that are too near to the end are the last ones, or all that was asked for.
LEMMA EndIsRight ==
  ASSUME DecodeRuns, DecodingOK, AtTheEnd(block, Current), NEW cpy, cpy = dec.op + Len(Current.lit),
         NEW ip, ip = dec.ip + LiteralsEnd(Current)
  PROVE  /\ cpy = dec.dst + MatchAt /\ cpy \in Nat /\ ip \in Nat /\ cpy <= OEnd
         /\ Current.ml = 0 => ip = BlockSize(block) /\ MatchAt = Len(user.msg)
         /\ Current.ml # 0 => dec.partial /\ dec.safe /\ MatchAt >= dec.target /\ ip <= BlockSize(block)
<1>. DEFINE o == OEnd
            b == BlockSize(block)
            n == Len(user.msg)
            l == LiteralsEnd(Current)
            z == SizeOf(Current)
            ml == Current.ml
            p == MatchAt
            dst == dec.dst
            cap == dec.cap
            target == dec.target
            i == dec.ip
<1>1. /\ o = dst + cap /\ o \in Int /\ cap \in Nat /\ dst \in Nat /\ n \in Nat /\ cap >= n
      /\ ~dec.safe => cap = n /\ ~dec.partial
      /\ dec.partial => cap = n
      /\ target \in Nat /\ i \in Nat
  BY CallIs
<1>2. p \in Nat /\ ml \in Nat /\ b \in Nat /\ l \in Nat /\ z \in Nat /\ dec.op + Len(Current.lit) = dst + p /\ p + ml <= n
  <2>1. CurrentSays
    BY CurrentIs
  <2>. QED  BY <2>1 DEF CurrentSays
<1>3. IF ml = 0 THEN p = n /\ b = i + l ELSE p + 12 <= n /\ b >= i + z + 6 /\ z >= l + 2
  <2>1. CurrentMatches
    BY CurrentIs
  <2>. QED  BY <2>1, Zenon DEF CurrentMatches
<1>4. IF dec.safe THEN \/ dec.op + Len(Current.lit) > IF dec.partial THEN ExitAt ELSE o - MFLimit
                       \/ i + l > IEndOf(block) - (2 + 1 + LastLiterals)
      ELSE dec.op + Len(Current.lit) > o - WildCopyLength
  BY Zenon DEF AtTheEnd
<1>5. ExitAt = (IF target > cap - MFLimit THEN o - MFLimit ELSE dst + target) /\ IEndOf(block) = IF dec.safe THEN b ELSE 0
  BY Zenon DEF ExitAt, IEndOf
<1>6. MFLimit = 12 /\ LastLiterals = 5 /\ WildCopyLength = 8
  BY DEF MFLimit, LastLiterals, WildCopyLength, MinMatch
<1>7. cpy = dst + p /\ ip = i + l
  BY <1>2
<1>. HIDE DEF o, b, n, l, z, ml, p, dst, cap, target, i
<1>8. cpy \in Nat /\ ip \in Nat /\ cpy <= o
  BY <1>1, <1>2, <1>7
<1>9. ml = 0 => ip = b /\ p = n
  BY <1>3, <1>7
<1>10. ASSUME ml # 0  PROVE dec.partial /\ dec.safe /\ p >= target /\ ip <= b
  <2>1. p + 12 <= n /\ b >= i + z + 6 /\ z >= l + 2
    BY <1>3, <1>10
  <2>2. dec.safe
    <3>. SUFFICES ASSUME ~dec.safe  PROVE FALSE
      OBVIOUS
    <3>1. dst + p > o - 8
      BY <1>2, <1>4, <1>6
    <3>. QED  BY <1>1, <1>2, <2>1, <3>1
  <2>3. ip <= b /\ ~(i + l > b - 8)
    BY <1>1, <1>2, <1>7, <2>1
  <2>4. dst + p > IF dec.partial THEN ExitAt ELSE o - 12
    <3>1. 2 + 1 + LastLiterals = 8 /\ IEndOf(block) = b
      BY <1>5, <1>6, <2>2
    <3>. QED  BY <1>2, <1>4, <1>6, <2>2, <2>3, <3>1
  <2>5. dec.partial
    <3>. SUFFICES ASSUME ~dec.partial  PROVE FALSE
      OBVIOUS
    <3>1. dst + p > o - 12
      BY <2>4
    <3>. QED  BY <1>1, <1>2, <2>1, <3>1
  <2>6. cap = n
    BY <1>1, <2>5
  <2>7. p >= target
    <3>1. ExitAt = dst + target
      <4>. SUFFICES ASSUME target > cap - 12  PROVE FALSE
        BY <1>5, <1>6
      <4>1. dst + p > o - 12
        BY <1>5, <1>6, <2>4, <2>5
      <4>. QED  BY <1>1, <1>2, <2>1, <4>1
    <3>. QED  BY <1>1, <1>2, <2>4, <2>5, <3>1
  <2>. QED  BY <2>2, <2>3, <2>5, <2>7
<1>. QED  BY <1>7, <1>8, <1>9, <1>10 DEF o, b, n, ml, p, dst, target

\* The last literals, or those after which a partial decoder stops.
LEMMA DecodeLastKeeps ==
  ASSUME DecodeRuns, DecodingOK, StepStays, DecodeLast(block)
  PROVE  DecodeOK' /\ SameDecode /\ BelowStays /\ dec'.at = "return"
<1>. DEFINE s == Current
            cpy == dec.op + Len(s.lit)
            ip == dec.ip + LiteralsEnd(s)
            F == Heard(dec.dst)
            n == Len(user.msg)
            new == Store(out, dec.op, s.lit)
            wrong == IF dec.partial THEN cpy > OEnd \/ ip > IEndOf(block)
                     ELSE IF dec.safe THEN ip # IEndOf(block) \/ cpy > OEnd ELSE cpy # OEnd
            result == IF dec.safe THEN cpy - dec.dst ELSE ip
<1>1. /\ AtTheEnd(block, s)
      /\ IF wrong THEN Stop(-1) /\ UNCHANGED out
         ELSE /\ out' = new
              /\ dec' = [dec EXCEPT !.at = "return", !.ip = ip, !.op = cpy, !.high = Max({@, cpy}), !.result = result]
  BY Zenon DEF DecodeLast, Current
<1>2. /\ cpy = dec.dst + MatchAt /\ cpy \in Nat /\ ip \in Nat /\ cpy <= OEnd
      /\ s.ml = 0 => ip = BlockSize(block) /\ MatchAt = n
      /\ s.ml # 0 => dec.partial /\ dec.safe /\ MatchAt >= dec.target /\ ip <= BlockSize(block)
  <2>. HIDE DEF cpy, ip
  <2>1. cpy = dec.op + Len(Current.lit) /\ ip = dec.ip + LiteralsEnd(Current)
    BY DEF cpy, ip
  <2>. QED  BY <1>1, <2>1, EndIsRight
<1>3. /\ OEnd = dec.dst + dec.cap /\ OEnd \in Int /\ dec.cap \in Nat /\ dec.high \in Int /\ dec.high <= OEnd
      /\ dec.dst \in Nat /\ n \in Nat
      /\ ~dec.safe => dec.cap = n /\ ~dec.partial
  BY CallIs
<1>4. CurrentSays
  BY CurrentIs
<1>5. MatchAt \in Nat /\ MatchAt <= n /\ LitAt \in Nat /\ LitAt <= MatchAt /\ BlockSize(block) \in Nat
      /\ dec.op = dec.dst + LitAt /\ Len(s.lit) \in Nat
  <2>. DEFINE u == Len(s.lit)
              ml == s.ml
  <2>1. MatchAt \in Nat /\ LitAt \in Nat /\ u \in Nat /\ ml \in Nat /\ MatchAt = LitAt + u /\ MatchAt + ml <= n
        /\ BlockSize(block) \in Nat /\ dec.op = dec.dst + LitAt
    BY <1>4 DEF CurrentSays
  <2>. HIDE DEF ml, u, n
  <2>2. MatchAt <= n /\ LitAt <= MatchAt
    BY <1>3, <2>1
  <2>. QED  BY <2>1, <2>2 DEF u
<1>. HIDE DEF cpy, ip, n
<1>6. ~wrong
  <2>1. IEndOf(block) = IF dec.safe THEN BlockSize(block) ELSE 0
    BY DEF IEndOf
  <2>2. CASE s.ml = 0
    <3>1. ip = BlockSize(block) /\ MatchAt = n
      BY <1>2, <2>2
    <3>2. ~dec.safe => cpy = OEnd
      BY <1>2, <1>3, <3>1
    <3>3. dec.partial => dec.safe
      BY <1>3
    <3>. QED  BY <1>2, <1>3, <1>5, <2>1, <3>1, <3>2, <3>3
  <2>3. CASE s.ml # 0
    <3>1. dec.partial /\ dec.safe /\ ip <= BlockSize(block)
      BY <1>2, <2>3
    <3>. QED  BY <1>2, <1>3, <1>5, <2>1, <3>1
  <2>. QED  BY <2>2, <2>3
<1>7. out' = new /\ dec' = [dec EXCEPT !.at = "return", !.ip = ip, !.op = cpy, !.high = Max({@, cpy}), !.result = result]
  <2>. HIDE DEF wrong, new, result
  <2>. QED  BY <1>1, <1>6
<1>. HIDE DEF wrong, result
<1>8. DecodeTyped /\ Roomy /\ user.past \in Seq(Nat) /\ user.msg \in Seq(Nat) /\ DecodeCall
  BY DEF DecodeRuns
<1>9. /\ SameDecode /\ dec'.at = "return" /\ dec'.ip = ip /\ dec'.op = cpy /\ dec'.next = dec.next
      /\ dec'.high = Max({dec.high, cpy}) /\ dec'.result = result
  <2>. HIDE DEF new
  <2>1. DOMAIN dec = {"at", "dst", "cap", "safe", "partial", "target", "ext", "low", "dictStart", "dictSize", "then",
                      "ip", "op", "next", "high", "result"}
    BY <1>8 DEF DecodeTyped
  <2>2. DOMAIN dec' = DOMAIN dec
    BY <1>7
  <2>3. /\ dec'.dst = dec.dst /\ dec'.cap = dec.cap /\ dec'.safe = dec.safe /\ dec'.partial = dec.partial
        /\ dec'.target = dec.target /\ dec'.ext = dec.ext /\ dec'.low = dec.low /\ dec'.dictStart = dec.dictStart
        /\ dec'.dictSize = dec.dictSize /\ dec'.then = dec.then /\ dec'.next = dec.next
    BY <1>7, <2>1
  <2>4. /\ dec'.at = "return" /\ dec'.ip = ip /\ dec'.op = cpy /\ dec'.high = Max({dec.high, cpy}) /\ dec'.result = result
    BY <1>7, <2>1
  <2>. QED  BY <2>2, <2>3, <2>4 DEF SameDecode
<1>10. Copied(out, new, F, dec.op, cpy, cpy)
  <2>. DEFINE at == dec.op
              lit == s.lit
  <2>1. at \in Int /\ Len(lit) \in Nat
    BY <1>3, <1>5
  <2>2. \A j \in 1 .. Len(lit) : lit[j] = F[at + j - 1]
    BY <1>4 DEF CurrentSays
  <2>. HIDE DEF at, lit, F, new
  <2>3. Copied(out, Store(out, at, lit), F, at, at + Len(lit), at + Len(lit))
    BY <2>1, <2>2, StoreCopied
  <2>4. new = Store(out, at, lit) /\ cpy = at + Len(lit)
    BY DEF new, at, lit, cpy
  <2>. QED  BY <2>3, <2>4, Zenon DEF at
<1>11. PastIn(new, MatchAt) /\ DecodedIn(new, MatchAt) /\ DOMAIN new = DOMAIN out
  <2>. DEFINE w == LitAt
              q == MatchAt
              dst == dec.dst
  <2>1. w \in Nat /\ q \in Nat /\ w <= q /\ q <= Len(user.msg) /\ cpy \in Int
    BY <1>2, <1>5 DEF n
  <2>2. PastIn(out, w) /\ DecodedIn(out, w)
    BY DEF DecodingOK, LitAt
  <2>3. dst + q <= cpy /\ cpy <= dst + q + 14 /\ cpy = dst + q /\ dec.op = dst + w
    BY <1>2, <1>3, <1>5
  <2>4. Copied(out, new, Heard(dst), dst + w, cpy, dst + q)
    BY <1>10, <2>3, Zenon
  <2>. HIDE DEF new
  <2>5. Extending(new, w, q, cpy)
    BY <2>1, <2>2, <2>3, <2>4 DEF Extending
  <2>. HIDE DEF w, q
  <2>6. PastIn(new, q) /\ DecodedIn(new, q) /\ DOMAIN new = DOMAIN out
    BY <1>8, <2>1, <2>5, PastStays
  <2>. QED  BY <2>6 DEF q
<1>12. dec'.high \in Int /\ dec'.high <= OEnd
  <2>. DEFINE h == dec.high
  <2>1. h \in Int /\ h <= OEnd /\ OEnd \in Int /\ cpy \in Int /\ cpy <= OEnd
    BY <1>2, <1>3
  <2>. HIDE DEF h
  <2>2. Max({h, cpy}) = IF h >= cpy THEN h ELSE cpy
    BY <2>1, MaxOfTwo
  <2>3. dec'.high = Max({h, cpy})
    BY <1>9 DEF h
  <2>. QED  BY <2>1, <2>2, <2>3
<1>13. DecodeRuns'
  <2>1. dec.next \in Nat
    BY <1>8 DEF DecodeTyped
  <2>. QED  BY <1>2, <1>7, <1>9, <1>11, <1>12, <2>1, RunsOn
<1>14. DecodeDone'
  <2>1. DecodedSize' = MatchAt
    <3>1. CASE dec.safe
      <4>1. result = cpy - dec.dst
        BY <3>1 DEF result
      <4>2. DecodedSize' = result
        BY <1>9, <3>1 DEF DecodedSize, SameDecode
      <4>. QED  BY <1>2, <1>3, <1>5, <4>1, <4>2
    <3>2. CASE ~dec.safe
      <4>1. s.ml = 0
        BY <1>2, <3>2
      <4>2. DecodedSize' = dec.cap
        BY <1>9, <3>2 DEF DecodedSize, SameDecode
      <4>. QED  BY <1>2, <1>3, <3>2, <4>1, <4>2
    <3>. QED  BY <3>1, <3>2
  <2>2. ~dec.partial => MatchAt = n
    BY <1>2
  <2>3. dec.partial => MatchAt >= dec.target \/ MatchAt = n
    BY <1>2
  <2>4. ~dec.safe => result = BlockSize(block)
    BY <1>2 DEF result
  <2>5. /\ Held' = Held /\ OutEnd' = OutEnd /\ DecDictEnd' = DecDictEnd /\ dec'.low = dec.low /\ dec'.dst = dec.dst
        /\ user' = user /\ dec'.partial = dec.partial /\ dec'.target = dec.target /\ dec'.safe = dec.safe
        /\ BlockSize(block)' = BlockSize(block)
    BY <1>9 DEF SameDecode, StepStays, Held, Continuing, OutEnd, DecDictEnd, BlockSize
  <2>. DEFINE size == MatchAt
  <2>6. PastIn(out', size) /\ DecodedIn(out', size)
    BY <1>7, <1>11
  <2>. HIDE DEF size
  <2>7. DecodedIn(out, DecodedSize)'
    <3>1. DecodedIn(out', DecodedSize')
      BY <2>1, <2>6 DEF size
    <3>. QED  BY <2>5, <3>1 DEF DecodedIn
  <2>8. ~dec.partial => PastIn(out, Len(user.msg))'
    <3>1. ~dec.partial => PastIn(out', Len(user.msg))
      BY <2>2, <2>6 DEF size, n
    <3>. QED  BY <2>5, <3>1 DEF PastIn, Where
  <2>9. DecodedSize' \in Nat /\ DecodedSize' <= Len(user.msg)
    BY <1>5, <2>1 DEF n
  <2>10. IF dec.partial THEN DecodedSize' >= dec.target \/ DecodedSize' = Len(user.msg) ELSE DecodedSize' = Len(user.msg)
    BY <2>1, <2>2, <2>3 DEF n
  <2>. QED  BY <1>9, <2>4, <2>5, <2>7, <2>8, <2>9, <2>10 DEF DecodeDone
<1>15. BelowStays
  <2>1. \A a \in DOMAIN out : a \notin dec.op .. cpy - 1 => new[a] = out[a]
    BY <1>10 DEF Copied
  <2>2. ASSUME NEW a \in DOMAIN out, a < dec.dst  PROVE new[a] = out[a]
    <3>1. a \notin dec.op .. cpy - 1
      BY <1>3, <1>5, <2>2
    <3>. QED  BY <2>1, <3>1
  <2>. QED  BY <1>7, <2>2 DEF BelowStays
<1>. QED  BY <1>9, <1>13, <1>14, <1>15 DEF DecodeOK

\* No copy of a match goes past the end of the destination.
LEMMA HighOfFits ==
  ASSUME OEnd \in Int, NEW op \in Nat, NEW ml \in Nat, ml >= 4, op + ml + 5 <= OEnd, op + 12 <= OEnd
  PROVE  HighOf(op, ml) \in Int /\ HighOf(op, ml) <= OEnd
<1>. DEFINE o == OEnd
            limit == o - (WildCopyLength - 1)
            a == op + 8
            b == op + ml
            x == limit - op - 8
            c == IF a < limit THEN a + WildBytes(x) ELSE 0
            y == ml - 16
<1>1. o \in Int /\ op + ml + 5 <= o /\ op + 12 <= o /\ limit = o - 7
  BY DEF WildCopyLength
<1>2. HighOf(op, ml) = IF b > o - 12 THEN Max({a, b, c}) ELSE IF ml > 16 THEN op + 16 + WildBytes(y) ELSE op + 16
  BY DEF HighOf
<1>3. a \in Int /\ b \in Int /\ a <= o /\ b <= o
  BY <1>1
<1>4. CASE b > o - 12
  <2>1. c \in Int /\ (c <= o \/ c = 0)
    <3>1. CASE a < limit
      <4>1. x \in Nat /\ x # 0 /\ a + x = limit
        <5>. HIDE DEF limit
        <5>. QED  BY <1>1, <1>3, <3>1
      <4>. HIDE DEF x
      <4>2. WildBytes(x) \in Nat /\ WildBytes(x) <= x + 7
        BY <4>1, WildBytesIs
      <4>3. c = a + WildBytes(x)
        BY <3>1
      <4>. HIDE DEF limit, a, c
      <4>. QED  BY <1>1, <1>3, <4>1, <4>2, <4>3
    <3>2. CASE ~(a < limit)
      BY <3>2
    <3>. QED  BY <3>1, <3>2
  <2>2. Max({a, b, c}) \in {a, b, c}
    <3>. HIDE DEF a, b, c
    <3>. QED  BY <1>3, <2>1, MaxOfThree
  <2>3. HighOf(op, ml) = Max({a, b, c})
    BY <1>2, <1>4
  <2>4. o >= 0
    BY <1>1
  <2>. HIDE DEF a, b, c, o
  <2>5. Max({a, b, c}) \in Int /\ Max({a, b, c}) <= o
    BY <1>1, <1>3, <2>1, <2>2, <2>4
  <2>. QED  BY <2>3, <2>5 DEF o
<1>5. CASE ~(b > o - 12)
  <2>1. CASE ml > 16
    <3>1. y \in Nat /\ y # 0 /\ y + 16 = ml
      BY <2>1
    <3>. HIDE DEF y
    <3>2. WildBytes(y) \in Nat /\ WildBytes(y) <= y + 7
      BY <3>1, WildBytesIs
    <3>3. HighOf(op, ml) = op + 16 + WildBytes(y)
      BY <1>2, <1>5, <2>1
    <3>. HIDE DEF o
    <3>4. op + 16 + WildBytes(y) \in Int /\ op + 16 + WildBytes(y) <= o
      BY <1>1, <1>5, <3>1, <3>2
    <3>. QED  BY <3>3, <3>4 DEF o
  <2>2. CASE ~(ml > 16)
    <3>1. HighOf(op, ml) = op + 16
      BY <1>2, <1>5, <2>2
    <3>2. op + 16 <= o
      BY <1>1, <1>5
    <3>. QED  BY <3>1, <3>2
  <2>. QED  BY <2>1, <2>2
<1>. QED  BY <1>4, <1>5

\* Literals that are not near to the end are followed by a match that fits.
LEMMA MatchIsRight ==
  ASSUME DecodeRuns, DecodingOK, ~AtTheEnd(block, Current), NEW op, op = dec.op + Len(Current.lit),
         NEW ip, ip = dec.ip + SizeOf(Current)
  PROVE  /\ Current.ml # 0 /\ op = dec.dst + MatchAt /\ op \in Nat
         /\ op + Current.ml + 5 <= OEnd /\ op + 12 <= OEnd
         /\ ~(dec.safe /\ ip > IEndOf(block) - LastLiterals)
<1>. DEFINE o == OEnd
            b == BlockSize(block)
            n == Len(user.msg)
            l == LiteralsEnd(Current)
            z == SizeOf(Current)
            ml == Current.ml
            p == MatchAt
            dst == dec.dst
            cap == dec.cap
            i == dec.ip
            lit == dec.op + Len(Current.lit)
<1>1. /\ o = dst + cap /\ o \in Int /\ cap \in Nat /\ dst \in Nat /\ n \in Nat /\ cap >= n
      /\ ~dec.safe => cap = n
      /\ i \in Nat
  BY CallIs
<1>2. p \in Nat /\ ml \in Nat /\ b \in Nat /\ l \in Nat /\ z \in Nat /\ lit = dst + p /\ p + ml <= n
  <2>1. CurrentSays
    BY CurrentIs
  <2>. QED  BY <2>1 DEF CurrentSays
<1>3. IF ml = 0 THEN p = n /\ b = i + l ELSE ml >= 4 /\ p + ml + 5 <= n /\ p + 12 <= n /\ b >= i + z + 6
  <2>1. CurrentMatches
    BY CurrentIs
  <2>. QED  BY <2>1, Zenon DEF CurrentMatches
<1>4. IF dec.safe THEN ~(i + l > IEndOf(block) - (2 + 1 + LastLiterals)) ELSE ~(lit > o - WildCopyLength)
  BY Zenon DEF AtTheEnd
<1>5. IEndOf(block) = IF dec.safe THEN b ELSE 0
  BY Zenon DEF IEndOf
<1>6. MFLimit = 12 /\ LastLiterals = 5 /\ WildCopyLength = 8
  BY DEF MFLimit, LastLiterals, WildCopyLength, MinMatch
<1>7. op = lit /\ ip = i + z
  OBVIOUS
<1>. HIDE DEF o, b, n, l, z, ml, p, dst, cap, i, lit
<1>8. ml # 0
  <2>. SUFFICES ASSUME ml = 0  PROVE FALSE
    OBVIOUS
  <2>1. p = n /\ b = i + l
    BY <1>3
  <2>2. CASE dec.safe
    BY <1>1, <1>2, <1>4, <1>5, <1>6, <2>1, <2>2
  <2>3. CASE ~dec.safe
    BY <1>1, <1>2, <1>4, <1>6, <2>1, <2>3
  <2>. QED  BY <2>2, <2>3
<1>9. op = dst + p /\ op \in Nat /\ op + ml + 5 <= o /\ op + 12 <= o
  BY <1>1, <1>2, <1>3, <1>7, <1>8
<1>10. ~(dec.safe /\ ip > IEndOf(block) - LastLiterals)
  BY <1>1, <1>2, <1>3, <1>5, <1>6, <1>7, <1>8
<1>. QED  BY <1>8, <1>9, <1>10 DEF o, p, ml, dst

\* The copy of a match, in whichever way.
MatchCopied(lits, new, op, ml) == Copied(lits, new, Heard(dec.dst), op, op + ml + 14, op + ml)

\* The copy from a dictionary, in the terms of the step.
LEMMA FromDictionaryIsRight ==
  ASSUME NEW lits, NEW op \in Int, NEW off \in Nat, off >= 1, NEW ml \in Nat, ml >= 4,
         SourceReady(lits, Heard(dec.dst), op, off, op + ml),
         dec.low \in Int, DecDictEnd \in Int, op - off < dec.low, dec.low <= op
  PROVE  MatchCopied(lits, FromDictionary(lits, op, op - off, ml), op, ml)
<1>. DEFINE F == Heard(dec.dst)
<1>1. \A x \in op .. op + ml - 1 : F[x] = F[x - off] /\ x \in DOMAIN lits
  BY DEF SourceReady
<1>2. \A x \in op - off .. op - 1 : lits[IF x < dec.low THEN x + DecDictEnd - dec.low ELSE x] = F[x]
  BY DEF SourceReady, Where
<1>3. \A x \in dec.low .. op - 1 : x \in DOMAIN lits
  <2>1. \A x \in op - off .. op - 1 : x >= dec.low => x \in DOMAIN lits
    BY DEF SourceReady
  <2>2. \A x \in dec.low .. op - 1 : x \in op - off .. op - 1 /\ x >= dec.low
    OBVIOUS
  <2>. QED  BY <2>1, <2>2
<1>. HIDE DEF F
<1>4. ml >= MinMatch
  BY DEF MinMatch
<1>5. Copied(lits, FromDictionary(lits, op, op - off, ml), F, op, op + ml + 14, op + ml)
  BY <1>1, <1>2, <1>3, <1>4, DictionaryCopied
<1>. QED  BY <1>5 DEF MatchCopied, F

\* The copies within the destination, in the terms of the step.
LEMMA WithinIsRight ==
  ASSUME NEW lits, NEW op \in Int, NEW off \in Nat, off >= 1, NEW ml \in Nat, ml >= 4,
         MatchReady(lits, Heard(dec.dst), op, off, op + ml), OEnd \in Int
  PROVE  /\ op + ml > OEnd - 12 => MatchCopied(lits, NearEnd(lits, op, off, ml), op, ml)
         /\ MatchCopied(lits, Elsewhere(lits, op, off, ml), op, ml)
<1>. DEFINE F == Heard(dec.dst)
<1>1. ml >= MinMatch /\ MatchReady(lits, F, op, off, op + ml)
  BY DEF MinMatch
<1>. HIDE DEF F
<1>2. Copied(lits, Elsewhere(lits, op, off, ml), F, op, op + ml + 14, op + ml)
  BY <1>1, ElsewhereCopied
<1>3. op + ml > OEnd - 12 => Copied(lits, NearEnd(lits, op, off, ml), F, op, op + ml + 14, op + ml)
  BY <1>1, NearEndCopied
<1>. QED  BY <1>2, <1>3 DEF MatchCopied, F

\* After the literals the match, and the message goes on.
LEMMA MatchKeeps ==
  ASSUME DecodeRuns, DecodingOK, dec.at = "decode", StepStays, Current.ml # 0,
         NEW lits, NEW op \in Nat, op = dec.dst + MatchAt, Copied(out, lits, Heard(dec.dst), dec.op, op + 8, op),
         NEW new, NEW high \in Int, high <= OEnd, MatchCopied(lits, new, op, Current.ml), NEW ip, NEW e,
         ip = dec.ip + SizeOf(Current), e = op + Current.ml, Go(new, ip, e, high)
  PROVE  DecodeOK' /\ SameDecode /\ BelowStays /\ dec'.at = "decode"
<1>. DEFINE F == Heard(dec.dst)
            ml == Current.ml
            d == dec.op
            u == Len(Current.lit)
<1>1. CurrentSays
  BY CurrentIs
<1>2. /\ dec.dst \in Nat /\ LitAt \in Nat /\ MatchAt \in Nat /\ u \in Nat /\ MatchAt = LitAt + u
      /\ ml \in Nat /\ d = dec.dst + LitAt /\ Written(block, dec.next + 1) = MatchAt + ml
  BY <1>1 DEF CurrentSays
<1>3. MatchCopied(lits, new, op, ml) /\ e = op + ml /\ Copied(out, lits, F, d, op + 8, op)
  OBVIOUS
<1>. HIDE DEF F, ml, u
<1>4. d \in Int /\ d <= op /\ e \in Int /\ op <= e /\ e = dec.dst + Written(block, dec.next + 1)
  BY <1>2, <1>3
<1>5. Copied(out, new, F, d, e + 14, e)
  <2>. DEFINE n == op + 8
              k == e + 14
  <2>1. n \in Int /\ k \in Int /\ op <= n /\ n <= k /\ e <= k
    BY <1>2, <1>4
  <2>2. Copied(out, lits, F, d, n, op)
    BY <1>3
  <2>3. Copied(lits, new, F, op, k, e)
    <3>1. Copied(lits, new, F, op, op + ml + 14, op + ml)
      BY <1>3 DEF MatchCopied, F
    <3>2. op + ml + 14 = k /\ op + ml = e
      BY <1>2, <1>3
    <3>. QED  BY <3>1, <3>2, Zenon
  <2>. HIDE DEF n, k, d
  <2>4. Copied(out, new, F, d, k, e)
    BY <1>4, <2>1, <2>2, <2>3, CopiedTwice
  <2>. QED  BY <2>4 DEF k
<1>6. Copied(out, new, Heard(dec.dst), dec.op, e + 14, e)
  BY <1>5 DEF F
<1>7. block[dec.next].ml # 0 /\ ip = dec.ip + SizeOf(block[dec.next])
  BY DEF Current
<1>. QED  BY <1>4, <1>6, <1>7, GoKeeps

\* Any other sequence.
LEMMA SequenceKeeps ==
  ASSUME DecodeRuns, DecodingOK, StepStays, DecodeSequence(block)
  PROVE  DecodeOK' /\ SameDecode /\ BelowStays /\ dec'.at = "decode"
<1>. DEFINE s == Current
            lit == s.lit
            n == Len(lit)
            ml == s.ml
            off == s.off
            op == dec.op + n
            match == op - off
            ip == dec.ip + SizeOf(s)
            lits == Junked(Store(Junked(out, dec.op, WildBytes(n)), dec.op, lit), op, 4)
            high == Max({dec.op + WildBytes(n), op + 4})
            e == op + ml
            inDict == dec.ext /\ match < dec.low
            far == dec.safe /\ dec.dictSize < Window /\ match + dec.dictSize < dec.low
            long == dec.safe /\ MatchCode(s) >= MlMask /\ ip > IEndOf(block) - LastLiterals
            wrong == far \/ long \/ e > OEnd - LastLiterals
            F == Heard(dec.dst)
<1>1. /\ dec.at = "decode" /\ ~AtTheEnd(block, s)
      /\ IF wrong THEN Stop(-1) /\ UNCHANGED out
         ELSE IF inDict THEN Go(FromDictionary(lits, op, match, ml), ip, e, Max({high, e}))
         ELSE IF e > OEnd - 12
         THEN Go(NearEnd(lits, op, off, ml), ip, e, Max({high, HighOf(op, ml)}))
         ELSE Go(Elsewhere(lits, op, off, ml), ip, e, Max({high, HighOf(op, ml)}))
  BY Zenon DEF DecodeSequence, Decoding, Current
<1>2. /\ ml # 0 /\ op = dec.dst + MatchAt /\ op \in Nat /\ e + 5 <= OEnd /\ op + 12 <= OEnd
      /\ ~(dec.safe /\ ip > IEndOf(block) - LastLiterals)
  <2>. HIDE DEF op, ip
  <2>1. op = dec.op + Len(Current.lit) /\ ip = dec.ip + SizeOf(Current)
    BY DEF op, ip
  <2>2. /\ Current.ml # 0 /\ op = dec.dst + MatchAt /\ op \in Nat
        /\ op + Current.ml + 5 <= OEnd /\ op + 12 <= OEnd
        /\ ~(dec.safe /\ ip > IEndOf(block) - LastLiterals)
    BY <1>1, <2>1, MatchIsRight
  <2>. QED  BY <2>2
<1>3. CurrentSays /\ CurrentMatches
  BY CurrentIs
<1>4. /\ n \in Nat /\ ml \in Nat /\ off \in Nat /\ ml >= 4 /\ off >= 1 /\ dec.op \in Nat
      /\ \A j \in 1 .. n : lit[j] = F[dec.op + j - 1]
  <2>1. n \in Nat /\ ml \in Nat /\ off \in Nat /\ dec.dst \in Nat /\ LitAt \in Nat /\ dec.op = dec.dst + LitAt
        /\ \A j \in 1 .. n : lit[j] = F[dec.op + j - 1]
    BY <1>3 DEF CurrentSays
  <2>2. ml >= 4 /\ off >= 1
    BY <1>2, <1>3 DEF CurrentMatches
  <2>. QED  BY <2>1, <2>2
<1>5. OEnd \in Int /\ dec.low \in Int /\ DecDictEnd \in Int /\ dec.low <= dec.dst /\ dec.dictSize \in Nat /\ dec.dst \in Nat
  BY CallIs
<1>6. WildBytes(n) \in Nat /\ WildBytes(n) <= n + 8
  <2>. HIDE DEF n
  <2>1. WildBytes(n) \in Nat /\ WildBytes(n) <= IF n = 0 THEN 8 ELSE n + 7
    BY <1>4, WildBytesIs
  <2>. QED  BY <1>4, <2>1
<1>7. op = dec.op + n /\ e = op + ml
  OBVIOUS
<1>8. Copied(out, lits, F, dec.op, op + 8, op)
  <2>. DEFINE at == dec.op
              w == WildBytes(n)
              g == op + 8
  <2>1. at \in Int /\ w \in Int /\ g \in Int /\ g >= at + w /\ g >= at + Len(lit) /\ g >= at + Len(lit) + 4 /\ Len(lit) \in Nat
        /\ at + Len(lit) = op
    <3>. HIDE DEF n, w
    <3>1. w \in Nat /\ w <= n + 8 /\ n \in Nat
      BY <1>4, <1>6 DEF w
    <3>2. at \in Nat /\ g = at + n + 8
      BY <1>2, <1>4
    <3>3. at \in Int /\ w \in Int /\ g \in Int /\ g >= at + w /\ g >= at + n /\ g >= at + n + 4 /\ at + n = op
      BY <3>1, <3>2
    <3>. QED  BY <3>1, <3>3 DEF n
  <2>2. \A j \in 1 .. Len(lit) : lit[j] = F[at + j - 1]
    BY <1>4
  <2>. HIDE DEF at, w, g, F, lit
  <2>3. Copied(out, Junked(Store(Junked(out, at, w), at, lit), at + Len(lit), 4), F, at, g, at + Len(lit))
    BY <2>1, <2>2, LiteralsCopied
  <2>. QED  BY <2>1, <2>3, Zenon DEF at, w, g
<1>. HIDE DEF op, lits, lit, n, F
<1>9. /\ SourceReady(lits, F, op, off, op + ml)
      /\ op - off >= dec.low => MatchReady(lits, F, op, off, op + ml)
  <2>. DEFINE g == op + 8
  <2>1. g \in Int /\ op <= g /\ g <= op + 14 /\ op \in Int
    BY <1>2
  <2>2. Copied(out, lits, Heard(dec.dst), dec.op, g, op) /\ Current.ml # 0
    BY <1>2, <1>8 DEF F
  <2>. HIDE DEF g
  <2>. QED  BY <1>2, <2>1, <2>2, MatchIsReady DEF F
<1>10. ~wrong
  <2>1. ~far
    <3>1. match \in op - off .. op - 1
      BY <1>2, <1>4
    <3>2. dec.safe /\ dec.dictSize < Window => match + dec.dictSize >= dec.low
      BY <1>9, <3>1 DEF SourceReady
    <3>. HIDE DEF match
    <3>3. match \in Int
      BY <1>2, <1>4, <3>1
    <3>. QED  BY <1>5, <3>2, <3>3
  <2>2. ~long
    BY <1>2
  <2>3. ~(e > OEnd - LastLiterals)
    <3>. HIDE DEF ml
    <3>. QED  BY <1>2, <1>4, <1>5 DEF LastLiterals, WildCopyLength, MinMatch
  <2>. HIDE DEF far, long, e
  <2>. QED  BY <2>1, <2>2, <2>3
<1>11. high \in Int /\ high <= OEnd /\ e \in Int /\ e <= OEnd
  <2>. DEFINE a == dec.op + WildBytes(n)
              b == op + 4
  <2>1. a \in Int /\ b \in Int /\ a <= OEnd /\ b <= OEnd
    BY <1>2, <1>4, <1>5, <1>6, <1>7
  <2>2. high = Max({a, b})
    OBVIOUS
  <2>3. e \in Int /\ e <= OEnd
    <3>. HIDE DEF ml
    <3>. QED  BY <1>2, <1>4, <1>5
  <2>. HIDE DEF a, b, high
  <2>4. Max({a, b}) = IF a >= b THEN a ELSE b
    BY <2>1, MaxOfTwo
  <2>. QED  BY <2>1, <2>2, <2>3, <2>4
<1>12. HighOf(op, ml) \in Int /\ HighOf(op, ml) <= OEnd
  <2>1. op + ml + 5 <= OEnd
    BY <1>2
  <2>. HIDE DEF ml
  <2>. QED  BY <1>2, <1>4, <1>5, <2>1, HighOfFits
<1>13. ASSUME NEW x \in Int, x <= OEnd  PROVE Max({high, x}) \in Int /\ Max({high, x}) <= OEnd
  <2>. HIDE DEF high
  <2>1. Max({high, x}) = IF high >= x THEN high ELSE x
    BY <1>11, MaxOfTwo
  <2>. QED  BY <1>11, <1>13, <2>1
<1>14. ASSUME NEW new, MatchCopied(lits, new, op, ml), NEW top \in Int, top <= OEnd, Go(new, ip, e, top)
       PROVE  DecodeOK' /\ SameDecode /\ BelowStays /\ dec'.at = "decode"
  <2>1. Copied(out, lits, Heard(dec.dst), dec.op, op + 8, op)
    BY <1>8 DEF F
  <2>2. MatchCopied(lits, new, op, Current.ml) /\ Current.ml # 0 /\ ip = dec.ip + SizeOf(Current) /\ e = op + Current.ml
    BY <1>2, <1>14
  <2>. HIDE DEF ip, e
  <2>. QED  BY <1>1, <1>2, <1>14, <2>1, <2>2, MatchKeeps
<1>. HIDE DEF ip, e, high, wrong
<1>15. CASE inDict
  <2>. DEFINE new == FromDictionary(lits, op, match, ml)
              top == Max({high, e})
  <2>1. Go(new, ip, e, top)
    BY <1>1, <1>10, <1>15
  <2>2. MatchCopied(lits, new, op, ml)
    <3>1. op - off < dec.low /\ dec.low <= op /\ op \in Int
      <4>1. MatchAt \in Nat
        BY <1>3 DEF CurrentSays
      <4>. QED  BY <1>2, <1>5, <1>15, <4>1
    <3>2. SourceReady(lits, Heard(dec.dst), op, off, op + ml)
      BY <1>9 DEF F
    <3>. HIDE DEF ml, off
    <3>3. MatchCopied(lits, FromDictionary(lits, op, op - off, ml), op, ml)
      BY <1>4, <1>5, <3>1, <3>2, FromDictionaryIsRight
    <3>. QED  BY <3>3
  <2>3. top \in Int /\ top <= OEnd
    BY <1>11, <1>13
  <2>. HIDE DEF new, top
  <2>. QED  BY <1>14, <2>1, <2>2, <2>3
<1>16. CASE ~inDict
  <2>1. MatchReady(lits, Heard(dec.dst), op, off, op + ml)
    <3>1. match >= dec.low
      <4>1. ASSUME ~(match >= dec.low)  PROVE FALSE
        <5>1. match \in op - off .. op - 1
          BY <1>2, <1>4
        <5>2. match < dec.low => dec.ext
          BY <1>9, <5>1 DEF SourceReady
        <5>. HIDE DEF match
        <5>3. match \in Int /\ match < dec.low
          BY <1>2, <1>4, <1>5, <4>1, <5>1
        <5>. QED  BY <1>16, <5>2, <5>3
      <4>. QED  BY <4>1
    <3>. QED  BY <1>9, <3>1 DEF F
  <2>. DEFINE top == Max({high, HighOf(op, ml)})
              near == NearEnd(lits, op, off, ml)
              other == Elsewhere(lits, op, off, ml)
  <2>2. /\ op + ml > OEnd - 12 => MatchCopied(lits, near, op, ml)
        /\ MatchCopied(lits, other, op, ml)
    <3>. HIDE DEF ml, off
    <3>. QED  BY <1>2, <1>4, <1>5, <2>1, WithinIsRight
  <2>3. top \in Int /\ top <= OEnd
    BY <1>12, <1>13
  <2>4. IF e > OEnd - 12 THEN Go(near, ip, e, top) ELSE Go(other, ip, e, top)
    BY <1>1, <1>10, <1>16
  <2>. HIDE DEF near, other, top
  <2>5. CASE e > OEnd - 12
    <3>1. op + ml > OEnd - 12
      BY <2>5 DEF e
    <3>2. MatchCopied(lits, near, op, ml) /\ Go(near, ip, e, top)
      BY <2>2, <2>4, <2>5, <3>1
    <3>. QED  BY <1>14, <2>3, <3>2
  <2>6. CASE ~(e > OEnd - 12)
    <3>1. MatchCopied(lits, other, op, ml) /\ Go(other, ip, e, top)
      BY <2>2, <2>4, <2>6
    <3>. QED  BY <1>14, <2>3, <3>1
  <2>. QED  BY <2>5, <2>6
<1>. QED  BY <1>15, <1>16

\* A step of the decoder keeps the invariant of its call.
LEMMA DecompressKeeps ==
  ASSUME DecodeOK, StepStays, Decompress(block)
  PROVE  DecodeOK' /\ SameDecode /\ BelowStays /\ dec.at = "decode" /\ dec'.at \in {"decode", "return"} /\ streamDecode' = streamDecode
<1>1. DecodeRuns /\ (dec.at = "decode" => DecodingOK)
  BY DEF DecodeOK
<1>2. ~DecodeEmpty(block)
  <2>. SUFFICES ASSUME DecodeEmpty(block)  PROVE FALSE
    OBVIOUS
  <2>1. dec.cap = 0
    BY Zenon DEF DecodeEmpty
  <2>2. dec.cap >= 1
    BY <1>1 DEF DecodeRuns, DecodeCall
  <2>. QED  BY <2>1, <2>2
<1>3. dec.at = "decode" /\ streamDecode' = streamDecode /\ (DecodeShortcut(block) \/ DecodeLast(block) \/ DecodeSequence(block))
  BY <1>2, Zenon DEF Decompress, DecodeShortcut, DecodeLast, DecodeSequence, Decoding
<1>. QED  BY <1>1, <1>3, ShortcutKeeps, DecodeLastKeeps, SequenceKeeps

-----------------------------------------------------------------------------
(***************************************************************************)
(* The end of a block.  The decoder copies in steps of eight bytes, which  *)
(* the format pays for: the last five bytes of a block are literals, and   *)
(* its last match starts twelve bytes before its end.                      *)
(***************************************************************************)
\* The match of a sequence is as far from the end of the source as the format
\* demands.
Placed(b, i, size) ==
    b[i].ml # 0 => LET p == Written(b, i) + Len(b[i].lit)
                   IN p + MFLimit <= size /\ p + b[i].ml + LastLiterals <= size /\ b[i].ml >= MinMatch

MatchesPlaced == \A i \in 1 .. Len(block) : Placed(block, i, enc.size)
TailLeft == enc.at # "return" /\ block # <<>> => enc.anchor + LastLiterals <= IEnd

\* Room for five literals, or for eight after a short match.
RoomLeft ==
    enc.fill /\ block # <<>> /\ enc.at \in {"search", "literals", "last"} =>
        enc.op + 6 <= enc.cap /\ (block[Len(block)].ml >= 8 \/ enc.op + 9 <= enc.cap)

\* A call that fills the destination cuts the literals, but not to less than
\* the format demands.
TailWritten ==
    enc.at = "return" /\ enc.result > 0 =>
        \A i \in 1 .. Len(block) : block[i].ml # 0 =>
            /\ Written(block, i + 1) + LastLiterals <= Written(block, Len(block) + 1)
            /\ Written(block, i) + Len(block[i].lit) + MFLimit <= Written(block, Len(block) + 1)

EndOK == MatchesPlaced /\ TailLeft /\ RoomLeft /\ TailWritten

\* The types of a call, and the constants of the format.
LEMMA CallEnd ==
  ASSUME CallOK
  PROVE  /\ enc.src \in Nat /\ enc.size \in Nat /\ IEnd = enc.src + enc.size /\ enc.cap \in Nat /\ enc.op \in Nat
         /\ enc.anchor \in Int /\ enc.ip \in Int /\ MFLimit = 12 /\ LastLiterals = 5 /\ MinMatch = 4
         /\ enc.fill \in BOOLEAN /\ enc.limited \in BOOLEAN
BY CallTypes DEF MFLimit, LastLiterals, WildCopyLength, MinMatch

\* A step that writes no sequence.
LEMMA NothingWritten ==
  ASSUME EndOK, block' = block, enc.at # "return",
         enc'.anchor = enc.anchor, enc'.src = enc.src, enc'.size = enc.size, enc'.cap = enc.cap, enc'.fill = enc.fill,
         enc'.at = "return" => enc'.result = 0, CallOK,
         enc'.at \in {"search", "literals", "last"} =>
             enc'.op = enc.op /\ (block = <<>> \/ enc.at \in {"search", "literals", "last"} \/ (enc.fill => enc.op + 9 <= enc.cap))
  PROVE  EndOK'
<1>1. MatchesPlaced'
  BY DEF EndOK, MatchesPlaced, Placed, Written, Lengths
<1>2. TailLeft'
  <2>1. IEnd' = IEnd
    BY DEF IEnd
  <2>. QED  BY <2>1 DEF EndOK, TailLeft
<1>3. RoomLeft'
  <2>1. enc.op \in Nat /\ enc.cap \in Nat
    BY CallEnd
  <2>2. enc.op + 9 <= enc.cap => enc.op + 6 <= enc.cap
    BY <2>1
  <2>. QED  BY <2>2 DEF EndOK, RoomLeft
<1>4. TailWritten'
  BY DEF TailWritten
<1>. QED  BY <1>1, <1>2, <1>3, <1>4 DEF EndOK

Lengthened(c, b, x) == c = Append(b, x)

\* A block with a sequence more.
LEMMA BlockAppended ==
  ASSUME NEW b \in Seq(Sequence), NEW x \in Sequence, NEW c, Lengthened(c, b, x)
  PROVE  /\ c \in Seq(Sequence) /\ Len(c) = Len(b) + 1 /\ c[Len(b) + 1] = x /\ Len(b) \in Nat
         /\ \A i \in 1 .. Len(b) : c[i] = b[i]
         /\ \A i \in 1 .. Len(b) + 1 : Written(c, i) = Written(b, i)
         /\ Written(c, Len(b) + 1 + 1) = Written(b, Len(b) + 1) + Len(x.lit) + x.ml
<1>1. /\ c \in Seq(Sequence) /\ Len(c) = Len(b) + 1 /\ c[Len(b) + 1] = x /\ Len(b) \in Nat
      /\ \A i \in 1 .. Len(b) : c[i] = b[i]
  <2>. HIDE DEF Sequence
  <2>. QED  BY DEF Lengthened
<1>2. \A i \in 1 .. Len(b) + 1 : Written(c, i) = Written(b, i)
  BY WrittenBefore DEF Lengthened
<1>3. Len(b) + 1 \in 1 .. Len(c) /\ Len(b) + 1 \in 1 .. Len(b) + 1
  BY <1>1
<1>4. Written(c, Len(b) + 1 + 1) = Written(c, Len(b) + 1) + Len(c[Len(b) + 1].lit) + c[Len(b) + 1].ml
  BY <1>1, <1>3, WrittenNext
<1>. QED  BY <1>1, <1>2, <1>3, <1>4

\* The ends of a block at each label of the compressor.
LEMMA EndAtSetUp ==
  ASSUME FastInv, EndOK, SetUp
  PROVE  EndOK'
<1>1. CallOK /\ enc.at = "setup" /\ block = <<>>
  BY DEF FastInv, SetUp, BlockOK
<1>2. CallTyped(enc)
  BY <1>1 DEF CallOK
<1>3. block' = block
  BY Zenon DEF SetUp, Return
<1>4. /\ enc'.anchor = enc.anchor /\ enc'.src = enc.src /\ enc'.size = enc.size /\ enc'.cap = enc.cap /\ enc'.fill = enc.fill
      /\ enc'.op = enc.op /\ (enc'.at = "return" => enc'.result = 0)
  <2>1. \/ enc' = [enc EXCEPT !.at = "return", !.result = 0]
        \/ enc' = [enc EXCEPT !.at = "last"]
        \/ enc' = Search(enc, enc.src + 1)
    BY Zenon DEF SetUp, Return
  <2>2. CASE enc' = [enc EXCEPT !.at = "return", !.result = 0]
    BY <1>2, <2>2 DEF CallTyped
  <2>3. CASE enc' = [enc EXCEPT !.at = "last"]
    BY <1>2, <2>3 DEF CallTyped
  <2>4. CASE enc' = Search(enc, enc.src + 1)
    BY <1>2, <2>4 DEF CallTyped, Search
  <2>. QED  BY <2>1, <2>2, <2>3, <2>4
<1>. QED  BY <1>1, <1>3, <1>4, NothingWritten

LEMMA EndAtFindMatch ==
  ASSUME FastInv, EndOK, FindMatch
  PROVE  EndOK'
<1>1. CallOK /\ enc.at = "search" /\ block' = block
  BY DEF FastInv, FindMatch
<1>2. CallTyped(enc)
  BY <1>1 DEF CallOK
<1>3. /\ enc'.anchor = enc.anchor /\ enc'.src = enc.src /\ enc'.size = enc.size /\ enc'.cap = enc.cap /\ enc'.fill = enc.fill
      /\ enc'.op = enc.op /\ enc'.at # "return"
  <2>1. \/ enc' = [enc EXCEPT !.at = "last"]
        \/ \E found \in BOOLEAN : \E p, match, next, step, hash :
              enc' = [enc EXCEPT !.at = IF found THEN "literals" ELSE "search", !.ip = p, !.match = match, !.forward = next,
                                     !.step = step, !.nb = @ + 1, !.hash = hash]
    <3>. DEFINE p == enc.forward
                next == p + enc.step
                match == GetPosition(stream.table, enc, enc.hash)
                found == /\ Reaches(match)
                         /\ enc.type = "u16" \/ match + MaxDistance >= p
                         /\ SameFour(match, p)
    <3>1. CASE next > SearchLimit
      BY <3>1, Zenon DEF FindMatch
    <3>2. CASE ~(next > SearchLimit)
      <4>1. enc' = [enc EXCEPT !.at = IF found THEN "literals" ELSE "search", !.ip = p, !.match = match, !.forward = next,
                               !.step = enc.nb \div 2 ^ SkipTrigger, !.nb = @ + 1, !.hash = HashAt(enc, next)]
        BY <3>2, Zenon DEF FindMatch
      <4>2. found \in BOOLEAN
        BY DEF SameFour, Agree, Reaches
      <4>. HIDE DEF found
      <4>. QED  BY <4>1, <4>2, Zenon
    <3>. QED  BY <3>1, <3>2
  <2>2. CASE enc' = [enc EXCEPT !.at = "last"]
    BY <1>2, <2>2 DEF CallTyped
  <2>3. CASE \E found \in BOOLEAN : \E p, match, next, step, hash :
              enc' = [enc EXCEPT !.at = IF found THEN "literals" ELSE "search", !.ip = p, !.match = match, !.forward = next,
                                     !.step = step, !.nb = @ + 1, !.hash = hash]
    BY <1>2, <2>3 DEF CallTyped
  <2>. QED  BY <2>1, <2>2, <2>3
<1>. QED  BY <1>1, <1>3, NothingWritten

LEMMA EndAtLiterals ==
  ASSUME FastInv, EndOK, EncodeLiterals
  PROVE  EndOK'
<1>1. CallOK /\ enc.at = "literals" /\ block' = block
  BY DEF FastInv, EncodeLiterals
<1>2. CallTyped(enc)
  BY <1>1 DEF CallOK
<1>3. /\ enc'.anchor = enc.anchor /\ enc'.src = enc.src /\ enc'.size = enc.size /\ enc'.cap = enc.cap /\ enc'.fill = enc.fill
      /\ enc'.at \in {"last", "return", "match"} /\ (enc'.at = "return" => enc'.result = 0) /\ (enc'.at = "last" => enc'.op = enc.op)
  <2>1. \/ enc' = [enc EXCEPT !.at = "last"]
        \/ enc' = [enc EXCEPT !.at = "return", !.result = 0]
        \/ \E p, match, lit, op, high : enc' = [enc EXCEPT !.at = "match", !.ip = p, !.match = match, !.lit = lit, !.op = op, !.high = high]
    <3>. DEFINE from == enc.match + DeltaOf(enc.match)
                back == CountBack(mem, enc.ip, from, Min({enc.ip - enc.anchor, from - LowLimitOf(enc.match)}))
                p == enc.ip - back
                n == p - enc.anchor
                op == enc.op + 1
                start == op + LengthBytes(n)
                one == enc.fill /\ op + (n + 240) \div 255 + n > enc.cap - 2 - 8 - 1
                two == enc.limited /\ op + n + (2 + 1 + LastLiterals) + n \div 255 > enc.cap
    <3>1. enc' = IF one THEN [enc EXCEPT !.at = "last"]
                 ELSE IF two THEN [enc EXCEPT !.at = "return", !.result = 0]
                 ELSE [enc EXCEPT !.at = "match", !.ip = p, !.match = @ - back,
                                  !.lit = Bytes(mem, enc.anchor, n), !.op = start + n,
                                  !.high = Max({@, start + WildBytes(n)})]
      BY Zenon DEF EncodeLiterals
    <3>. DEFINE lit == Bytes(mem, enc.anchor, n)
                match == enc.match - back
                high == Max({enc.high, start + WildBytes(n)})
                end == start + n
    <3>2. CASE one
      BY <3>1, <3>2, Zenon
    <3>3. CASE ~one /\ two
      BY <3>1, <3>3, Zenon
    <3>4. CASE ~one /\ ~two
      <4>1. enc' = [enc EXCEPT !.at = "match", !.ip = p, !.match = match, !.lit = lit, !.op = end, !.high = high]
        BY <1>2, <3>1, <3>4, Zenon DEF CallTyped
      <4>. HIDE DEF p, match, lit, end, high
      <4>. QED  BY <4>1, Zenon
    <3>. QED  BY <3>2, <3>3, <3>4
  <2>2. CASE enc' = [enc EXCEPT !.at = "last"]
    BY <1>2, <2>2 DEF CallTyped
  <2>3. CASE enc' = [enc EXCEPT !.at = "return", !.result = 0]
    BY <1>2, <2>3 DEF CallTyped
  <2>4. CASE \E p, match, lit, op, high : enc' = [enc EXCEPT !.at = "match", !.ip = p, !.match = match, !.lit = lit, !.op = op, !.high = high]
    BY <1>2, <2>4 DEF CallTyped
  <2>. QED  BY <2>1, <2>2, <2>3, <2>4
<1>. QED  BY <1>1, <1>3, NothingWritten

LEMMA EndAtNext ==
  ASSUME FastInv, EndOK, TestNext
  PROVE  EndOK'
<1>1. CallOK /\ enc.at = "next" /\ block' = block /\ RoomOK
  BY DEF FastInv, TestNext, OutputOK
<1>2. CallTyped(enc)
  BY <1>1 DEF CallOK
<1>3. /\ enc'.anchor = enc.anchor /\ enc'.src = enc.src /\ enc'.size = enc.size /\ enc'.cap = enc.cap /\ enc'.fill = enc.fill
      /\ enc'.at \in {"search", "match"} /\ (enc'.at = "search" => enc'.op = enc.op)
  <2>1. \/ enc' = Search(enc, enc.ip + 1)
        \/ \E match, lit, op : enc' = [enc EXCEPT !.at = "match", !.match = match, !.lit = lit, !.op = op]
    BY DEF TestNext
  <2>3. CASE enc' = Search(enc, enc.ip + 1)
    BY <1>2, <2>3 DEF CallTyped, Search
  <2>4. CASE \E match, lit, op : enc' = [enc EXCEPT !.at = "match", !.match = match, !.lit = lit, !.op = op]
    BY <1>2, <2>4 DEF CallTyped
  <2>. QED  BY <2>1, <2>3, <2>4
<1>4. enc.fill => enc.op + 9 <= enc.cap
  <2>1. enc.fill => enc.op + 12 <= enc.cap
    BY <1>1 DEF RoomOK
  <2>. QED  BY <1>1, <2>1, CallEnd
<1>. QED  BY <1>1, <1>3, <1>4, NothingWritten

\* A match leaves five bytes of the source, and room for them.
LEMMA EndAtMatch ==
  ASSUME FastInv, EndOK, EncodeMatch
  PROVE  EndOK'
<1>. DEFINE op == enc.op + 2
            found == MatchCodeAt(enc.ip, enc.match)
            room == enc.cap - (LastLiterals + 1) - op
            cut == enc.fill /\ (found + 240) \div 255 > room
            code == IF enc.fill /\ (found + 240) \div 255 > room THEN (15 - 1) + room * 255 ELSE found
            p == enc.ip + MinMatch + code
            end == op + LengthBytes(code)
            full == enc.limited /\ op + (1 + LastLiterals) + code \div 256 > enc.cap
            off == (enc.ip - enc.match) % Window
            s == Match(enc.lit, off, MinMatch + code)
            n == Len(enc.lit)
            k == Len(block)
<1>1. CallOK /\ PositionOK /\ RoomOK /\ BlockOK /\ enc.at = "match" /\ CallTyped(enc)
  BY DEF FastInv, EncodeMatch, OutputOK, CallOK
<1>t. /\ enc.src \in Nat /\ enc.size \in Nat /\ IEnd = enc.src + enc.size /\ enc.anchor \in Int /\ enc.ip \in Int
      /\ enc.op \in Nat /\ enc.cap \in Nat /\ enc.fill \in BOOLEAN /\ MatchLimit = IEnd - 5
      /\ MFLimit = 12 /\ LastLiterals = 5 /\ MinMatch = 4
  BY <1>1, CallEnd DEF MatchLimit
<1>l. enc.lit \in Seq(Nat)
  BY <1>1, LitType
<1>2. /\ enc.ip = enc.anchor + n /\ n \in Nat /\ off \in 1 .. MaxDistance
      /\ found \in Nat /\ enc.ip + MinMatch + found <= MatchLimit
  BY <1>1, MatchIsKnown
<1>3. enc.ip <= IEnd - MFLimit
  <2>1. PICK q \in enc.ip .. IEnd - MFLimit : Entered(Text, stream.table, q)
    BY <1>1 DEF PositionOK
  <2>. QED  BY <1>t, <2>1
<1>. HIDE DEF found, off, n
<1>4. enc.fill => room \in Nat
  <2>1. enc.fill => enc.op + 11 <= enc.cap
    BY <1>1 DEF RoomOK
  <2>. QED  BY <1>t, <2>1
<1>5. code \in Nat /\ code <= found /\ (enc.fill => LengthBytes(code) <= room)
  <2>1. CASE cut
    <3>. HIDE DEF room
    <3>1. code = (15 - 1) + room * 255
      BY <2>1
    <3>. HIDE DEF code
    <3>2. code \in Nat /\ code <= found /\ LengthBytes(code) = room
      BY <1>2, <1>4, <2>1, <3>1, CutLength
    <3>. QED  BY <1>4, <2>1, <3>2
  <2>2. CASE ~cut
    <3>1. code = found
      BY <2>2
    <3>2. LengthBytes(found) = (found + 240) \div 255
      BY <1>2, LengthBytesIs
    <3>. HIDE DEF code
    <3>. QED  BY <1>2, <1>4, <2>2, <3>1, <3>2
  <2>. QED  BY <2>1, <2>2
<1>6. LengthBytes(code) \in Nat
  <2>. HIDE DEF code
  <2>. QED  BY <1>5, LengthBytesIs
<1>. HIDE DEF code
<1>7. CASE full
  <2>1. enc' = [enc EXCEPT !.at = "return", !.result = 0] /\ block' = block
    BY <1>7, Zenon DEF EncodeMatch, Return, code, found
  <2>2. /\ enc'.anchor = enc.anchor /\ enc'.src = enc.src /\ enc'.size = enc.size /\ enc'.cap = enc.cap /\ enc'.fill = enc.fill
        /\ enc'.at = "return" /\ enc'.result = 0
    BY <1>1, <2>1 DEF CallTyped
  <2>. QED  BY <1>1, <2>1, <2>2, NothingWritten
<1>8. CASE ~full
  <2>. DEFINE at == IF p >= IEnd - MFLimit + 1 \/ (enc.fill /\ end > enc.cap - 2 - 8 - 1 - 1) THEN "last" ELSE "next"
              high == Max({enc.high, end, IF code >= MlMask /\ ~enc.fill THEN op + 4 + 4 * ((code - MlMask) \div 1020) ELSE 0})
  <2>1. enc' = [enc EXCEPT !.at = at, !.ip = p, !.anchor = p, !.op = end, !.high = high] /\ at \in {"last", "next"}
    BY <1>1, <1>8 DEF EncodeMatch, code, found, CallTyped
  <2>. HIDE DEF at, high
  <2>2. block' = Append(block, s)
    BY <1>8, Zenon DEF EncodeMatch, code, found, off
  <2>. HIDE DEF p, end, s, full
  <2>3. /\ enc'.anchor = p /\ enc'.src = enc.src /\ enc'.size = enc.size /\ enc'.cap = enc.cap /\ enc'.fill = enc.fill
        /\ enc'.at \in {"last", "next"} /\ enc'.op = end
    BY <1>1, <2>1 DEF CallTyped
  <2>4. s \in Sequence /\ Len(s.lit) = n /\ s.ml = 4 + code
    <3>1. 4 + code \in Nat /\ off \in Nat
      BY <1>2, <1>5, FastAssumption DEF MaxDistance
    <3>. QED  BY <1>l, <1>t, <3>1 DEF s, Match, Sequence, n
  <2>5. block \in Seq(Sequence) /\ enc.anchor = enc.src + Written(block, k + 1)
    BY <1>1 DEF BlockOK
  <2>6. /\ Len(block') = k + 1 /\ block'[k + 1] = s /\ k \in Nat
        /\ \A i \in 1 .. k : block'[i] = block[i]
        /\ \A i \in 1 .. k + 1 : Written(block', i) = Written(block, i)
    <3>1. Lengthened(block', block, s)
      BY <2>2 DEF Lengthened
    <3>. HIDE DEF Sequence
    <3>. QED  BY <2>4, <2>5, <3>1, BlockAppended
  <2>7. Written(block, k + 1) \in Nat
    <3>1. k + 1 \in 1 .. Len(block) + 1
      BY <2>6
    <3>. QED  BY <2>5, <3>1, WrittenType
  <2>. HIDE DEF k
  <2>8. MatchesPlaced'
    <3>. SUFFICES ASSUME NEW i \in 1 .. k + 1  PROVE Placed(block', i, enc.size)
      BY <2>3, <2>6, Zenon DEF MatchesPlaced
    <3>1. CASE i = k + 1
      <4>. DEFINE u == Written(block, k + 1)
                  l == Len(s.lit)
                  m == s.ml
      <4>1. u + l + 12 <= enc.size /\ u + l + m + 5 <= enc.size /\ m >= 4
        <5>1. u \in Nat /\ enc.anchor = enc.src + u /\ l = n /\ m = 4 + code
          BY <2>4, <2>5, <2>7
        <5>. HIDE DEF u, l, m
        <5>2. u + l = enc.ip - enc.src
          BY <1>t, <1>2, <5>1
        <5>. QED  BY <1>t, <1>2, <1>3, <1>5, <5>1, <5>2
      <4>2. block'[i] = s /\ Written(block', i) = u
        BY <2>6, <3>1
      <4>. HIDE DEF u
      <4>. QED  BY <1>t, <4>1, <4>2 DEF Placed
    <3>2. CASE i # k + 1
      <4>1. i \in 1 .. k
        BY <2>6, <3>2
      <4>2. Placed(block, i, enc.size) /\ block'[i] = block[i] /\ Written(block', i) = Written(block, i)
        BY <2>6, <4>1 DEF EndOK, MatchesPlaced, k
      <4>. QED  BY <4>2 DEF Placed
    <3>. QED  BY <3>1, <3>2
  <2>9. TailLeft'
    <3>1. p + 5 <= IEnd
      BY <1>t, <1>2, <1>5 DEF p
    <3>. QED  BY <1>t, <2>3, <3>1 DEF TailLeft, IEnd
  <2>10. RoomLeft'
    <3>1. enc.fill => end + 6 <= enc.cap
      BY <1>t, <1>4, <1>5, <1>6 DEF end
    <3>2. enc.fill => code >= 4 \/ end + 9 <= enc.cap
      <4>. SUFFICES ASSUME enc.fill, ~(code >= 4)  PROVE end + 9 <= enc.cap
        OBVIOUS
      <4>1. LengthBytes(code) = 0
        BY <1>5 DEF LengthBytes
      <4>2. enc.op + 11 <= enc.cap
        BY <1>1 DEF RoomOK
      <4>. QED  BY <1>t, <4>1, <4>2 DEF end
    <3>3. block'[Len(block')].ml = 4 + code
      BY <2>4, <2>6
    <3>4. code >= 4 => 4 + code >= 8
      BY <1>5
    <3>. QED  BY <2>3, <3>1, <3>2, <3>3, <3>4 DEF RoomLeft
  <2>11. TailWritten'
    BY <2>3 DEF TailWritten
  <2>. QED  BY <2>8, <2>9, <2>10, <2>11 DEF EndOK
<1>. QED  BY <1>7, <1>8

\* What is taken off the literals for the bytes of their length.
LEMMA CutTail ==
  ASSUME NEW room \in Nat, room >= 5
  PROVE  /\ room - (room + 240) \div 255 >= 5 /\ room - (room + 240) \div 255 \in Nat
         /\ room >= 8 => room - (room + 240) \div 255 >= 8
<1>1. (room + 240) \div 255 \in Nat /\ 255 * ((room + 240) \div 255) <= room + 240
  OBVIOUS
<1>. QED  BY <1>1

\* A match is followed by a match, or by n literals: the rest of the source, or
\* enough of it.
LEMMA MatchBeforeTail ==
  ASSUME NEW b \in Seq(Sequence), NEW size \in Nat, NEW n \in Nat, n >= 5,
         \A i \in 1 .. Len(b) : b[i].ml # 0 /\ Placed(b, i, size),
         Written(b, Len(b) + 1) + n = size \/ b[Len(b)].ml + n >= 12,
         NEW i \in 1 .. Len(b)
  PROVE  Written(b, i) + Len(b[i].lit) + 12 <= Written(b, Len(b) + 1) + n
<1>. DEFINE w == Written(b, i)
            v == Written(b, i + 1)
            u == Len(b[i].lit)
            ml == b[i].ml
            all == Written(b, Len(b) + 1)
<1>1. /\ i \in 1 .. Len(b) + 1 /\ i + 1 \in 1 .. Len(b) + 1 /\ Len(b) \in Nat /\ Len(b) + 1 \in 1 .. Len(b) + 1
      /\ i = Len(b) \/ (i + 1 \in 1 .. Len(b) /\ i + 1 + 1 \in 1 .. Len(b) + 1)
  <2>. HIDE DEF Sequence
  <2>. QED  OBVIOUS
<1>2. w \in Nat /\ v \in Nat /\ all \in Nat
  BY <1>1, WrittenType
<1>3. v = w + u + ml
  BY WrittenNext
<1>4. b[i] \in Sequence
  <2>. HIDE DEF Sequence
  <2>. QED  OBVIOUS
<1>5. u \in Nat /\ ml \in Nat
  BY <1>4 DEF Sequence
<1>6. w + u + 12 <= size /\ ml >= 4
  BY DEF Placed, MFLimit, MinMatch, LastLiterals, WildCopyLength
<1>7. CASE i = Len(b)
  <2>1. v = all /\ (all + n = size \/ ml + n >= 12)
    BY <1>7
  <2>. HIDE DEF w, v, u, ml, all
  <2>2. w + u + 12 <= all + n
    BY <1>2, <1>3, <1>5, <1>6, <2>1
  <2>. QED  BY <2>2 DEF w, u, all
<1>8. CASE i # Len(b)
  <2>. DEFINE x == Written(b, i + 1 + 1)
              y == Len(b[i + 1].lit)
              mm == b[i + 1].ml
  <2>1. i + 1 \in 1 .. Len(b) /\ i + 1 + 1 \in 1 .. Len(b) + 1
    BY <1>1, <1>8
  <2>2. x = v + y + mm
    BY <2>1, WrittenNext
  <2>3. x <= all
    BY <2>1, WrittenWithin
  <2>4. mm >= 4
    BY <2>1 DEF Placed, MFLimit, MinMatch, LastLiterals, WildCopyLength
  <2>5. b[i + 1] \in Sequence
    <3>. HIDE DEF Sequence
    <3>. QED  BY <2>1
  <2>6. y \in Nat /\ mm \in Nat
    BY <2>5 DEF Sequence
  <2>. HIDE DEF w, v, u, ml, all, x, y, mm
  <2>7. w + u + 12 <= all + n
    BY <1>2, <1>3, <1>5, <1>6, <2>2, <2>3, <2>4, <2>6
  <2>. QED  BY <2>7 DEF w, u, all
<1>. QED  BY <1>7, <1>8

\* The last literals, which a call that fills the destination cuts.
LEMMA EndAtLast ==
  ASSUME FastInv, EndOK, EncodeLast
  PROVE  EndOK'
<1>. DEFINE run == IEnd - enc.anchor
            room == enc.cap - enc.op - 1
            cut == enc.fill /\ (run + 240) \div 255 + run > room
            n == IF enc.fill /\ (run + 240) \div 255 + run > room THEN room - (room + 240) \div 255 ELSE run
            end == enc.op + 1 + LengthBytes(n) + n
            full == enc.limited /\ enc.op + run + 1 + (run + 255 - RunMask) \div 255 > enc.cap
            s == LastRun(Bytes(mem, enc.anchor, n))
            k == Len(block)
<1>1. CallOK /\ BlockOK /\ enc.at = "last" /\ CallTyped(enc)
  BY DEF FastInv, EncodeLast, LastLiteralsAt, CallOK
<1>t. /\ enc.src \in Nat /\ enc.size \in Nat /\ IEnd = enc.src + enc.size /\ enc.anchor \in Int
      /\ enc.op \in Nat /\ enc.cap \in Nat /\ enc.fill \in BOOLEAN /\ LastLiterals = 5
  BY <1>1, CallEnd
<1>2. block # <<>> => run >= 5 /\ (enc.fill => room >= 5) /\ n >= 5
  <2>. SUFFICES ASSUME block # <<>>  PROVE run >= 5 /\ (enc.fill => room >= 5) /\ n >= 5
    OBVIOUS
  <2>1. enc.anchor + 5 <= IEnd /\ (enc.fill => enc.op + 6 <= enc.cap)
    BY <1>1, <1>t DEF EndOK, TailLeft, RoomLeft
  <2>2. run >= 5 /\ (enc.fill => room >= 5 /\ room \in Nat) /\ run \in Int
    BY <1>t, <2>1
  <2>3. CASE cut
    <3>1. n = room - (room + 240) \div 255
      BY <2>3
    <3>. HIDE DEF n, room, run
    <3>. QED  BY <2>2, <2>3, <3>1, CutTail
  <2>4. CASE ~cut
    <3>1. n = run
      BY <2>4
    <3>. QED  BY <2>2, <3>1
  <2>. QED  BY <2>3, <2>4
<1>5. block # <<>> => Written(block, Len(block) + 1) + n = enc.size \/ block[Len(block)].ml + n >= 12
  <2>. SUFFICES ASSUME block # <<>>
                PROVE  Written(block, Len(block) + 1) + n = enc.size \/ block[Len(block)].ml + n >= 12
    OBVIOUS
  <2>. DEFINE w == Written(block, Len(block) + 1)
              ml == block[Len(block)].ml
  <2>1. enc.anchor = enc.src + w /\ w \in Nat
    <3>1. block \in Seq(Sequence)
      BY <1>1 DEF BlockOK
    <3>2. Len(block) + 1 \in 1 .. Len(block) + 1
      <4>. HIDE DEF Sequence
      <4>. QED  BY <3>1
    <3>. QED  BY <1>1, <3>1, <3>2, WrittenType DEF BlockOK
  <2>2. ml \in Nat
    <3>1. block \in Seq(Sequence)
      BY <1>1 DEF BlockOK
    <3>2. block[Len(block)] \in Sequence
      <4>. HIDE DEF Sequence
      <4>. QED  BY <3>1
    <3>. QED  BY <3>2 DEF Sequence
  <2>3. CASE cut
    <3>1. n = room - (room + 240) \div 255 /\ enc.fill
      BY <2>3
    <3>2. n >= 5 /\ room >= 5
      BY <1>2, <3>1
    <3>3. ml >= 8 \/ enc.op + 9 <= enc.cap
      BY <1>1, <3>1 DEF EndOK, RoomLeft
    <3>4. room \in Nat /\ (enc.op + 9 <= enc.cap => room >= 8)
      <4>1. room \in Int
        BY <1>t
      <4>. QED  BY <1>t, <3>2, <4>1
    <3>. HIDE DEF n, room, ml
    <3>5. n \in Nat /\ (room >= 8 => n >= 8)
      BY <3>1, <3>2, <3>4, CutTail
    <3>6. ml >= 4
      <4>1. Len(block) \in 1 .. Len(block) /\ Len(block) \in DOMAIN block
        <5>. HIDE DEF Sequence
        <5>. QED  BY <1>1 DEF BlockOK
      <4>2. block[Len(block)].ml # 0
        BY <1>1, <4>1 DEF BlockOK
      <4>3. Placed(block, Len(block), enc.size)
        BY <4>1 DEF EndOK, MatchesPlaced
      <4>. QED  BY <4>2, <4>3 DEF Placed, ml, MinMatch
    <3>7. ml + n >= 12
      BY <2>2, <3>2, <3>3, <3>4, <3>5, <3>6
    <3>. QED  BY <3>7 DEF ml
  <2>4. CASE ~cut
    <3>1. n = run
      BY <2>4
    <3>. HIDE DEF n, w
    <3>2. w + n = enc.size
      BY <1>t, <2>1, <3>1
    <3>. QED  BY <3>2 DEF w
  <2>. QED  BY <2>3, <2>4
<1>3. CASE full
  <2>1. enc' = [enc EXCEPT !.at = "return", !.result = 0] /\ block' = block
    BY <1>3, Zenon DEF EncodeLast, LastLiteralsAt, Return
  <2>2. /\ enc'.anchor = enc.anchor /\ enc'.src = enc.src /\ enc'.size = enc.size /\ enc'.cap = enc.cap /\ enc'.fill = enc.fill
        /\ enc'.at = "return" /\ enc'.result = 0
    BY <1>1, <2>1 DEF CallTyped
  <2>. QED  BY <1>1, <2>1, <2>2, NothingWritten
<1>4. CASE ~full
  <2>1. block' = Append(block, s)
    BY <1>4, Zenon DEF EncodeLast, LastLiteralsAt
  <2>2. enc'.size = enc.size /\ enc'.at = "return"
    <3>1. \E a, o, h, r : enc' = [enc EXCEPT !.at = "return", !.anchor = a, !.op = o, !.high = h, !.result = r]
      <4>. DEFINE a == enc.anchor + n
                  h == Max({enc.high, end})
      <4>1. enc' = [enc EXCEPT !.at = "return", !.anchor = a, !.op = end, !.high = h, !.result = end]
        BY <1>1, <1>4 DEF EncodeLast, LastLiteralsAt, CallTyped
      <4>. HIDE DEF a, h, end
      <4>. QED  BY <4>1, Zenon
    <3>. QED  BY <1>1, <3>1 DEF CallTyped
  <2>3. block \in Seq(Sequence) /\ block' \in Seq(Sequence)
    <3>1. FastInv'
      BY EncodeLastKeeps
    <3>. QED  BY <1>1, <3>1 DEF FastInv, BlockOK
  <2>. HIDE DEF n
  <2>4. s.ml = 0 /\ s.lit = Bytes(mem, enc.anchor, n)
    BY DEF s, LastRun, Match
  <2>. HIDE DEF s
  <2>5. k \in Nat /\ Len(block') = k + 1 /\ block'[k + 1] = s /\ \A i \in 1 .. k : block'[i] = block[i]
    <3>. HIDE DEF Sequence
    <3>. QED  BY <2>1, <2>3
  <2>6. s \in Sequence
    <3>1. k + 1 \in 1 .. Len(block')
      BY <2>5
    <3>. HIDE DEF Sequence, k
    <3>. QED  BY <2>3, <2>5, <3>1
  <2>7. /\ \A i \in 1 .. k + 1 : Written(block', i) = Written(block, i)
        /\ Written(block', k + 1 + 1) = Written(block, k + 1) + Len(s.lit) + 0
    <3>1. Lengthened(block', block, s)
      BY <2>1 DEF Lengthened
    <3>. HIDE DEF Sequence
    <3>. QED  BY <2>3, <2>4, <2>6, <3>1, BlockAppended DEF k
  <2>8. Written(block, k + 1) \in Nat
    <3>1. k + 1 \in 1 .. Len(block) + 1
      BY <2>5
    <3>. QED  BY <2>3, <3>1, WrittenType
  <2>. HIDE DEF k
  <2>9. MatchesPlaced'
    <3>. SUFFICES ASSUME NEW i \in 1 .. k + 1  PROVE Placed(block', i, enc.size)
      BY <2>2, <2>5, Zenon DEF MatchesPlaced
    <3>1. CASE i = k + 1
      BY <2>4, <2>5, <3>1 DEF Placed
    <3>2. CASE i # k + 1
      <4>1. i \in 1 .. k
        BY <2>5, <3>2
      <4>2. Placed(block, i, enc.size) /\ block'[i] = block[i] /\ Written(block', i) = Written(block, i)
        BY <2>5, <2>7, <4>1 DEF EndOK, MatchesPlaced, k
      <4>. QED  BY <4>2 DEF Placed
    <3>. QED  BY <3>1, <3>2
  <2>10. TailLeft' /\ RoomLeft'
    BY <2>2 DEF TailLeft, RoomLeft
  <2>11. TailWritten'
    <3>. SUFFICES ASSUME NEW i \in 1 .. k + 1, block'[i].ml # 0
                  PROVE  /\ Written(block', i + 1) + 5 <= Written(block', k + 1 + 1)
                         /\ Written(block', i) + Len(block'[i].lit) + 12 <= Written(block', k + 1 + 1)
      <4>1. MFLimit = 12 /\ Len(block') + 1 = k + 1 + 1 /\ 1 .. Len(block') = 1 .. k + 1
        BY <1>1, <2>5, CallEnd
      <4>. QED  BY <1>t, <4>1, Zenon DEF TailWritten
    <3>1. i \in 1 .. k
      BY <2>4, <2>5
    <3>2. block # <<>> /\ i + 1 \in 1 .. k + 1 /\ i \in 1 .. k + 1
      BY <2>3, <2>5, <3>1 DEF k
    <3>3. /\ Written(block', i + 1) = Written(block, i + 1) /\ Written(block', i) = Written(block, i)
          /\ block'[i] = block[i]
      BY <2>5, <2>7, <3>1, <3>2
    <3>4. Written(block, i + 1) <= Written(block, k + 1) /\ Written(block, i + 1) \in Nat
      <4>1. i + 1 \in 1 .. Len(block) + 1
        BY <3>2 DEF k
      <4>. QED  BY <2>3, <4>1, WrittenWithin, WrittenType DEF k
    <3>5. Len(s.lit) = n /\ n >= 5 /\ n \in Nat
      <4>1. n >= 5 /\ n \in Int
        <5>1. n \in Int
          BY <1>t DEF n
        <5>. QED  BY <1>2, <3>2, <5>1
      <4>2. Len(Bytes(mem, enc.anchor, n)) = n
        <5>1. n \in Nat
          BY <4>1
        <5>. QED  BY <5>1 DEF Bytes
      <4>. QED  BY <2>4, <4>1, <4>2
    <3>6. Written(block, i) + Len(block[i].lit) + 12 <= Written(block, k + 1) + n
      <4>1. \A j \in 1 .. Len(block) : block[j].ml # 0 /\ Placed(block, j, enc.size)
        BY <1>1, <2>3 DEF BlockOK, EndOK, MatchesPlaced
      <4>2. Written(block, k + 1) + n = enc.size \/ block[Len(block)].ml + n >= 12
        BY <1>5, <3>2, Zenon DEF k
      <4>3. i \in 1 .. Len(block)
        BY <3>1 DEF k
      <4>. HIDE DEF Sequence
      <4>. QED  BY <1>t, <2>3, <3>5, <4>1, <4>2, <4>3, MatchBeforeTail DEF k
    <3>. QED  BY <2>7, <2>8, <3>3, <3>4, <3>5, <3>6
  <2>. QED  BY <2>9, <2>10, <2>11 DEF EndOK
<1>. QED  BY <1>3, <1>4

\* The compressor keeps the ends that the format demands.
LEMMA CompressEnds ==
  ASSUME FastInv, EndOK, Compress
  PROVE  EndOK'
BY EndAtSetUp, EndAtFindMatch, EndAtLiterals, EndAtMatch, EndAtNext, EndAtLast DEF Compress

-----------------------------------------------------------------------------
(***************************************************************************)
(* The programs, on the receiver's side.                                   *)
(***************************************************************************)
\* A program whose receiver gives the decoder what its documentation asks for:
\* room for the message, and the past in a place that the message does not
\* overwrite.  A receiver's ring is the window, 13 bytes and a message long:
\* lz4.h asks for 8, which is too few.  Only a call that fills its destination
\* may take nothing of a message, which then has no size to be received with.
Receivable(p) ==
    /\ p.decRing \in Nat /\ p.room \in Nat /\ p.target \in Nat /\ p.decRing >= p.max
    /\ \/ /\ p.layout = "simple"
          /\ \/ p.decoder = "safe" /\ p.room >= p.max
             \/ p.decoder \in {"exact", "partial", "fast"} /\ p.call = "fast"
       \/ /\ \/ p.layout = "dict" /\ SafeAt + Len(p.dict) <= DecAt
             \/ p.layout = "save" /\ SafeAt + Window <= DecAt /\ p.dict = <<>>
          /\ \/ p.decoder \in {"using", "using fast"}
             \/ p.decoder = "set" /\ p.room >= p.max
       \/ /\ \/ p.layout = "ring" /\ p.decRing >= Window + 13 + p.max
             \/ p.layout = "follow" /\ p.decRing >= Len(p.messages) * p.max
          /\ p.dict = <<>>
          /\ p.decoder = "fast continue" \/ (p.decoder = "continue" /\ p.room >= p.max)

Ringed == prog.layout \in {"ring", "follow"}

\* How much of the past matters.
Recent == Min({Len(user.past), Window})

\* The byte that was said k bytes before the end of the past.
Past(k) == user.past[Len(user.past) - k + 1]

\* The stream that the receiver keeps between the calls: the prefix, and what
\* was the prefix before it.
PrefixStart == streamDecode.prefixEnd - streamDecode.prefixSize
ExternalEnd == streamDecode.externalDict + streamDecode.extDictSize
HeardAt(k) == IF k <= streamDecode.prefixSize THEN streamDecode.prefixEnd - k
              ELSE ExternalEnd - (k - streamDecode.prefixSize)

StreamDecodeTyped ==
    /\ DOMAIN streamDecode = {"externalDict", "extDictSize", "prefixEnd", "prefixSize"}
    /\ streamDecode.externalDict \in Nat /\ streamDecode.extDictSize \in Nat /\ streamDecode.prefixEnd \in Nat
    /\ streamDecode.prefixSize \in Nat

StreamDecodeOK ==
    /\ StreamDecodeTyped
    /\ streamDecode.prefixSize # 0 => PrefixStart = DecAt
    /\ streamDecode.prefixSize = 0 => streamDecode.prefixEnd = 0
    /\ streamDecode.extDictSize = 0 \/ ExternalEnd - DecAt >= Window + 13
    /\ streamDecode.prefixSize + streamDecode.extDictSize >= Recent

\* The stream remembers the past, and the next message extends the prefix or
\* starts over, far enough from what becomes the dictionary.
RingOK ==
    /\ StreamDecodeOK
    /\ \A k \in 1 .. Recent : k <= MaxDistance => HeardAt(k) \in 1 .. OutEnd /\ out[HeardAt(k)] = Past(k)
    /\ \/ Destination = streamDecode.prefixEnd
       \/ /\ Destination = DecAt /\ (streamDecode.prefixSize = 0 \/ streamDecode.prefixSize >= Window + 13)
          /\ Recent <= streamDecode.prefixSize

\* While a call runs, the stream is what the call was made of.
RingCall ==
    /\ StreamDecodeTyped /\ dec.ext /\ ~dec.partial /\ dec.low = DecAt /\ dec.then \in {"grow", "jump"}
    /\ dec.then = "grow" => streamDecode.prefixSize = dec.dst - DecAt
    /\ dec.then = "jump" => dec.dst = DecAt
    /\ streamDecode.externalDict = dec.dictStart /\ streamDecode.extDictSize = dec.dictSize
    /\ dec.dictSize = 0 \/ DecDictEnd - DecAt >= Window + 13
    /\ dec.dst - DecAt + dec.dictSize >= Recent

\* What was put aside is where the decoder finds it.
SafeOK ==
    /\ prog.layout = "dict" => \A j \in 1 .. Len(prog.dict) : out[SafeAt + j - 1] = prog.dict[j]
    /\ prog.layout = "save" /\ user.sent = 0 => user.past = <<>>
    /\ prog.layout = "save" /\ user.at \in {"saved", "compress", "compressing", "arrived"} =>
         \A k \in 1 .. Recent : out[SafeAt + Recent - k] = Past(k)

PlaceOK ==
    /\ user.dec \in Nat
    /\ user.at \in {"arrived", "decompressing"} => user.sent < Len(prog.messages)
    /\ user.at # "stopped" => CASE prog.layout = "ring" -> user.dec = 0 \/ user.dec < prog.decRing - prog.max
                                [] prog.layout = "follow" -> user.dec <= user.sent * prog.max
                                [] OTHER -> user.dec = 0

ReceiverInv ==
    /\ DOMAIN out = 1 .. OutEnd
    /\ user.at = "compressing" => EndOK /\ (enc.fill => prog.call = "destSize")
    /\ user.at \in {"arrived", "decompressing"} => BlockArrives
    /\ user.at = "decompressing" => DecodeOK /\ (Ringed => RingCall)
    /\ user.at # "decompressing" => dec.at = "idle"
    /\ PlaceOK /\ SafeOK
    /\ Ringed /\ user.at \notin {"decompressing", "stopped"} => RingOK

\* The inductive invariant.
ReceiveInv == FastProgram(prog) /\ Receivable(prog) => ReceiverInv

\* A step of the sender.
LEMMA ReceiverRests ==
  ASSUME ReceiverInv, prog' = prog, out' = out, streamDecode' = streamDecode, dec' = dec,
         user'.past = user.past, user'.sent = user.sent, user'.dec = user.dec,
         user.at \notin {"decompressing", "stopped"}, user'.at # "decompressing",
         user'.at = "compressing" => EndOK' /\ (enc'.fill => prog.call = "destSize"),
         user'.at = "arrived" => BlockArrives' /\ user.sent < Len(prog.messages),
         prog.layout = "save" /\ user'.at \in {"saved", "compress", "compressing", "arrived"} =>
             user.at \in {"saved", "compress", "compressing", "arrived"} \/ user.sent = 0
  PROVE  ReceiverInv'
<1>1. /\ OutEnd' = OutEnd /\ Ringed' = Ringed /\ Recent' = Recent /\ Destination' = Destination /\ PrefixStart' = PrefixStart
      /\ ExternalEnd' = ExternalEnd
  BY DEF OutEnd, Ringed, Recent, Destination, PrefixStart, ExternalEnd
<1>2. \A k : Past(k)' = Past(k) /\ HeardAt(k)' = HeardAt(k)
  BY <1>1 DEF Past, HeardAt
<1>3. DOMAIN out' = 1 .. OutEnd'
  BY <1>1 DEF ReceiverInv
<1>4. PlaceOK'
  BY DEF ReceiverInv, PlaceOK
<1>5. SafeOK'
  <2>1. prog.layout = "dict" => \A j \in 1 .. Len(prog.dict) : out[SafeAt + j - 1] = prog.dict[j]
    BY DEF ReceiverInv, SafeOK
  <2>2. prog.layout = "save" /\ user.sent = 0 => user.past = <<>>
    BY DEF ReceiverInv, SafeOK
  <2>3. ASSUME prog.layout = "save", user'.at \in {"saved", "compress", "compressing", "arrived"}, NEW k \in 1 .. Recent
        PROVE  out[SafeAt + Recent - k] = Past(k)
    <3>1. user.sent # 0
      <4>. SUFFICES ASSUME user.sent = 0  PROVE FALSE
        OBVIOUS
      <4>1. user.past = <<>>
        BY <2>2, <2>3
      <4>2. Recent = 0
        <5>1. Len(user.past) = 0
          BY <4>1
        <5>. DEFINE l == Len(user.past)
        <5>2. l = 0 /\ Window \in Nat
          BY <5>1, FastAssumption
        <5>. HIDE DEF l
        <5>3. Min({l, Window}) = IF l <= Window THEN l ELSE Window
          BY <5>2, MinOfTwo
        <5>. QED  BY <5>2, <5>3 DEF Recent, l
      <4>. QED  BY <2>3, <4>2
    <3>2. user.at \in {"saved", "compress", "compressing", "arrived"}
      BY <2>3, <3>1
    <3>. QED  BY <2>3, <3>2 DEF ReceiverInv, SafeOK
  <2>. QED  BY <1>1, <1>2, <2>1, <2>2, <2>3 DEF SafeOK
<1>6. Ringed' => RingOK'
  <2>1. Ringed => RingOK
    BY DEF ReceiverInv
  <2>. QED  BY <1>1, <1>2, <2>1 DEF RingOK, StreamDecodeOK, StreamDecodeTyped
<1>7. dec'.at = "idle"
  BY DEF ReceiverInv
<1>. QED  BY <1>3, <1>4, <1>5, <1>6, <1>7 DEF ReceiverInv

\* Nothing changes.
LEMMA ReceiverStays ==
  ASSUME ReceiverInv, prog' = prog, out' = out, streamDecode' = streamDecode, dec' = dec, user' = user,
         enc' = enc, block' = block
  PROVE  ReceiverInv'
<1>1. /\ OutEnd' = OutEnd /\ Ringed' = Ringed /\ Recent' = Recent /\ Destination' = Destination /\ PrefixStart' = PrefixStart
      /\ ExternalEnd' = ExternalEnd /\ IEnd' = IEnd /\ OEnd' = OEnd /\ DecDictEnd' = DecDictEnd /\ Held' = Held /\ Before' = Before
      /\ BlockSize(block)' = BlockSize(block) /\ DecodedSize' = DecodedSize
  BY DEF OutEnd, Ringed, Recent, Destination, PrefixStart, ExternalEnd, IEnd, OEnd, DecDictEnd, Held, Before, Continuing,
         BlockSize, DecodedSize
<1>2. /\ \A k : Past(k)' = Past(k) /\ HeardAt(k)' = HeardAt(k) /\ Where(k)' = Where(k)
      /\ \A i : Written(block, i)' = Written(block, i) /\ Sized(block, i)' = Sized(block, i)
  BY <1>1 DEF Past, HeardAt, Where, Written, Sized, Lengths, Sizes
<1>3. EndOK => EndOK'
  <2>1. \A i, n : Placed(block, i, n) => Placed(block', i, n)
    BY DEF Placed, Written, Lengths
  <2>. QED  BY <1>1, <1>2, <2>1 DEF EndOK, MatchesPlaced, TailLeft, RoomLeft, TailWritten
<1>4. BlockArrives => BlockArrives'
  <2>1. \A i : SequenceArrives(i)' <=> SequenceArrives(i)
    BY <1>1 DEF SequenceArrives, Written, Lengths
  <2>. QED  BY <1>2, <2>1 DEF BlockArrives
<1>5. DecodeRuns => DecodeRuns'
  BY <1>1, <1>4 DEF DecodeRuns, DecodeTyped, DecodeCall, Roomy
<1>6. DecodeOK => DecodeOK'
  <2>1. \A w : (PastIn(out, w) => PastIn(out, w)') /\ (DecodedIn(out, w) => DecodedIn(out, w)')
    BY <1>1, <1>2 DEF PastIn, DecodedIn
  <2>2. DecodingOK => DecodingOK'
    BY <1>2, <2>1 DEF DecodingOK, PastIn, DecodedIn
  <2>3. DecodeDone => DecodeDone'
    BY <1>1, <2>1 DEF DecodeDone
  <2>. QED  BY <1>5, <2>2, <2>3 DEF DecodeOK
<1>7. RingCall => RingCall'
  BY <1>1 DEF RingCall, StreamDecodeTyped
<1>8. RingOK => RingOK'
  BY <1>1, <1>2 DEF RingOK, StreamDecodeOK, StreamDecodeTyped
<1>9. PlaceOK => PlaceOK'
  BY DEF PlaceOK
<1>10. SafeOK => SafeOK'
  BY <1>1, <1>2 DEF SafeOK
<1>. QED  BY <1>1, <1>3, <1>4, <1>6, <1>7, <1>8, <1>9, <1>10 DEF ReceiverInv

\* The steps of the sender before the block is on its way.
LEMMA WriteRests ==
  ASSUME FastProgram(prog), ProgramInv, ReceiverInv, Write
  PROVE  ReceiverInv'
<1>1. /\ user.at \in {"write", "saved"} /\ (prog.layout = "save" => user.at = "saved" \/ user.sent = 0) /\ prog' = prog
      /\ out' = out /\ streamDecode' = streamDecode /\ dec' = dec
  <2>1. user.sent \in Nat
    BY DEF ProgramInv, UserOK
  <2>. QED  BY <2>1 DEF Write, decodeVars
<1>2. PICK m : user' = [user EXCEPT !.at = IF prog.layout = "dict" THEN "load" ELSE "compress", !.msg = m]
  BY DEF Write
<1>3. user'.past = user.past /\ user'.sent = user.sent /\ user'.dec = user.dec /\ user'.at \in {"load", "compress"}
  BY <1>2 DEF ProgramInv, UserOK
<1>. QED  BY <1>1, <1>3, ReceiverRests

\* The steps of the sender leave the receiver alone.
LEMMA LoadRests ==
  ASSUME FastProgram(prog), ProgramInv, ReceiverInv, LoadDictionary
  PROVE  ReceiverInv'
<1>1. /\ user.at = "load" /\ prog' = prog /\ out' = out /\ streamDecode' = streamDecode /\ dec' = dec
      /\ user' = [user EXCEPT !.at = "compress"] /\ prog.layout = "dict"
  BY DEF LoadDictionary, decodeVars, ProgramInv, StageOK
<1>2. user'.past = user.past /\ user'.sent = user.sent /\ user'.dec = user.dec /\ user'.at = "compress"
  BY <1>1 DEF ProgramInv, UserOK
<1>. QED  BY <1>1, <1>2, ReceiverRests

LEMMA BeginRests ==
  ASSUME FastProgram(prog), ProgramInv, ReceiverInv, Begin
  PROVE  ReceiverInv'
<1>1. /\ user.at = "compress" /\ prog' = prog /\ out' = out /\ streamDecode' = streamDecode /\ dec' = dec
      /\ user' = [user EXCEPT !.at = "compressing"]
  BY DEF Begin, decodeVars
<1>2. user'.past = user.past /\ user'.sent = user.sent /\ user'.dec = user.dec /\ user'.at = "compressing"
  BY <1>1 DEF ProgramInv, UserOK
<1>3. block' = <<>> /\ enc'.at = "setup" /\ (enc'.fill => prog.call = "destSize")
  <2>. DEFINE n == Len(user.msg)
              cap == CapacityFor(n)
  <2>1. CASE prog.call = "fast"
    <3>1. CompressFast(Source, n, cap, prog.acc)
      BY <2>1, Zenon DEF Begin
    <3>. QED  BY <3>1 DEF CompressFast, Call
  <2>2. CASE prog.call = "destSize"
    <3>1. CompressDestSize(Source, n, cap)
      <4>1. prog.call # "fast"
        BY <2>2
      <4>. QED  BY <2>2, <4>1 DEF Begin
    <3>. QED  BY <2>2, <3>1 DEF CompressDestSize, CompressFast, Call
  <2>3. CASE prog.call = "continue"
    <3>1. CompressContinue(Source, n, cap, prog.acc)
      <4>1. prog.call # "fast" /\ prog.call # "destSize"
        BY <2>3
      <4>. QED  BY <2>3, <4>1 DEF Begin
    <3>. QED  BY <3>1 DEF CompressContinue, ContinueStream, Call
  <2>. QED  BY <2>1, <2>2, <2>3 DEF FastProgram
<1>4. EndOK'
  <2>1. Len(block') = 0 /\ block' = <<>> /\ enc'.at # "return"
    BY <1>3
  <2>. QED  BY <2>1 DEF EndOK, MatchesPlaced, TailLeft, RoomLeft, TailWritten
<1>. QED  BY <1>1, <1>2, <1>3, <1>4, ReceiverRests

LEMMA StepRests ==
  ASSUME FastProgram(prog), ProgramInv, ReceiverInv, Step
  PROVE  ReceiverInv'
<1>1. Compress /\ user' = user /\ prog' = prog /\ out' = out /\ streamDecode' = streamDecode /\ dec' = dec
  BY DEF Step, decodeVars
<1>2. enc.at # "idle"
  BY <1>1 DEF Compress, SetUp, FindMatch, EncodeLiterals, EncodeMatch, TestNext, EncodeLast, LastLiteralsAt
<1>3. user.at = "compressing" /\ FastInv
  BY <1>2 DEF ProgramInv, Quiet, CallInProgram
<1>4. SameCall
  BY <1>1, <1>3, CompressStays DEF FastInv
<1>5. EndOK'
  BY <1>1, <1>3, CompressEnds DEF ReceiverInv
<1>6. enc'.fill => prog.call = "destSize"
  BY <1>3, <1>4 DEF SameCall, ReceiverInv
<1>. QED  BY <1>1, <1>3, <1>5, <1>6, ReceiverRests

\* What a call has made is a block that says the message, as far as it goes.
LEMMA BlockIsSent ==
  ASSUME FastProgram(prog), ProgramInv, ReceiverInv, user.at = "compressing", enc.at = "return", enc.result > 0,
         NEW i \in 1 .. Len(block), block' = block, prog' = prog, user'.past = user.past,
         user'.msg = SubSeq(user.msg, 1, enc.anchor - enc.src)
  PROVE  SequenceArrives(i)' /\ Len(user'.msg) = Written(block, Len(block) + 1) /\ block # <<>> /\ Len(user'.msg) \in Nat
         /\ Len(user'.msg) <= enc.size /\ (enc.fill \/ Len(user'.msg) = enc.size)
<1>. DEFINE s == block[i]
            u == Len(s.lit)
            w == Written(block, i)
            p == w + u
            k == Len(user.past)
            n == Len(user'.msg)
            m == Len(user.msg)
            ml == s.ml
            off == s.off
            said == user.past \o user.msg
            saidNow == user.past \o user'.msg
            all == Written(block, Len(block) + 1)
<1>1. FastInv /\ CallOK /\ PositionOK /\ BlockOK /\ EndOK /\ enc.size = m /\ (enc.fill => prog.call = "destSize")
  BY DEF ProgramInv, CallInProgram, FastInv, ReceiverInv
<1>2. /\ block \in Seq(Sequence) /\ enc.anchor = enc.src + all /\ (ml = 0 <=> i = Len(block)) /\ block # <<>>
      /\ Faithful(Text, s, enc.src + w)
  <2>1. i \in DOMAIN block
    <3>1. block \in Seq(Sequence)
      BY <1>1 DEF BlockOK
    <3>. HIDE DEF Sequence
    <3>. QED  BY <3>1
  <2>. QED  BY <1>1, <2>1 DEF BlockOK
<1>3. s \in Sequence /\ Len(block) \in Nat
  <2>. HIDE DEF Sequence
  <2>. QED  BY <1>2
<1>t. u \in Nat /\ ml \in Nat /\ off \in Nat /\ w \in Nat /\ all \in Nat /\ k \in Nat /\ m \in Nat
  <2>1. s.lit \in Seq(Nat) /\ ml \in Nat /\ off \in Nat
    BY <1>3 DEF Sequence
  <2>2. w \in Nat /\ all \in Nat
    <3>1. i \in 1 .. Len(block) + 1 /\ Len(block) + 1 \in 1 .. Len(block) + 1
      BY <1>3
    <3>. QED  BY <1>2, <3>1, WrittenType
  <2>3. k \in Nat /\ m \in Nat
    BY UserTypes DEF ProgramInv
  <2>. QED  BY <2>1, <2>2, <2>3
<1>e. /\ enc.src \in Nat /\ enc.anchor \in Int /\ enc.size \in Nat /\ IEnd = enc.src + enc.size /\ enc.anchor <= IEnd
      /\ MFLimit = 12 /\ LastLiterals = 5 /\ MinMatch = 4 /\ (~enc.fill => enc.anchor = IEnd)
  BY <1>1, CallEnd DEF PositionOK
<1>4. n = all /\ all <= m /\ (~enc.fill => all = m)
  <2>1. all <= m /\ (~enc.fill => all = m) /\ enc.anchor - enc.src = all
    <3>. HIDE DEF all, m
    <3>. QED  BY <1>1, <1>2, <1>t, <1>e
  <2>2. user'.msg = SubSeq(user.msg, 1, all) /\ user.msg \in Seq(Nat)
    BY <2>1 DEF ProgramInv, UserOK
  <2>3. Len(SubSeq(user.msg, 1, all)) = all
    <3>. DEFINE q == user.msg
    <3>1. q \in Seq(Nat) /\ all \in Nat /\ all <= Len(q)
      BY <1>t, <2>1, <2>2
    <3>. HIDE DEF q, all
    <3>2. Len(SubSeq(q, 1, all)) = all
      BY <3>1
    <3>. QED  BY <3>2 DEF q
  <2>. QED  BY <2>1, <2>2, <2>3
<1>5. \A j \in 1 .. k + n : saidNow[j] = said[j]
  <2>. DEFINE q == user.msg
              r == user.past
  <2>1. q \in Seq(Nat) /\ r \in Seq(Nat) /\ n = all /\ all \in Nat /\ all <= Len(q) /\ user'.msg = SubSeq(q, 1, all)
    <3>1. enc.anchor - enc.src = all
      BY <1>2, <1>t, <1>e
    <3>. QED  BY <1>t, <1>4, <3>1 DEF ProgramInv, UserOK
  <2>. HIDE DEF q, all
  <2>2. \A j \in 1 .. Len(r) + all : (r \o SubSeq(q, 1, all))[j] = (r \o q)[j]
    <3>. HIDE DEF r
    <3>. DEFINE c == SubSeq(q, 1, all)
    <3>1. c \in Seq(Nat) /\ Len(c) = all /\ \A j \in 1 .. all : c[j] = q[j]
      BY <2>1
    <3>. HIDE DEF c
    <3>2. r \in Seq(Nat)
      BY <2>1 DEF r
    <3>3. \A j \in 1 .. Len(r) + all : (r \o c)[j] = (r \o q)[j]
      BY <2>1, <3>1, <3>2
    <3>. QED  BY <3>3 DEF c
  <2>. QED  BY <2>1, <2>2, Zenon DEF q
<1>6. Written(block, i + 1) = p + ml /\ p + ml <= all
  <2>1. Written(block, i + 1) = w + u + ml
    BY <1>2, WrittenNext
  <2>2. i + 1 \in 1 .. Len(block) + 1
    BY <1>3
  <2>3. Written(block, i + 1) <= all
    BY <1>2, <2>2, WrittenWithin
  <2>. QED  BY <1>t, <2>1, <2>3
<1>7. StartOf(block, i) = k + w
  BY Zenon DEF StartOf, Written, Total
<1>8. /\ Bytes(said, k + w + 1, u) = s.lit
      /\ ~IsLast(s) => /\ off \in 1 .. Min({MaxDistance, k + w + u})
                       /\ \A j \in 1 .. ml : said[k + w + u + j] = said[k + w + u + j - off]
  BY <1>7, SequenceIsHistory, Zenon
<1>9. ml # 0 => /\ ml >= 4 /\ p + ml + 5 <= n /\ p + 12 <= n
  <2>. SUFFICES ASSUME ml # 0  PROVE ml >= 4 /\ p + ml + 5 <= n /\ p + 12 <= n
    OBVIOUS
  <2>1. ml >= 4 /\ p + 12 <= enc.size
    <3>1. Placed(block, i, enc.size)
      BY <1>1 DEF EndOK, MatchesPlaced
    <3>. QED  BY <1>e, <3>1 DEF Placed
  <2>2. Written(block, i + 1) + 5 <= all /\ p + 12 <= all
    BY <1>1, <1>e DEF EndOK, TailWritten
  <2>. HIDE DEF p, n, all, ml, m
  <2>5. p \in Nat
    BY <1>t DEF p
  <2>. QED  BY <1>1, <1>t, <1>4, <1>6, <2>1, <2>2, <2>5
<1>10. ml # 0 => off \in 1 .. MaxDistance /\ off <= p + Before
  <2>. SUFFICES ASSUME ml # 0  PROVE off \in 1 .. MaxDistance /\ off <= p + Before
    OBVIOUS
  <2>1. off \in 1 .. MaxDistance /\ ((enc.src + w) + u) - off >= Text.low
    BY <1>2, Zenon DEF Faithful
  <2>2. Text.low = enc.src - stream.dictSize /\ stream.dictSize \in Nat
    BY <1>1 DEF Text, CallOK, StreamRecord
  <2>3. stream.dictSize <= Before
    <3>1. CASE Continuing
      BY <3>1 DEF ProgramInv, HistoryOK, Remembers, Before
    <3>2. CASE ~Continuing
      BY <3>2 DEF ProgramInv, DictionaryOK, Before
    <3>. QED  BY <3>1, <3>2
  <2>4. Before \in Int
    BY <1>t DEF Before
  <2>. HIDE DEF off
  <2>5. /\ off \in Nat /\ w \in Nat /\ u \in Nat /\ enc.src \in Nat
    BY <1>t, <1>e
  <2>6. p = w + u
    OBVIOUS
  <2>. HIDE DEF p, w, u
  <2>7. enc.src + w + u - off >= enc.src - stream.dictSize
    BY <2>1, <2>2, <2>5
  <2>8. off <= w + u + stream.dictSize
    BY <2>2, <2>5, <2>7
  <2>9. off <= p + Before
    BY <2>2, <2>3, <2>4, <2>5, <2>6, <2>8
  <2>. QED  BY <2>1, <2>9
<1>. HIDE DEF s, u, w, p, k, n, m, ml, off, said, saidNow, all
<1>11. ASSUME NEW j \in 1 .. u  PROVE s.lit[j] = saidNow[k + w + j]
  <2>1. Bytes(said, k + w + 1, u)[j] = said[k + w + 1 + j - 1]
    BY DEF Bytes
  <2>2. k + w + 1 + j - 1 = k + w + j /\ k + w + j \in 1 .. k + n
    <3>1. j \in Nat /\ j >= 1 /\ j <= u /\ w + u <= n
      BY <1>t, <1>4, <1>6 DEF p
    <3>. QED  BY <1>t, <1>4, <3>1
  <2>3. saidNow[k + w + j] = said[k + w + j]
    BY <1>5, <2>2
  <2>. QED  BY <1>8, <2>1, <2>2, <2>3
<1>12. ASSUME ml # 0, NEW j \in 1 .. ml  PROVE saidNow[k + p + j] = saidNow[k + p + j - off]
  <2>. DEFINE a == k + p + j
              b == k + p + j - off
  <2>1. said[a] = said[b]
    <3>1. ~IsLast(s)
      BY <1>12 DEF IsLast, ml
    <3>2. said[k + w + u + j] = said[k + w + u + j - off]
      BY <1>8, <3>1
    <3>3. k + w + u + j = a /\ k + w + u + j - off = b
      BY <1>t DEF p
    <3>. QED  BY <3>2, <3>3
  <2>2. a \in 1 .. k + n /\ b \in 1 .. k + n
    <3>1. p \in Nat /\ p + ml <= n
      BY <1>t, <1>4, <1>6 DEF p
    <3>2. off \in 1 .. MaxDistance /\ off <= p + Before /\ Before <= k /\ Before \in Nat
      <4>1. Before <= k /\ Before \in Nat
        BY <1>t DEF Before, k
      <4>. QED  BY <1>10, <1>12, <4>1
    <3>. QED  BY <1>t, <1>4, <3>1, <3>2
  <2>. HIDE DEF a, b
  <2>3. saidNow[a] = saidNow[b]
    BY <1>5, <2>1, <2>2
  <2>. QED  BY <2>3 DEF a, b
<1>13. /\ Written(block, i)' = w /\ Before' = Before
       /\ Len(block)' = Len(block)
  BY DEF Written, Lengths, Before, Continuing, w
<1>14. /\ \A j \in 1 .. u : s.lit[j] = saidNow[k + w + j]
       /\ ml = 0 <=> i = Len(block)
       /\ ml # 0 => /\ ml >= MinMatch /\ p + ml + LastLiterals <= n /\ p + MFLimit <= n
                    /\ off \in 1 .. MaxDistance /\ off <= p + Before
                    /\ \A j \in 1 .. ml : saidNow[k + p + j] = saidNow[k + p + j - off]
  BY <1>2, <1>e, <1>9, <1>10, <1>11, <1>12
<1>15. SequenceArrives(i)'
  <2>1. block'[i] = s /\ Len(user'.msg) = n /\ Len(user'.past) = k
        /\ user'.past \o user'.msg = saidNow
    BY DEF s, n, k, saidNow
  <2>. QED  BY <1>13, <1>14, <2>1 DEF SequenceArrives, p, u, ml, off
<1>. QED  BY <1>1, <1>2, <1>4, <1>15, <1>t DEF n, all

-----------------------------------------------------------------------------
(***************************************************************************)
(* The block arrives.                                                      *)
(***************************************************************************)
\* A call returns: nothing came of it, or the block arrives.
LEMMA SentRests ==
  ASSUME FastProgram(prog), ProgramInv, ReceiverInv, Sent
  PROVE  ReceiverInv'
<1>. DEFINE consumed == enc.anchor - enc.src
            said == SubSeq(user.msg, 1, consumed)
<1>1. /\ user.at = "compressing" /\ enc.at = "return" /\ prog' = prog /\ out' = out /\ streamDecode' = streamDecode /\ dec' = dec
      /\ block' = block
  BY DEF Sent, FastReturn, decodeVars
<1>2. \E enter : user' = IF enc.result = 0 THEN [user EXCEPT !.at = "stopped"]
                         ELSE [user EXCEPT !.at = "arrived", !.msg = said, !.enc = enter]
  <2>1. UserOK
    BY DEF ProgramInv
  <2>. QED  BY <2>1 DEF Sent, UserOK
<1>3. PICK enter : user' = IF enc.result = 0 THEN [user EXCEPT !.at = "stopped"]
                           ELSE [user EXCEPT !.at = "arrived", !.msg = said, !.enc = enter]
  BY <1>2
<1>4. user'.past = user.past /\ user'.sent = user.sent /\ user'.dec = user.dec /\ user'.at \in {"stopped", "arrived"}
      /\ (user'.at = "arrived" => enc.result # 0 /\ user'.msg = said)
  BY <1>3 DEF ProgramInv, UserOK
<1>5. ASSUME user'.at = "arrived"  PROVE BlockArrives' /\ user.sent < Len(prog.messages)
  <2>1. FastInv /\ enc.size = Len(user.msg) /\ (enc.fill => prog.call = "destSize") /\ enc.result > 0
    <3>1. enc.result \in Nat
      BY <1>1 DEF ProgramInv, CallInProgram, FastInv, CallOK, CallTyped
    <3>. QED  BY <1>1, <1>4, <1>5, <3>1 DEF ProgramInv, CallInProgram, ReceiverInv
  <2>2. block \in Seq(Sequence) /\ block # <<>>
    BY <1>1, <2>1 DEF FastInv, BlockOK
  <2>3. \A i \in 1 .. Len(block) :
           /\ SequenceArrives(i)' /\ Len(user'.msg) = Written(block, Len(block) + 1) /\ Len(user'.msg) \in Nat
           /\ Len(user'.msg) <= enc.size /\ (enc.fill \/ Len(user'.msg) = enc.size)
    BY <1>1, <1>4, <1>5, <2>1, BlockIsSent
  <2>4. 1 \in 1 .. Len(block)
    <3>. HIDE DEF Sequence
    <3>. QED  BY <2>2
  <2>5. /\ Len(user'.msg) = Written(block, Len(block) + 1) /\ Len(user'.msg) \in Nat
        /\ Len(user'.msg) <= enc.size /\ (enc.fill \/ Len(user'.msg) = enc.size)
    BY <2>3, <2>4
  <2>6. Len(user.msg) \in 1 .. prog.max /\ prog.max \in Nat /\ user.sent < Len(prog.messages)
    BY <1>1, ProgramTypes DEF ProgramInv, MessageOK
  <2>7. /\ prog.call # "destSize" => Len(user'.msg) >= 1
        /\ Len(user'.msg) <= prog.max /\ prog.max >= 1
    <3>. DEFINE n == Len(user'.msg)
                m == Len(user.msg)
    <3>1. n \in Nat /\ n <= m /\ (enc.fill \/ n = m) /\ m \in 1 .. prog.max
      BY <2>1, <2>5, <2>6
    <3>. HIDE DEF n, m
    <3>2. (prog.call # "destSize" => n >= 1) /\ n <= prog.max /\ prog.max >= 1
      BY <2>1, <2>6, <3>1
    <3>. QED  BY <3>2 DEF n
  <2>8. Written(block, Len(block) + 1)' = Written(block, Len(block) + 1)
    BY <1>1 DEF Written, Lengths
  <2>. QED  BY <1>1, <2>2, <2>3, <2>5, <2>6, <2>7, <2>8 DEF BlockArrives
<1>. QED  BY <1>1, <1>4, <1>5, ReceiverRests

-----------------------------------------------------------------------------
\* The parameters of a program with a receiver.
LEMMA ReceiverTypes ==
  ASSUME FastProgram(prog), Receivable(prog)
  PROVE  /\ prog.decRing \in Nat /\ prog.room \in Nat /\ prog.target \in Nat /\ prog.max \in Nat /\ prog.decRing >= prog.max
         /\ DecAt \in Nat /\ DecAt >= 1 /\ SafeAt \in Nat /\ SafeAt >= 1 /\ OutEnd = DecAt + prog.decRing /\ OutEnd \in Nat
         /\ Window \in Nat /\ Window >= 12 /\ MaxDistance = Window - 1
<1>1. prog.decRing \in Nat /\ prog.room \in Nat /\ prog.target \in Nat /\ prog.decRing >= prog.max
  BY DEF Receivable
<1>2. prog.max \in Nat /\ DecAt \in Nat /\ DecAt >= 1 /\ SafeAt \in Nat /\ SafeAt >= 1
  BY ProgramTypes, StreamAssumption
<1>3. Window \in Nat /\ Window >= 12 /\ MaxDistance = Window - 1
  BY FastAssumption DEF MFLimit, WildCopyLength, MinMatch, MaxDistance
<1>. QED  BY <1>1, <1>2, <1>3 DEF OutEnd

\* The past that matters is as long as the window.
LEMMA RecentIs ==
  ASSUME user.past \in Seq(Nat)
  PROVE  Recent \in Nat /\ Recent = (IF Len(user.past) <= Window THEN Len(user.past) ELSE Window) /\ Recent <= Len(user.past)
         /\ Recent <= Window
<1>. DEFINE l == Len(user.past)
<1>1. l \in Nat /\ Window \in Nat
  BY FastAssumption
<1>. HIDE DEF l
<1>2. Min({l, Window}) = IF l <= Window THEN l ELSE Window
  BY <1>1, MinOfTwo
<1>3. Recent = Min({l, Window})
  BY DEF Recent, l
<1>. QED  BY <1>1, <1>2, <1>3 DEF l

\* A part of the end of a sequence, counted from the end.
LEMMA PartFromEnd ==
  ASSUME NEW s \in Seq(Nat), NEW r \in Nat, r <= Len(s)
  PROVE  \A k \in 1 .. r : SubSeq(s, Len(s) - r + 1, Len(s))[r - k + 1] = s[Len(s) - k + 1]
<1>. DEFINE l == Len(s)
            f == l - r + 1
            u == SubSeq(s, f, l)
<1>1. l \in Nat /\ r <= l /\ f \in Int
  OBVIOUS
<1>2. \A i \in 1 .. l - f + 1 : u[i] = s[f + i - 1]
  <2>1. f >= 1 /\ l <= Len(s)
    BY <1>1
  <2>. HIDE DEF f
  <2>. QED  BY <1>1, <2>1
<1>. HIDE DEF u, l
<1>3. ASSUME NEW k \in 1 .. r  PROVE u[r - k + 1] = s[l - k + 1]
  <2>. DEFINE j == r - k + 1
  <2>1. j \in 1 .. l - f + 1 /\ f + j - 1 = l - k + 1
    BY <1>1
  <2>. HIDE DEF j, f
  <2>2. u[j] = s[f + j - 1]
    BY <1>2, <2>1
  <2>. QED  BY <2>1, <2>2 DEF j
<1>. QED  BY <1>3 DEF u, l

\* The end of what was said is put aside.
LEMMA LastOfIs ==
  ASSUME NEW s \in Seq(Nat), NEW n \in Nat, NEW r \in Nat, r = (IF Len(s) <= n THEN Len(s) ELSE n)
  PROVE  /\ LastOf(s, n) \in Seq(Nat) /\ Len(LastOf(s, n)) = r
         /\ \A k \in 1 .. r : LastOf(s, n)[r - k + 1] = s[Len(s) - k + 1]
<1>. DEFINE l == Len(s)
            x == l - n + 1
            from == Max({1, x})
            t == SubSeq(s, from, l)
<1>1. LastOf(s, n) = t
  BY DEF LastOf
<1>2. l \in Nat /\ x \in Int /\ r <= l
  OBVIOUS
<1>3. from = l - r + 1
  <2>. DEFINE f == Max({1, x})
  <2>1. x = l - n + 1 /\ r = (IF l <= n THEN l ELSE n)
    OBVIOUS
  <2>. HIDE DEF x, l
  <2>2. f \in {1, x} /\ f >= 1 /\ f >= x
    BY <1>2, MaxOfTwo
  <2>. HIDE DEF f
  <2>3. f = l - r + 1
    BY <1>2, <2>1, <2>2
  <2>. QED  BY <2>3 DEF f
<1>. DEFINE f == l - r + 1
            u == SubSeq(s, f, l)
<1>4. t = u
  BY <1>3
<1>. HIDE DEF t
<1>5. u \in Seq(Nat) /\ Len(u) = r
  <2>1. f \in Int /\ f >= 1 /\ l <= Len(s)
    BY <1>2
  <2>2. u \in Seq(Nat)
    BY <1>2, <2>1
  <2>3. Len(u) = r
    <3>1. Len(u) = IF f <= l THEN l - f + 1 ELSE 0
      BY <1>2, <2>1
    <3>. HIDE DEF u, l
    <3>. QED  BY <1>2, <3>1
  <2>. QED  BY <2>2, <2>3
<1>. HIDE DEF l, f, u
<1>6. \A k \in 1 .. r : u[r - k + 1] = s[l - k + 1]
  BY <1>2, PartFromEnd DEF f, l, u
<1>. QED  BY <1>1, <1>4, <1>5, <1>6 DEF l

\* LZ4_saveDict on the sender's side, and the receiver's copy of the past.
LEMMA SaveRests ==
  ASSUME FastProgram(prog), Receivable(prog), ProgramInv, ReceiverInv, Save
  PROVE  ReceiverInv'
<1>. DEFINE last == LastOf(user.past, Window)
            r == Recent
<1>1. /\ user.at = "write" /\ prog.layout = "save" /\ user.sent # 0 /\ prog' = prog /\ dec' = dec
      /\ user' = [user EXCEPT !.at = "saved"] /\ out' = Store(out, SafeAt, last)
  BY DEF Save
<1>2. user'.past = user.past /\ user'.sent = user.sent /\ user'.dec = user.dec /\ user'.at = "saved" /\ user.past \in Seq(Nat)
  BY <1>1 DEF ProgramInv, UserOK
<1>3. /\ Recent' = Recent /\ OutEnd' = OutEnd /\ Ringed' = Ringed /\ ~Ringed
      /\ \A k : Past(k)' = Past(k)
  BY <1>1, <1>2 DEF Recent, OutEnd, Ringed, Past
<1>4. /\ r \in Nat /\ Len(last) = r /\ r <= Window
      /\ \A k \in 1 .. r : last[r - k + 1] = Past(k)
  <2>1. /\ r \in Nat /\ r = (IF Len(user.past) <= Window THEN Len(user.past) ELSE Window) /\ r <= Window /\ Window \in Nat
    BY <1>2, RecentIs, FastAssumption
  <2>2. /\ Len(last) = r
        /\ \A k \in 1 .. r : last[r - k + 1] = user.past[Len(user.past) - k + 1]
    BY <1>2, <2>1, LastOfIs
  <2>. QED  BY <2>1, <2>2 DEF Past
<1>5. SafeAt + Window <= DecAt /\ SafeAt \in Nat /\ SafeAt >= 1 /\ OutEnd \in Nat /\ DecAt <= OutEnd /\ DecAt \in Nat /\ Window \in Nat
  <2>1. SafeAt + Window <= DecAt
    BY <1>1 DEF Receivable
  <2>. QED  BY <2>1, ReceiverTypes
<1>6. DOMAIN out = 1 .. OutEnd
  BY DEF ReceiverInv
<1>. HIDE DEF last, r
<1>7. /\ DOMAIN out' = DOMAIN out
      /\ \A a \in DOMAIN out : a \in SafeAt .. SafeAt + r - 1 => out'[a] = last[a - SafeAt + 1]
  BY <1>1, <1>4 DEF Store
<1>8. SafeOK'
  <2>1. ASSUME NEW k \in 1 .. r  PROVE out'[SafeAt + r - k] = Past(k)
    <3>. DEFINE a == SafeAt + r - k
                j == r - k + 1
    <3>1. a \in 1 .. OutEnd /\ a \in SafeAt .. SafeAt + r - 1 /\ a - SafeAt + 1 = j
      BY <1>4, <1>5
    <3>. HIDE DEF a, j
    <3>2. out'[a] = last[j]
      BY <1>6, <1>7, <3>1
    <3>3. last[j] = Past(k)
      BY <1>4 DEF j
    <3>. QED  BY <3>2, <3>3 DEF a
  <2>. QED  BY <1>1, <1>2, <1>3, <2>1 DEF SafeOK, r
<1>9. PlaceOK'
  BY <1>1, <1>2 DEF ReceiverInv, PlaceOK
<1>10. DOMAIN out' = 1 .. OutEnd' /\ dec'.at = "idle"
  BY <1>1, <1>3, <1>6, <1>7 DEF ReceiverInv
<1>. QED  BY <1>2, <1>3, <1>8, <1>9, <1>10 DEF ReceiverInv

-----------------------------------------------------------------------------
(***************************************************************************)
(* The calls of the decompressor.                                          *)
(***************************************************************************)
\* The receiver has room for a message that arrives.
LEMMA RoomForMessage ==
  ASSUME FastProgram(prog), Receivable(prog), PlaceOK, user.at = "arrived", user.sent \in Nat, NEW n \in Nat, n <= prog.max
  PROVE  Destination \in Nat \ {0} /\ Destination >= DecAt /\ Destination + n <= OutEnd /\ OutEnd \in Nat
<1>t. /\ prog.max \in Nat /\ prog.decRing \in Nat /\ prog.decRing >= prog.max /\ Len(prog.messages) \in Nat /\ DecAt \in Nat
      /\ DecAt >= 1 /\ OutEnd = DecAt + prog.decRing /\ Destination = DecAt + user.dec /\ user.dec \in Nat
      /\ user.sent < Len(prog.messages)
  BY ProgramTypes, ReceiverTypes DEF Destination, PlaceOK
<1>1. user.dec + n <= prog.decRing
  <2>1. CASE prog.layout = "ring"
    <3>1. user.dec = 0 \/ user.dec < prog.decRing - prog.max
      BY <2>1 DEF PlaceOK
    <3>. QED  BY <1>t, <3>1
  <2>2. CASE prog.layout = "follow"
    <3>1. prog.decRing >= Len(prog.messages) * prog.max
      BY <2>2 DEF Receivable
    <3>2. user.dec <= user.sent * prog.max
      BY <2>2 DEF PlaceOK
    <3>3. (user.sent + 1) * prog.max <= Len(prog.messages) * prog.max
          /\ (user.sent + 1) * prog.max = user.sent * prog.max + prog.max
      <4>. DEFINE k == user.sent + 1
                  l == Len(prog.messages)
                  x == prog.max
      <4>1. k \in Nat /\ l \in Nat /\ k <= l /\ x \in Nat
        BY <1>t
      <4>. HIDE DEF k, l, x
      <4>2. k * x <= l * x
        BY <4>1
      <4>3. user.sent * x + x = (user.sent + 1) * x
        <5>. DEFINE y == user.sent
        <5>1. y \in Nat
          OBVIOUS
        <5>. HIDE DEF y
        <5>2. y * x + x = (y + 1) * x
          BY <4>1, <5>1
        <5>. QED  BY <5>2 DEF y
      <4>. QED  BY <4>2, <4>3 DEF k, l, x
    <3>4. user.sent * prog.max \in Int /\ Len(prog.messages) * prog.max \in Int
      BY <1>t
    <3>. DEFINE y == user.sent * prog.max
                z == Len(prog.messages) * prog.max
                v == (user.sent + 1) * prog.max
    <3>5. prog.decRing >= z /\ user.dec <= y /\ v <= z /\ v = y + prog.max /\ y \in Int /\ z \in Int
      BY <3>1, <3>2, <3>3, <3>4
    <3>. HIDE DEF y, z, v
    <3>. QED  BY <1>t, <3>5
  <2>3. CASE prog.layout \notin {"ring", "follow"}
    <3>1. user.dec = 0
      BY <2>3 DEF PlaceOK
    <3>. QED  BY <1>t, <3>1
  <2>. QED  BY <2>1, <2>2, <2>3
<1>. QED  BY <1>t, <1>1

\* Where a call looks for the byte k before the message.
Looked(dst, low, end, k) == IF dst - k < low THEN dst - k + end - low ELSE dst - k

\* What the receiver asks of a call.
Asked(cap, safe, target, ext, low, dictStart, dictSize) ==
    /\ cap \in Nat /\ safe \in BOOLEAN /\ target \in Nat /\ ext \in BOOLEAN /\ low \in Int /\ dictStart \in Nat /\ dictSize \in Nat
    /\ low <= Destination /\ cap >= 1 /\ cap >= Len(user.msg)
    /\ ~safe => cap = Len(user.msg) /\ target = 0
    /\ target > 0 => cap = Len(user.msg)
    /\ low - (IF ext THEN dictSize ELSE 0) <= Destination - Held
    /\ ext /\ low > Destination - Held =>
         dictStart + dictSize <= Destination \/ dictStart + dictSize - low >= Window + 13
    /\ \A k \in 1 .. Held : k <= MaxDistance =>
         /\ Looked(Destination, low, dictStart + dictSize, k) \in 1 .. OutEnd
         /\ out[Looked(Destination, low, dictStart + dictSize, k)] = Past(k)

Asking == user' = [user EXCEPT !.at = "decompressing"] /\ prog' = prog /\ block' = block /\ out' = out

\* Such a call decodes what was said.
LEMMA DecodeStarts ==
  ASSUME FastProgram(prog), Receivable(prog), ProgramInv, ReceiverInv, user.at = "arrived", Asking,
         NEW cap, NEW safe, NEW target, NEW ext, NEW low, NEW dictStart, NEW dictSize, NEW then,
         Asked(cap, safe, target, ext, low, dictStart, dictSize),
         dec' = Decode(Destination, cap, safe, target, ext, low, dictStart, dictSize, then)
  PROVE  /\ DecodeOK'
         /\ dec'.dst = Destination /\ (target = 0 => ~dec'.partial) /\ dec'.ext = ext /\ dec'.low = low
         /\ dec'.dictStart = dictStart /\ dec'.dictSize = dictSize /\ dec'.then = then
<1>. DEFINE n == Len(user.msg)
            dst == Destination
<1>1. /\ user'.past = user.past /\ user'.msg = user.msg /\ user'.dec = user.dec /\ user.past \in Seq(Nat) /\ user.msg \in Seq(Nat)
      /\ user.sent \in Nat /\ prog' = prog /\ block' = block /\ out' = out
  BY DEF ProgramInv, UserOK, Asking
<1>2. /\ Destination' = Destination /\ Held' = Held /\ Before' = Before /\ OutEnd' = OutEnd
      /\ \A i : Written(block, i)' = Written(block, i) /\ Sized(block, i)' = Sized(block, i)
  <2>1. Destination' = Destination /\ Held' = Held /\ Before' = Before /\ OutEnd' = OutEnd
    BY <1>1 DEF Destination, Held, Before, Continuing, OutEnd
  <2>2. \A i : Written(block, i)' = Written(block, i) /\ Sized(block, i)' = Sized(block, i)
    BY <1>1 DEF Written, Sized, Lengths, Sizes
  <2>. QED  BY <2>1, <2>2
<1>3. BlockArrives /\ DOMAIN out = 1 .. OutEnd /\ PlaceOK
  BY DEF ReceiverInv
<1>4. BlockArrives'
  <2>1. \A i : SequenceArrives(i)' <=> SequenceArrives(i)
    BY <1>1, <1>2 DEF SequenceArrives, Written, Lengths
  <2>. QED  BY <1>1, <1>2, <1>3, <2>1 DEF BlockArrives
<1>5. n \in Nat /\ n <= prog.max
  BY <1>1, <1>3 DEF BlockArrives
<1>6. dst \in Nat \ {0} /\ dst + n <= OutEnd /\ OutEnd \in Nat
  BY <1>1, <1>3, <1>5, RoomForMessage
<1>7. /\ dec'.at = "decode" /\ dec'.dst = dst /\ dec'.cap = cap /\ dec'.safe = safe /\ dec'.partial = (target > 0)
      /\ dec'.target = target /\ dec'.ext = ext /\ dec'.low = low /\ dec'.dictStart = dictStart /\ dec'.dictSize = dictSize
      /\ dec'.then = then /\ dec'.ip = 0 /\ dec'.op = dst /\ dec'.next = 1 /\ dec'.high = dst
      /\ DOMAIN dec' = {"at", "dst", "cap", "safe", "partial", "target", "ext", "low", "dictStart", "dictSize", "then",
                        "ip", "op", "next", "high", "result"}
  BY DEF Decode
<1>8. /\ cap \in Nat /\ safe \in BOOLEAN /\ target \in Nat /\ ext \in BOOLEAN /\ low \in Int /\ dictStart \in Nat /\ dictSize \in Nat
      /\ low <= dst /\ cap >= 1 /\ cap >= n
      /\ ~safe => cap = n /\ target = 0
      /\ target > 0 => cap = n
      /\ low - (IF ext THEN dictSize ELSE 0) <= dst - Held
      /\ ext /\ low > dst - Held => dictStart + dictSize <= dst \/ dictStart + dictSize - low >= Window + 13
  BY DEF Asked
<1>9. \A k \in 1 .. Held : k <= MaxDistance =>
         /\ Looked(dst, low, dictStart + dictSize, k) \in 1 .. OutEnd
         /\ out[Looked(dst, low, dictStart + dictSize, k)] = Past(k)
  BY DEF Asked
<1>. HIDE DEF dst
<1>10. DecodeTyped'
  BY <1>6, <1>7, <1>8 DEF DecodeTyped
<1>11. n' = n /\ DecDictEnd' = dictStart + dictSize /\ dst' = dst /\ Window' = Window
  BY <1>1, <1>2, <1>7 DEF DecDictEnd, dst
<1>. HIDE DEF n
<1>12. DecodeCall'
  <2>1. ~safe => cap = n /\ ~(target > 0)
    BY <1>8
  <2>2. /\ dec'.dst = Destination' /\ dec'.low <= dec'.dst
        /\ dec'.cap >= 1 /\ dec'.cap >= n
        /\ ~dec'.safe => dec'.cap = n /\ ~dec'.partial
        /\ dec'.partial => dec'.cap = n
        /\ dec'.low - (IF dec'.ext THEN dec'.dictSize ELSE 0) <= dec'.dst - Held
        /\ dec'.ext /\ dec'.low > dec'.dst - Held => dictStart + dictSize <= dec'.dst \/ dictStart + dictSize - dec'.low >= Window + 13
    <3>1. dec'.dst = Destination' /\ dec'.low <= dec'.dst /\ dec'.cap >= 1 /\ dec'.cap >= n
      BY <1>2, <1>7, <1>8 DEF dst
    <3>2. ~dec'.safe => dec'.cap = n /\ ~dec'.partial
      BY <1>7, <2>1
    <3>3. dec'.partial => dec'.cap = n
      BY <1>7, <1>8
    <3>4. dec'.low - (IF dec'.ext THEN dec'.dictSize ELSE 0) <= dec'.dst - Held
      BY <1>7, <1>8
    <3>5. dec'.ext /\ dec'.low > dec'.dst - Held => dictStart + dictSize <= dec'.dst \/ dictStart + dictSize - dec'.low >= Window + 13
      BY <1>7, <1>8
    <3>. QED  BY <3>1, <3>2, <3>3, <3>4, <3>5
  <2>3. Len(user'.msg) = n
    BY <1>11 DEF n
  <2>4. /\ dec'.dst = Destination' /\ dec'.low <= dec'.dst
        /\ dec'.cap >= 1 /\ dec'.cap >= Len(user'.msg)
        /\ ~dec'.safe => dec'.cap = Len(user'.msg) /\ ~dec'.partial
        /\ dec'.partial => dec'.cap = Len(user'.msg)
        /\ dec'.low - (IF dec'.ext THEN dec'.dictSize ELSE 0) <= dec'.dst - Held'
        /\ dec'.ext /\ dec'.low > dec'.dst - Held' => DecDictEnd' <= dec'.dst \/ DecDictEnd' - dec'.low >= Window + 13
    <3>. DEFINE h == Held
                m == Len(user'.msg)
                de == DecDictEnd'
    <3>1. Held' = h /\ m = n /\ de = dictStart + dictSize
      BY <1>2, <1>11, <2>3
    <3>. HIDE DEF h, m, de
    <3>2. /\ dec'.cap >= m /\ (~dec'.safe => dec'.cap = m) /\ (dec'.partial => dec'.cap = m)
      BY <2>2, <3>1
    <3>3. /\ dec'.low - (IF dec'.ext THEN dec'.dictSize ELSE 0) <= dec'.dst - h
          /\ dec'.ext /\ dec'.low > dec'.dst - h => dictStart + dictSize <= dec'.dst \/ dictStart + dictSize - dec'.low >= Window + 13
      BY <2>2 DEF h
    <3>4. dec'.ext /\ dec'.low > dec'.dst - h => de <= dec'.dst \/ de - dec'.low >= Window + 13
      <4>1. de <= dec'.dst <=> dictStart + dictSize <= dec'.dst
        BY <3>1
      <4>2. de - dec'.low >= Window + 13 <=> dictStart + dictSize - dec'.low >= Window + 13
        BY <1>7, <1>8, <3>1
      <4>. QED  BY <3>3, <4>1, <4>2
    <3>. QED  BY <2>2, <3>1, <3>2, <3>3, <3>4 DEF m, de
  <2>. QED  BY <2>4 DEF DecodeCall
<1>13. Roomy'
  <2>1. Len(user'.msg) = n
    BY <1>11 DEF n
  <2>. QED  BY <1>1, <1>2, <1>3, <1>6, <1>7, <2>1 DEF Roomy
<1>14. dec'.high <= OEnd'
  BY <1>6, <1>7, <1>8 DEF OEnd
<1>15. DecodeRuns'
  BY <1>1, <1>4, <1>10, <1>12, <1>13, <1>14 DEF DecodeRuns
<1>16. PastIn(out, 0)'
  <2>1. ASSUME NEW k \in 1 .. Held, 0 + k <= MaxDistance
        PROVE  Where(dec.dst - k)' = Looked(dst, low, dictStart + dictSize, k)
    BY <1>7, <1>11 DEF Where, Looked
  <2>2. ASSUME NEW k \in 1 .. Held, 0 + k <= MaxDistance
        PROVE  /\ Looked(dst, low, dictStart + dictSize, k) \in 1 .. OutEnd
               /\ out[Looked(dst, low, dictStart + dictSize, k)] = user.past[Len(user.past) - k + 1]
    <3>1. k <= MaxDistance
      BY <2>2
    <3>. QED  BY <1>9, <2>2, <3>1 DEF Past
  <2>. QED  BY <1>1, <1>2, <2>1, <2>2 DEF PastIn
<1>17. DecodedIn(out, 0)'
  BY DEF DecodedIn
<1>18. DecodingOK'
  <2>1. Formed(block) /\ Written(block, 1) = 0 /\ Sized(block, 1) = 0 /\ 1 \in 1 .. Len(block)
    <3>1. Formed(block) /\ block \in Seq(Sequence) /\ block # <<>>
      BY <1>3, BlockIsFormed DEF BlockArrives
    <3>2. 1 \in 1 .. Len(block)
      <4>. HIDE DEF Sequence
      <4>. QED  BY <3>1
    <3>. QED  BY <3>1, <3>2, SizedFirst, WrittenFirst
  <2>2. Written(block, dec.next)' = 0 /\ Sized(block, dec.next)' = 0
    BY <1>1, <1>7, <2>1
  <2>. QED  BY <1>1, <1>6, <1>7, <1>16, <1>17, <2>1, <2>2 DEF DecodingOK
<1>19. DecodeOK'
  BY <1>7, <1>15, <1>18 DEF DecodeOK
<1>20. ASSUME target = 0  PROVE ~dec'.partial
  <2>1. ~(target > 0)
    BY <1>20
  <2>. QED  BY <1>7, <2>1, Zenon
<1>. QED  BY <1>7, <1>19, <1>20 DEF dst

-----------------------------------------------------------------------------
(***************************************************************************)
(* The ways to receive a message.                                          *)
(***************************************************************************)
\* The receiver has made its call.
LEMMA ReceiveGives ==
  ASSUME FastProgram(prog), ProgramInv, ReceiverInv, user.at = "arrived", Asking, DecodeOK', Ringed => RingCall'
  PROVE  ReceiverInv'
<1>1. /\ user'.past = user.past /\ user'.sent = user.sent /\ user'.dec = user.dec /\ user'.at = "decompressing"
      /\ prog' = prog /\ out' = out
  BY DEF ProgramInv, UserOK, Asking
<1>2. OutEnd' = OutEnd /\ Ringed' = Ringed
  BY <1>1 DEF OutEnd, Ringed
<1>3. PlaceOK'
  BY <1>1 DEF ReceiverInv, PlaceOK
<1>4. SafeOK'
  BY <1>1 DEF ReceiverInv, SafeOK
<1>5. BlockArrives'
  BY DEF DecodeOK, DecodeRuns
<1>. QED  BY <1>1, <1>2, <1>3, <1>4, <1>5 DEF ReceiverInv

\* The message that arrives.
LEMMA MessageIs ==
  ASSUME FastProgram(prog), Receivable(prog), ProgramInv, ReceiverInv, user.at = "arrived"
  PROVE  /\ Len(user.msg) \in Nat /\ Len(user.msg) <= prog.max /\ prog.max \in Nat /\ prog.max >= 1
         /\ prog.call # "destSize" => Len(user.msg) >= 1
         /\ Destination \in Nat /\ Destination >= 1 /\ Destination >= DecAt /\ Destination = DecAt + user.dec /\ DecAt \in Nat
         /\ Destination <= OutEnd
         /\ user.past \in Seq(Nat)
         /\ Held = IF Continuing THEN Recent ELSE 0
<1>1. /\ BlockArrives /\ PlaceOK /\ user.sent \in Nat /\ user.past \in Seq(Nat) /\ user.msg \in Seq(Nat)
  BY DEF ReceiverInv, ProgramInv, UserOK
<1>. DEFINE n == Len(user.msg)
<1>2. n \in Nat /\ n <= prog.max /\ prog.max >= 1 /\ (prog.call # "destSize" => n >= 1)
  BY <1>1 DEF BlockArrives
<1>4. Destination \in Nat \ {0} /\ Destination >= DecAt /\ Destination + n <= OutEnd /\ OutEnd \in Nat
  BY <1>1, <1>2, RoomForMessage
<1>5. Destination = DecAt + user.dec
  BY DEF Destination
<1>6. Held = IF Continuing THEN Recent ELSE 0
  BY DEF Held, Recent
<1>. HIDE DEF n
<1>7. Destination <= OutEnd
  BY <1>2, <1>4
<1>. QED  BY <1>1, <1>2, <1>4, <1>5, <1>6, <1>7, ReceiverTypes DEF n

\* Calls for messages that stand alone.
Alone(dst, n, cap, safe, target, low, dictSize) ==
    /\ cap \in Nat /\ safe \in BOOLEAN /\ target \in Nat /\ low \in Int /\ dictSize \in Nat
    /\ low <= dst /\ cap >= 1 /\ cap >= n
    /\ ~safe => cap = n /\ target = 0
    /\ target > 0 => cap = n

\* A message that stands alone.
LEMMA SimpleReceives ==
  ASSUME FastProgram(prog), Receivable(prog), ProgramInv, ReceiverInv, Receive, prog.layout = "simple"
  PROVE  ReceiverInv'
<1>. DEFINE n == Len(user.msg)
            dst == Destination
<1>1. user.at = "arrived" /\ user' = [user EXCEPT !.at = "decompressing"] /\ prog' = prog /\ block' = block
  BY DEF Receive, encoderVars, fastVars
<1>2. ~Continuing /\ Held = 0 /\ ~Ringed
  <2>1. ~Continuing /\ ~Ringed
    BY DEF FastProgram, Continuing, Ringed
  <2>. QED  BY <2>1 DEF Held
<1>3. /\ n \in Nat /\ n <= prog.max /\ prog.max \in Nat /\ prog.max >= 1
      /\ prog.call # "destSize" => n >= 1
      /\ dst \in Nat /\ dst >= 1
  BY <1>1, MessageIs
<1>4. /\ prog.room \in Nat /\ prog.target \in Nat /\ Window \in Nat
      /\ \/ prog.decoder = "safe" /\ prog.room >= prog.max
         \/ prog.decoder \in {"exact", "partial", "fast"} /\ prog.call = "fast"
  <2>1. \/ prog.decoder = "safe" /\ prog.room >= prog.max
        \/ prog.decoder \in {"exact", "partial", "fast"} /\ prog.call = "fast"
    BY DEF Receivable
  <2>. QED  BY <2>1, ReceiverTypes
<1>. HIDE DEF n, dst
<1>5. ASSUME NEW cap, NEW safe, NEW target, NEW low, NEW dictSize, Alone(dst, n, cap, safe, target, low, dictSize),
             dec' = Decode(dst, cap, safe, target, FALSE, low, 0, dictSize, "forget"), out' = out
      PROVE  ReceiverInv'
  <2>1. Asking
    BY <1>1, <1>5 DEF Asking
  <2>2. Asked(cap, safe, target, FALSE, low, 0, dictSize)
    <3>1. 1 .. Held = {} /\ low - 0 <= dst - Held
      BY <1>2, <1>3, <1>5 DEF Alone
    <3>. QED  BY <1>5, <3>1 DEF Asked, Alone, dst, n
  <2>3. DecodeOK'
    BY <1>1, <1>5, <2>1, <2>2, DecodeStarts DEF dst
  <2>. QED  BY <1>1, <1>2, <2>1, <2>3, ReceiveGives
<1>6. CASE prog.decoder = "safe"
  <2>1. DecompressSafe(Destination, prog.room)
    BY <1>6, Zenon DEF Receive
  <2>2. dec' = Decode(dst, prog.room, TRUE, 0, FALSE, dst, 0, 0, "forget") /\ out' = out
    BY <2>1 DEF DecompressSafe, dst
  <2>3. Alone(dst, n, prog.room, TRUE, 0, dst, 0)
    <3>1. prog.room >= 1 /\ prog.room >= n
      BY <1>3, <1>4, <1>6
    <3>. QED  BY <1>3, <1>4, <3>1 DEF Alone
  <2>. QED  BY <1>5, <2>2, <2>3
<1>7. CASE prog.decoder = "exact"
  <2>1. DecompressSafe(Destination, n)
    BY <1>7 DEF Receive, n
  <2>2. dec' = Decode(dst, n, TRUE, 0, FALSE, dst, 0, 0, "forget") /\ out' = out
    BY <2>1 DEF DecompressSafe, dst
  <2>3. Alone(dst, n, n, TRUE, 0, dst, 0)
    <3>1. n >= 1 /\ n >= n
      BY <1>3, <1>4, <1>7
    <3>. QED  BY <1>3, <3>1 DEF Alone
  <2>. QED  BY <1>5, <2>2, <2>3
<1>8. CASE prog.decoder = "partial"
  <2>1. DecompressSafePartial(Destination, prog.target, n)
    BY <1>8 DEF Receive, n
  <2>2. dec' = Decode(dst, n, TRUE, prog.target, FALSE, dst, 0, 0, "forget") /\ out' = out
    BY <2>1 DEF DecompressSafePartial, dst
  <2>3. Alone(dst, n, n, TRUE, prog.target, dst, 0)
    <3>1. n >= 1 /\ n >= n
      BY <1>3, <1>4, <1>8
    <3>. QED  BY <1>3, <1>4, <3>1 DEF Alone
  <2>. QED  BY <1>5, <2>2, <2>3
<1>9. CASE prog.decoder = "fast"
  <2>1. DecompressFast(Destination, n)
    BY <1>9 DEF Receive, n
  <2>2. dec' = Decode(dst, n, FALSE, 0, FALSE, dst - Window, 0, Window, "forget") /\ out' = out
    BY <2>1 DEF DecompressFast, dst
  <2>3. Alone(dst, n, n, FALSE, 0, dst - Window, Window)
    <3>1. n >= 1 /\ n >= n /\ dst - Window \in Int /\ dst - Window <= dst
      BY <1>3, <1>4, <1>9
    <3>. QED  BY <1>3, <1>4, <3>1 DEF Alone
  <2>. QED  BY <1>5, <2>2, <2>3
<1>. QED  BY <1>4, <1>6, <1>7, <1>8, <1>9

\* Where the dictionary was put aside, the past is found from its end.
LEMMA DictionaryIsThere ==
  ASSUME FastProgram(prog), Receivable(prog), ProgramInv, ReceiverInv, user.at = "arrived", prog.layout \in {"dict", "save"},
         NEW kept, kept = IF prog.layout = "dict" THEN Len(prog.dict) ELSE Min({Len(user.past), Window})
  PROVE  /\ kept \in Nat /\ Held <= kept /\ Held \in Nat /\ Held <= Window /\ SafeAt + kept <= DecAt
         /\ \A k \in 1 .. Held : (SafeAt + kept) - k \in 1 .. OutEnd /\ out[(SafeAt + kept) - k] = Past(k)
<1>1. Continuing /\ Held = Recent
  <2>1. Continuing
    BY DEF FastProgram, Continuing
  <2>. QED  BY <2>1, MessageIs
<1>2. /\ user.past \in Seq(Nat) /\ Recent \in Nat /\ Recent <= Window /\ Recent <= Len(user.past)
      /\ DecAt \in Nat /\ SafeAt \in Nat /\ SafeAt >= 1 /\ OutEnd \in Nat /\ DecAt <= OutEnd /\ Window \in Nat
  BY RecentIs, ReceiverTypes, MessageIs
<1>3. CASE prog.layout = "dict"
  <2>1. user.past = prog.dict /\ kept = Len(prog.dict) /\ SafeAt + Len(prog.dict) <= DecAt /\ Len(prog.dict) \in Nat
    BY <1>3, ProgramTypes DEF ProgramInv, MessageOK, Receivable
  <2>2. Recent <= kept
    BY <1>2, <2>1
  <2>3. \A j \in 1 .. kept : out[SafeAt + j - 1] = prog.dict[j]
    BY <1>3, <2>1 DEF ReceiverInv, SafeOK
  <2>4. kept \in Nat /\ SafeAt + kept <= DecAt
    BY <2>1
  <2>5. ASSUME NEW k \in 1 .. Recent  PROVE (SafeAt + kept) - k \in 1 .. OutEnd /\ out[(SafeAt + kept) - k] = Past(k)
    <3>. DEFINE j == kept - k + 1
    <3>1. j \in 1 .. kept /\ (SafeAt + kept) - k = SafeAt + j - 1 /\ (SafeAt + kept) - k \in 1 .. OutEnd
      BY <1>2, <2>2, <2>4
    <3>2. Past(k) = prog.dict[j]
      BY <2>1 DEF Past
    <3>. HIDE DEF j
    <3>. QED  BY <2>3, <3>1, <3>2
  <2>. QED  BY <1>1, <1>2, <2>2, <2>4, <2>5
<1>4. CASE prog.layout = "save"
  <2>1. kept = Recent /\ SafeAt + Window <= DecAt
    BY <1>4 DEF Recent, Receivable
  <2>2. \A k \in 1 .. Recent : out[SafeAt + Recent - k] = Past(k)
    BY <1>4 DEF ReceiverInv, SafeOK
  <2>3. ASSUME NEW k \in 1 .. Recent  PROVE (SafeAt + kept) - k \in 1 .. OutEnd /\ out[(SafeAt + kept) - k] = Past(k)
    <3>1. (SafeAt + kept) - k \in 1 .. OutEnd
      BY <1>2, <2>1
    <3>2. (SafeAt + kept) - k = SafeAt + Recent - k
      BY <1>2, <2>1
    <3>. QED  BY <2>2, <3>1, <3>2
  <2>4. kept \in Nat /\ Held <= kept /\ Held \in Nat /\ Held <= Window /\ SafeAt + kept <= DecAt
    BY <1>1, <1>2, <2>1
  <2>. QED  BY <1>1, <2>3, <2>4
<1>. QED  BY <1>3, <1>4

\* Calls with a dictionary, whose end is the end of the past.
WithDictionary(dst, n, held, cap, safe, ext, low, dictStart, dictSize, end) ==
    /\ cap \in Nat /\ safe \in BOOLEAN /\ ext \in BOOLEAN /\ low \in Int /\ dictStart \in Nat /\ dictSize \in Nat
    /\ cap >= 1 /\ cap >= n /\ (~safe => cap = n) /\ low <= dst
    /\ low - (IF ext THEN dictSize ELSE 0) <= dst - held
    /\ low > dst - held => dictStart + dictSize <= dst
    /\ \A k \in 1 .. held : Looked(dst, low, dictStart + dictSize, k) = end - k

\* A message with a dictionary.
LEMMA DictionaryReceives ==
  ASSUME FastProgram(prog), Receivable(prog), ProgramInv, ReceiverInv, Receive, prog.layout \in {"dict", "save"}
  PROVE  ReceiverInv'
<1>. DEFINE n == Len(user.msg)
            dst == Destination
            kept == IF prog.layout = "dict" THEN Len(prog.dict) ELSE Min({Len(user.past), Window})
            end == SafeAt + kept
<1>1. user.at = "arrived" /\ user' = [user EXCEPT !.at = "decompressing"] /\ prog' = prog /\ block' = block
  BY DEF Receive, encoderVars, fastVars
<1>2. ~Ringed /\ prog.call = "continue" /\ user.dec \in Nat
  BY <1>1 DEF FastProgram, Ringed, ReceiverInv, PlaceOK
<1>3. /\ n \in Nat /\ n <= prog.max /\ prog.max \in Nat /\ n >= 1
      /\ dst \in Nat /\ dst >= 1 /\ dst >= DecAt /\ DecAt \in Nat /\ dst <= OutEnd
  BY <1>1, <1>2, MessageIs
<1>4. /\ prog.room \in Nat /\ Window \in Nat /\ MaxDistance = Window - 1 /\ SafeAt \in Nat /\ SafeAt >= 1 /\ OutEnd \in Nat
      /\ \/ prog.decoder \in {"using", "using fast"}
         \/ prog.decoder = "set" /\ prog.room >= prog.max
  <2>1. \/ prog.decoder \in {"using", "using fast"}
        \/ prog.decoder = "set" /\ prog.room >= prog.max
    BY DEF Receivable
  <2>. QED  BY <2>1, ReceiverTypes
<1>5. /\ kept \in Nat /\ Held <= kept /\ Held \in Nat /\ Held <= Window /\ SafeAt + kept <= DecAt
      /\ \A k \in 1 .. Held : (SafeAt + kept) - k \in 1 .. OutEnd /\ out[(SafeAt + kept) - k] = Past(k)
  BY <1>1, DictionaryIsThere
<1>. DEFINE held == Held
<1>. HIDE DEF n, dst, kept
<1>n. /\ n \in Nat /\ n <= prog.max /\ prog.max \in Nat /\ n >= 1 /\ dst \in Nat /\ dst >= 1 /\ dst >= DecAt /\ DecAt \in Nat
      /\ Window \in Nat /\ SafeAt \in Nat /\ prog.room \in Nat /\ (prog.decoder = "set" => prog.room >= prog.max)
      /\ kept \in Nat /\ held <= kept /\ held \in Nat /\ held <= Window /\ SafeAt + kept <= DecAt
  BY <1>3, <1>4, <1>5
<1>h. Held = held
  OBVIOUS
<1>6. ASSUME NEW cap, NEW safe, NEW ext, NEW low, NEW dictStart, NEW dictSize, NEW then,
             WithDictionary(dst, n, Held, cap, safe, ext, low, dictStart, dictSize, SafeAt + kept),
             dec' = Decode(dst, cap, safe, 0, ext, low, dictStart, dictSize, then), out' = out
      PROVE  ReceiverInv'
  <2>1. Asking
    BY <1>1, <1>6 DEF Asking
  <2>2. Asked(cap, safe, 0, ext, low, dictStart, dictSize)
    <3>1. cap >= n /\ ~(0 > 0) /\ 0 \in Nat
      BY <1>3, <1>6 DEF WithDictionary
    <3>2. \A k \in 1 .. Held : k <= MaxDistance =>
             /\ Looked(dst, low, dictStart + dictSize, k) \in 1 .. OutEnd
             /\ out[Looked(dst, low, dictStart + dictSize, k)] = Past(k)
      BY <1>5, <1>6 DEF WithDictionary
    <3>. QED  BY <1>6, <3>1, <3>2 DEF Asked, WithDictionary, dst, n
  <2>3. DecodeOK'
    BY <1>1, <1>6, <2>1, <2>2, DecodeStarts DEF dst
  <2>. QED  BY <1>1, <1>2, <2>1, <2>3, ReceiveGives
<1>. HIDE DEF held
\* The dictionary is external, or it ends where the message begins.
<1>7. ASSUME NEW k \in 1 .. held
      PROVE  /\ Looked(dst, dst, SafeAt + kept, k) = (SafeAt + kept) - k
             /\ dst = SafeAt + kept => \A low \in Int : low <= dst - held => \A e : Looked(dst, low, e, k) = (SafeAt + kept) - k
  BY <1>n DEF Looked
<1>8. CASE prog.decoder = "set"
  <2>. DEFINE sd == SetStreamDecode(SafeAt, kept)
  <2>1. Continue(sd, dst, prog.room, TRUE)
    BY <1>8 DEF Receive, dst, kept
  <2>2. sd.prefixEnd = SafeAt + kept /\ sd.prefixSize = kept /\ sd.externalDict = 0 /\ sd.extDictSize = 0
    BY DEF SetStreamDecode
  <2>3. prog.room >= 1 /\ prog.room >= n
    BY <1>n, <1>8
  <2>. HIDE DEF sd
  <2>4. CASE SafeAt + kept = dst
    <3>1. dec' = Decode(dst, prog.room, TRUE, 0, TRUE, sd.prefixEnd - sd.prefixSize, sd.externalDict, sd.extDictSize, "grow")
          /\ out' = out
      <4>1. sd.prefixEnd = dst
        BY <2>2, <2>4
      <4>. QED  BY <2>1, <4>1 DEF Continue
    <3>2. sd.prefixEnd - sd.prefixSize = SafeAt
      BY <1>n, <2>2
    <3>3. dec' = Decode(dst, prog.room, TRUE, 0, TRUE, SafeAt, 0, 0, "grow") /\ out' = out
      BY <2>2, <3>1, <3>2
    <3>4. SafeAt <= dst - held /\ SafeAt - (IF TRUE THEN 0 ELSE 0) <= dst - held /\ ~(SafeAt > dst - held) /\ SafeAt <= dst
      BY <1>n, <2>4
    <3>5. \A k \in 1 .. held : Looked(dst, SafeAt, 0 + 0, k) = (SafeAt + kept) - k
      BY <1>n, <1>7, <2>4, <3>4
    <3>6. TRUE \in BOOLEAN /\ 0 \in Nat /\ SafeAt \in Int
      BY <1>n
    <3>7. WithDictionary(dst, n, held, prog.room, TRUE, TRUE, SafeAt, 0, 0, SafeAt + kept)
      BY <1>n, <2>3, <3>4, <3>5, <3>6 DEF WithDictionary
    <3>. QED  BY <1>6, <1>h, <3>7, <3>3
  <2>5. CASE SafeAt + kept # dst
    <3>1. dec' = Decode(dst, prog.room, TRUE, 0, TRUE, dst, SafeAt + kept - kept, kept, "jump") /\ out' = out
      <4>1. streamDecode' = [sd EXCEPT !.extDictSize = sd.prefixSize, !.externalDict = sd.prefixEnd - sd.prefixSize]
        BY <2>1, <2>2, <2>5 DEF Continue
      <4>. DEFINE ext == [sd EXCEPT !.extDictSize = sd.prefixSize, !.externalDict = sd.prefixEnd - sd.prefixSize]
      <4>2. ext.extDictSize = kept /\ ext.externalDict = SafeAt + kept - kept
        <5>1. DOMAIN sd = {"externalDict", "extDictSize", "prefixEnd", "prefixSize"}
          BY DEF sd, SetStreamDecode
        <5>2. ext.extDictSize = sd.prefixSize /\ ext.externalDict = sd.prefixEnd - sd.prefixSize
          BY <5>1
        <5>. HIDE DEF ext
        <5>3. sd.prefixEnd - sd.prefixSize = SafeAt + kept - kept
          BY <1>n, <2>2
        <5>. QED  BY <2>2, <5>2, <5>3
      <4>3. dec' = Decode(dst, prog.room, TRUE, 0, TRUE, dst, ext.externalDict, ext.extDictSize, "jump") /\ out' = out
        BY <2>1, <2>2, <2>5 DEF Continue
      <4>. HIDE DEF ext
      <4>. QED  BY <4>2, <4>3
    <3>2. SafeAt + kept - kept = SafeAt
      BY <1>n
    <3>3. dec' = Decode(dst, prog.room, TRUE, 0, TRUE, dst, SafeAt, kept, "jump") /\ out' = out
      BY <3>1, <3>2
    <3>4. dst <= dst /\ dst - (IF TRUE THEN kept ELSE 0) <= dst - held /\ SafeAt + kept <= dst
      BY <1>n
    <3>5. \A k \in 1 .. held : Looked(dst, dst, SafeAt + kept, k) = (SafeAt + kept) - k
      BY <1>7
    <3>6. TRUE \in BOOLEAN /\ SafeAt \in Nat /\ dst \in Int /\ kept \in Nat
      BY <1>n
    <3>7. WithDictionary(dst, n, held, prog.room, TRUE, TRUE, dst, SafeAt, kept, SafeAt + kept)
      BY <1>n, <2>3, <3>4, <3>5, <3>6 DEF WithDictionary
    <3>. QED  BY <1>6, <1>h, <3>7, <3>3
  <2>. QED  BY <2>4, <2>5
<1>9. CASE prog.decoder \in {"using", "using fast"}
  <2>. DEFINE safe == prog.decoder = "using"
  <2>1. dec' = UsingDictCall(dst, n, safe, SafeAt, kept) /\ out' = out
    <3>1. UsingDict(dst, n, safe, SafeAt, kept)
      BY <1>9 DEF Receive, dst, kept, n
    <3>. QED  BY <3>1 DEF UsingDict
  <2>2. safe \in BOOLEAN /\ n \in Nat /\ n >= 1 /\ n >= n
    BY <1>3
  <2>. HIDE DEF safe
  <2>3. CASE kept = 0
    <3>1. dec' = Decode(dst, n, safe, 0, FALSE, dst, 0, 0, "forget")
      BY <2>1, <2>3 DEF UsingDictCall
    <3>2. /\ dst - (IF FALSE THEN 0 ELSE 0) <= dst - held /\ ~(dst > dst - held) /\ 1 .. held = {} /\ dst <= dst /\ dst \in Int
          /\ FALSE \in BOOLEAN /\ 0 \in Nat
      BY <1>n, <2>3
    <3>3. \A k \in 1 .. held : Looked(dst, dst, 0 + 0, k) = (SafeAt + kept) - k
      BY <3>2
    <3>7. WithDictionary(dst, n, held, n, safe, FALSE, dst, 0, 0, SafeAt + kept)
      BY <2>2, <3>2, <3>3 DEF WithDictionary
    <3>. QED  BY <1>6, <1>h, <3>7, <2>1, <3>1
  <2>4. CASE kept # 0 /\ SafeAt + kept # dst
    <3>1. dec' = Decode(dst, n, safe, 0, TRUE, dst, SafeAt, kept, "forget")
      BY <2>1, <2>4 DEF UsingDictCall
    <3>2. dst <= dst /\ dst - (IF TRUE THEN kept ELSE 0) <= dst - held /\ SafeAt + kept <= dst
      BY <1>n
    <3>3. \A k \in 1 .. held : Looked(dst, dst, SafeAt + kept, k) = (SafeAt + kept) - k
      BY <1>7
    <3>4. TRUE \in BOOLEAN /\ SafeAt \in Nat /\ dst \in Int /\ kept \in Nat
      BY <1>n
    <3>7. WithDictionary(dst, n, held, n, safe, TRUE, dst, SafeAt, kept, SafeAt + kept)
      BY <2>2, <3>2, <3>3, <3>4 DEF WithDictionary
    <3>. QED  BY <1>6, <1>h, <3>7, <2>1, <3>1
  <2>5. CASE kept # 0 /\ SafeAt + kept = dst
    <3>. DEFINE low == dst - (IF kept >= Window - 1 THEN Window ELSE kept)
    <3>1. dec' = Decode(dst, n, safe, 0, FALSE, low, 0, 0, "forget")
      BY <2>1, <2>5 DEF UsingDictCall
    <3>2. low <= dst /\ low <= dst - held /\ low \in Int
      BY <1>n
    <3>. HIDE DEF low
    <3>3. low - (IF FALSE THEN 0 ELSE 0) <= dst - held /\ ~(low > dst - held)
      BY <1>n, <3>2
    <3>4. \A k \in 1 .. held : Looked(dst, low, 0 + 0, k) = (SafeAt + kept) - k
      BY <1>7, <2>5, <3>2
    <3>5. FALSE \in BOOLEAN /\ 0 \in Nat
      OBVIOUS
    <3>7. WithDictionary(dst, n, held, n, safe, FALSE, low, 0, 0, SafeAt + kept)
      BY <2>2, <3>2, <3>3, <3>4, <3>5 DEF WithDictionary
    <3>. QED  BY <1>6, <1>h, <3>7, <2>1, <3>1
  <2>. QED  BY <2>3, <2>4, <2>5
<1>. QED  BY <1>4, <1>8, <1>9

-----------------------------------------------------------------------------
\* Calls that go on from where the stream is.
LEMMA RingReceives ==
  ASSUME FastProgram(prog), Receivable(prog), ProgramInv, ReceiverInv, Receive, Ringed
  PROVE  ReceiverInv'
<1>. DEFINE n == Len(user.msg)
            dst == Destination
            held == Held
            size == streamDecode.prefixSize
            end == streamDecode.prefixEnd
            extSize == streamDecode.extDictSize
            ext == streamDecode.externalDict
            extEnd == ext + extSize
            cap == IF prog.decoder = "continue" THEN prog.room ELSE n
            safe == prog.decoder = "continue"
<1>1. user.at = "arrived" /\ user' = [user EXCEPT !.at = "decompressing"] /\ prog' = prog /\ block' = block
  BY DEF Receive, encoderVars, fastVars
<1>2. prog.call = "continue" /\ Held = Recent /\ RingOK
  <2>1. prog.call = "continue"
    BY DEF Ringed, FastProgram
  <2>2. Held = Recent
    BY <1>1, <2>1, MessageIs DEF Continuing
  <2>. QED  BY <1>1, <2>1, <2>2 DEF ReceiverInv
<1>3. /\ n \in Nat /\ n <= prog.max /\ prog.max \in Nat /\ n >= 1
      /\ dst \in Nat /\ dst >= 1 /\ DecAt \in Nat /\ DecAt >= 1 /\ prog.room \in Nat /\ Window \in Nat
      /\ held \in Nat
      /\ prog.decoder = "fast continue" \/ (prog.decoder = "continue" /\ prog.room >= prog.max)
  <2>1. prog.decoder = "fast continue" \/ (prog.decoder = "continue" /\ prog.room >= prog.max)
    BY DEF Receivable, Ringed
  <2>2. held \in Nat
    BY <1>1, <1>2, MessageIs, RecentIs
  <2>. QED  BY <1>1, <1>2, <2>1, <2>2, MessageIs, ReceiverTypes
<1>4. /\ DOMAIN streamDecode = {"externalDict", "extDictSize", "prefixEnd", "prefixSize"}
      /\ ext \in Nat /\ extSize \in Nat /\ end \in Nat /\ size \in Nat
      /\ size # 0 => end - size = DecAt
      /\ size = 0 => end = 0
      /\ extSize = 0 \/ extEnd - DecAt >= Window + 13
      /\ size + extSize >= held
      /\ \/ dst = end
         \/ dst = DecAt /\ (size = 0 \/ size >= Window + 13) /\ held <= size
  <2>1. /\ DOMAIN streamDecode = {"externalDict", "extDictSize", "prefixEnd", "prefixSize"}
        /\ ext \in Nat /\ extSize \in Nat /\ end \in Nat /\ size \in Nat
    BY <1>2 DEF RingOK, StreamDecodeOK, StreamDecodeTyped
  <2>2. /\ size # 0 => end - size = DecAt
        /\ size = 0 => end = 0
        /\ extSize = 0 \/ extEnd - DecAt >= Window + 13
        /\ size + extSize >= held
    BY <1>2 DEF RingOK, StreamDecodeOK, PrefixStart, ExternalEnd
  <2>3. \/ dst = end
        \/ dst = DecAt /\ (size = 0 \/ size >= Window + 13) /\ held <= size
    BY <1>2 DEF RingOK
  <2>. QED  BY <2>1, <2>2, <2>3
<1>5. \A k \in 1 .. held : k <= MaxDistance => HeardAt(k) \in 1 .. OutEnd /\ out[HeardAt(k)] = Past(k)
  BY <1>2 DEF RingOK
<1>6. \A k : HeardAt(k) = IF k <= size THEN end - k ELSE extEnd - (k - size)
  BY DEF HeardAt, ExternalEnd
<1>. HIDE DEF n, dst, held, size, end, extSize, ext, extEnd, cap, safe
<1>n. /\ n \in Nat /\ n >= 1 /\ dst \in Nat /\ dst >= 1 /\ DecAt \in Nat /\ DecAt >= 1 /\ Window \in Nat /\ held \in Nat
      /\ ext \in Nat /\ extSize \in Nat /\ end \in Nat /\ size \in Nat /\ extEnd = ext + extSize
      /\ size # 0 => end - size = DecAt
      /\ size = 0 => end = 0
      /\ extSize = 0 \/ extEnd - DecAt >= Window + 13
      /\ size + extSize >= held
      /\ \/ dst = end
         \/ dst = DecAt /\ (size = 0 \/ size >= Window + 13) /\ held <= size
  BY <1>3, <1>4 DEF extEnd
<1>7. /\ Continue(streamDecode, dst, cap, safe)
      /\ cap \in Nat /\ safe \in BOOLEAN /\ cap >= 1 /\ cap >= n /\ (~safe => cap = n)
  <2>1. CASE prog.decoder = "continue"
    <3>1. Continue(streamDecode, Destination, prog.room, TRUE)
      BY <2>1, Zenon DEF Receive
    <3>2. cap = prog.room /\ safe = TRUE
      BY <2>1 DEF cap, safe
    <3>3. prog.room \in Nat /\ prog.room >= 1 /\ prog.room >= n
      BY <1>3, <2>1
    <3>4. Continue(streamDecode, dst, cap, safe)
      BY <3>1, <3>2, Zenon DEF dst
    <3>5. safe \in BOOLEAN /\ ~(~safe)
      BY <3>2
    <3>. QED  BY <3>2, <3>3, <3>4, <3>5
  <2>2. CASE prog.decoder = "fast continue"
    <3>1. Continue(streamDecode, Destination, n, FALSE)
      BY <2>2 DEF Receive, n
    <3>2. cap = n /\ safe = FALSE
      BY <2>2 DEF cap, safe
    <3>3. Continue(streamDecode, dst, cap, safe)
      BY <3>1, <3>2, Zenon DEF dst
    <3>4. cap \in Nat /\ cap >= 1 /\ cap >= n
      BY <1>n, <3>2
    <3>. QED  BY <3>2, <3>3, <3>4
  <2>. QED  BY <1>3, <2>1, <2>2
<1>8. Asking
  <2>1. out' = out
    BY <1>7 DEF Continue
  <2>. QED  BY <1>1, <2>1 DEF Asking
<1>9. user'.past = user.past
  BY <1>1 DEF ProgramInv, UserOK
<1>10. Recent' = held
  BY <1>2, <1>9 DEF Recent, held
\* The message extends the prefix.
<1>11. CASE end = dst
  <2>. DEFINE low == end - size
  <2>1. /\ streamDecode' = streamDecode
        /\ dec' = Decode(dst, cap, safe, 0, TRUE, low, ext, extSize, "grow")
    <3>1. streamDecode.prefixEnd = dst
      BY <1>11 DEF end
    <3>. QED  BY <1>7, <3>1 DEF Continue, end, size, ext, extSize
  <2>2. size # 0 /\ low = DecAt /\ size = dst - DecAt /\ low \in Int /\ low <= dst
    BY <1>n, <1>11
  <2>. HIDE DEF low
  <2>3. low - (IF TRUE THEN extSize ELSE 0) <= dst - held
    BY <1>n, <2>2
  <2>4. low > dst - held => extEnd - low >= Window + 13
    BY <1>n, <2>2
  <2>5. \A k \in 1 .. held : Looked(dst, low, extEnd, k) = HeardAt(k)
    BY <1>n, <1>6, <1>11, <2>2 DEF Looked
  <2>6. Asked(cap, safe, 0, TRUE, low, ext, extSize)
    <3>1. cap >= n /\ ~(0 > 0)
      BY <1>n, <1>7
    <3>2. \A k \in 1 .. held : k <= MaxDistance =>
             /\ Looked(dst, low, extEnd, k) \in 1 .. OutEnd
             /\ out[Looked(dst, low, extEnd, k)] = Past(k)
      BY <1>5, <2>5
    <3>. QED  BY <1>4, <1>7, <2>2, <2>3, <2>4, <3>1, <3>2 DEF Asked, dst, n, held, extEnd
  <2>7. /\ DecodeOK'
        /\ dec'.dst = dst /\ ~dec'.partial /\ dec'.ext = TRUE /\ dec'.low = low
        /\ dec'.dictStart = ext /\ dec'.dictSize = extSize /\ dec'.then = "grow"
    <3>1. /\ DecodeOK'
          /\ dec'.dst = dst /\ (0 = 0 => ~dec'.partial) /\ dec'.ext = TRUE /\ dec'.low = low
          /\ dec'.dictStart = ext /\ dec'.dictSize = extSize /\ dec'.then = "grow"
      BY <1>1, <1>8, <2>1, <2>6, DecodeStarts, Zenon DEF dst
    <3>. QED  BY <3>1
  <2>8. RingCall'
    <3>1. StreamDecodeTyped'
      BY <1>4, <2>1 DEF StreamDecodeTyped, ext, extSize, end, size
    <3>2. DecDictEnd' = extEnd
      BY <2>7 DEF DecDictEnd, extEnd
    <3>3. extSize = 0 \/ extEnd - DecAt >= Window + 13
      BY <1>n
    <3>4. dst - DecAt + extSize >= held
      BY <1>n, <2>2
    <3>5. streamDecode'.prefixSize = size /\ streamDecode'.externalDict = ext /\ streamDecode'.extDictSize = extSize
      BY <2>1 DEF size, ext, extSize
    <3>6. ~dec'.partial /\ dec'.ext
      BY <2>7
    <3>. QED  BY <1>10, <2>2, <2>7, <3>1, <3>2, <3>3, <3>4, <3>5, <3>6 DEF RingCall
  <2>. QED  BY <1>1, <1>8, <2>7, <2>8, ReceiveGives
\* What was the prefix becomes the dictionary.
<1>12. CASE end # dst
  <2>. DEFINE start == end - size
  <2>1. /\ streamDecode' = [streamDecode EXCEPT !.extDictSize = size, !.externalDict = start]
        /\ dec' = Decode(dst, cap, safe, 0, TRUE, dst, start, size, "jump")
    <3>. DEFINE sd == [streamDecode EXCEPT !.extDictSize = size, !.externalDict = start]
    <3>1. streamDecode.prefixEnd # dst
      BY <1>12 DEF end
    <3>2. /\ streamDecode' = sd
          /\ dec' = Decode(dst, cap, safe, 0, TRUE, dst, sd.externalDict, sd.extDictSize, "jump")
      BY <1>7, <3>1 DEF Continue, end, size
    <3>3. sd.externalDict = start /\ sd.extDictSize = size
      BY <1>4
    <3>. HIDE DEF sd
    <3>4. dec' = Decode(dst, cap, safe, 0, TRUE, dst, start, size, "jump")
      BY <3>2, <3>3
    <3>. QED  BY <3>2, <3>4 DEF sd
  <2>2. dst = DecAt /\ (size = 0 \/ size >= Window + 13) /\ held <= size /\ start \in Nat /\ start + size = end
    BY <1>n, <1>12
  <2>. HIDE DEF start
  <2>3. dst - (IF TRUE THEN size ELSE 0) <= dst - held /\ dst <= dst /\ dst \in Int
    BY <1>n, <2>2
  <2>4. dst > dst - held => start + size - dst >= Window + 13
    <3>1. ASSUME dst > dst - held  PROVE start + size - dst >= Window + 13
      <4>1. size # 0
        BY <1>n, <2>2, <3>1
      <4>2. end - DecAt = size /\ size >= Window + 13
        BY <1>n, <2>2, <4>1
      <4>3. start + size - dst = size
        BY <1>n, <2>2, <4>2
      <4>. QED  BY <4>2, <4>3
    <3>. QED  BY <3>1
  <2>5. \A k \in 1 .. held : Looked(dst, dst, start + size, k) = HeardAt(k)
    BY <1>n, <1>6, <2>2 DEF Looked
  <2>6. Asked(cap, safe, 0, TRUE, dst, start, size)
    <3>1. cap >= n /\ ~(0 > 0)
      BY <1>n, <1>7
    <3>2. \A k \in 1 .. held : k <= MaxDistance =>
             /\ Looked(dst, dst, start + size, k) \in 1 .. OutEnd
             /\ out[Looked(dst, dst, start + size, k)] = Past(k)
      BY <1>5, <2>5
    <3>. QED  BY <1>4, <1>7, <2>2, <2>3, <2>4, <3>1, <3>2 DEF Asked, dst, n, held
  <2>7. /\ DecodeOK'
        /\ dec'.dst = dst /\ ~dec'.partial /\ dec'.ext = TRUE /\ dec'.low = dst
        /\ dec'.dictStart = start /\ dec'.dictSize = size /\ dec'.then = "jump"
    <3>1. /\ DecodeOK'
          /\ dec'.dst = dst /\ (0 = 0 => ~dec'.partial) /\ dec'.ext = TRUE /\ dec'.low = dst
          /\ dec'.dictStart = start /\ dec'.dictSize = size /\ dec'.then = "jump"
      BY <1>1, <1>8, <2>1, <2>6, DecodeStarts, Zenon DEF dst
    <3>. QED  BY <3>1
  <2>8. RingCall'
    <3>1. /\ DOMAIN streamDecode' = {"externalDict", "extDictSize", "prefixEnd", "prefixSize"}
          /\ streamDecode'.extDictSize = size /\ streamDecode'.externalDict = start
          /\ streamDecode'.prefixEnd = end /\ streamDecode'.prefixSize = size
      BY <1>4, <2>1 DEF end, size
    <3>2. StreamDecodeTyped'
      BY <1>4, <2>2, <3>1 DEF StreamDecodeTyped
    <3>3. DecDictEnd' = start + size
      BY <2>7 DEF DecDictEnd
    <3>4. size = 0 \/ (start + size) - DecAt >= Window + 13
      BY <1>n, <2>2
    <3>5. dst - DecAt + size >= held
      BY <1>n, <2>2
    <3>6. ~dec'.partial /\ dec'.ext
      BY <2>7
    <3>. QED  BY <1>10, <2>2, <2>7, <3>1, <3>2, <3>3, <3>4, <3>5, <3>6 DEF RingCall
  <2>. QED  BY <1>1, <1>8, <2>7, <2>8, ReceiveGives
<1>. QED  BY <1>11, <1>12

\* The receiver calls the decompressor.
LEMMA ReceiveRests ==
  ASSUME FastProgram(prog), Receivable(prog), ProgramInv, ReceiverInv, Receive
  PROVE  ReceiverInv'
<1>1. prog.layout \in {"simple", "dict", "save", "ring", "follow"}
  BY DEF Receivable
<1>2. prog.layout \in {"ring", "follow"} => Ringed
  BY DEF Ringed
<1>. QED  BY <1>1, <1>2, SimpleReceives, DictionaryReceives, RingReceives

-----------------------------------------------------------------------------
(***************************************************************************)
(* The decoder at work, and the message when it is complete.               *)
(***************************************************************************)
\* A step of the decoder.
LEMMA DecodeStepRests ==
  ASSUME FastProgram(prog), Receivable(prog), ProgramInv, ReceiverInv, DecodeStep
  PROVE  ReceiverInv'
<1>1. Decompress(block) /\ user' = user /\ prog' = prog /\ block' = block
  BY DEF DecodeStep, encoderVars, fastVars
<1>2. dec.at = "decode"
  BY <1>1 DEF Decompress, DecodeEmpty, DecodeShortcut, DecodeLast, DecodeSequence, Decoding
<1>3. user.at = "decompressing" /\ DecodeOK /\ (Ringed => RingCall)
  BY <1>2 DEF ReceiverInv
<1>4. DecodeOK' /\ SameDecode /\ BelowStays /\ streamDecode' = streamDecode
  BY <1>1, <1>3, DecompressKeeps DEF StepStays
<1>5. OutEnd' = OutEnd /\ Ringed' = Ringed /\ Recent' = Recent /\ DecDictEnd' = DecDictEnd /\ (\A k : Past(k)' = Past(k))
  BY <1>1, <1>4 DEF OutEnd, Ringed, Recent, DecDictEnd, SameDecode, Past
<1>6. DOMAIN out' = 1 .. OutEnd' /\ BlockArrives'
  BY <1>4 DEF DecodeOK, DecodeRuns, Roomy
<1>7. Ringed => RingCall'
  BY <1>3, <1>4, <1>5 DEF RingCall, StreamDecodeTyped, SameDecode
<1>8. PlaceOK'
  BY <1>1 DEF ReceiverInv, PlaceOK
<1>9. SafeOK'
  <2>1. ASSUME prog.layout = "dict", NEW j \in 1 .. Len(prog.dict)  PROVE out'[SafeAt + j - 1] = prog.dict[j]
    <3>. DEFINE a == SafeAt + j - 1
                l == Len(prog.dict)
    <3>1. out[SafeAt + j - 1] = prog.dict[j]
      BY <2>1 DEF ReceiverInv, SafeOK
    <3>2. SafeAt + l <= DecAt /\ l \in Nat /\ SafeAt \in Nat /\ SafeAt >= 1 /\ DecAt \in Nat
      BY <2>1, ProgramTypes, ReceiverTypes DEF Receivable
    <3>3. dec.dst \in Nat /\ dec.dst >= DecAt /\ dec.dst <= OutEnd /\ OutEnd \in Nat /\ DOMAIN out = 1 .. OutEnd
      <4>1. dec.dst = Destination /\ user.dec \in Nat
        BY <1>3 DEF DecodeOK, DecodeRuns, DecodeCall, ReceiverInv, PlaceOK
      <4>2. Destination >= DecAt
        BY <3>2, <4>1 DEF Destination
      <4>. DEFINE n == Len(user.msg)
      <4>3. dec.dst \in Nat /\ dec.dst + n <= OutEnd /\ OutEnd \in Nat /\ DOMAIN out = 1 .. OutEnd
        BY <1>3 DEF DecodeOK, DecodeRuns, Roomy
      <4>4. n \in Nat
        BY UserTypes DEF ProgramInv
      <4>. HIDE DEF n
      <4>. QED  BY <4>1, <4>2, <4>3, <4>4
    <3>. HIDE DEF l
    <3>4. j \in 1 .. l
      BY <2>1 DEF l
    <3>5. a \in 1 .. OutEnd /\ a < dec.dst
      BY <3>2, <3>3, <3>4
    <3>. HIDE DEF a
    <3>6. out'[a] = out[a]
      BY <1>4, <3>3, <3>5 DEF BelowStays
    <3>. QED  BY <3>1, <3>6 DEF a
  <2>. QED  BY <1>1, <1>3, <1>5, <2>1 DEF ReceiverInv, SafeOK
<1>. QED  BY <1>1, <1>3, <1>4, <1>5, <1>6, <1>7, <1>8, <1>9 DEF ReceiverInv

\* Where the next message is decoded.
LEMMA NextPlace ==
  ASSUME FastProgram(prog), Receivable(prog), PlaceOK, user.sent \in Nat, user.at = "decompressing", NEW n \in Nat, n <= prog.max,
         NEW at, at = user.dec, NEW next, next = NextOffset(at, n, prog.decRing)
  PROVE  /\ next \in Nat
         /\ prog.layout = "ring" => next = 0 \/ next < prog.decRing - prog.max
         /\ prog.layout = "follow" => next <= (user.sent + 1) * prog.max
         /\ prog.layout \notin {"ring", "follow"} => next = 0
         /\ Ringed => next = at + n \/ (next = 0 /\ at + n >= Window + 13)
<1>t. prog.max \in Nat /\ prog.decRing \in Nat /\ at \in Nat /\ Window \in Nat
  BY ReceiverTypes DEF PlaceOK
<1>1. CASE prog.layout = "ring"
  <2>1. next = IF at + n >= prog.decRing - prog.max THEN 0 ELSE at + n
    BY <1>1 DEF NextOffset
  <2>2. prog.decRing >= Window + 13 + prog.max
    BY <1>1 DEF Receivable
  <2>3. CASE at + n >= prog.decRing - prog.max
    <3>1. next = 0 /\ at + n >= Window + 13
      BY <1>t, <2>1, <2>2, <2>3
    <3>. QED  BY <1>1, <3>1
  <2>4. CASE ~(at + n >= prog.decRing - prog.max)
    <3>1. next = at + n /\ at + n < prog.decRing - prog.max /\ at + n \in Nat
      BY <1>t, <2>1, <2>4
    <3>. QED  BY <1>1, <3>1
  <2>. QED  BY <2>3, <2>4
<1>2. CASE prog.layout = "follow"
  <2>1. next = at + n
    BY <1>2 DEF NextOffset
  <2>2. at <= user.sent * prog.max
    BY <1>2 DEF PlaceOK
  <2>3. (user.sent + 1) * prog.max = user.sent * prog.max + prog.max /\ user.sent * prog.max \in Int
    <3>. DEFINE k == user.sent
                x == prog.max
    <3>1. k \in Nat /\ x \in Nat
      BY <1>t
    <3>. HIDE DEF k, x
    <3>2. (k + 1) * x = k * x + x /\ k * x \in Int
      BY <3>1
    <3>. QED  BY <3>2 DEF k, x
  <2>4. next <= (user.sent + 1) * prog.max /\ next \in Nat
    <3>. DEFINE y == user.sent * prog.max
                z == (user.sent + 1) * prog.max
    <3>1. at <= y /\ z = y + prog.max /\ y \in Int
      BY <2>2, <2>3
    <3>. HIDE DEF y, z
    <3>2. next <= z /\ next \in Nat
      BY <1>t, <2>1, <3>1
    <3>. QED  BY <3>2 DEF z
  <2>. QED  BY <1>2, <2>1, <2>4
<1>3. CASE prog.layout \notin {"ring", "follow"}
  <2>1. prog.layout # "double"
    BY <1>3 DEF Receivable
  <2>2. next = 0
    BY <1>3, <2>1 DEF NextOffset
  <2>. QED  BY <1>3, <2>2 DEF Ringed
<1>. QED  BY <1>1, <1>2, <1>3

\* What the stream remembers of the past after a message was decoded.
LEMMA HeardNext ==
  ASSUME FastProgram(prog), Receivable(prog), ProgramInv, ReceiverInv, user.at = "decompressing", dec.at = "return", Ringed,
         prog' = prog, out' = out, user'.past = user.past \o user.msg,
         streamDecode'.prefixEnd = dec.dst + Len(user.msg), streamDecode'.prefixSize = dec.dst - DecAt + Len(user.msg),
         streamDecode'.externalDict = dec.dictStart, streamDecode'.extDictSize = dec.dictSize
  PROVE  /\ \A k \in 1 .. Recent' : k <= MaxDistance => HeardAt(k)' \in 1 .. OutEnd /\ out[HeardAt(k)'] = Past(k)'
         /\ Recent' \in Nat /\ Recent' <= Recent + Len(user.msg) /\ Recent' <= Window /\ Recent \in Nat
<1>. DEFINE n == Len(user.msg)
            l == Len(user.past)
            dst == dec.dst
            low == dec.low
            end == DecDictEnd
            new == user.past \o user.msg
            r == Recent
            r1 == Recent'
<1>1. DecodeOK /\ DecodeDone /\ RingCall /\ DecodeRuns
  BY DEF ReceiverInv, DecodeOK
<1>2. ~dec.partial /\ low = DecAt /\ DecodedSize = n /\ PastIn(out, n) /\ DecodedIn(out, n)
  BY <1>1 DEF RingCall, DecodeDone
<1>3. Held = r
  BY DEF Held, Recent, Ringed, FastProgram, Continuing
<1>4. /\ user.past \in Seq(Nat) /\ user.msg \in Seq(Nat) /\ n \in Nat /\ l \in Nat
      /\ new \in Seq(Nat) /\ Len(new) = l + n
      /\ \A j \in 1 .. n : new[l + j] = user.msg[j]
      /\ \A j \in 1 .. l : new[j] = user.past[j]
  <2>. DEFINE p == user.past
              m == user.msg
  <2>1. p \in Seq(Nat) /\ m \in Seq(Nat)
    BY DEF ProgramInv, UserOK
  <2>. HIDE DEF p, m
  <2>2. /\ p \o m \in Seq(Nat) /\ Len(p \o m) = Len(p) + Len(m) /\ Len(p) \in Nat /\ Len(m) \in Nat
        /\ \A j \in 1 .. Len(m) : (p \o m)[Len(p) + j] = m[j]
        /\ \A j \in 1 .. Len(p) : (p \o m)[j] = p[j]
    BY <2>1
  <2>. QED  BY <2>1, <2>2 DEF p, m
<1>5. /\ dst \in Nat /\ dst >= 1 /\ dst + n <= OutEnd /\ OutEnd \in Nat /\ low <= dst /\ low \in Int /\ end \in Int
      /\ DecAt \in Nat /\ Window \in Nat /\ MaxDistance = Window - 1
  <2>1. dst \in Nat /\ dst >= 1 /\ dst + n <= OutEnd /\ OutEnd \in Nat /\ low <= dst /\ low \in Int /\ end \in Int
    BY <1>1 DEF DecodeRuns, Roomy, DecodeCall, DecodeTyped, DecDictEnd
  <2>. QED  BY <2>1, ReceiverTypes
<1>6. r \in Nat /\ r = (IF l <= Window THEN l ELSE Window)
  BY <1>4, RecentIs
<1>7. r1 \in Nat /\ r1 = (IF l + n <= Window THEN l + n ELSE Window)
  <2>. DEFINE m == l + n
  <2>1. m \in Int /\ Window \in Int /\ Len(user'.past) = m
    BY <1>4, <1>5
  <2>. HIDE DEF m, l, n
  <2>2. Min({m, Window}) = IF m <= Window THEN m ELSE Window
    BY <2>1, MinOfTwo
  <2>3. r1 = Min({m, Window})
    BY <2>1 DEF Recent
  <2>4. m \in Nat
    BY <1>4 DEF m
  <2>. QED  BY <1>5, <2>2, <2>3, <2>4 DEF m
<1>8. /\ \A k : HeardAt(k)' = IF k <= dst - DecAt + n THEN (dst + n) - k ELSE end - (k - (dst - DecAt + n))
      /\ \A k : Past(k)' = new[(l + n) - k + 1]
      /\ \A x : Where(x) = IF x < low THEN x + end - low ELSE x
  <2>1. \A k : HeardAt(k)' = IF k <= dst - DecAt + n THEN (dst + n) - k ELSE end - (k - (dst - DecAt + n))
    BY DEF HeardAt, ExternalEnd, DecDictEnd
  <2>2. \A k : Past(k)' = new[(l + n) - k + 1]
    BY <1>4 DEF Past
  <2>3. \A x : Where(x) = IF x < low THEN x + end - low ELSE x
    BY DEF Where
  <2>. QED  BY <2>1, <2>2, <2>3
<1>9. /\ \A k \in 1 .. r : n + k <= MaxDistance => Where(dst - k) \in 1 .. OutEnd /\ out[Where(dst - k)] = user.past[l - k + 1]
      /\ \A j \in 1 .. n : out[dst + j - 1] = user.msg[j]
  BY <1>2, <1>3 DEF PastIn, DecodedIn
<1>e. OutEnd' = OutEnd
  BY DEF OutEnd
<1>m. low = DecAt
  BY <1>2
<1>. HIDE DEF n, l, dst, low, end, new, r, r1
<1>10. ASSUME NEW k \in 1 .. r1, k <= MaxDistance
       PROVE  HeardAt(k)' \in 1 .. OutEnd /\ out[HeardAt(k)'] = Past(k)'
  <2>1. CASE k <= n
    <3>. DEFINE j == n - k + 1
    <3>1. /\ j \in 1 .. n /\ k <= dst - DecAt + n /\ (dst + n) - k = dst + j - 1 /\ (l + n) - k + 1 = l + j
          /\ (dst + n) - k \in 1 .. OutEnd
      BY <1>4, <1>5, <1>7, <1>m, <2>1
    <3>. HIDE DEF j
    <3>2. HeardAt(k)' = dst + j - 1
      BY <1>8, <3>1
    <3>3. Past(k)' = new[l + j]
      BY <1>8, <3>1
    <3>4. out[dst + j - 1] = user.msg[j] /\ new[l + j] = user.msg[j]
      BY <1>4, <1>9, <3>1
    <3>. QED  BY <3>1, <3>2, <3>3, <3>4
  <2>2. CASE k > n
    <3>. DEFINE i == k - n
                j == l - i + 1
    <3>1. /\ i \in 1 .. r /\ n + i <= MaxDistance /\ j \in 1 .. l /\ (l + n) - k + 1 = j
          /\ (IF k <= dst - DecAt + n THEN (dst + n) - k ELSE end - (k - (dst - DecAt + n)))
                = (IF dst - i < low THEN (dst - i) + (end - low) ELSE dst - i)
      BY <1>4, <1>5, <1>6, <1>7, <1>10, <1>m, <2>2
    <3>. HIDE DEF i
    <3>2. HeardAt(k)' = Where(dst - i)
      BY <1>8, <3>1
    <3>3. Where(dst - i) \in 1 .. OutEnd /\ out[Where(dst - i)] = user.past[j]
      BY <1>9, <3>1
    <3>. HIDE DEF j
    <3>4. Past(k)' = new[j]
      BY <1>8, <3>1
    <3>5. new[j] = user.past[j]
      BY <1>4, <3>1
    <3>. QED  BY <3>2, <3>3, <3>4, <3>5
  <2>3. k \in Int /\ n \in Int
    BY <1>4, <1>7
  <2>. QED  BY <2>1, <2>2, <2>3
<1>11. r1 \in Nat /\ r1 <= r + n /\ r1 <= Window /\ r \in Nat
  BY <1>4, <1>5, <1>6, <1>7
<1>. QED  BY <1>10, <1>11 DEF n, r, r1

\* The message has arrived, and the stream goes on from its end.
LEMMA ArrivedRests ==
  ASSUME FastProgram(prog), Receivable(prog), ProgramInv, ReceiverInv, Arrived
  PROVE  ReceiverInv'
<1>. DEFINE n == Len(user.msg)
            dst == dec.dst
            new == IF dec.result <= 0 THEN "stopped" ELSE "write"
            past == IF prog.layout = "dict" THEN user.past ELSE user.past \o user.msg
            to == NextOffset(user.dec, DecodedSize, prog.decRing)
<1>1. user.at = "decompressing" /\ dec.at = "return" /\ prog' = prog /\ out' = out /\ dec' = [dec EXCEPT !.at = "idle"]
  BY DEF Arrived, DecodeReturn
<1>2. DecodeOK /\ DecodeDone /\ DecodeRuns /\ (Ringed => RingCall) /\ PlaceOK /\ BlockArrives
  BY <1>1 DEF ReceiverInv, DecodeOK
<1>3. user' = [user EXCEPT !.at = new, !.dec = to, !.sent = user.sent + 1, !.past = past]
  <2>1. UserOK
    BY DEF ProgramInv
  <2>. QED  BY <2>1 DEF UserOK, Arrived
<1>4. /\ DOMAIN user = {"at", "sent", "enc", "dec", "past", "msg"} /\ user.sent \in Nat
      /\ user.past \in Seq(Nat) /\ user.msg \in Seq(Nat)
  BY DEF ProgramInv, UserOK
<1>. HIDE DEF past, to, new
<1>5. user'.at = new /\ user'.dec = to /\ user'.sent = user.sent + 1 /\ user'.past = past
  BY <1>3, <1>4
<1>6. new \in {"stopped", "write"} /\ (new = "write" => ~(dec.result <= 0))
  BY DEF new
<1>7. dec'.at = "idle"
  <2>1. DecodeTyped
    BY <1>2 DEF DecodeRuns
  <2>. QED  BY <1>1, <2>1 DEF DecodeTyped
<1>8. OutEnd' = OutEnd /\ Ringed' = Ringed
  BY <1>1 DEF OutEnd, Ringed
<1>9. DecodedSize \in Nat /\ DecodedSize <= n /\ n \in Nat /\ n <= prog.max /\ prog.max \in Nat
  <2>1. DecodedSize \in Nat /\ DecodedSize <= n
    BY <1>2 DEF DecodeDone
  <2>2. n <= prog.max
    BY <1>2 DEF BlockArrives
  <2>. QED  BY <1>4, <2>1, <2>2, ReceiverTypes
<1>10. /\ to \in Nat
       /\ prog.layout = "ring" => to = 0 \/ to < prog.decRing - prog.max
       /\ prog.layout = "follow" => to <= (user.sent + 1) * prog.max
       /\ prog.layout \notin {"ring", "follow"} => to = 0
       /\ Ringed => to = user.dec + DecodedSize \/ (to = 0 /\ user.dec + DecodedSize >= Window + 13)
  <2>. DEFINE s == DecodedSize
  <2>1. s \in Nat /\ s <= prog.max
    <3>. HIDE DEF s, n
    <3>1. s \in Nat /\ s <= n
      BY <1>9 DEF s
    <3>. QED  BY <1>9, <3>1
  <2>2. to = NextOffset(user.dec, s, prog.decRing)
    BY DEF to
  <2>. HIDE DEF s
  <2>. QED  BY <1>1, <1>2, <1>4, <2>1, <2>2, NextPlace DEF s
<1>11. PlaceOK'
  BY <1>1, <1>5, <1>6, <1>10 DEF PlaceOK
<1>12. SafeOK'
  <2>1. prog.layout = "dict" => \A j \in 1 .. Len(prog.dict) : out[SafeAt + j - 1] = prog.dict[j]
    BY DEF ReceiverInv, SafeOK
  <2>2. user'.sent # 0
    BY <1>4, <1>5
  <2>3. user'.at \notin {"saved", "compress", "compressing", "arrived"}
    BY <1>5, <1>6
  <2>. QED  BY <1>1, <2>1, <2>2, <2>3 DEF SafeOK
<1>13. ASSUME Ringed, new = "write"  PROVE RingOK'
  <2>1. RingCall /\ ~dec.partial /\ DecodedSize = n /\ dec.low = DecAt
    BY <1>2, <1>13 DEF RingCall, DecodeDone
  <2>2. past = user.past \o user.msg /\ prog.call = "continue"
    BY <1>13 DEF past, Ringed, FastProgram
  <2>3. /\ dst = Destination /\ dst >= DecAt /\ dst \in Nat /\ DecAt \in Nat /\ Destination = DecAt + user.dec /\ user.dec \in Nat
        /\ n >= 1 /\ Window \in Nat /\ dec.dictStart \in Nat /\ dec.dictSize \in Nat
    <3>1. dst = Destination /\ user.dec \in Nat /\ dec.dictStart \in Nat /\ dec.dictSize \in Nat
      BY <1>2 DEF DecodeRuns, DecodeCall, PlaceOK, DecodeTyped
    <3>2. n >= 1
      BY <1>2, <2>2 DEF BlockArrives
    <3>3. Destination = DecAt + user.dec
      BY DEF Destination
    <3>. HIDE DEF dst, n
    <3>. QED  BY <3>1, <3>2, <3>3, ReceiverTypes
  <2>4. /\ streamDecode'.prefixEnd = dst + n /\ streamDecode'.prefixSize = dst - DecAt + n
        /\ streamDecode'.externalDict = dec.dictStart /\ streamDecode'.extDictSize = dec.dictSize
        /\ DOMAIN streamDecode' = {"externalDict", "extDictSize", "prefixEnd", "prefixSize"}
    <3>. DEFINE size == IF dec.then = "grow" THEN streamDecode.prefixSize + n ELSE n
    <3>1. dec.then \in {"grow", "jump"} /\ StreamDecodeTyped
      BY <2>1 DEF RingCall
    <3>2. streamDecode' = [streamDecode EXCEPT !.prefixSize = size, !.prefixEnd = dst + n]
      <4>1. ~(dec.then = "forget" \/ dec.result <= 0)
        BY <1>6, <1>13, <3>1
      <4>2. (IF dec.safe THEN dec.result ELSE dec.cap) = n
        BY <2>1 DEF DecodedSize
      <4>3. streamDecode' = [streamDecode EXCEPT !.prefixSize = IF dec.then = "grow" THEN @ + n ELSE n, !.prefixEnd = dst + n]
        <5>. HIDE DEF n
        <5>. QED  BY <4>1, <4>2 DEF Arrived, DecodeReturn
      <4>. QED  BY <3>1, <4>3 DEF StreamDecodeTyped
    <3>3. size = dst - DecAt + n
      <4>1. CASE dec.then = "grow"
        <5>1. size = streamDecode.prefixSize + n /\ streamDecode.prefixSize = dst - DecAt
          BY <2>1, <4>1 DEF RingCall
        <5>. QED  BY <5>1
      <4>2. CASE dec.then = "jump"
        <5>1. size = n /\ dst = DecAt
          BY <2>1, <4>2 DEF RingCall
        <5>. HIDE DEF size, n, dst
        <5>. QED  BY <1>9, <2>3, <5>1
      <4>. QED  BY <3>1, <4>1, <4>2
    <3>4. streamDecode.externalDict = dec.dictStart /\ streamDecode.extDictSize = dec.dictSize
      BY <2>1 DEF RingCall
    <3>. HIDE DEF size
    <3>5. /\ streamDecode'.prefixEnd = dst + n /\ streamDecode'.prefixSize = size
          /\ streamDecode'.externalDict = streamDecode.externalDict /\ streamDecode'.extDictSize = streamDecode.extDictSize
          /\ DOMAIN streamDecode' = {"externalDict", "extDictSize", "prefixEnd", "prefixSize"}
      <4>. HIDE DEF n, dst
      <4>. QED  BY <3>1, <3>2 DEF StreamDecodeTyped
    <3>. QED  BY <3>3, <3>4, <3>5
  <2>5. /\ \A k \in 1 .. Recent' : k <= MaxDistance => HeardAt(k)' \in 1 .. OutEnd /\ out[HeardAt(k)'] = Past(k)'
        /\ Recent' \in Nat /\ Recent' <= Recent + n /\ Recent' <= Window /\ Recent \in Nat
    BY <1>1, <1>5, <1>13, <2>2, <2>4, HeardNext
  <2>6. /\ dec.dictSize = 0 \/ DecDictEnd - DecAt >= Window + 13
        /\ dst - DecAt + dec.dictSize >= Recent
        /\ DecDictEnd = dec.dictStart + dec.dictSize
    BY <2>1 DEF RingCall, DecDictEnd
  <2>7. ExternalEnd' = DecDictEnd /\ PrefixStart' = (dst + n) - (dst - DecAt + n)
    BY <2>4 DEF ExternalEnd, PrefixStart, DecDictEnd
  <2>8. Destination' = DecAt + to
    BY <1>5 DEF Destination
  <2>9. to = user.dec + n \/ (to = 0 /\ user.dec + n >= Window + 13)
    BY <1>10, <1>13, <2>1
  <2>. DEFINE r == Recent
              r1 == Recent'
              size == streamDecode'.prefixSize
              end == streamDecode'.prefixEnd
  <2>10. size = dst - DecAt + n /\ end = dst + n
    BY <2>4
  <2>11. r1 \in Nat /\ r1 <= r + n /\ r1 <= Window /\ r \in Nat /\ dst - DecAt + dec.dictSize >= r
    BY <2>5, <2>6
  <2>12. dst = DecAt + user.dec
    BY <2>3
  <2>. HIDE DEF n, dst, r, r1, size, end
  <2>13. size \in Nat /\ end \in Nat /\ size # 0 /\ PrefixStart' = DecAt /\ size + dec.dictSize >= r1
    <3>. DEFINE b == DecAt
                d == dec.dictSize
    <3>1. n \in Nat /\ n >= 1 /\ dst \in Nat /\ b \in Nat /\ dst >= b /\ d \in Nat
      BY <1>9, <2>3
    <3>2. size = (dst - b) + n /\ end = dst + n /\ r1 \in Nat /\ r1 <= r + n /\ r \in Nat /\ (dst - b) + d >= r
      BY <2>10, <2>11
    <3>3. PrefixStart' = (dst + n) - ((dst - b) + n)
      BY <2>7
    <3>. HIDE DEF b, d
    <3>4. size \in Nat /\ end \in Nat /\ size # 0
      BY <3>1, <3>2
    <3>5. (dst + n) - ((dst - b) + n) = b /\ size + d >= r1
      BY <3>1, <3>2
    <3>6. PrefixStart' = b
      BY <3>3, <3>5
    <3>. QED  BY <3>4, <3>5, <3>6 DEF b, d
  <2>14. \/ Destination' = end
         \/ Destination' = DecAt /\ size >= Window + 13 /\ r1 <= size
    <3>1. CASE to = user.dec + n
      <4>1. DecAt + to = end
        BY <1>9, <2>3, <2>10, <2>12, <3>1
      <4>. QED  BY <2>8, <4>1
    <3>2. CASE to = 0 /\ user.dec + n >= Window + 13
      <4>1. size >= Window + 13 /\ r1 <= size /\ DecAt + to = DecAt
        BY <1>9, <2>3, <2>10, <2>11, <2>12, <3>2
      <4>. QED  BY <2>8, <4>1
    <3>. QED  BY <2>9, <3>1, <3>2
  <2>15. StreamDecodeTyped'
    BY <2>3, <2>4, <2>13 DEF StreamDecodeTyped, size, end
  <2>16. StreamDecodeOK'
    BY <2>4, <2>6, <2>7, <2>13, <2>15 DEF StreamDecodeOK, size, r1
  <2>. QED  BY <1>1, <1>8, <2>5, <2>14, <2>16 DEF RingOK, size, end, r1
<1>14. DOMAIN out' = 1 .. OutEnd'
  BY <1>1, <1>8 DEF ReceiverInv
<1>. QED  BY <1>5, <1>6, <1>7, <1>8, <1>11, <1>12, <1>13, <1>14 DEF ReceiverInv

-----------------------------------------------------------------------------
(***************************************************************************)
(* The receiver, in the specification.                                     *)
(***************************************************************************)
\* A receiver starts with an empty stream, and its dictionary in memory.
LEMMA ReceiverStarts ==
  ASSUME StreamInit, FastProgram(prog), Receivable(prog)
  PROVE  ReceiverInv
<1>. DEFINE K == DecAt + prog.decRing
            start == [a \in 1 .. K |-> Junk]
            d == prog.dict
<1>1. /\ user = [at |-> "write", sent |-> 0, enc |-> 0, dec |-> 0, past |-> d, msg |-> <<>>]
      /\ streamDecode = NoStreamDecode /\ dec = [at |-> "idle", result |-> 0]
      /\ out = Store(start, SafeAt, d)
  BY DEF StreamInit, DecodeInit
<1>t. /\ d \in Seq(Nat) /\ Len(d) \in Nat /\ SafeAt \in Nat /\ SafeAt >= 1 /\ DecAt \in Nat /\ DecAt >= 1 /\ Junk \in Nat
      /\ prog.decRing \in Nat /\ K \in Nat /\ OutEnd = K /\ Window \in Nat
  BY ProgramTypes, ReceiverTypes DEF OutEnd
<1>2. user.at = "write" /\ user.sent = 0 /\ user.dec = 0 /\ user.past = d /\ dec.at = "idle"
  BY <1>1
<1>3. /\ out \in [1 .. K -> Nat]
      /\ \A i \in 1 .. Len(d) : SafeAt + i - 1 <= K => out[SafeAt + i - 1] = d[i]
  <2>1. start \in [1 .. K -> Nat] /\ K \in Int /\ SafeAt \in Nat \ {0}
    BY <1>t
  <2>. HIDE DEF start, K, d
  <2>2. /\ Store(start, SafeAt, d) \in [1 .. K -> Nat]
        /\ \A i \in 1 .. Len(d) : SafeAt + i - 1 <= K => Store(start, SafeAt, d)[SafeAt + i - 1] = d[i]
    BY <1>t, <2>1, StoreIs
  <2>. QED  BY <1>1, <2>2
<1>4. DOMAIN out = 1 .. OutEnd
  <2>. HIDE DEF K
  <2>. QED  BY <1>t, <1>3
<1>5. SafeOK
  <2>1. ASSUME prog.layout = "dict", NEW j \in 1 .. Len(prog.dict)  PROVE out[SafeAt + j - 1] = prog.dict[j]
    <3>1. SafeAt + Len(d) <= DecAt
      BY <2>1 DEF Receivable
    <3>2. SafeAt + j - 1 <= K
      BY <1>t, <2>1, <3>1
    <3>. HIDE DEF K
    <3>. QED  BY <1>3, <2>1, <3>2
  <2>2. prog.layout = "save" => user.past = <<>>
    BY <1>2 DEF Receivable
  <2>. QED  BY <1>2, <2>1, <2>2 DEF SafeOK
<1>6. PlaceOK
  <2>. DEFINE m == prog.max
  <2>1. m \in Nat
    BY ReceiverTypes
  <2>. HIDE DEF m
  <2>2. 0 <= 0 * m
    BY <2>1
  <2>. QED  BY <1>2, <2>2 DEF PlaceOK, m
<1>7. ASSUME Ringed  PROVE RingOK
  <2>1. d = <<>>
    BY <1>7 DEF Ringed, Receivable
  <2>2. Recent = 0
    <3>1. user.past \in Seq(Nat) /\ Len(user.past) = 0
      BY <1>2, <2>1, <1>t
    <3>. QED  BY <1>t, <3>1, RecentIs
  <2>3. StreamDecodeTyped /\ streamDecode.prefixEnd = 0 /\ streamDecode.prefixSize = 0 /\ streamDecode.extDictSize = 0
    BY <1>1 DEF StreamDecodeTyped, NoStreamDecode
  <2>4. StreamDecodeOK
    BY <2>2, <2>3 DEF StreamDecodeOK
  <2>5. Destination = DecAt
    <3>1. DecAt + 0 = DecAt
      BY <1>t
    <3>. QED  BY <1>2, <3>1 DEF Destination
  <2>6. 1 .. Recent = {} /\ Recent <= streamDecode.prefixSize
    BY <2>2, <2>3
  <2>. QED  BY <2>3, <2>4, <2>5, <2>6 DEF RingOK
<1>. QED  BY <1>2, <1>4, <1>5, <1>6, <1>7 DEF ReceiverInv

\* The invariant of the receiver holds at first, and every step keeps it.
LEMMA ReceiveInvStarts == Init => ReceiveInv
<1>. SUFFICES ASSUME Init, FastProgram(prog), Receivable(prog)  PROVE ReceiverInv
  BY DEF ReceiveInv
<1>1. ~NoProgram
  <2>1. prog.call \in {"fast", "destSize", "continue"}
    BY DEF FastProgram
  <2>. QED  BY <2>1 DEF NoProgram
<1>2. StreamInit
  BY <1>1 DEF Init
<1>. QED  BY <1>2, ReceiverStarts

LEMMA ReceiveInvKept == StreamInv /\ ReceiveInv /\ [Next]_vars => ReceiveInv'
<1>. SUFFICES ASSUME StreamInv, ReceiveInv, [Next]_vars, FastProgram(prog)', Receivable(prog)'  PROVE ReceiverInv'
  BY DEF ReceiveInv
<1>1. prog' = prog
  <2>1. StreamNext => prog' = prog
    BY DEF StreamNext, Write, LoadDictionary, Begin, Step, HighStep, Sent, Save, Receive, DecodeStep, Arrived
  <2>. QED  BY <2>1 DEF Next, vars, streamVars
<1>2. FastProgram(prog) /\ Receivable(prog)
  BY <1>1 DEF FastProgram, Receivable
<1>3. ProgramInv /\ ReceiverInv
  BY <1>2 DEF StreamInv, ReceiveInv
<1>4. CASE StreamNext
  <2>1. CASE Write
    BY <1>2, <1>3, <2>1, WriteRests
  <2>2. CASE LoadDictionary
    BY <1>2, <1>3, <2>2, LoadRests
  <2>3. CASE Begin
    BY <1>2, <1>3, <2>3, BeginRests
  <2>4. CASE Step
    BY <1>2, <1>3, <2>4, StepRests
  <2>5. CASE HighStep
    BY <1>2, <1>3, <2>5, NoHighStep DEF HighStep
  <2>6. CASE Sent
    BY <1>2, <1>3, <2>6, SentRests
  <2>7. CASE Save
    BY <1>2, <1>3, <2>7, SaveRests
  <2>8. CASE Receive
    BY <1>2, <1>3, <2>8, ReceiveRests
  <2>9. CASE DecodeStep
    BY <1>2, <1>3, <2>9, DecodeStepRests
  <2>10. CASE Arrived
    BY <1>2, <1>3, <2>10, ArrivedRests
  <2>. QED  BY <1>4, <2>1, <2>2, <2>3, <2>4, <2>5, <2>6, <2>7, <2>8, <2>9, <2>10 DEF StreamNext
<1>5. CASE UNCHANGED vars
  BY <1>3, <1>5, ReceiverStays DEF vars, streamVars, encoderVars, fastVars, decodeVars
<1>6. app.at = "none"
  BY <1>3 DEF ProgramInv, Quiet
<1>7. StreamNext \/ UNCHANGED vars
  BY <1>6 DEF Next
<1>. QED  BY <1>4, <1>5, <1>7

\* What the invariant says of a decoder that returned.
LEMMA RoundTripHolds ==
  ASSUME ProgramInv, ReceiverInv
  PROVE  RoundTrip
<1>. SUFFICES ASSUME user.at = "decompressing", dec.at = "return"
              PROVE  /\ dec.result >= 0
                     /\ IF dec.partial THEN DecodedSize >= Min({dec.target, Len(user.msg)}) ELSE DecodedSize = Len(user.msg)
                     /\ ~dec.safe => dec.result = BlockSize(block)
                     /\ Bytes(out, dec.dst, DecodedSize) = SubSeq(user.msg, 1, DecodedSize)
  BY DEF RoundTrip
<1>1. DecodeRuns /\ DecodeDone
  BY DEF ReceiverInv, DecodeOK
<1>. DEFINE n == Len(user.msg)
            size == DecodedSize
            t == dec.target
<1>2. n \in Nat /\ size \in Nat /\ size <= n /\ t \in Nat /\ user.msg \in Seq(Nat) /\ dec.dst \in Nat
  <2>1. user.msg \in Seq(Nat) /\ dec.dst \in Nat /\ t \in Nat
    BY <1>1 DEF DecodeRuns, DecodeTyped, Roomy
  <2>2. n \in Nat
    BY <2>1
  <2>. QED  BY <1>1, <2>1, <2>2 DEF DecodeDone
<1>3. dec.result >= 0
  <2>1. CASE dec.safe
    <3>1. size = dec.result
      BY <2>1 DEF DecodedSize
    <3>. HIDE DEF size
    <3>. QED  BY <1>2, <3>1
  <2>2. CASE ~dec.safe
    <3>1. BlockArrives
      BY <1>1 DEF DecodeRuns
    <3>2. Formed(block) /\ Len(block) \in 1 .. Len(block)
      <4>1. block \in Seq(Sequence) /\ block # <<>>
        BY <3>1 DEF BlockArrives
      <4>2. Len(block) \in Nat /\ Len(block) # 0
        <5>. HIDE DEF Sequence
        <5>. QED  BY <4>1
      <4>. QED  BY <3>1, <4>2, BlockIsFormed
    <3>3. BlockSize(block) \in Nat
      BY <3>2, SizedWithin
    <3>4. dec.result = BlockSize(block)
      BY <1>1, <2>2 DEF DecodeDone
    <3>. QED  BY <3>3, <3>4
  <2>. QED  BY <2>1, <2>2
<1>4. IF dec.partial THEN size >= Min({t, n}) ELSE size = n
  <2>1. IF dec.partial THEN size >= t \/ size = n ELSE size = n
    BY <1>1 DEF DecodeDone
  <2>. HIDE DEF size, n, t
  <2>2. Min({t, n}) = IF t <= n THEN t ELSE n
    BY <1>2, MinOfTwo
  <2>3. size >= t \/ size = n => size >= Min({t, n})
    BY <1>2, <2>2
  <2>. QED  BY <2>1, <2>3
<1>5. Bytes(out, dec.dst, size) = SubSeq(user.msg, 1, size)
  <2>1. \A j \in 1 .. size : out[dec.dst + j - 1] = user.msg[j]
    BY <1>1 DEF DecodeDone, DecodedIn
  <2>. DEFINE msg == user.msg
              part == SubSeq(msg, 1, size)
  <2>. HIDE DEF size, n
  <2>2. part = [j \in 1 .. size |-> msg[j]]
    <3>1. msg \in Seq(Nat) /\ size <= Len(msg) /\ size \in Nat
      BY <1>2 DEF n
    <3>. HIDE DEF msg
    <3>2. part \in Seq(Nat) /\ Len(part) = size /\ \A j \in 1 .. size : part[j] = msg[j]
      BY <3>1
    <3>. HIDE DEF part
    <3>3. DOMAIN part = 1 .. size /\ part = [j \in DOMAIN part |-> part[j]]
      BY <3>2
    <3>. QED  BY <3>2, <3>3
  <2>3. Bytes(out, dec.dst, size) = [j \in 1 .. size |-> out[dec.dst + j - 1]]
    BY DEF Bytes
  <2>4. [j \in 1 .. size |-> out[dec.dst + j - 1]] = [j \in 1 .. size |-> msg[j]]
    BY <2>1
  <2>. QED  BY <2>2, <2>3, <2>4
<1>6. ~dec.safe => dec.result = BlockSize(block)
  BY <1>1 DEF DecodeDone
<1>. QED  BY <1>3, <1>4, <1>5, <1>6

\* What the two invariants say of what was written.
LEMMA WritesHold ==
  ASSUME FastProgram(prog), ProgramInv, ReceiverInv, prog.max <= Largest
  PROVE  WritesFit
<1>1. app.at = "none" /\ (user.at # "compressing" => enc.at = "idle")
  BY DEF ProgramInv, Quiet
<1>2. enc.at # "idle" => enc.high <= IF enc.limited \/ enc.fill THEN enc.cap ELSE CompressBound(enc.size)
  <2>. SUFFICES ASSUME enc.at # "idle"  PROVE enc.size <= Largest
    BY OutputHolds DEF EncoderFits
  <2>1. enc.size = Len(user.msg) /\ user.msg \in Seq(Nat)
    BY <1>1 DEF ProgramInv, CallInProgram, UserOK
  <2>2. Len(user.msg) <= prog.max
    BY <1>1 DEF ProgramInv, MessageOK, ReceiverInv
  <2>3. Len(user.msg) \in Nat /\ prog.max \in Nat /\ Largest \in Nat
    BY <2>1, ProgramTypes DEF Largest
  <2>. QED  BY <2>1, <2>2, <2>3
<1>3. dec.at # "idle" => dec.high <= OEnd
  BY DEF ReceiverInv, DecodeOK, DecodeRuns
<1>. QED  BY <1>1, <1>2, <1>3 DEF WritesFit, CopiesFit, TmpBuffersFit

\* The inductive invariant of the receivers of the fast compressor's blocks.
THEOREM ReceiverInvariant ==
  ASSUME HashOK
  PROVE  Spec => []ReceiveInv
<1>1. Init => ReceiveInv
  BY ReceiveInvStarts
<1>2. StreamInv /\ ReceiveInv /\ [Next]_vars => ReceiveInv'
  BY ReceiveInvKept
<1>. QED  BY <1>1, <1>2, StreamInvariant, PTL DEF Spec

\* What a decompressor makes of a block of the fast compressor is what was said
\* (LZ4_decompress_generic): with every way of calling it, whichever copies in
\* steps of eight bytes it takes, wherever the past is by now, and whatever the
\* message overwrote of it.
THEOREM FastRoundTrip ==
  ASSUME HashOK
  PROVE  Spec => [](FastProgram(prog) /\ Receivable(prog) => RoundTrip)
<1>1. StreamInv /\ ReceiveInv => (FastProgram(prog) /\ Receivable(prog) => RoundTrip)
  BY RoundTripHolds DEF StreamInv, ReceiveInv
<1>. QED  BY <1>1, StreamInvariant, ReceiverInvariant, PTL

\* Neither the compressor nor the decompressor of such a block writes past the
\* destination, with the copies in steps of eight bytes.
THEOREM FastCopiesFit ==
  ASSUME HashOK
  PROVE  Spec => [](FastProgram(prog) /\ Receivable(prog) /\ prog.max <= Largest => WritesFit)
<1>1. StreamInv /\ ReceiveInv => (FastProgram(prog) /\ Receivable(prog) /\ prog.max <= Largest => WritesFit)
  BY WritesHold DEF StreamInv, ReceiveInv
<1>. QED  BY <1>1, StreamInvariant, ReceiverInvariant, PTL
=============================================================================
