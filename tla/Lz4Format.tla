----------------------------- MODULE Lz4Format -----------------------------
(***************************************************************************)
(* What the compressors and the decompressor of LZ4 (src/lz4/lib) share:   *)
(* the limits of the block format, and a block as the sequences that it    *)
(* encodes.  A sequence is a run of literals and a match: a copy of ml     *)
(* bytes from off bytes back.  The last sequence of a block has literals   *)
(* only.  What a token and its length bytes hold is not spelled out: their *)
(* number is, for the positions of both sides are compared with the ends   *)
(* of the buffers.                                                         *)
(*                                                                         *)
(* All the limits are those of the code but the window of 64 KB, which is  *)
(* a parameter.                                                            *)
(***************************************************************************)
EXTENDS Integers, FiniteSetsExt, SequencesExt

CONSTANT Window         \* 64 KB

MinMatch == 4
WildCopyLength == 8
LastLiterals == 5
MFLimit == WildCopyLength + MinMatch
MinLength == MFLimit + 1
RunMask == 15
MlMask == 15

MaxDistance == Window - 1
Limit64K == Window + (MFLimit - 1)

CompressBound(n) == n + n \div 255 + 16

\* The bytes that a length needs beside the four bits in the token.
LengthBytes(n) == IF n >= 15 THEN 1 + (n - 15) \div 255 ELSE 0

IsLast(s) == s.ml = 0
Match(lit, off, ml) == [lit |-> lit, off |-> off, ml |-> ml]
LastRun(lit) == Match(lit, 0, 0)

MatchCode(s) == IF IsLast(s) THEN 0 ELSE s.ml - MinMatch
LiteralsEnd(s) == 1 + LengthBytes(Len(s.lit)) + Len(s.lit)
SizeOf(s) == LiteralsEnd(s) + (IF IsLast(s) THEN 0 ELSE 2 + LengthBytes(MatchCode(s)))
Total(s) == FoldLeft(LAMBDA n, k : n + k, 0, s)
BlockSize(b) == Total([i \in 1 .. Len(b) |-> SizeOf(b[i])])

\* How many bytes LZ4_wildCopy writes for a run of n: in steps of eight, and
\* at least one.
WildBytes(n) == WildCopyLength * Max({1, (n + WildCopyLength - 1) \div WildCopyLength})

-----------------------------------------------------------------------------
(***************************************************************************)
(* Memory: a function from addresses to bytes.                             *)
(***************************************************************************)
Bytes(m, p, n) == [i \in 1 .. n |-> m[p + i - 1]]
Store(m, p, s) == [a \in DOMAIN m |-> IF a \in p .. p + Len(s) - 1 THEN s[a - p + 1] ELSE m[a]]

\* LZ4_count: how many bytes at p and at q agree, before p reaches the limit.
Agree(m, p, q, n) == \A i \in 0 .. n - 1 : m[p + i] = m[q + i]
Count(m, p, q, limit) ==
    IF limit <= p THEN 0
    ELSE CHOOSE n \in 0 .. limit - p : (n = limit - p \/ m[p + n] # m[q + n]) /\ Agree(m, p, q, n)

\* How many bytes before p and before q agree, of at most n.
CountBack(m, p, q, n) ==
    CHOOSE k \in 0 .. n : (k = n \/ m[p - k - 1] # m[q - k - 1]) /\ Agree(m, p - k, q - k, k)
=============================================================================
