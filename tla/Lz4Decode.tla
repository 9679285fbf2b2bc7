----------------------------- MODULE Lz4Decode -----------------------------
(***************************************************************************)
(* The decompressor of LZ4 (lz4.c): a call of LZ4_decompress_generic, a    *)
(* step for each sequence of the block, and the stream that remembers      *)
(* where the blocks before it were decoded.                                *)
(*                                                                         *)
(* The copies write what the code writes, in steps of eight bytes and past *)
(* the end of what was asked for: junk from the compressed bytes that      *)
(* follow literals, and stale or repeated bytes after a match.             *)
(***************************************************************************)
EXTENDS Lz4Format

CONSTANT Junk       \* a byte that is in no message

VARIABLES
    out,        \* the memory of the decompressing side
    streamDecode,   \* LZ4_streamDecode_t_internal
    dec         \* the call that runs: its parameters and its locals

decodeVars == <<out, streamDecode, dec>>

NoStreamDecode == [externalDict |-> 0, extDictSize |-> 0, prefixEnd |-> 0, prefixSize |-> 0]

DecodeInit == streamDecode = NoStreamDecode /\ dec = [at |-> "idle", result |-> 0]

-----------------------------------------------------------------------------
(***************************************************************************)
(* Copies.  Upwards is what a copy byte by byte does, and one in steps of  *)
(* eight when the source is eight bytes below or further: it repeats what  *)
(* is between the two.  Block is memcpy or memmove.                        *)
(***************************************************************************)
Upwards(m, d, s, n) ==
    [a \in DOMAIN m |-> IF a \notin d .. d + n - 1 THEN m[a]
                        ELSE m[s + (IF s < d THEN (a - d) % (d - s) ELSE a - d)]]
Block(m, d, s, n) == [a \in DOMAIN m |-> IF a \in d .. d + n - 1 THEN m[s + (a - d)] ELSE m[a]]
Junked(m, p, n) == [a \in DOMAIN m |-> IF a \in p .. p + n - 1 THEN Junk ELSE m[a]]

\* Eight bytes from a match that is less than eight bytes back: two steps of
\* four, after which the match is far enough for steps of eight.
\* Mutant: the match of a distance of seven goes on one byte late.
dec64table_Late == <<0, 0, 0, -1, -4, 1, 2, 2>>

inc32table == <<0, 1, 2, 1, 0, 4, 4, 4>>
dec64table == <<0, 0, 0, -1, -4, 1, 2, 3>>

FirstEight(m, op, off) ==
    IF off >= 8 THEN Block(m, op, op - off, 8)
    ELSE LET four == Upwards(m, op, op - off, 4)
         IN Block(four, op + 4, op - off + inc32table[off + 1], 4)
AfterEight(op, off) ==
    IF off >= 8 THEN op - off + 8 ELSE op - off + inc32table[off + 1] - dec64table[off + 1]

-----------------------------------------------------------------------------
(***************************************************************************)
(* LZ4_decompress_generic.                                                 *)
(***************************************************************************)
OEnd == dec.dst + dec.cap
IEndOf(b) == IF dec.safe THEN BlockSize(b) ELSE 0
ExitAt == IF dec.target > dec.cap - MFLimit THEN OEnd - MFLimit ELSE dec.dst + dec.target
DecDictEnd == dec.dictStart + dec.dictSize

\* The call, as its wrapper makes it; safe is endOnInputSize.
Decode(dst, cap, safe, target, ext, low, dictStart, dictSize, then) ==
    [at |-> "decode", dst |-> dst, cap |-> cap, safe |-> safe, partial |-> target > 0, target |-> target,
     ext |-> ext, low |-> low, dictStart |-> dictStart, dictSize |-> dictSize, then |-> then,
     ip |-> 0, op |-> dst, next |-> 1, high |-> dst, result |-> 0]

Stop(result) == dec' = [dec EXCEPT !.at = "return", !.result = result]
\* A sequence was decoded: what was written, and up to where.
Go(m, ip, op, high) ==
    /\ out' = m
    /\ dec' = [dec EXCEPT !.ip = ip, !.op = op, !.next = @ + 1, !.high = Max({@, high})]

\* Nothing can be written.
DecodeEmpty(b) ==
    /\ dec.at = "decode" /\ dec.cap = 0
    /\ LET empty == b[1].lit = <<>> /\ MatchCode(b[1]) = 0
       IN Stop(IF ~empty \/ (dec.safe /\ BlockSize(b) # 1) THEN -1 ELSE IF dec.safe THEN 0 ELSE 1)
    /\ UNCHANGED <<out, streamDecode>>

Decoding == dec.at = "decode" /\ dec.cap > 0

\* The common case: few literals, a short match, room enough on both sides.
Common(b, s) ==
    /\ dec.ip + 1 + 14 + 2 <= IEndOf(b)
    /\ dec.op + 14 + 18 <= OEnd
    /\ Len(s.lit) < RunMask /\ MatchCode(s) < MlMask
    /\ s.off >= 8 /\ dec.op + Len(s.lit) - s.off >= dec.low

DecodeShortcut(b) ==
    /\ Decoding
    /\ LET s == b[dec.next]
           op == dec.op + Len(s.lit)
           lits == Store(Junked(out, dec.op, 16), dec.op, s.lit)
       IN /\ Common(b, s)
          /\ Go(Upwards(lits, op, op - s.off, 18), dec.ip + SizeOf(s), op + s.ml, Max({dec.op + 16, op + 18}))
    /\ UNCHANGED streamDecode

\* Literals too near to one of the ends are the last ones.
AtTheEnd(b, s) ==
    LET cpy == dec.op + Len(s.lit)
        ip == dec.ip + LiteralsEnd(s)
    IN IF dec.safe THEN \/ cpy > IF dec.partial THEN ExitAt ELSE OEnd - MFLimit
                        \/ ip > IEndOf(b) - (2 + 1 + LastLiterals)
       ELSE cpy > OEnd - WildCopyLength

DecodeLast(b) ==
    /\ Decoding
    /\ LET s == b[dec.next]
           cpy == dec.op + Len(s.lit)
           ip == dec.ip + LiteralsEnd(s)
           wrong == IF dec.partial THEN cpy > OEnd \/ ip > IEndOf(b)
                    ELSE IF dec.safe THEN ip # IEndOf(b) \/ cpy > OEnd ELSE cpy # OEnd
       IN /\ ~Common(b, s) /\ AtTheEnd(b, s)
          /\ IF wrong THEN Stop(-1) /\ UNCHANGED out
             ELSE /\ out' = Store(out, dec.op, s.lit)
                  /\ dec' = [dec EXCEPT !.at = "return", !.ip = ip, !.op = cpy, !.high = Max({@, cpy}),
                                        !.result = IF dec.safe THEN cpy - dec.dst ELSE ip]
    /\ UNCHANGED streamDecode

\* A match that starts in the external dictionary, and may go on in the block.
FromDictionary(m, op, match, ml) ==
    LET n == dec.low - match
    IN IF ml <= n THEN Block(m, op, DecDictEnd - n, ml)
       ELSE LET first == Block(m, op, DecDictEnd - n, n) IN Upwards(first, op + n, dec.low, ml - n)

\* A match within the block, near the end of the destination and elsewhere.
NearEnd(m, op, off, ml) ==
    LET eight == FirstEight(m, op, off)
        from == AfterEight(op, off)
        limit == OEnd - (WildCopyLength - 1)
        wild == IF op + 8 < limit THEN Upwards(eight, op + 8, from, WildBytes(limit - op - 8)) ELSE eight
        at == Max({op + 8, limit})
    IN Upwards(wild, at, from + at - op - 8, Max({0, op + ml - at}))
Elsewhere(m, op, off, ml) ==
    LET eight == FirstEight(m, op, off)
        n == IF ml > 16 THEN 8 + WildBytes(ml - 16) ELSE 8
    IN Upwards(eight, op + 8, AfterEight(op, off), n)
HighOf(op, ml) ==
    LET limit == OEnd - (WildCopyLength - 1)
    IN IF op + ml > OEnd - 12
       THEN Max({op + 8, op + ml, IF op + 8 < limit THEN op + 8 + WildBytes(limit - op - 8) ELSE 0})
       ELSE IF ml > 16 THEN op + 16 + WildBytes(ml - 16) ELSE op + 16

DecodeSequence(b) ==
    /\ Decoding
    /\ LET s == b[dec.next]
           n == Len(s.lit)
           op == dec.op + n
           match == op - s.off
           ip == dec.ip + SizeOf(s)
           lits == Junked(Store(Junked(out, dec.op, WildBytes(n)), dec.op, s.lit), op, 4)
           high == Max({dec.op + WildBytes(n), op + 4})
           inDict == dec.ext /\ match < dec.low
           wrong == \/ dec.safe /\ dec.dictSize < Window /\ match + dec.dictSize < dec.low
                    \/ dec.safe /\ MatchCode(s) >= MlMask /\ ip > IEndOf(b) - LastLiterals
                    \/ op + s.ml > OEnd - LastLiterals
       IN /\ ~Common(b, s) /\ ~AtTheEnd(b, s)
          /\ IF wrong THEN Stop(-1) /\ UNCHANGED out
             ELSE IF inDict THEN Go(FromDictionary(lits, op, match, s.ml), ip, op + s.ml, Max({high, op + s.ml}))
             ELSE IF op + s.ml > OEnd - 12
             THEN Go(NearEnd(lits, op, s.off, s.ml), ip, op + s.ml, Max({high, HighOf(op, s.ml)}))
             ELSE Go(Elsewhere(lits, op, s.off, s.ml), ip, op + s.ml, Max({high, HighOf(op, s.ml)}))
    /\ UNCHANGED streamDecode

Decompress(b) == DecodeEmpty(b) \/ DecodeShortcut(b) \/ DecodeLast(b) \/ DecodeSequence(b)

-----------------------------------------------------------------------------
(***************************************************************************)
(* The entry points.                                                       *)
(***************************************************************************)
DecompressSafe(dst, cap) ==
    dec' = Decode(dst, cap, TRUE, 0, FALSE, dst, 0, 0, "forget") /\ UNCHANGED <<out, streamDecode>>
DecompressSafePartial(dst, target, cap) ==
    dec' = Decode(dst, cap, TRUE, target, FALSE, dst, 0, 0, "forget") /\ UNCHANGED <<out, streamDecode>>
DecompressFast(dst, size) ==
    dec' = Decode(dst, size, FALSE, 0, FALSE, dst - Window, 0, Window, "forget") /\ UNCHANGED <<out, streamDecode>>

SetStreamDecode(dict, n) ==
    [externalDict |-> 0, extDictSize |-> 0, prefixEnd |-> dict + n, prefixSize |-> n]

\* LZ4_decompress_safe_continue and _fast_continue: a block that follows the
\* one before it extends the prefix, otherwise the prefix becomes external.
Continue(sd, dst, cap, safe) ==
    /\ IF sd.prefixEnd = dst
       THEN /\ streamDecode' = sd
            /\ dec' = Decode(dst, cap, safe, 0, TRUE, sd.prefixEnd - sd.prefixSize,
                             sd.externalDict, sd.extDictSize, "grow")
       ELSE LET ext == [sd EXCEPT !.extDictSize = sd.prefixSize, !.externalDict = sd.prefixEnd - sd.prefixSize]
            IN /\ streamDecode' = ext
               /\ dec' = Decode(dst, cap, safe, 0, TRUE, dst, ext.externalDict, ext.extDictSize, "jump")
    /\ UNCHANGED out

\* LZ4_decompress_usingDict_generic
UsingDictCall(dst, cap, safe, dict, n) ==
    IF n = 0 THEN Decode(dst, cap, safe, 0, FALSE, dst, 0, 0, "forget")
    ELSE IF dict + n # dst THEN Decode(dst, cap, safe, 0, TRUE, dst, dict, n, "forget")
    ELSE Decode(dst, cap, safe, 0, FALSE, dst - (IF n >= Window - 1 THEN Window ELSE n), 0, 0, "forget")
UsingDict(dst, cap, safe, dict, n) ==
    dec' = UsingDictCall(dst, cap, safe, dict, n) /\ UNCHANGED <<out, streamDecode>>

DecodeReturn ==
    /\ dec.at = "return"
    /\ dec' = [dec EXCEPT !.at = "idle"]
    /\ LET n == IF dec.safe THEN dec.result ELSE dec.cap
       IN streamDecode' =
            IF dec.then = "forget" \/ dec.result <= 0 THEN streamDecode
            ELSE [streamDecode EXCEPT !.prefixSize = IF dec.then = "grow" THEN @ + n ELSE n,
                                      !.prefixEnd = dec.dst + n]
    /\ UNCHANGED out
=============================================================================
