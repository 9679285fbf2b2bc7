------------------------------ MODULE Lz4Fast ------------------------------
(***************************************************************************)
(* The fast compressor of LZ4 (lz4.c): a call of LZ4_compress_generic or   *)
(* of LZ4_compress_destSize_generic, a step for each round of the search   *)
(* and each part of a sequence, and the stream that survives the calls: a  *)
(* hash table of positions, the dictionary they may point into, and the    *)
(* offset that makes the positions of different calls comparable.          *)
(*                                                                         *)
(* Addresses are numbers, 0 is NULL.  The bytes written to the destination *)
(* are kept as the sequences of the block, with the position op and the    *)
(* high-water mark that copies in steps of eight bytes leave behind it.    *)
(***************************************************************************)
EXTENDS Lz4Format

CONSTANTS
    Slots,          \* the entries of the hash table
    Hash(_),        \* the entry of a run of bytes
    HashUnit,       \* sizeof(reg_t)
    SkipTrigger,    \* LZ4_skipTrigger
    MaxOffset,      \* the offset above which the table is rescaled, 2^31
    Origin          \* how far above the address space's start the memory begins

\* The window has room for a match, and what the rescaling keeps fits below the
\* offset at which it is done: no process has memory in the first 64 KB.
ASSUME FastAssumption ==
    /\ Window \in Nat /\ Window >= MFLimit
    /\ MaxOffset \in Nat /\ MaxOffset >= Window
    /\ Origin \in Nat /\ Origin >= Window
    /\ HashUnit \in Nat /\ HashUnit >= MinMatch
    /\ 2 ^ SkipTrigger \in Nat \ {0}

VARIABLES
    mem,        \* the memory of the compressing side
    stream,     \* LZ4_stream_t_internal
    enc,        \* the call that runs: its parameters and its locals
    block       \* the sequences that it has written

fastVars == <<mem, stream, enc, block>>

FreshStream == [table |-> [h \in Slots |-> 0], dict |-> 0, dictSize |-> 0, offset |-> 0]

Resting == [at |-> "idle", result |-> 0]

FastInit == stream = FreshStream /\ enc = Resting /\ block = <<>>

-----------------------------------------------------------------------------
(***************************************************************************)
(* The parameters of a call and what follows from them.                    *)
(***************************************************************************)
IEnd == enc.src + enc.size
SearchLimit == IF enc.fill THEN IEnd - MFLimit ELSE IEnd - MFLimit + 1
MatchLimit == IEnd - LastLiterals
DictEnd == stream.dict + stream.dictSize
DictDelta == DictEnd - enc.src
LowRefLimit == enc.src - stream.dictSize

BaseOf(e) == IF e.dict = "none" THEN e.src ELSE e.src - stream.offset
HashAt(e, p) == Hash(Bytes(mem, p, IF e.type = "u16" THEN 4 ELSE 5))
PutPosition(t, e, p) == [t EXCEPT ![HashAt(e, p)] = p - BaseOf(e)]
GetPosition(t, e, h) == t[h] + BaseOf(e)

\* Where the bytes of a position are: in the dictionary, if it is an external
\* one and the position is before the source.
InDictionary(match) == enc.dict = "external" /\ match < enc.src
DeltaOf(match) == IF InDictionary(match) THEN DictDelta ELSE 0
LowLimitOf(match) ==
    CASE enc.dict = "none" -> enc.src
      [] enc.dict = "prefix" -> enc.src - stream.dictSize
      [] OTHER -> IF match < enc.src THEN stream.dict ELSE enc.src

Reaches(match) == enc.small => match >= LowRefLimit
SameFour(match, p) == Agree(mem, match + DeltaOf(match), p, MinMatch)

\* The call, as its wrapper makes it.  Without a limit maxOutputSize is not
\* looked at; what the destination holds is compressBound then.
Call(src, size, cap, limited, type, dict, small, acc, fill) ==
    [at |-> "setup", src |-> src, size |-> size, cap |-> cap, limited |-> limited, type |-> type,
     dict |-> dict, small |-> small, acc |-> acc, fill |-> fill,
     ip |-> src, anchor |-> src, forward |-> src, step |-> 1, nb |-> 0, hash |-> 0, match |-> 0,
     lit |-> <<>>, op |-> 0, high |-> 0, result |-> 0]

-----------------------------------------------------------------------------
(***************************************************************************)
(* LZ4_compress_generic.                                                   *)
(***************************************************************************)
Search(e, p) ==
    [e EXCEPT !.at = "search", !.ip = p, !.forward = p, !.step = 1,
              !.nb = IF e.fill THEN 2 ^ SkipTrigger ELSE e.acc * 2 ^ SkipTrigger, !.hash = HashAt(e, p)]

Return(n) == enc' = [enc EXCEPT !.at = "return", !.result = n] /\ UNCHANGED <<stream, block>>

SetUp ==
    /\ enc.at = "setup"
    /\ IF (enc.fill /\ enc.cap < 1) \/ (enc.type = "u16" /\ enc.size >= Limit64K) THEN Return(0)
       ELSE /\ UNCHANGED block
            /\ IF enc.size < MinLength
               THEN enc' = [enc EXCEPT !.at = "last"] /\ UNCHANGED stream
               ELSE /\ stream' = [stream EXCEPT !.table = PutPosition(@, enc, enc.src)]
                    /\ enc' = Search(enc, enc.src + 1)
    /\ UNCHANGED mem

\* A round of the search: the position is looked up and put in the table.
FindMatch ==
    /\ enc.at = "search"
    /\ LET p == enc.forward
           next == p + enc.step
           match == GetPosition(stream.table, enc, enc.hash)
           found == /\ Reaches(match)
                    /\ enc.type = "u16" \/ match + MaxDistance >= p
                    /\ SameFour(match, p)
       IN IF next > SearchLimit
          THEN enc' = [enc EXCEPT !.at = "last"] /\ UNCHANGED stream
          ELSE /\ stream' = [stream EXCEPT !.table[enc.hash] = p - BaseOf(enc)]
               /\ enc' = [enc EXCEPT !.at = IF found THEN "literals" ELSE "search",
                                     !.ip = p, !.match = match, !.forward = next,
                                     !.step = enc.nb \div 2 ^ SkipTrigger, !.nb = @ + 1,
                                     !.hash = HashAt(enc, next)]
    /\ UNCHANGED <<mem, block>>

\* The match is extended backwards over the literals, which are then written.
EncodeLiterals ==
    /\ enc.at = "literals"
    /\ LET from == enc.match + DeltaOf(enc.match)
           back == CountBack(mem, enc.ip, from, Min({enc.ip - enc.anchor, from - LowLimitOf(enc.match)}))
           p == enc.ip - back
           n == p - enc.anchor
           op == enc.op + 1
           start == op + LengthBytes(n)
       IN IF enc.fill /\ op + (n + 240) \div 255 + n > enc.cap - 2 - 8 - 1
          THEN enc' = [enc EXCEPT !.at = "last"]
          ELSE IF enc.limited /\ op + n + (2 + 1 + LastLiterals) + n \div 255 > enc.cap
          THEN enc' = [enc EXCEPT !.at = "return", !.result = 0]
          ELSE enc' = [enc EXCEPT !.at = "match", !.ip = p, !.match = @ - back,
                                  !.lit = Bytes(mem, enc.anchor, n), !.op = start + n,
                                  !.high = Max({@, start + WildBytes(n)})]
    /\ UNCHANGED <<mem, stream, block>>

\* How far the match goes: from the dictionary it goes on at the source.
MatchCodeAt(p, match) ==
    LET from == match + DeltaOf(match)
        limit == Min({p + (DictEnd - from), MatchLimit})
        n == Count(mem, p + MinMatch, from + MinMatch, limit)
        q == p + MinMatch + n
    IN IF enc.dict = "external" /\ LowLimitOf(match) = stream.dict
       THEN n + (IF q = limit THEN Count(mem, q, enc.src, MatchLimit) ELSE 0)
       ELSE Count(mem, p + MinMatch, match + MinMatch, MatchLimit)

EncodeMatch ==
    /\ enc.at = "match"
    /\ LET op == enc.op + 2
           found == MatchCodeAt(enc.ip, enc.match)
           room == enc.cap - (LastLiterals + 1) - op
           code == IF enc.fill /\ (found + 240) \div 255 > room THEN (15 - 1) + room * 255 ELSE found
           p == enc.ip + MinMatch + code
           end == op + LengthBytes(code)
           full == enc.limited /\ op + (1 + LastLiterals) + code \div 256 > enc.cap
       IN IF full THEN Return(0)
          ELSE /\ block' = Append(block, Match(enc.lit, (enc.ip - enc.match) % Window, MinMatch + code))
               /\ enc' = [enc EXCEPT
                    !.at = IF p >= IEnd - MFLimit + 1 \/ (enc.fill /\ end > enc.cap - 2 - 8 - 1 - 1)
                           THEN "last" ELSE "next",
                    !.ip = p, !.anchor = p, !.op = end,
                    !.high = Max({@, end, IF code >= MlMask /\ ~enc.fill
                                          THEN op + 4 + 4 * ((code - MlMask) \div 1020) ELSE 0})]
               /\ UNCHANGED stream
    /\ UNCHANGED mem

\* The table is filled, and a match right after the last one has no literals.
TestNext ==
    /\ enc.at = "next"
    /\ LET p == enc.ip
           filled == PutPosition(stream.table, enc, p - 2)
           match == GetPosition(filled, enc, HashAt(enc, p))
           found == Reaches(match) /\ match + MaxDistance >= p /\ SameFour(match, p)
       IN /\ stream' = [stream EXCEPT !.table = PutPosition(filled, enc, p)]
          /\ enc' = IF found THEN [enc EXCEPT !.at = "match", !.match = match, !.lit = <<>>, !.op = @ + 1]
                    ELSE Search(enc, p + 1)
    /\ UNCHANGED <<mem, block>>

\* With a destination to fill the run is cut to what is left of it.
LastLiteralsAt(step) ==
    /\ enc.at = step
    /\ LET run == IEnd - enc.anchor
           room == enc.cap - enc.op - 1
           n == IF enc.fill /\ (run + 240) \div 255 + run > room THEN room - (room + 240) \div 255 ELSE run
           end == enc.op + 1 + LengthBytes(n) + n
       IN IF enc.limited /\ enc.op + run + 1 + (run + 255 - RunMask) \div 255 > enc.cap THEN Return(0)
          ELSE /\ block' = Append(block, LastRun(Bytes(mem, enc.anchor, n)))
               /\ enc' = [enc EXCEPT !.at = "return", !.anchor = @ + n, !.op = end,
                                     !.high = Max({@, end}), !.result = end]
               /\ UNCHANGED stream
    /\ UNCHANGED mem

EncodeLast == LastLiteralsAt("last")

Compress == SetUp \/ FindMatch \/ EncodeLiterals \/ EncodeMatch \/ TestNext \/ EncodeLast

-----------------------------------------------------------------------------
(***************************************************************************)
(* The entry points.  Each starts a call on bytes that are in memory.      *)
(***************************************************************************)
OneShotType(n) == IF n < Limit64K THEN "u16" ELSE "u32"
Acceleration(acc) == IF acc < 1 THEN 1 ELSE acc

\* LZ4_compress_fast, which LZ4_compress_default calls.
CompressFast(src, n, cap, acc) ==
    /\ stream' = FreshStream
    /\ enc' = Call(src, n, cap, cap < CompressBound(n), OneShotType(n), "none", FALSE, Acceleration(acc), FALSE)
    /\ block' = <<>>

\* LZ4_compress_destSize: as much of the source as the destination takes.
CompressDestSize(src, n, cap) ==
    IF cap >= CompressBound(n) THEN CompressFast(src, n, cap, 1)
    ELSE /\ stream' = FreshStream
         /\ enc' = Call(src, n, cap, FALSE, OneShotType(n), "none", FALSE, 1, TRUE)
         /\ block' = <<>>

\* LZ4_renormDictT: the table starts over before the offset overflows, or exceeds
\* the address of what is compressed.
Renormed(s, address) ==
    LET delta == s.offset - Window
        size == Min({s.dictSize, Window})
    IN IF s.offset <= MaxOffset /\ s.offset <= Origin + address THEN s
       ELSE [table |-> [h \in Slots |-> Max({0, s.table[h] - delta})], offset |-> Window,
             dictSize |-> size, dict |-> s.dict + s.dictSize - size]

\* Mutant: a source that ends within the dictionary leaves it as it is.
Trimmed_Whole(s, sourceEnd) == s

\* What the source has overwritten is no longer in the dictionary.
Trimmed(s, sourceEnd) ==
    LET end == s.dict + s.dictSize
        left == Min({end - sourceEnd, Window})
        size == IF left < 4 THEN 0 ELSE left
    IN IF sourceEnd > s.dict /\ sourceEnd < end THEN [s EXCEPT !.dict = end - size, !.dictSize = size] ELSE s

\* LZ4_compress_fast_continue, on the stream as it is or on a copy of one.
ContinueStream(s0, src, n, cap, acc) ==
    LET smallest == IF s0.dictSize > 0 THEN Min({src, s0.dict + s0.dictSize}) ELSE src
        s == Trimmed(Renormed(s0, smallest), src + n)
        dict == IF s.dict + s.dictSize = src THEN "prefix" ELSE "external"
        small == s.dictSize < Window /\ s.dictSize < s.offset
    IN /\ stream' = s
       /\ enc' = Call(src, n, cap, TRUE, "u32", dict, small, Acceleration(acc), FALSE)
       /\ block' = <<>>
CompressContinue(src, n, cap, acc) == ContinueStream(stream, src, n, cap, acc)

\* The call returns: the stream takes the source for its dictionary.
FastReturn ==
    /\ enc.at = "return"
    /\ enc' = [enc EXCEPT !.at = "idle"]
    /\ stream' = CASE enc.dict = "none" -> stream
                   [] enc.dict = "prefix" -> [stream EXCEPT !.dictSize = @ + enc.size, !.offset = @ + enc.size]
                   [] OTHER -> [stream EXCEPT !.dict = enc.src, !.dictSize = enc.size, !.offset = @ + enc.size]
    /\ UNCHANGED <<mem, block>>

\* LZ4_loadDict: every third position of the dictionary is put in the table.
LoadedDict(s0, dict, n) ==
    LET s == IF s0.offset > MaxOffset \div 2 THEN FreshStream ELSE s0
        size == Min({n, Window})
        from == dict + n - size
        offset == s.offset + Window
        Put(h) == {p \in from .. from + size - HashUnit :
                      (p - from) % 3 = 0 /\ Hash(Bytes(mem, p, 5)) = h}
    IN IF n < HashUnit THEN [s EXCEPT !.dict = 0, !.dictSize = 0]
       ELSE [table |-> [h \in Slots |-> IF Put(h) = {} THEN s.table[h] ELSE Max(Put(h)) - from + offset],
             dict |-> from, dictSize |-> size, offset |-> offset + size]

\* LZ4_saveDict: the end of the dictionary is moved to a safe place.
SaveDict(safe, n) ==
    LET size == Min({n, Window, stream.dictSize})
    IN /\ mem' = Store(mem, safe, Bytes(mem, DictEnd - size, size))
       /\ stream' = [stream EXCEPT !.dict = safe, !.dictSize = size]
=============================================================================
