---------------------------- MODULE Lz4fCompress ----------------------------
(***************************************************************************)
(* The compressing half of lz4frame.c: LZ4F_compressBegin, Update, flush   *)
(* and End, and LZ4F_compressFrame, which is one of each.  A call runs in  *)
(* steps, and the block it makes is made by the compressors of Lz4Fast and *)
(* Lz4HC, in their own steps.                                              *)
(*                                                                         *)
(* What a call writes is appended to the wire, a sequence of items: a      *)
(* header, block headers, blocks, checksums, the end mark and the suffix.  *)
(* A checksum is what it was computed from, as if XXH32 never collided.    *)
(***************************************************************************)
EXTENDS Lz4HC

CONSTANTS
    TmpAt,      \* where tmpBuff is, in mem
    CDictAt     \* where the content of the digested dictionary is

VARIABLES
    cctx,       \* LZ4F_cctx_t
    cop,        \* the call that runs: its arguments and locals
    wire        \* what was written

frameOutVars == <<cctx, cop, wire>>
compressorVars == <<mem, stream, enc, block, hc, look>>

MinFHSize == 7
MaxFHSize == 19
BHSize == 4
CrcSize == 4
LevelMin == 3           \* LZ4HC_CLEVEL_MIN

BlockSizes == <<Window, 4 * Window, 16 * Window, 64 * Window>>
GetBlockSize(id) == BlockSizes[IF id = 0 THEN 1 ELSE id - 3]

\* prefs: linked, blockId, blockCrc, crc and size (flags), dictId, level and
\* autoFlush.
NoPrefs == [linked |-> TRUE, blockId |-> 0, blockCrc |-> FALSE, crc |-> FALSE, size |-> 0, dictId |-> FALSE,
            level |-> 0, autoFlush |-> FALSE]

FreshCctx == [prefs |-> NoPrefs, stage |-> 0, dict |-> 0, maxBlock |-> 0, maxBuffer |-> 0,
              tmpIn |-> TmpAt, tmpInSize |-> 0, total |-> 0, sum |-> <<>>]

FrameOutInit == cctx = FreshCctx /\ cop = [at |-> "idle", result |-> 0] /\ wire = <<>>

Linked == cctx.prefs.linked
Fast(level) == level < LevelMin

-----------------------------------------------------------------------------
(***************************************************************************)
(* The items.                                                              *)
(***************************************************************************)
HeaderSize(p) == MinFHSize + (IF p.size > 0 THEN 8 ELSE 0) + (IF p.dictId THEN 4 ELSE 0)
Info(p) == [linked |-> p.linked, blockId |-> Max({4, p.blockId}), blockCrc |-> p.blockCrc, crc |-> p.crc, size |-> p.size]

Header(p) == [kind |-> "header", size |-> HeaderSize(p), info |-> Info(p), check |-> Info(p)]
Skippable(n) == [kind |-> "skippable", size |-> 8, length |-> n]
Skipped(n) == [kind |-> "skipped", size |-> n]
EndMark == [kind |-> "block header", size |-> BHSize, length |-> 0, raw |-> FALSE]
Suffix(s) == [kind |-> "suffix", size |-> CrcSize, check |-> s]

\* A block, compressed or as it is: its header, its data and its checksum.
BlockItems(n, raw, data, crc) ==
    <<[kind |-> "block header", size |-> BHSize, length |-> n, raw |-> raw],
      [kind |-> IF raw THEN "raw" ELSE "block", size |-> n, data |-> data]>>
    \o IF crc THEN <<[kind |-> "crc", size |-> CrcSize, check |-> data]>> ELSE <<>>

SizeOfItems(items) == FoldLeft(LAMBDA n, i : n + i.size, 0, items)

\* Mutant: the bound leaves the checksums of the blocks out.
BoundInternal_NoBlockCrc(n, p, buffered) ==
    LET size == GetBlockSize(p.blockId)
        max == n + Min({buffered, size - 1})
        last == IF p.autoFlush \/ n = 0 THEN max % size ELSE 0
        blocks == max \div size + (IF last > 0 THEN 1 ELSE 0)
    IN 4 * blocks + size * (max \div size) + last + 4 + (IF p.crc THEN 4 ELSE 0)

\* LZ4F_compressBound_internal
BoundInternal(n, p, buffered) ==
    LET size == GetBlockSize(p.blockId)
        max == n + Min({buffered, size - 1})
        last == IF p.autoFlush \/ n = 0 THEN max % size ELSE 0
        blocks == max \div size + (IF last > 0 THEN 1 ELSE 0)
    IN (4 + (IF p.blockCrc THEN 4 ELSE 0)) * blocks + size * (max \div size) + last
       + 4 + (IF p.crc THEN 4 ELSE 0)

-----------------------------------------------------------------------------
(***************************************************************************)
(* LZ4F_compressBegin_usingCDict.  dict is the size of the dictionary that *)
(* was digested, 0 for none.                                               *)
(***************************************************************************)
FastCDict(n) == LoadedDict(FreshStream, CDictAt, n)
HighCDict(n, level) == [LoadedHC(HCReset(9), CDictAt, n) EXCEPT !.level = level]

RequiredBuffer(p) ==
    IF p.autoFlush THEN IF p.linked THEN Window ELSE 0
    ELSE GetBlockSize(p.blockId) + (IF p.linked THEN 2 * Window ELSE 0)

Begun(c, p, dict) ==
    /\ cctx' = [c EXCEPT !.prefs = p, !.stage = 1, !.dict = dict, !.maxBlock = GetBlockSize(p.blockId),
                         !.maxBuffer = Max({@, RequiredBuffer(p)}), !.tmpIn = TmpAt, !.tmpInSize = 0,
                         !.total = IF p.size > 0 THEN 0 ELSE @, !.sum = <<>>]
    /\ wire' = Append(wire, Header(p))
    /\ IF ~p.linked THEN UNCHANGED <<stream, hc>>
       ELSE IF Fast(p.level)
       THEN stream' = (IF dict > 0 THEN FastCDict(dict) ELSE FreshStream) /\ UNCHANGED hc
       ELSE hc' = (IF dict > 0 THEN HighCDict(dict, Level(p.level)) ELSE HCReset(Level(p.level))) /\ UNCHANGED stream
    /\ UNCHANGED <<mem, enc, block, look, cop>>

\* LZ4F_compressFrame: the preferences of a frame that is made of n bytes at
\* once, and its context, which needs no buffer.
OptimalBSID(id, n) == Min({Max({4, id})} \cup {k \in 4 .. 7 : n <= GetBlockSize(k)})
OneShot(p, n) ==
    LET id == IF p.blockId <= 4 THEN p.blockId ELSE OptimalBSID(p.blockId, n)
    IN [p EXCEPT !.size = IF @ > 0 THEN n ELSE 0, !.blockId = id, !.autoFlush = TRUE,
                 !.linked = @ /\ n > GetBlockSize(id)]
OneShotCctx == [FreshCctx EXCEPT !.maxBuffer = 80 * Window]

-----------------------------------------------------------------------------
(***************************************************************************)
(* Blocks: LZ4F_makeBlock with the function of LZ4F_selectCompression.     *)
(* A block that does not get smaller is stored as it is; the state of the  *)
(* compressor stays what the attempt made of it.                           *)
(***************************************************************************)
FrameAcceleration(level) == IF level < -1 THEN -level ELSE 1

MakeBlock(src, n, then) ==
    /\ cop' = [cop EXCEPT !.at = "block", !.then = then, !.src = src, !.n = n]
    /\ IF Fast(cctx.prefs.level)
       THEN LET acc == FrameAcceleration(cctx.prefs.level)
            IN /\ IF Linked THEN CompressContinue(src, n, n - 1, acc)
                  ELSE IF cctx.dict > 0 THEN ContinueStream(FastCDict(cctx.dict), src, n, n - 1, acc)
                  ELSE CompressFast(src, n, n - 1, acc)
               /\ UNCHANGED hc
       ELSE /\ IF Linked THEN CompressHCContinue(src, n, n - 1, FALSE)
               ELSE IF cctx.dict > 0
               THEN ContinueContext(HighCDict(cctx.dict, Level(cctx.prefs.level)), src, n, n - 1, FALSE)
               ELSE CompressHC(src, n, n - 1, cctx.prefs.level, FALSE)
            /\ UNCHANGED stream

BlockStep == (Compress /\ UNCHANGED <<hc, look>>) \/ CompressHigh

\* The block is on the wire; then is where its bytes came from.
BlockMade ==
    /\ cop.at = "block" /\ FastReturn
    /\ LET raw == enc.result = 0
           items == BlockItems(IF raw THEN cop.n ELSE enc.result, raw,
                               IF raw THEN Bytes(mem, cop.src, cop.n) ELSE block, cctx.prefs.blockCrc)
       IN /\ wire' = wire \o items
          /\ cop' = [cop EXCEPT !.written = @ + SizeOfItems(items),
                                !.at = IF cop.api = "update" THEN "blocks" ELSE "flushed",
                                !.next = IF cop.then = "tmp" THEN @ ELSE @ + cop.n, !.last = cop.then]
    /\ cctx' = IF cop.then = "source" THEN cctx
               ELSE [cctx EXCEPT !.tmpInSize = 0, !.tmpIn = IF Linked THEN @ + cop.n ELSE @]
    /\ UNCHANGED <<hc, look>>

\* LZ4F_localSaveDict, which leaves the dictionary at tmpBuff: its size.
SavedSize ==
    IF Fast(cctx.prefs.level) THEN Min({Window, stream.dictSize})
    ELSE Min({Window, hc.end - (hc.base + hc.dictLimit)})
LocalSaveDict ==
    IF Fast(cctx.prefs.level) THEN SaveDict(TmpAt, Window) /\ UNCHANGED hc
    ELSE SaveDictHC(TmpAt, Window) /\ UNCHANGED stream

\* Mutant: room for the next block is not looked for.
BeyondTmp_Start(tmpIn) == tmpIn > TmpAt + cctx.maxBuffer

BeyondTmp(tmpIn) == tmpIn + cctx.maxBlock > TmpAt + cctx.maxBuffer

-----------------------------------------------------------------------------
(***************************************************************************)
(* LZ4F_compressUpdate of n bytes at src.                                  *)
(***************************************************************************)
CopCall(api, src, n, stable) ==
    [api |-> api, at |-> IF api = "update" THEN "fill" ELSE api, from |-> src, next |-> src, end |-> src + n,
     stable |-> stable, buffered |-> cctx.tmpInSize, last |-> "none", then |-> "none", src |-> 0, n |-> 0,
     written |-> 0, result |-> 0]

\* Bytes that were buffered come first.
FillTmp ==
    /\ cop.at = "fill"
    /\ LET n == cop.end - cop.next
           missing == cctx.maxBlock - cctx.tmpInSize
       IN CASE cctx.tmpInSize = 0 ->
               cop' = [cop EXCEPT !.at = "blocks"] /\ UNCHANGED <<cctx, compressorVars>>
            [] cctx.tmpInSize > 0 /\ missing > n ->
               /\ mem' = Store(mem, cctx.tmpIn + cctx.tmpInSize, Bytes(mem, cop.next, n))
               /\ cctx' = [cctx EXCEPT !.tmpInSize = @ + n]
               /\ cop' = [cop EXCEPT !.at = "blocks", !.next = cop.end]
               /\ UNCHANGED <<stream, enc, block, hc, look>>
            [] OTHER ->
               /\ mem' = Store(mem, cctx.tmpIn + cctx.tmpInSize, Bytes(mem, cop.next, missing))
               /\ cop' = [cop EXCEPT !.at = "complete", !.next = @ + missing]
               /\ UNCHANGED <<cctx, stream, enc, block, hc, look>>
    /\ UNCHANGED wire

CompleteTmp ==
    /\ cop.at = "complete"
    /\ MakeBlock(cctx.tmpIn, cctx.maxBlock, "tmp")
    /\ UNCHANGED <<mem, look, cctx, wire>>

\* Full blocks are made of the source itself, and the rest with autoFlush.
NextBlock ==
    /\ cop.at = "blocks"
    /\ LET left == cop.end - cop.next
       IN IF left >= cctx.maxBlock THEN MakeBlock(cop.next, cctx.maxBlock, "source")
          ELSE IF cctx.prefs.autoFlush /\ left > 0 THEN MakeBlock(cop.next, left, "source")
          ELSE cop' = [cop EXCEPT !.at = "preserve"] /\ UNCHANGED <<stream, enc, block, hc>>
    /\ UNCHANGED <<mem, look, cctx, wire>>

\* The source is the dictionary of the next block: it is moved to tmpBuff
\* unless it stays where it is.
Preserve ==
    /\ cop.at = "preserve"
    /\ IF Linked /\ cop.last = "source" /\ cop.stable
       THEN /\ cop' = [cop EXCEPT !.at = "limit"]
            /\ cctx' = [cctx EXCEPT !.tmpIn = TmpAt]
            /\ UNCHANGED <<mem, stream, hc>>
       ELSE IF Linked /\ cop.last = "source"
       THEN /\ LocalSaveDict
            /\ cop' = IF SavedSize = 0 THEN [cop EXCEPT !.at = "done", !.result = -1] ELSE [cop EXCEPT !.at = "limit"]
            /\ cctx' = IF SavedSize = 0 THEN cctx ELSE [cctx EXCEPT !.tmpIn = TmpAt + SavedSize]
       ELSE cop' = [cop EXCEPT !.at = "limit"] /\ UNCHANGED <<cctx, mem, stream, hc>>
    /\ UNCHANGED <<enc, block, look, wire>>

\* tmpIn is kept within tmpBuff.
Limit ==
    /\ cop.at = "limit"
    /\ cop' = [cop EXCEPT !.at = "rest"]
    /\ IF BeyondTmp(cctx.tmpIn) /\ ~cctx.prefs.autoFlush
       THEN LocalSaveDict /\ cctx' = [cctx EXCEPT !.tmpIn = TmpAt + SavedSize]
       ELSE UNCHANGED <<mem, stream, hc, cctx>>
    /\ UNCHANGED <<enc, block, look, wire>>

\* What is left is buffered.
BufferRest ==
    /\ cop.at = "rest"
    /\ LET left == cop.end - cop.next
       IN /\ mem' = Store(mem, cctx.tmpIn, Bytes(mem, cop.next, left))
          /\ cctx' = [cctx EXCEPT !.tmpInSize = IF left > 0 THEN left ELSE @,
                                  !.sum = IF cctx.prefs.crc THEN @ \o Bytes(mem, cop.from, cop.end - cop.from) ELSE @,
                                  !.total = @ + cop.end - cop.from]
    /\ cop' = [cop EXCEPT !.at = "done"]
    /\ UNCHANGED <<stream, enc, block, hc, look, wire>>

-----------------------------------------------------------------------------
(***************************************************************************)
(* LZ4F_flush and LZ4F_compressEnd.                                        *)
(***************************************************************************)
Flush ==
    /\ cop.at \in {"flush", "end"}
    /\ IF cctx.tmpInSize = 0
       THEN cop' = [cop EXCEPT !.at = IF cop.api = "end" THEN "close" ELSE "done"] /\ UNCHANGED <<stream, enc, block, hc>>
       ELSE MakeBlock(cctx.tmpIn, cctx.tmpInSize, "tmp")
    /\ UNCHANGED <<mem, look, cctx, wire>>

Flushed ==
    /\ cop.at = "flushed"
    /\ cop' = [cop EXCEPT !.at = IF cop.api = "end" THEN "close" ELSE "done"]
    /\ IF BeyondTmp(cctx.tmpIn)
       THEN LocalSaveDict /\ cctx' = [cctx EXCEPT !.tmpIn = TmpAt + SavedSize]
       ELSE UNCHANGED <<mem, stream, hc, cctx>>
    /\ UNCHANGED <<enc, block, look, wire>>

Close ==
    /\ cop.at = "close"
    /\ LET items == <<EndMark>> \o IF cctx.prefs.crc THEN <<Suffix(cctx.sum)>> ELSE <<>>
       IN /\ wire' = wire \o items
          /\ cop' = [cop EXCEPT !.at = "done", !.written = @ + SizeOfItems(items),
                                !.result = IF cctx.prefs.size \notin {0, cctx.total} THEN -1 ELSE 0]
    /\ cctx' = [cctx EXCEPT !.stage = 0, !.maxBuffer = 0]
    /\ UNCHANGED compressorVars

CompressCall ==
    \/ BlockStep /\ UNCHANGED frameOutVars
    \/ BlockMade
    \/ FillTmp \/ CompleteTmp \/ NextBlock \/ Preserve \/ Limit \/ BufferRest
    \/ Flush \/ Flushed \/ Close
=============================================================================
