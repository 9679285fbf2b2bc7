--------------------------- MODULE Lz4fDecompress ---------------------------
(***************************************************************************)
(* The decompressing half of lz4frame.c: LZ4F_decompress, which takes any  *)
(* number of bytes of a frame and room for any number of decoded bytes,    *)
(* and remembers in its context where it stopped.  A step is a stage of    *)
(* its state machine; a block is decoded by the steps of Lz4Decode.        *)
(*                                                                         *)
(* The input is a sequence of items (Lz4fCompress).  What was stored of an *)
(* item that did not arrive whole is its number of bytes: tmpInSize, which *)
(* is only looked at in the stages that store.                             *)
(***************************************************************************)
EXTENDS Lz4Decode

CONSTANTS TmpOutAt      \* where tmpOutBuffer is, in out

VARIABLES
    dctx,       \* LZ4F_dctx, and the next item of the input
    dcall       \* the call that runs: its arguments and locals

frameInVars == <<dctx, dcall>>

MaxHeader == 19
MinHeader == 7
BlockHeader == 4
Crc == 4

NoInfo == [linked |-> TRUE, blockId |-> 0, blockCrc |-> FALSE, crc |-> FALSE, size |-> 0]

FrameInInit ==
    /\ dctx = [stage |-> "getFrameHeader", info |-> NoInfo, remaining |-> 0, maxBlock |-> 0, maxBuffer |-> 0,
               tmpInCap |-> 0, tmpInSize |-> 0, target |-> 0, dict |-> 0, dictSize |-> 0,
               tmpOut |-> TmpOutAt, tmpOutSize |-> 0, tmpOutStart |-> 0, sum |-> <<>>, crc |-> <<>>, item |-> 1]
    /\ dcall = [at |-> "idle"]

\* LZ4F_resetDecompressionContext
Reset(d) == [d EXCEPT !.stage = "getFrameHeader", !.dict = 0, !.dictSize = 0]

MaxBlockSize(id) == Window * 4 ^ (id - 4)

DCall(given, dst, room, stable) ==
    [at |-> "run", given |-> given, left |-> given, start |-> dst, op |-> dst, end |-> dst + room,
     stable |-> stable, hint |-> 1, error |-> "none", into |-> "dst", n |-> 0, data |-> <<>>]

\* LZ4F_decompress_usingDict sets the dictionary; dict is 0 for LZ4F_decompress.
DecompressCall(given, dst, room, stable, dict, n) ==
    /\ dcall' = DCall(given, dst, room, stable)
    /\ dctx' = IF dict # 0 /\ dctx.stage \in {"getFrameHeader", "storeFrameHeader", "init"}
               THEN [dctx EXCEPT !.dict = dict, !.dictSize = n] ELSE dctx
    /\ UNCHANGED decodeVars

-----------------------------------------------------------------------------
(***************************************************************************)
(* LZ4F_updateDict: n bytes were written at p; the history of linked       *)
(* blocks has to include them.                                             *)
(***************************************************************************)
History(o, dict, n) == [out |-> o, dict |-> dict, size |-> n]

\* What precedes a block in tmpOut, copied in front of it.
InFront(o, dictEnd) ==
    LET before == dctx.tmpOut - TmpOutAt
        n == IF dctx.tmpOutSize > Window THEN 0 ELSE Min({Window - dctx.tmpOutSize, before})
    IN Block(o, dctx.tmpOut - n, dictEnd - dctx.tmpOutStart - n, n)

\* What is kept of the dictionary, followed by what was written.
Joined(o, dict, size, p, n) == Block(Block(o, TmpOutAt, dict, size), TmpOutAt + size, p, n)

UpdateDict(o, p, n, withinTmp) ==
    LET size == dctx.dictSize
        dict == IF size = 0 THEN p ELSE dctx.dict
        within == p - dcall.start + n
        kept == Min({Window - n, size})
    IN IF ~dctx.info.linked THEN History(o, dctx.dict, size)
       ELSE IF dict + size = p THEN History(o, dict, size + n)
       ELSE IF within >= Window THEN History(o, dcall.start, within)
       ELSE IF withinTmp /\ dict = TmpOutAt THEN History(o, dict, size + n)
       ELSE IF withinTmp
       THEN History(InFront(o, dict + size), TmpOutAt, dctx.tmpOut - TmpOutAt + dctx.tmpOutStart + n)
       ELSE IF dict = TmpOutAt /\ size + n <= dctx.maxBuffer
       THEN History(Block(o, TmpOutAt + size, p, n), TmpOutAt, size + n)
       ELSE IF dict = TmpOutAt
       THEN History(Joined(o, dict + size - (Window - n), Window - n, p, n), TmpOutAt, Window)
       ELSE History(Joined(o, dict + size - kept, kept, p, n), TmpOutAt, kept + n)

-----------------------------------------------------------------------------
(***************************************************************************)
(* What the stages do with the input.                                      *)
(***************************************************************************)
At(stages) == dcall.at = "run" /\ dctx.stage \in stages

\* The first n bytes of an item of which have are stored.
Arriving(have, size) == Min({size - have, dcall.left})
Whole(have, size) == dcall.left >= size - have

Used(n) == [dcall EXCEPT !.left = @ - n]
Fail(error) == dcall' = [dcall EXCEPT !.at = "failed", !.error = error] /\ UNCHANGED dctx
\* The input is used up: the call ends with a hint for the next one.
Pause(n, hint) == [dcall EXCEPT !.at = "epilogue", !.left = @ - n, !.hint = hint]

\* Counted by the checksum of the frame and by its size.
Counted(d, bytes) ==
    [d EXCEPT !.sum = IF d.info.crc THEN @ \o bytes ELSE @,
              !.remaining = IF d.info.size > 0 THEN @ - Len(bytes) ELSE @]

-----------------------------------------------------------------------------
(***************************************************************************)
(* Headers: LZ4F_decodeHeader of n bytes, that were stored or are in the   *)
(* input, of which hSize are taken.                                        *)
(***************************************************************************)
DecodeHeader(input, n, stored) ==
    LET h == input[dctx.item]
        known == IF n >= h.size
                 THEN [dctx EXCEPT !.stage = "init", !.info = h.info, !.maxBlock = MaxBlockSize(h.info.blockId),
                                   !.remaining = IF h.info.size > 0 THEN h.info.size ELSE @, !.item = @ + 1]
                 ELSE [dctx EXCEPT !.stage = "storeFrameHeader", !.info = NoInfo, !.tmpInSize = n, !.target = h.size]
    IN IF h.kind = "skippable"
       THEN [ok |-> TRUE, taken |-> IF stored THEN n ELSE 4,
             d |-> IF stored THEN [dctx EXCEPT !.stage = "storeSFrameSize", !.info = NoInfo, !.tmpInSize = n, !.target = 8]
                   ELSE [dctx EXCEPT !.stage = "getSFrameSize", !.info = NoInfo]]
       ELSE [ok |-> n >= h.size => h.check = h.info, taken |-> Min({n, h.size}), d |-> known]

GetFrameHeader(input) ==
    /\ At({"getFrameHeader"})
    /\ IF dcall.left >= MaxHeader
       THEN LET r == DecodeHeader(input, dcall.left, FALSE)
            IN IF r.ok THEN dctx' = r.d /\ dcall' = Used(r.taken) ELSE Fail("header checksum")
       ELSE IF dcall.left = 0
       THEN dctx' = [dctx EXCEPT !.tmpInSize = 0] /\ dcall' = [dcall EXCEPT !.at = "done", !.hint = MinHeader]
       ELSE dctx' = [dctx EXCEPT !.tmpInSize = 0, !.target = MinHeader, !.stage = "storeFrameHeader"] /\ UNCHANGED dcall
    /\ UNCHANGED decodeVars

StoreFrameHeader(input) ==
    /\ At({"storeFrameHeader"})
    /\ LET n == Arriving(dctx.tmpInSize, dctx.target)
           r == DecodeHeader(input, dctx.target, TRUE)
       IN IF ~Whole(dctx.tmpInSize, dctx.target)
          THEN /\ dctx' = [dctx EXCEPT !.tmpInSize = @ + n]
               /\ dcall' = Pause(n, dctx.target - dctx.tmpInSize - n + BlockHeader)
          ELSE IF r.ok THEN dctx' = r.d /\ dcall' = Used(n) ELSE Fail("header checksum")
    /\ UNCHANGED decodeVars

\* The buffers are allocated, or those of a frame before are large enough.
InitFrame ==
    /\ At({"init"})
    /\ LET needed == dctx.maxBlock + IF dctx.info.linked THEN 2 * Window ELSE 0
           larger == needed > dctx.maxBuffer
       IN dctx' = [dctx EXCEPT !.stage = "getBlockHeader", !.maxBuffer = Max({@, needed}),
                               !.tmpInCap = IF larger THEN dctx.maxBlock + Crc ELSE @,
                               !.tmpInSize = 0, !.target = 0, !.tmpOut = TmpOutAt, !.tmpOutStart = 0,
                               !.tmpOutSize = 0, !.sum = IF dctx.info.crc THEN <<>> ELSE @]
    /\ UNCHANGED <<dcall, decodeVars>>

GetSFrameSize(input) ==
    /\ At({"getSFrameSize", "storeSFrameSize"})
    /\ LET have == IF dctx.stage = "getSFrameSize" THEN 4 ELSE dctx.tmpInSize
           n == Arriving(have, 8)
       IN IF ~Whole(have, 8)
          THEN /\ dctx' = [dctx EXCEPT !.stage = "storeSFrameSize", !.tmpInSize = have + n, !.target = 8]
               /\ dcall' = Pause(n, 8 - have - n)
          ELSE /\ dctx' = [dctx EXCEPT !.stage = "skipSkippable", !.target = input[dctx.item].length,
                                       !.info.size = input[dctx.item].length, !.item = @ + 1]
               /\ dcall' = Used(n)
    /\ UNCHANGED decodeVars

SkipSkippable ==
    /\ At({"skipSkippable"})
    /\ LET n == Min({dctx.target, dcall.left})
           d == [dctx EXCEPT !.target = @ - n]
       IN /\ dctx' = IF d.target > 0 THEN d ELSE [Reset(d) EXCEPT !.item = @ + 1]
          /\ dcall' = Pause(n, d.target)
    /\ UNCHANGED decodeVars

-----------------------------------------------------------------------------
(***************************************************************************)
(* Blocks.                                                                 *)
(***************************************************************************)
GetBlockHeader(input) ==
    /\ At({"getBlockHeader", "storeBlockHeader"})
    /\ LET have == IF dctx.stage = "getBlockHeader" THEN 0 ELSE dctx.tmpInSize
           n == Arriving(have, BlockHeader)
           h == input[dctx.item]
           crc == IF dctx.info.blockCrc THEN Crc ELSE 0
           next == [dctx EXCEPT !.item = @ + 1]
       IN IF ~Whole(have, BlockHeader)
          THEN /\ dctx' = [dctx EXCEPT !.stage = "storeBlockHeader", !.tmpInSize = have + n]
               /\ dcall' = Pause(n, BlockHeader - have - n)
          ELSE IF h.length > dctx.maxBlock THEN Fail("block size")
          ELSE IF h.length = 0 THEN dctx' = [next EXCEPT !.stage = "getSuffix"] /\ dcall' = Used(n)
          ELSE IF h.raw
          THEN dctx' = [next EXCEPT !.stage = "copyDirect", !.target = h.length, !.crc = <<>>] /\ dcall' = Used(n)
          ELSE /\ dctx' = [next EXCEPT !.stage = "getCBlock", !.target = h.length + crc]
               /\ dcall' = IF dcall.op = dcall.end THEN Pause(n, h.length + crc + BlockHeader) ELSE Used(n)
    /\ UNCHANGED decodeVars

\* A block that is not compressed, as much as there is and as there is room for.
CopyDirect(input) ==
    /\ At({"copyDirect"})
    /\ LET n == Min({dctx.target, dcall.left, dcall.end - dcall.op})
           data == input[dctx.item].data
           done == Len(data) - dctx.target
           bytes == SubSeq(data, done + 1, done + n)
           h == UpdateDict(Store(out, dcall.op, bytes), dcall.op, n, FALSE)
           d == [Counted(dctx, bytes) EXCEPT !.dict = h.dict, !.dictSize = h.size, !.target = @ - n,
                                             !.crc = IF dctx.info.blockCrc THEN @ \o bytes ELSE @]
       IN /\ out' = h.out
          /\ IF n < dctx.target
             THEN /\ dctx' = d
                  /\ dcall' = [Pause(n, d.target + (IF d.info.crc THEN Crc ELSE 0) + BlockHeader) EXCEPT !.op = @ + n]
             ELSE /\ dctx' = [d EXCEPT !.item = @ + 1, !.tmpInSize = IF d.info.blockCrc THEN 0 ELSE @,
                                       !.stage = IF d.info.blockCrc THEN "getBlockChecksum" ELSE "getBlockHeader"]
                  /\ dcall' = [Used(n) EXCEPT !.op = @ + n]
    /\ UNCHANGED <<streamDecode, dec>>

GetBlockChecksum(input) ==
    /\ At({"getBlockChecksum"})
    /\ LET n == Arriving(dctx.tmpInSize, Crc)
       IN IF ~Whole(dctx.tmpInSize, Crc)
          THEN dctx' = [dctx EXCEPT !.tmpInSize = @ + n] /\ dcall' = Pause(n, dcall.hint)
          ELSE IF input[dctx.item].check # dctx.crc THEN Fail("block checksum")
          ELSE dctx' = [dctx EXCEPT !.stage = "getBlockHeader", !.item = @ + 1] /\ dcall' = Used(n)
    /\ UNCHANGED decodeVars

\* The dictionary in tmpOutBuffer leaves room for a block.
Shrunk ==
    IF dctx.info.linked /\ dctx.dict = TmpOutAt /\ dctx.dictSize > 2 * Window
    THEN History(Block(out, TmpOutAt, TmpOutAt + dctx.dictSize - Window, Window), dctx.dict, Window)
    ELSE History(out, dctx.dict, dctx.dictSize)

\* A block is only decoded when it has arrived whole, with its checksum: to
\* the destination if that is large enough for any block, otherwise to tmpOut.
GetCBlock(input) ==
    /\ At({"getCBlock", "storeCBlock"})
    /\ LET have == IF dctx.stage = "getCBlock" THEN 0 ELSE dctx.tmpInSize
           n == Arriving(have, dctx.target)
           b == input[dctx.item]
           crc == dctx.info.blockCrc
           size == b.size
           direct == dcall.end - dcall.op >= dctx.maxBlock
           h == IF direct THEN History(out, dctx.dict, dctx.dictSize) ELSE Shrunk
           tmpOut == IF direct \/ ~dctx.info.linked THEN dctx.tmpOut
                     ELSE TmpOutAt + IF h.dict = TmpOutAt THEN h.size ELSE Min({h.size, Window})
       IN IF ~Whole(have, dctx.target)
          THEN /\ dctx' = [dctx EXCEPT !.stage = "storeCBlock", !.tmpInSize = have + n]
               /\ dcall' = Pause(n, dctx.target - have - n + BlockHeader)
               /\ UNCHANGED <<out, dec>>
          ELSE IF crc /\ input[dctx.item + 1].check # b.data THEN Fail("block checksum") /\ UNCHANGED <<out, dec>>
          ELSE /\ out' = h.out
               /\ dctx' = [dctx EXCEPT !.target = size, !.item = @ + (IF crc THEN 2 ELSE 1),
                                       !.dictSize = h.size, !.tmpOut = tmpOut]
               /\ dcall' = [Used(n) EXCEPT !.at = "block", !.data = b.data, !.into = IF direct THEN "dst" ELSE "tmp"]
               /\ dec' = UsingDictCall(IF direct THEN dcall.op ELSE tmpOut, dctx.maxBlock, TRUE, h.dict, h.size)
    /\ UNCHANGED streamDecode

DecodeBlock == dcall.at = "block" /\ Decompress(dcall.data) /\ UNCHANGED frameInVars

BlockDecoded ==
    /\ dcall.at = "block" /\ dec.at = "return"
    /\ LET n == dec.result
           h == UpdateDict(out, dcall.op, n, FALSE)
           d == Counted(dctx, Bytes(out, dec.dst, n))
       IN IF n < 0 THEN Fail("decompression failed") /\ UNCHANGED out
          ELSE IF dcall.into = "dst"
          THEN /\ out' = h.out
               /\ dctx' = [d EXCEPT !.dict = h.dict, !.dictSize = h.size, !.stage = "getBlockHeader"]
               /\ dcall' = [dcall EXCEPT !.at = "run", !.op = @ + n]
          ELSE /\ dctx' = [d EXCEPT !.tmpOutSize = n, !.tmpOutStart = 0, !.stage = "flushOut"]
               /\ dcall' = [dcall EXCEPT !.at = "run"]
               /\ UNCHANGED out
    /\ dec' = [dec EXCEPT !.at = "idle"]
    /\ UNCHANGED streamDecode

FlushOut ==
    /\ At({"flushOut"})
    /\ LET n == Min({dctx.tmpOutSize - dctx.tmpOutStart, dcall.end - dcall.op})
           h == UpdateDict(Block(out, dcall.op, dctx.tmpOut + dctx.tmpOutStart, n), dcall.op, n, TRUE)
           all == dctx.tmpOutStart + n = dctx.tmpOutSize
       IN /\ out' = h.out
          /\ dctx' = [dctx EXCEPT !.dict = h.dict, !.dictSize = h.size, !.tmpOutStart = @ + n,
                                  !.stage = IF all THEN "getBlockHeader" ELSE @]
          /\ dcall' = [(IF all THEN dcall ELSE Pause(0, BlockHeader)) EXCEPT !.op = @ + n]
    /\ UNCHANGED <<streamDecode, dec>>

\* The end of the frame, and its checksum.
GetSuffix(input) ==
    /\ At({"getSuffix", "storeSuffix"})
    /\ LET have == IF dctx.stage = "getSuffix" THEN 0 ELSE dctx.tmpInSize
           n == Arriving(have, Crc)
       IN IF dctx.stage = "getSuffix" /\ dctx.remaining # 0 THEN Fail("frame size")
          ELSE IF ~dctx.info.crc THEN dctx' = Reset(dctx) /\ dcall' = Pause(0, 0)
          ELSE IF ~Whole(have, Crc)
          THEN /\ dctx' = [dctx EXCEPT !.stage = "storeSuffix", !.tmpInSize = have + n]
               /\ dcall' = Pause(n, Crc - have - n)
          ELSE IF input[dctx.item].check # dctx.sum THEN Fail("content checksum")
          ELSE dctx' = [Reset(dctx) EXCEPT !.item = @ + 1] /\ dcall' = Pause(n, 0)
    /\ UNCHANGED decodeVars

\* Mutant: only a history that ends with the call is moved.
MovesHistory_Decoded ==
    /\ dctx.info.linked /\ dctx.dict # TmpOutAt /\ ~dcall.stable
    /\ dctx.stage = "getBlockHeader"

\* Before the call returns, a history that is in the destination is moved to
\* tmpOutBuffer, unless the destination stays as it is.
MovesHistory ==
    /\ dctx.info.linked /\ dctx.dict # TmpOutAt /\ ~dcall.stable
    /\ dctx.stage \notin {"getFrameHeader", "storeFrameHeader", "getSuffix", "storeSuffix",
                          "getSFrameSize", "storeSFrameSize", "skipSkippable"}

Epilogue ==
    /\ dcall.at = "epilogue"
    /\ dcall' = [dcall EXCEPT !.at = "done"]
    /\ LET end == dctx.dict + dctx.dictSize
           kept == Min({dctx.dictSize, Window})
       IN IF ~MovesHistory THEN UNCHANGED <<out, dctx>>
          ELSE IF dctx.stage = "flushOut"
          THEN /\ out' = InFront(out, end)
               /\ dctx' = [dctx EXCEPT !.dict = TmpOutAt, !.dictSize = dctx.tmpOut - TmpOutAt + dctx.tmpOutStart]
          ELSE /\ out' = Block(out, TmpOutAt, end - kept, kept)
               /\ dctx' = [dctx EXCEPT !.dict = TmpOutAt, !.dictSize = kept, !.tmpOut = TmpOutAt + kept]
    /\ UNCHANGED <<streamDecode, dec>>

(***************************************************************************)
(* LZ4F_getFrameInfo.  Once the header was read it is a call of            *)
(* LZ4F_decompress with nothing to read and no room.                       *)
(***************************************************************************)
GetFrameInfo(input, given) ==
    LET h == input[dctx.item]
        r == DecodeHeader(input, h.size, FALSE)
        answer == [DCall(given, 0, 0, FALSE) EXCEPT !.at = "done", !.hint = BlockHeader]
        Refused(error) == dcall' = [answer EXCEPT !.error = error] /\ UNCHANGED dctx
    IN /\ CASE dctx.stage = "getFrameHeader" ->
               IF given < 5 \/ given < h.size THEN Refused("incomplete")
               ELSE IF ~r.ok THEN dcall' = [answer EXCEPT !.at = "failed", !.error = "header checksum"] /\ UNCHANGED dctx
               ELSE dctx' = r.d /\ dcall' = [answer EXCEPT !.left = given - r.taken]
            [] dctx.stage = "storeFrameHeader" -> Refused("already started")
            [] OTHER -> dcall' = DCall(0, 0, 0, FALSE) /\ UNCHANGED dctx
       /\ UNCHANGED decodeVars

DecompressStep(input) ==
    \/ GetFrameHeader(input) \/ StoreFrameHeader(input) \/ InitFrame
    \/ GetSFrameSize(input) \/ SkipSkippable
    \/ GetBlockHeader(input) \/ CopyDirect(input) \/ GetBlockChecksum(input) \/ GetCBlock(input)
    \/ DecodeBlock \/ BlockDecoded \/ FlushOut \/ GetSuffix(input) \/ Epilogue
=============================================================================
