------------------------------ MODULE Lz4Frames ------------------------------
(***************************************************************************)
(* Programs that send frames, as the header of the frame library           *)
(* (lz4frame.h) and its tests use it: the content of a frame goes to       *)
(* LZ4F_compressUpdate in pieces, with a flush between some of them, and   *)
(* what was written goes to LZ4F_decompress in other pieces, with room for *)
(* a part of what they decode to.  A buffer that was not called stable is  *)
(* overwritten between two calls.                                          *)
(***************************************************************************)
EXTENDS Lz4fCompress, Lz4fDecompress

CONSTANTS
    Jobs,           \* the programs, see the fields below
    SrcAt,          \* where the sender's source is, in mem
    DictAt, DstAt   \* where the receiver's dictionary and destination are, in out

VARIABLES
    job,            \* the program that runs
    app             \* where it is

\* A job: its frames (a content and preferences, or a length to skip), what
\* its pieces, its input and its room may be, whether the source and the
\* destination stay as they are between calls, where the destination of the
\* next call is, and what happens to the bytes on their way.
JobInit ==
    /\ job \in Jobs
    /\ FastInit /\ HCInit(9) /\ DecodeInit /\ FrameOutInit /\ FrameInInit
    /\ mem = Store([a \in 1 .. SrcAt + job.space |-> Junk], CDictAt, job.dict)
    /\ out = Store([a \in 1 .. DstAt + job.space |-> Junk], DictAt, job.dict)
    /\ app = [at |-> "begin", frame |-> 1, pos |-> 0, rest |-> 0, got |-> <<>>, dst |-> 0, done |-> 0, asked |-> FALSE]

sendingVars == <<compressorVars, frameOutVars>>
receivingVars == <<decodeVars, frameInVars>>
jobVars == <<sendingVars, receivingVars, job, app>>

ThisFrame == job.frames[app.frame]
NextFrame == [app EXCEPT !.frame = @ + 1, !.pos = 0, !.at = IF app.frame = Len(job.frames) THEN "sent" ELSE "begin"]

(***************************************************************************)
(* The sender.                                                             *)
(***************************************************************************)
BeginFrame ==
    /\ app.at = "begin"
    /\ LET f == ThisFrame
       IN CASE f.kind = "skip" ->
               /\ wire' = wire \o <<Skippable(f.length), Skipped(f.length)>>
               /\ app' = NextFrame
               /\ UNCHANGED <<cctx, cop, compressorVars>>
            [] f.kind = "once" ->
               Begun(OneShotCctx, OneShot(f.prefs, Len(f.content)), Len(job.dict)) /\ app' = [app EXCEPT !.at = "write"]
            [] OTHER -> Begun(cctx, f.prefs, Len(job.dict)) /\ app' = [app EXCEPT !.at = "write"]
    /\ UNCHANGED <<receivingVars, job>>

Pieces == LET left == Len(ThisFrame.content) - app.pos
          IN IF ThisFrame.kind = "once" THEN {left} ELSE {Min({n, left}) : n \in job.pieces}

Stable == job.stable \/ ThisFrame.kind = "once"
SourceNow == SrcAt + IF Stable THEN app.pos ELSE 0

Update ==
    /\ app.at = "write" /\ app.pos < Len(ThisFrame.content)
    /\ \E n \in Pieces :
         /\ mem' = Store(mem, SourceNow, SubSeq(ThisFrame.content, app.pos + 1, app.pos + n))
         /\ cop' = CopCall("update", SourceNow, n, Stable)
    /\ app' = [app EXCEPT !.at = "writing"]
    /\ UNCHANGED <<stream, enc, block, hcVars, cctx, wire, receivingVars, job>>

FlushOrEnd ==
    /\ app.at = "write"
    /\ \/ job.flush /\ cctx.tmpInSize > 0 /\ cop' = CopCall("flush", 0, 0, FALSE)
       \/ app.pos = Len(ThisFrame.content) /\ cop' = CopCall("end", 0, 0, FALSE)
    /\ app' = [app EXCEPT !.at = "writing"]
    /\ UNCHANGED <<compressorVars, cctx, wire, receivingVars, job>>

Sending == CompressCall /\ UNCHANGED <<receivingVars, job, app>>

Updated ==
    /\ app.at = "writing" /\ cop.at = "done"
    /\ cop' = [cop EXCEPT !.at = "idle"]
    /\ mem' = IF cop.api = "update" /\ ~Stable THEN Junked(mem, cop.from, cop.end - cop.from) ELSE mem
    /\ app' = IF cop.result < 0 THEN [app EXCEPT !.at = "failed"]
              ELSE IF cop.api = "end" THEN NextFrame
              ELSE [app EXCEPT !.at = "write", !.pos = @ + cop.end - cop.from]
    /\ UNCHANGED <<stream, enc, block, hcVars, cctx, wire, receivingVars, job>>

(***************************************************************************)
(* On the way: the bytes of an item that a checksum covers are changed.    *)
(* The sender is done, and what it holds is forgotten.                     *)
(***************************************************************************)
Damaged(i) ==
    CASE i.kind = "header" -> [i EXCEPT !.check.linked = ~@]
      [] i.kind \in {"crc", "suffix"} -> [i EXCEPT !.check = <<>>]
      [] i.kind = "raw" -> [i EXCEPT !.data[1] = Junk]
      [] OTHER -> [i EXCEPT !.data[1].off = @ + Window]

Transmit ==
    /\ app.at = "sent"
    /\ IF job.damage = {} THEN UNCHANGED wire
       ELSE \E k \in {k \in DOMAIN wire : wire[k].kind \in job.damage} : wire' = [wire EXCEPT ![k] = Damaged(@)]
    /\ app' = [app EXCEPT !.at = "read", !.rest = SizeOfItems(wire)]
    /\ mem' = <<>> /\ stream' = FreshStream /\ enc' = Resting /\ block' = <<>>
    /\ hc' = HCReset(9) /\ look' = <<>> /\ cctx' = FreshCctx /\ cop' = [at |-> "idle", result |-> 0]
    /\ UNCHANGED <<receivingVars, job>>

(***************************************************************************)
(* The receiver.                                                           *)
(***************************************************************************)
Decompressing ==
    /\ app.at = "read"
    /\ \E given \in job.given, room \in job.rooms :
         DecompressCall(Min({given, app.rest}), DstAt + app.dst, room, job.keeps,
                        IF job.dict = <<>> THEN 0 ELSE DictAt, Len(job.dict))
    /\ app' = [app EXCEPT !.at = "reading", !.asked = FALSE]
    /\ UNCHANGED <<sendingVars, job>>

AskInfo ==
    /\ app.at = "read" /\ job.asks /\ ~app.asked
    /\ \E given \in job.given : GetFrameInfo(wire, Min({given, app.rest}))
    /\ app' = [app EXCEPT !.at = "reading", !.asked = TRUE]
    /\ UNCHANGED <<sendingVars, job>>

Receiving == DecompressStep(wire) /\ UNCHANGED <<sendingVars, job, app>>

Decompressed ==
    /\ app.at = "reading" /\ dcall.at \in {"done", "failed"}
    /\ LET n == dcall.op - dcall.start
           rest == app.rest - (dcall.given - dcall.left)
           done == app.done + IF dcall.hint = 0 THEN 1 ELSE 0
       IN IF dcall.at = "failed" THEN app' = [app EXCEPT !.at = "failed"] /\ UNCHANGED out
          ELSE /\ app' = [app EXCEPT !.at = IF done = Len(job.frames) THEN "finished" ELSE "read",
                                     !.rest = rest, !.got = @ \o Bytes(out, dcall.start, n), !.done = done,
                                     !.dst = IF job.moves THEN @ + n + (IF n > 0 THEN job.gap ELSE 0) ELSE @]
               /\ out' = IF job.keeps THEN out ELSE Junked(out, dcall.start, dcall.end - dcall.start)
    /\ dcall' = [dcall EXCEPT !.at = "idle"]
    /\ UNCHANGED <<streamDecode, dec, dctx, sendingVars, job>>

JobNext ==
    \/ BeginFrame \/ Update \/ FlushOrEnd \/ Sending \/ Updated
    \/ Transmit
    \/ Decompressing \/ AskInfo \/ Receiving \/ Decompressed

JobSpec == JobInit /\ [][JobNext]_jobVars
=============================================================================
