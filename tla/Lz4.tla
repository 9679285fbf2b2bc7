-------------------------------- MODULE Lz4 --------------------------------
(***************************************************************************)
(* The library: a program that sends blocks (Lz4Stream) or one that sends  *)
(* frames (Lz4Frames), which share the compressors and the decompressor.   *)
(***************************************************************************)
EXTENDS Lz4Stream, Lz4Frames

vars == <<streamVars, frameOutVars, frameInVars, job, app>>

NoProgram == prog = [call |-> "none"] /\ user = [at |-> "none"]
NoJob == job = [frames |-> <<>>] /\ app = [at |-> "none"]

Init ==
    \/ StreamInit /\ FrameOutInit /\ FrameInInit /\ NoJob
    \/ JobInit /\ NoProgram

Next ==
    \/ user.at # "none" /\ StreamNext /\ UNCHANGED <<frameOutVars, frameInVars, job, app>>
    \/ app.at # "none" /\ JobNext /\ UNCHANGED <<prog, user>>

Spec == Init /\ [][Next]_vars

-----------------------------------------------------------------------------
(***************************************************************************)
(* What the receiver of frames got is the beginning of what was sent,      *)
(* whatever the pieces and the room: the histories of both sides, which    *)
(* move between the buffers of the user and their own, stay the same.  A   *)
(* frame is only reported complete (a hint of 0) when all of its content   *)
(* was handed out, also if bytes that a checksum covers were damaged.      *)
(* Nothing fails without damage, and a call that is given input and room   *)
(* uses one of them.                                                       *)
(***************************************************************************)
ContentOf(f) == IF f.kind = "skip" THEN <<>> ELSE f.content
ContentBefore(k) == FlattenSeq([i \in 1 .. k |-> ContentOf(job.frames[i])])

FramesArrive ==
    app.at # "none" =>
        LET finished == dcall.at = "done" /\ dcall.hint = 0
            got == app.got \o IF dcall.at = "done" THEN Bytes(out, dcall.start, dcall.op - dcall.start) ELSE <<>>
        IN /\ job.damage = {} => app.at # "failed" /\ IsPrefix(got, ContentBefore(Len(job.frames)))
           /\ finished => got = ContentBefore(app.done + 1)
           /\ dcall.at = "done" /\ dcall.given > 0 /\ dcall.end > dcall.start =>
                  dcall.left < dcall.given \/ dcall.op > dcall.start

(***************************************************************************)
(* No copy writes past the buffer that was given to it or allocated for    *)
(* it: the copies in steps of eight are only used where the tests at the   *)
(* ends leave room for them, and the histories that both sides of a frame  *)
(* keep in front of their blocks leave room for the block.                 *)
(***************************************************************************)
CopiesFit ==
    /\ enc.at # "idle" => enc.high <= IF enc.limited \/ enc.fill THEN enc.cap ELSE CompressBound(enc.size)
    /\ dec.at # "idle" => dec.high <= OEnd

TmpBuffersFit ==
    app.at # "none" =>
        /\ cctx.tmpInSize > 0 => cctx.tmpIn + cctx.tmpInSize <= TmpAt + cctx.maxBuffer
        /\ dctx.stage \in {"getCBlock", "storeCBlock"} => dctx.target <= dctx.tmpInCap
        /\ dcall.at = "block" /\ dcall.into = "tmp" => dctx.tmpOut + dctx.maxBlock <= TmpOutAt + dctx.maxBuffer
        /\ dctx.dict = TmpOutAt => dctx.dictSize <= dctx.maxBuffer

WritesFit == CopiesFit /\ TmpBuffersFit

(***************************************************************************)
(* The bounds that the library promises are enough.  With a destination of *)
(* LZ4_compressBound bytes compression succeeds, and the calls that fill   *)
(* a destination do if there is one; a call of LZ4F_compressUpdate, flush  *)
(* or End does not write more than LZ4F_compressBound says.                *)
(***************************************************************************)
BlockBound ==
    enc.at = "return" /\ (enc.cap >= CompressBound(enc.size) \/ (enc.fill /\ enc.cap > 0)) =>
        /\ enc.result > 0
        /\ enc.fill /\ enc.cap > 2 => enc.anchor > enc.src

FrameBound ==
    cop.at = "done" => cop.written <= BoundInternal(cop.end - cop.from, cctx.prefs, cop.buffered)

BoundsSuffice == BlockBound /\ FrameBound
=============================================================================
