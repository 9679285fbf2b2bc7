----------------------------- MODULE Lz4Stream -----------------------------
(***************************************************************************)
(* Programs that send messages through LZ4, as the examples of the library *)
(* and its header describe them: a message is written to a buffer of the   *)
(* sender, compressed to a block, decompressed to a buffer of the receiver *)
(* and compared.  They differ in where the next message goes: to the other *)
(* of two buffers, further on in a ring, or to the same place after the    *)
(* dictionary was saved or loaded; that the bytes a match refers to are    *)
(* still where both sides look for them depends on it.                     *)
(***************************************************************************)
EXTENDS Lz4HC, Lz4Decode

CONSTANTS
    Programs,       \* the programs, see the fields below
    EncAt, DecAt,   \* where the buffers of the two sides start
    SafeAt          \* where dictionaries are kept, on both sides

\* Addresses are not NULL.
ASSUME StreamAssumption ==
    /\ EncAt \in Nat \ {0} /\ DecAt \in Nat \ {0} /\ SafeAt \in Nat \ {0}
    /\ Junk \in Nat

VARIABLES
    prog,           \* the program that runs
    user            \* its offsets, its messages and what it is doing

encoderVars == <<fastVars, hcVars>>
streamVars == <<encoderVars, decodeVars, prog, user>>

\* A program: its layout, the largest message and the messages it may send
\* one after the other, the sizes of the rings, the capacity, acceleration and
\* level it asks for, and the compressor and the decompressor it calls.
StreamInit ==
    /\ prog \in Programs
    /\ FastInit /\ HCInit(Level(prog.level)) /\ DecodeInit
    /\ mem = Store([a \in 1 .. EncAt + prog.ring |-> Junk], SafeAt, prog.dict)
    /\ out = Store([a \in 1 .. DecAt + prog.decRing |-> Junk], SafeAt, prog.dict)
    /\ user = [at |-> "write", sent |-> 0, enc |-> 0, dec |-> 0, past |-> prog.dict, msg |-> <<>>]

\* Where the message after one of n bytes goes.
NextOffset(at, n, size) ==
    CASE prog.layout = "ring" -> IF at + n >= size - prog.max THEN 0 ELSE at + n
      [] prog.layout = "double" -> IF at = 0 THEN prog.max ELSE 0
      [] prog.layout = "follow" -> at + n
      [] OTHER -> 0

Source == EncAt + user.enc
Destination == DecAt + user.dec

HighCalls == {"hc", "hc destSize", "hc continue", "hc continue destSize"}
Fills == prog.call \in {"destSize", "hc destSize", "hc continue destSize"}

(***************************************************************************)
(* The sender.                                                             *)
(***************************************************************************)
Write ==
    /\ user.at = IF prog.layout = "save" /\ user.sent > 0 THEN "saved" ELSE "write"
    /\ user.sent < Len(prog.messages)
    /\ \E m \in prog.messages[user.sent + 1] :
         /\ mem' = Store(mem, Source, m)
         /\ user' = [user EXCEPT !.at = IF prog.layout = "dict" THEN "load" ELSE "compress", !.msg = m]
    /\ UNCHANGED <<stream, enc, block, hcVars, decodeVars, prog>>

LoadDictionary ==
    /\ user.at = "load"
    /\ IF prog.call \in HighCalls
       THEN hc' = LoadedHC(hc, SafeAt, Len(prog.dict)) /\ UNCHANGED stream
       ELSE stream' = LoadedDict(stream, SafeAt, Len(prog.dict)) /\ UNCHANGED hc
    /\ user' = [user EXCEPT !.at = "compress"]
    /\ UNCHANGED <<mem, enc, block, look, decodeVars, prog>>

\* A capacity of -1 stands for LZ4_compressBound.
CapacityFor(n) == IF prog.cap < 0 THEN CompressBound(n) ELSE prog.cap

Begin ==
    /\ user.at = "compress"
    /\ LET n == Len(user.msg)
           cap == CapacityFor(n)
       IN CASE prog.call = "fast" -> CompressFast(Source, n, cap, prog.acc) /\ UNCHANGED hc
            [] prog.call = "destSize" -> CompressDestSize(Source, n, cap) /\ UNCHANGED hc
            [] prog.call = "continue" -> CompressContinue(Source, n, cap, prog.acc) /\ UNCHANGED hc
            [] prog.call \in {"hc", "hc destSize"} ->
                 CompressHC(Source, n, cap, prog.level, Fills) /\ UNCHANGED stream
            [] OTHER -> CompressHCContinue(Source, n, cap, Fills) /\ UNCHANGED stream
    /\ user' = [user EXCEPT !.at = "compressing"]
    /\ UNCHANGED <<mem, look, decodeVars, prog>>

Step == Compress /\ UNCHANGED <<hcVars, decodeVars, prog, user>>
HighStep == CompressHigh /\ UNCHANGED <<decodeVars, prog, user>>

\* A result of 0 ends the program; otherwise the block is on its way.
Sent ==
    /\ user.at = "compressing" /\ FastReturn
    /\ LET consumed == enc.anchor - enc.src
       IN user' = IF enc.result = 0 THEN [user EXCEPT !.at = "stopped"]
                  ELSE [user EXCEPT !.at = "arrived", !.msg = SubSeq(@, 1, consumed),
                                    !.enc = NextOffset(@, consumed, prog.ring)]
    /\ UNCHANGED <<hcVars, decodeVars, prog>>

\* The same place is used again, so both sides put aside what was there.
LastOf(s, n) == SubSeq(s, Max({1, Len(s) - n + 1}), Len(s))

Save ==
    /\ user.at = "write" /\ prog.layout = "save" /\ user.sent \in 1 .. Len(prog.messages) - 1
    /\ IF prog.call \in HighCalls THEN SaveDictHC(SafeAt, Window) /\ UNCHANGED stream
       ELSE SaveDict(SafeAt, Window) /\ UNCHANGED hc
    /\ out' = Store(out, SafeAt, LastOf(user.past, Window))
    /\ user' = [user EXCEPT !.at = "saved"]
    /\ UNCHANGED <<enc, block, look, streamDecode, dec, prog>>

(***************************************************************************)
(* The receiver.                                                           *)
(***************************************************************************)
Receive ==
    /\ user.at = "arrived"
    /\ LET n == Len(user.msg)
           kept == IF prog.layout = "dict" THEN Len(prog.dict) ELSE Min({Len(user.past), Window})
       IN CASE prog.decoder = "safe" -> DecompressSafe(Destination, prog.room)
            [] prog.decoder = "exact" -> DecompressSafe(Destination, n)
            [] prog.decoder = "partial" -> DecompressSafePartial(Destination, prog.target, n)
            [] prog.decoder = "fast" -> DecompressFast(Destination, n)
            [] prog.decoder = "continue" -> Continue(streamDecode, Destination, prog.room, TRUE)
            [] prog.decoder = "fast continue" -> Continue(streamDecode, Destination, n, FALSE)
            [] prog.decoder = "set" ->
                 Continue(SetStreamDecode(SafeAt, kept), Destination, prog.room, TRUE)
            [] OTHER -> UsingDict(Destination, n, prog.decoder = "using", SafeAt, kept)
    /\ user' = [user EXCEPT !.at = "decompressing"]
    /\ UNCHANGED <<encoderVars, prog>>

DecodeStep == Decompress(block) /\ UNCHANGED <<encoderVars, prog, user>>

DecodedSize == IF dec.safe THEN dec.result ELSE dec.cap

Arrived ==
    /\ user.at = "decompressing" /\ DecodeReturn
    /\ user' = [user EXCEPT
         !.at = IF dec.result <= 0 THEN "stopped" ELSE "write",
         !.dec = NextOffset(@, DecodedSize, prog.decRing),
         !.sent = @ + 1,
         !.past = IF prog.layout = "dict" THEN @ ELSE @ \o user.msg]
    /\ UNCHANGED <<encoderVars, prog>>

StreamNext ==
    \/ Write \/ LoadDictionary \/ Begin \/ Step \/ HighStep \/ Sent \/ Save
    \/ Receive \/ DecodeStep \/ Arrived

StreamSpec == StreamInit /\ [][StreamNext]_streamVars

-----------------------------------------------------------------------------
(***************************************************************************)
(* Every block decodes to the message it was made of: the decompressor     *)
(* accepts it in a destination of exactly that size, and finds the same    *)
(* bytes at the distances the compressor found them, whatever either side  *)
(* has overwritten since.  A partial call decodes what was asked for, or   *)
(* all there is.                                                           *)
(***************************************************************************)
RoundTrip ==
    user.at = "decompressing" /\ dec.at = "return" =>
        /\ dec.result >= 0
        /\ IF dec.partial THEN DecodedSize >= Min({dec.target, Len(user.msg)}) ELSE DecodedSize = Len(user.msg)
        /\ ~dec.safe => dec.result = BlockSize(block)
        /\ Bytes(out, dec.dst, DecodedSize) = SubSeq(user.msg, 1, DecodedSize)

(***************************************************************************)
(* What a match of a block repeats is what the messages before it say at   *)
(* that distance, which the table, the dictionary and their rescaling must *)
(* not lose: the compressor compares bytes where it believes them to be,   *)
(* and its source may have overwritten them.                               *)
(***************************************************************************)
Lengths(b) == [i \in 1 .. Len(b) |-> Len(b[i].lit) + b[i].ml]
StartOf(b, i) == Len(user.past) + Total(SubSeq(Lengths(b), 1, i - 1))

MatchesAreHistory ==
    user.at = "compressing" /\ enc.at = "return" /\ enc.result > 0 =>
        LET said == user.past \o user.msg
        IN \A i \in 1 .. Len(block) :
             LET s == block[i]
                 p == StartOf(block, i) + Len(s.lit)
             IN /\ Bytes(said, StartOf(block, i) + 1, Len(s.lit)) = s.lit
                /\ IsLast(s) <=> i = Len(block)
                /\ ~IsLast(s) => /\ s.off \in 1 .. Min({MaxDistance, p})
                                 /\ \A j \in 1 .. s.ml : said[p + j] = said[p + j - s.off]
=============================================================================
