------------------------------- MODULE MCLz4 -------------------------------
(***************************************************************************)
(* Programs and jobs for TLC, with a window of 24 bytes.  The messages     *)
(* share runs, so that blocks refer to the blocks before them, and the     *)
(* rings and the buffers of the frames wrap.                               *)
(***************************************************************************)
EXTENDS Lz4

MCSlots == 0 .. 7
MCHash(s) == (3 * s[1] + 5 * s[2] + s[3] + 6 * s[4]) % 8
MCHCHash(s) == MCHash(s)
\* clTable, with target lengths that are small against OptNum
MCClTable == [l \in 1 .. 12 |->
    [parser |-> IF l >= 10 THEN "optimal" ELSE "hc",
     attempts |-> <<2, 2, 4, 8, 16, 32, 64, 128, 256, 96, 512, 8192>>[l],
     target |-> IF l = 10 THEN 8 ELSE IF l = 11 THEN 16 ELSE OptNum, full |-> l = 12]]

Run(n, from) == [i \in 1 .. n |-> from + i]
Same(n, b) == [i \in 1 .. n |-> b]
Cut(s, n) == SubSeq(s, 1, n)

A == Run(16, 0)
B == Run(16, 20)
D == Cut(A, 10) \o Cut(B, 14)

-----------------------------------------------------------------------------
(***************************************************************************)
(* Blocks.                                                                 *)
(***************************************************************************)
Simple == [layout |-> "simple", ring |-> 80, decRing |-> 80, max |-> 80, cap |-> -1, acc |-> 1, level |-> 9,
           room |-> 80, target |-> 0, dict |-> <<>>, call |-> "fast", decoder |-> "exact", messages |-> <<>>]

\* Overlaps, matches at the limits of the ends, and matches within matches.
Texts ==
    {A \o A, A \o B \o A, Same(36, 1), Cut(A, 12), Cut(A, 13), Same(13, 1), Same(20, 2) \o A \o Same(16, 2),
     A \o Cut(B, 3) \o A \o Cut(B, 9), Cut(A, 6) \o Cut(A, 6) \o Cut(A, 6) \o A,
     Cut(A, 6) \o Cut(B, 8) \o Cut(A, 5) \o Cut(B, 7) \o Run(8, 4) \o Cut(B, 9) \o Cut(A, 9)}
\* Two letters, with matches of more than 18 bytes that start within each other:
\* every way the search of level 3 to 9 weighs three of them.
Spaced(ns) == FlattenSeq([i \in DOMAIN ns |-> Same(ns[i], 1) \o <<2>>]) \o Run(6, 70)
Periodic == {Spaced(<<3, 3, 2, 3, 3, 3, 2, 3, 3, 2, 3, 2, 2, 2, 2, 3>>),
             Spaced(<<0, 2, 4, 0, 5, 5, 2, 6, 0, 2, 4, 0, 5, 5, 2, 6>>)}

\* One call each: every capacity, level and decompressor.
Fast1 == {[Simple EXCEPT !.call = c, !.messages = <<Texts>>, !.cap = k, !.acc = a, !.decoder = "safe"] :
              c \in {"fast", "destSize"}, k \in {-1, 0} \cup 6 .. 34, a \in {0, 9}}
High1 == {[Simple EXCEPT !.call = c, !.messages = <<Texts \cup Periodic>>, !.cap = k, !.level = l] :
              c \in {"hc", "hc destSize"}, k \in {-1, 0, 13, 20, 27}, l \in {1, 4, 9, 10, 11, 12}}
Decoders == {[Simple EXCEPT !.messages = <<Texts>>, !.decoder = d, !.target = t] :
              d \in {"fast", "partial"}, t \in {5, 20, 33}}
Long == {[Simple EXCEPT !.ring = 620, !.decRing = 620, !.room = 620, !.messages = <<m>>, !.call = c, !.level = 3] :
              m \in {{Same(600, 1)}, {Same(30, 1) \o Run(285, 0) \o Same(285, 1)}}, c \in {"fast", "hc", "destSize"}}

\* Chains of blocks, which refer to each other.
Messages == {A, B, Cut(A, 13), Cut(B, 14)}
Chain == [Simple EXCEPT !.call = "continue", !.decoder = "continue", !.max = 16, !.room = 16]
Calls == {"continue", "hc continue"}
RingOf(r, d) == [Chain EXCEPT !.layout = "ring", !.ring = r, !.decRing = d,
                              !.messages = <<{A}, Messages, Messages, Messages>>]

\* A receiver's ring of another size than the sender's is one block larger,
\* or the window, 14 bytes and a block; see README.md on the header's rules.
Rings ==
    {[RingOf(r, r + 16) EXCEPT !.call = c, !.level = l] : c \in Calls, l \in {3, 10}, r \in {36, 44}} \cup
    {[RingOf(80, Window + 14 + 16) EXCEPT !.call = c, !.level = l] : c \in Calls, l \in {3, 10}} \cup
    {[RingOf(36, 36) EXCEPT !.call = c, !.decoder = "fast continue"] : c \in Calls}
\* The third message overwrites most of the dictionary, with bytes that are
\* alike and have the hash of a place in the first that is overwritten.
Wrapped ==
    {[Chain EXCEPT !.layout = "ring", !.ring = 50, !.decRing = 74, !.max = 24, !.room = 24, !.call = c, !.level = l,
                   !.messages = <<{Run(8, 0) \o Same(6, 3) \o Run(10, 40)}, {Run(5, 60), B}, {<<7>> \o Same(23, 11), B \o Cut(A, 8)}>>] :
         c \in Calls, l \in {3, 10}}
TwoBuffers ==
    {[Chain EXCEPT !.layout = "double", !.max = 24, !.ring = 48, !.decRing = 48, !.room = 24, !.call = c, !.level = l,
                   !.messages = <<{D}, {D, A \o Cut(B, 8), B \o Cut(A, 8)}, {D, A \o Cut(B, 8)}, {A, B}>>] :
         c \in Calls, l \in {3, 12}}
Followed ==
    {[Chain EXCEPT !.layout = "follow", !.max = 24, !.ring = 80, !.decRing = 80, !.room = 24, !.cap = k, !.level = l,
                   !.call = "hc continue destSize",
                   !.messages = <<{D}, {D, A \o Cut(B, 8), B \o Cut(A, 8)}, {D, A \o Cut(B, 8)}>>] :
         l \in {3, 12}, k \in {12, 15, 20, 30}}
Dictionary(layout, dict, c, d, l) ==
    [Chain EXCEPT !.layout = layout, !.dict = dict, !.call = c, !.decoder = d, !.max = 60, !.room = 60, !.level = l,
                  !.messages = <<{A \o A, B, A \o B, Cut(A, 13)}, {B, A, Cut(A, 14) \o B}, {B, A}>>]
Dicts == {Dictionary("dict", dict, c, d, l) : dict \in {D, Cut(D, 7), Cut(D, 9), Run(15, 8) \o D}, c \in Calls,
                                              d \in {"using", "set", "using fast"}, l \in {3, 12}}
Saves == {Dictionary("save", <<>>, c, d, l) : c \in Calls, d \in {"using", "set", "using fast"}, l \in {3, 12}}

MCPrograms == Fast1 \cup High1 \cup Decoders \cup Long \cup Rings \cup Wrapped \cup TwoBuffers \cup Followed \cup Dicts \cup Saves

-----------------------------------------------------------------------------
(***************************************************************************)
(* Frames.                                                                 *)
(***************************************************************************)
P == Run(11, 0)
Q == Run(7, 20)
Text == P \o P \o P \o Q \o Q \o P \o Q \o Q \o Q \o Same(20, 5) \o P

Sized(prefs, content) == [prefs EXCEPT !.size = IF @ > 0 THEN Len(content) ELSE 0]
Streamed(content, prefs) == [kind |-> "stream", content |-> content, prefs |-> Sized(prefs, content)]
Once(content, prefs) == [kind |-> "once", content |-> content, prefs |-> prefs]
Skip(n) == [kind |-> "skip", length |-> n]

Job == [frames |-> <<>>, dict |-> <<>>, space |-> 220, pieces |-> {30}, flush |-> FALSE, stable |-> FALSE, damage |-> {},
        given |-> {40}, rooms |-> {24}, keeps |-> FALSE, moves |-> FALSE, gap |-> 0, asks |-> FALSE]

Prefs == {NoPrefs,
          [NoPrefs EXCEPT !.crc = TRUE, !.size = 1],
          [NoPrefs EXCEPT !.blockCrc = TRUE, !.level = 3],
          [NoPrefs EXCEPT !.linked = FALSE, !.level = 10],
          [NoPrefs EXCEPT !.linked = FALSE, !.crc = TRUE, !.blockCrc = TRUE],
          [NoPrefs EXCEPT !.autoFlush = TRUE],
          [NoPrefs EXCEPT !.autoFlush = TRUE, !.level = 3, !.dictId = TRUE]}
Destinations == {Job, [Job EXCEPT !.moves = TRUE], [Job EXCEPT !.keeps = TRUE, !.moves = TRUE],
                 [Job EXCEPT !.keeps = TRUE, !.moves = TRUE, !.gap = 1]}

\* One frame: every way to give the input and the room.
Received == {[j EXCEPT !.frames = <<Streamed(Text, p)>>, !.dict = d, !.given = {g}, !.rooms = {r}] :
                 j \in Destinations, p \in Prefs, d \in {<<>>, D}, g \in {1, 13, 200}, r \in {7, 26, 50}}
\* Every way to give the content.
Sent1 == {[Job EXCEPT !.frames = <<Streamed(Text, p)>>, !.dict = d, !.pieces = {s}, !.stable = k] :
                 p \in Prefs, d \in {<<>>, D}, s \in {7, 24, 60, 200}, k \in BOOLEAN}
Flushed1 == {[Job EXCEPT !.frames = <<Streamed(P \o P \o Q \o P, p)>>, !.pieces = {11, 30}, !.flush = TRUE] : p \in Prefs}
\* Sizes that change within a frame.
Mixed == {[Job EXCEPT !.frames = <<Streamed(P \o P \o P \o Q \o Q, p)>>, !.given = {6, 50}, !.rooms = {5, 30}, !.asks = TRUE] :
                 p \in {NoPrefs, [NoPrefs EXCEPT !.blockCrc = TRUE, !.crc = TRUE]}}
\* Frames one after the other, in the same contexts.
Several == {[j EXCEPT !.frames = <<Streamed(Text, p), Skip(n), Streamed(D, q)>>, !.space = 300] :
                 j \in Destinations, p \in Prefs, q \in Prefs, n \in {0, 9}}
\* A length that comes in parts, and calls that give nothing.
Slow == {[Job EXCEPT !.frames = <<Skip(5), Streamed(P \o P \o Q, p)>>, !.given = {0, 3, 40}, !.asks = k] :
                 p \in {NoPrefs, [NoPrefs EXCEPT !.crc = TRUE, !.size = 1]}, k \in BOOLEAN}
AtOnce == {[Job EXCEPT !.frames = <<Once(Text, [p EXCEPT !.blockId = b]), Skip(3), Once(D, p)>>, !.space = 300,
                       !.given = {g}, !.rooms = {80}] : p \in Prefs, b \in {0, 4, 5}, g \in {5, 6, 40}}
Damages == {[Job EXCEPT !.frames = <<Streamed(Text, p)>>, !.damage = {"header", "crc", "suffix", "raw", "block"},
                       !.asks = k] : p \in {q \in Prefs : q.crc}, k \in BOOLEAN}

MCJobs == Received \cup Sent1 \cup Flushed1 \cup Mixed \cup Several \cup Slow \cup AtOnce \cup Damages
=============================================================================
