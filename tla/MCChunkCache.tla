---------------------------- MODULE MCChunkCache ----------------------------
(***************************************************************************)
(* Small instances of ChunkCache for TLC: chunks of four cells at scale 1  *)
(* and of eight at scale 2.  Cells 1, 3 and 5 are inside their chunks of   *)
(* both scales; cell 2 is on the border of the two chunks of scale 1 that  *)
(* clients ask for.  The third key has a scale that is not served: it is   *)
(* answered with the chunk of scale 2.                                     *)
(***************************************************************************)
EXTENDS ChunkCache

MCKeys == [cc : {0, 1}, msb : {0}] \cup [cc : {0}, msb : {2}]

\* A cell is in the chunks that it touches, and on the border of at most the
\* chunk before, at every scale and for every cell of a wide strip.
ASSUME ChunksTile ==
  \A msb \in 0..PingMax, cell \in 0..40 :
    LET home == ChunkKey(cell, msb)
        low(cc) == cc * Width(msb) - HalfWidth(msb)
    IN  \A cc \in 0..40 :
          (low(cc) <= cell /\ cell <= low(cc) + Width(msb))
            <=> (cc = home.cc \/ (cc + 1 = home.cc /\ cell = low(home.cc)))
=============================================================================
