------------------------------- MODULE MCSea -------------------------------
(***************************************************************************)
(* A small instance of Sea for TLC.                                        *)
(***************************************************************************)
EXTENDS Sea, TLC

CONSTANTS t1, t2, g1, g2, none, a, b

MCSymmetry == Permutations({a, b})
=============================================================================
