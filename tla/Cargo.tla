------------------------------- MODULE Cargo -------------------------------
(***************************************************************************)
(* The saturating arithmetic that a ship's hold (sea_object) and a         *)
(* seaport's store (seaport) share: an amount is clamped to 0..MaxCargo,   *)
(* an addition stops at MaxCargo and a removal stops at 0.                 *)
(*                                                                         *)
(* The sums stay far below the width of a C int, so plain integers model   *)
(* them exactly.                                                           *)
(***************************************************************************)
EXTENDS Integers

CONSTANT MaxCargo    \* MAX_CARGO of precompiled.hpp, 1000000 in the code

ASSUME MaxCargoAssumption == MaxCargo \in Nat \ {0}

Clamp(amount) ==
  IF amount < 0 THEN 0 ELSE IF amount > MaxCargo THEN MaxCargo ELSE amount

\* What a store that holds `before' holds after `amount' was added to it.
AfterAdd(before, amount) ==
  IF before + Clamp(amount) > MaxCargo THEN MaxCargo ELSE before + Clamp(amount)

\* What it holds after `amount' was taken out of it.
AfterRemove_Unchecked(before, amount) ==   \* mutant: without `if (after < 0)'
  before - Clamp(amount)
AfterRemove(before, amount) ==
  IF before - Clamp(amount) < 0 THEN 0 ELSE before - Clamp(amount)
=============================================================================
