------------------------------- MODULE TonerUnits -------------------------------
(* Levels of toner, and a level or counter that may be missing, as modules YieldEngine
   and TonerOverride share them. *)
EXTENDS Integers, FiniteSetsExt, TLC

CONSTANTS
    None,             \* Python's None
    MaxLevel          \* steps of the level of a full cartridge (100 %)

ASSUME UnitsAssumption == MaxLevel \in Nat \ {0} /\ None \notin Int

Levels == 0..MaxLevel
OrNone(S) == S \cup {None}
First(a, b) == IF a # None THEN a ELSE b

\* int(round(a / b)), for a, b >= 0.
Rounded(a, b) == (2 * a + b) \div (2 * b)
=============================================================================
