------------------------------- MODULE MCAccount -------------------------------
(***************************************************************************)
(* Account for TLC: one operator, two workers of the lifecycle queue.      *)
(***************************************************************************)
EXTENDS Account, TLC

\* Workers are interchangeable; sound for the safety runs only.
Symmetry == Permutations(Workers)
===============================================================================
