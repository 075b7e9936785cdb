------------------------------- MODULE MCPanel -------------------------------
(* The instances of Panel that TLC checks. *)
EXTENDS Panel, TLC

Symmetry == Permutations(Panels) \cup Permutations(Switches)
=============================================================================
