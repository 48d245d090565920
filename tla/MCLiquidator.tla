---------------------------- MODULE MCLiquidator ----------------------------
(* Instances of Liquidator for TLC: symmetry among owners and task slots. *)
EXTENDS Liquidator, TLC

Symmetry == Permutations(Owner) \cup Permutations(Pass) \cup Permutations(Run)
=============================================================================
