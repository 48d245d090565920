---------------------------- MODULE MCPriceWatch ----------------------------
(* Instances of PriceWatch for TLC: symmetry among the block handlers. *)
EXTENDS PriceWatch, TLC

Symmetry == Permutations(Handler)
=============================================================================
