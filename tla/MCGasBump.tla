------------------------------ MODULE MCGasBump -----------------------------
(* Instances of GasBump for TLC: symmetry among the overlapping firings. *)
EXTENDS GasBump, TLC

Symmetry == Permutations(Slot)
=============================================================================
