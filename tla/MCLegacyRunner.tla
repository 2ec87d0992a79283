--------------------------- MODULE MCLegacyRunner ---------------------------
(* The concept runner on a small instance: two runs about one service.     *)
EXTENDS LegacyRunner, TLC

Symmetry == Permutations(Runs)
=============================================================================
