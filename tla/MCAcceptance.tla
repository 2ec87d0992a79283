---------------------------- MODULE MCAcceptance ----------------------------
(* The G-02 acceptance commands on small instances.                        *)
EXTENDS Acceptance, TLC

\* The commands behave alike.
Symmetry == Permutations(Runners)
=============================================================================
