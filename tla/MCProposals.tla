----------------------------- MODULE MCProposals -----------------------------
(* Racing and repeated proposals on small instances.                       *)
EXTENDS Proposals, TLC

Symmetry == Permutations(Calls) \cup Permutations(Bytes) \cup Permutations(Sessions)
=============================================================================
