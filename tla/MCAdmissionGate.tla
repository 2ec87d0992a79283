--------------------------- MODULE MCAdmissionGate --------------------------
(* The admission gate on small instances.                                  *)
EXTENDS AdmissionGate, TLC

\* Connections behave alike; used by the safety run only.
Symmetry == Permutations(Connections)
=============================================================================
