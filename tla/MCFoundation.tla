---------------------------- MODULE MCFoundation ----------------------------
(* Coordinators, operator and Paper on one enrollment. *)
EXTENDS Foundation, TLC

CONSTANTS i1, e1, c1, c2

OneIntent == {i1}
MCEnrollments == {e1}
MCEnrollmentOf == [i \in Intents |-> e1]
OneCoordinator == {c1}
TwoCoordinators == {c1, c2}
CoordinatorSymmetry == Permutations(TwoCoordinators)
=============================================================================
