----------------------------- MODULE MCJournal -----------------------------
(* The store alone: two intents of one enrollment and a three-step workflow. *)
EXTENDS Journal, TLC

CONSTANTS i1, i2, e1

MCIntents == {i1, i2}
MCEnrollments == {e1}
MCEnrollmentOf == [i \in MCIntents |-> e1]
MCSymmetry == Permutations(MCIntents)
=============================================================================
