---------------------------- MODULE WriterLock ----------------------------
(***************************************************************************)
(* What the operation store promises about writer ownership, without       *)
(* saying how: at most one change intent holds an enrolled target, an      *)
(* intent gets the target at most once, and it can give the target back    *)
(* only while its work has not begun.  Journal implements this module.     *)
(***************************************************************************)
CONSTANTS Intents, Enrollments, EnrollmentOf

VARIABLES
    holders,   \* holders[e]: the intents whose operation owns enrollment e
    used,      \* the intents that have ever acquired their enrollment
    begun      \* the intents whose operation has begun and is pinned

vars == <<holders, used, begun>>

Init ==
    /\ holders = [e \in Enrollments |-> {}]
    /\ used = {}
    /\ begun = {}

Acquire(i) ==
    /\ i \notin used
    /\ holders[EnrollmentOf[i]] = {}
    /\ holders' = [holders EXCEPT ![EnrollmentOf[i]] = {i}]
    /\ used' = used \cup {i}
    /\ UNCHANGED begun

Begin(i) ==
    /\ i \in holders[EnrollmentOf[i]]
    /\ begun' = begun \cup {i}
    /\ UNCHANGED <<holders, used>>

Release(i) ==
    /\ i \in holders[EnrollmentOf[i]]
    /\ i \notin begun
    /\ holders' = [holders EXCEPT ![EnrollmentOf[i]] = {}]
    /\ UNCHANGED <<used, begun>>

Next == \E i \in Intents : Acquire(i) \/ Begin(i) \/ Release(i)

Spec == Init /\ [][Next]_vars
=============================================================================
