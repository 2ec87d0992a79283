------------------------------- MODULE Paper -------------------------------
(***************************************************************************)
(* The enrolled Paper server as the owner-side adapters see it: the Docker *)
(* container's lifecycle, the last GARGuard snapshot on disk, and the      *)
(* admission state file.  A boot is one run of the container; GARGuard     *)
(* draws a new boot ID in every run, so boot numbers stand for both the    *)
(* boot ID of a snapshot and the StartedAt/FinishedAt window it falls in.  *)
(***************************************************************************)
EXTENDS Integers

CONSTANT MaxBoot      \* bound on the number of container runs

ASSUME PaperAssumption == MaxBoot \in Nat \ {0}

VARIABLES
    container,   \* lifecycle of the container: state, run number, clean exit
    snapshot,    \* last snapshot published by GARGuard: its boot and ready flag
    admission    \* mode of the admission state file

paperVars == <<container, snapshot, admission>>

Alive == {"RUNNING", "STOPPING", "DISABLED"}

PaperTypeOK ==
    /\ container \in [state : Alive \cup {"EXITED"}, boot : Nat, clean : BOOLEAN]
    /\ snapshot \in [boot : Nat, ready : BOOLEAN]
    /\ admission \in {"OPEN", "CLOSED"}

\* Paper is up and has published, players may be admitted.
PaperInit ==
    /\ container = [state |-> "RUNNING", boot |-> 1, clean |-> FALSE]
    /\ snapshot = [boot |-> 1, ready |-> TRUE]
    /\ admission = "OPEN"

\* The once-a-second capture; the asynchronous write of one may land after onDisable.
CaptureAndPublish ==
    /\ container.state \in Alive
    /\ snapshot' = [boot |-> container.boot, ready |-> TRUE]
    /\ UNCHANGED <<container, admission>>

\* The plugin is disabled once in a graceful stop; its final snapshot may fail to be written.
OnDisable ==
    /\ container.state = "STOPPING"
    /\ container' = [container EXCEPT !.state = "DISABLED"]
    /\ snapshot' \in {snapshot, [boot |-> container.boot, ready |-> FALSE]}
    /\ UNCHANGED admission

\* Exit code 0 ends a graceful stop; a crash, a kill or an OOM kill may come at any time.
Exit ==
    /\ container.state \in Alive
    /\ \E clean \in BOOLEAN :
         /\ clean => container.state = "DISABLED"
         /\ container' = [container EXCEPT !.state = "EXITED", !.clean = clean]
    /\ UNCHANGED <<snapshot, admission>>

RequestStop ==
    /\ container.state = "RUNNING"
    /\ container' = [container EXCEPT !.state = "STOPPING"]
    /\ UNCHANGED <<snapshot, admission>>

\* Somebody other than GAR starts the container again.
StartContainer ==
    /\ container.state = "EXITED"
    /\ container.boot < MaxBoot
    /\ container' = [state |-> "RUNNING", boot |-> container.boot + 1, clean |-> FALSE]
    /\ UNCHANGED <<snapshot, admission>>

\* gar-gate open and close, called by the owner.
SetAdmission ==
    /\ admission' \in {"OPEN", "CLOSED"} \ {admission}
    /\ UNCHANGED <<container, snapshot>>

PaperNext ==
    CaptureAndPublish \/ OnDisable \/ Exit \/ RequestStop \/ StartContainer \/ SetAdmission

-----------------------------------------------------------------------------
(* Evidence (internal/adapters/paperops, internal/domain/backup.go) for an  *)
(* intent bound to boot b.                                                 *)

\* ObserveSafety(offline = false) and SafetyObservation.Validate.
OnlineEvidence(b) ==
    /\ container.state \in Alive
    /\ snapshot.ready
    /\ snapshot.boot = b

\* Variant: the final snapshot may belong to an earlier run of the container.
OfflineEvidenceAnyRun(b) ==
    /\ container.state = "EXITED"
    /\ container.clean
    /\ ~snapshot.ready
    /\ snapshot.boot = b
    /\ admission = "CLOSED"

\* ObserveSafety(offline = true): the final snapshot belongs to the container's last run.
OfflineEvidence(b) ==
    /\ container.state = "EXITED"
    /\ container.clean
    /\ ~snapshot.ready
    /\ snapshot.boot = container.boot
    /\ snapshot.boot = b
    /\ admission = "CLOSED"

\* ObserveStop: RuntimeTerminal compares the boot ID but not the start of the run.
TerminalEvidence(b) == ~snapshot.ready /\ snapshot.boot = b
=============================================================================
