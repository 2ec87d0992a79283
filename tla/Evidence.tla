------------------------------ MODULE Evidence ------------------------------
(***************************************************************************)
(* How GAR sees its target.  gar-host inspects Docker and the data root    *)
(* and publishes a host snapshot (internal/adapters/host), GARGuard        *)
(* publishes a runtime snapshot (plugins/paper-guard), and the composite   *)
(* target merges the two files into the bundle that proposals and          *)
(* revalidations are decided on (internal/adapters/composite).  Three      *)
(* processes share two files; an observation takes several steps, and the  *)
(* target may change between any two of them.                              *)
(*                                                                         *)
(* Several gar-host processes may run: the owner may call "gar-host once"  *)
(* beside "gar-host serve".  All times come from the clock of one host, so *)
(* the tests for times in the future never fail and are left out.          *)
(***************************************************************************)
EXTENDS Integers

CONSTANTS
    Observers,    \* gar-host processes
    Faults,       \* the parts of the target that may break
    Freshness,    \* defaultFreshness of both readers
    MaxSkew,      \* maxObservationSkew
    MaxNow,       \* bound on the clock
    MaxBoot,      \* bound on the runs of the Paper container
    MaxArtifact   \* bound on the contents of the managed plugin slot

ASSUME EvidenceAssumption ==
    /\ Faults \subseteq {"docker", "target", "plugins", "barrier"}
    /\ {Freshness, MaxSkew, MaxNow} \subseteq Nat
    /\ {MaxBoot, MaxArtifact} \subseteq Nat \ {0}

VARIABLES
    clock,
    paper,         \* the container: state, run, last exit, and whether gar-host inspected the run
    fault,         \* which of the checks of an observation would fail now
    slot,          \* the artifact in the managed plugin slot
    writing,       \* snapshot captured by GARGuard whose asynchronous write has not landed
    runtimeFile,   \* the runtime snapshot file
    observer,      \* the gar-host processes
    hostFile,      \* the host snapshot file
    reader,        \* composite Observe: what it has read of the host file so far
    lastSlot       \* history: when each artifact was in the slot for the last time

vars == <<clock, paper, fault, slot, writing, runtimeFile, observer, hostFile, reader, lastSlot>>
target == <<paper, fault, slot, lastSlot>>
guard == <<writing, runtimeFile>>

Boot == 1..MaxBoot
\* The contents of the slot, numbered in the order in which they get there: an old one that
\* comes back only makes evidence of it true again.
Artifacts == 1..MaxArtifact
Time == 0..MaxNow
Fault == Faults \cup {"none"}
None == [none |-> TRUE]

\* The Paper container; "disabled" is running, with GARGuard disabled.
Container == [state : {"up", "disabled", "exited"}, boot : Boot, exitedAt : Time,
              inspected : BOOLEAN]

RuntimeSnapshot == [boot : Boot, at : Time, ready : BOOLEAN]

\* What the readers use of a host snapshot.  It does not say which run it was taken in.
AvailableSnapshot == [available : {TRUE}, at : Time, artifact : Artifacts]
HostSnapshot == AvailableSnapshot \cup [available : {FALSE}, at : Time]

\* An observation in progress.
Draft == [at : Time] \cup HostSnapshot

\* A gar-host process and the snapshot it is putting together.
Process == [pc : {"off", "wait", "inspect", "plugins", "barrier", "publish"},
            draft : {None} \cup Draft]

\* The type of files, processes and histories.
EvidenceTypeOK ==
    /\ clock \in Time
    /\ paper \in Container
    /\ fault \in Fault
    /\ slot \in Artifacts
    /\ writing \in {None} \cup RuntimeSnapshot
    /\ runtimeFile \in {None} \cup RuntimeSnapshot
    /\ observer \in [Observers -> Process]
    /\ hostFile \in {None} \cup HostSnapshot
    /\ reader \in {None} \cup AvailableSnapshot
    /\ lastSlot \in [Artifacts -> Time]

Init ==
    /\ clock = 0
    /\ paper = [state |-> "up", boot |-> 1, exitedAt |-> 0, inspected |-> FALSE]
    /\ fault = "none"
    /\ slot = 1
    /\ writing = None
    /\ runtimeFile = None
    /\ observer = [o \in Observers |-> [pc |-> "off", draft |-> None]]
    /\ hostFile = None
    /\ reader = None
    /\ lastSlot = [a \in Artifacts |-> 0]

-----------------------------------------------------------------------------
(* The Paper container and the owner.                                      *)

\* Docker's State.Running.
Running == paper.state # "exited"

\* Capture on the main thread; a capture during a write is dropped.
Capture ==
    /\ paper.state = "up"
    /\ writing = None
    /\ writing' = [boot |-> paper.boot, at |-> clock, ready |-> TRUE]
    /\ UNCHANGED <<clock, target, runtimeFile, observer, hostFile, reader>>

\* The asynchronous write replaces the file, or fails; it may outlive onDisable.
PublishLands ==
    /\ writing # None
    /\ runtimeFile' \in {writing, runtimeFile}
    /\ writing' = None
    /\ UNCHANGED <<clock, target, observer, hostFile, reader>>

\* The final snapshot is published on the main thread, or its write fails.
OnDisable ==
    /\ paper.state = "up"
    /\ paper' = [paper EXCEPT !.state = "disabled"]
    /\ runtimeFile' \in {runtimeFile, [boot |-> paper.boot, at |-> clock, ready |-> FALSE]}
    /\ UNCHANGED <<clock, fault, slot, writing, observer, hostFile, reader, lastSlot>>

\* Paper exits, gracefully or not.
Exit ==
    /\ Running
    /\ paper' = [paper EXCEPT !.state = "exited", !.exitedAt = clock]
    /\ writing' = None
    /\ UNCHANGED <<clock, fault, slot, runtimeFile, observer, hostFile, reader, lastSlot>>

\* The owner starts the container; GARGuard draws a new boot ID.
Start ==
    /\ ~Running
    /\ paper.boot < MaxBoot
    /\ paper' = [paper EXCEPT !.state = "up", !.boot = @ + 1, !.inspected = FALSE]
    /\ UNCHANGED <<clock, fault, slot, guard, observer, hostFile, reader, lastSlot>>

\* Somebody replaces the plugin JAR.
Replace ==
    /\ slot < MaxArtifact
    /\ slot' = slot + 1
    /\ lastSlot' = [lastSlot EXCEPT ![slot] = clock]
    /\ UNCHANGED <<clock, paper, fault, guard, observer, hostFile, reader>>

\* Docker, the target's identity, the plugin directory or the gate break or are repaired.
Change(f) ==
    /\ f # fault
    /\ fault' = f
    /\ UNCHANGED <<clock, paper, slot, guard, observer, hostFile, reader, lastSlot>>

Tick ==
    /\ clock < MaxNow
    /\ clock' = clock + 1
    /\ UNCHANGED <<target, guard, observer, hostFile, reader>>

-----------------------------------------------------------------------------
(* gar-host: Run, or one round of it for "once".                           *)

DockerAnswers == fault # "docker"

\* Container ID, health, restart policy, image, data root, bootstrap fingerprint, writers
\* and mount are the enrolled ones.
TargetAsEnrolled == fault # "target"

\* Every JAR belongs to a managed slot and every slot can be read.
PluginsAttributed == fault # "plugins"

\* The gate's container, its isolation, binary, mounts and the published ports.
BarrierAsEnrolled == fault # "barrier"

Unavailable(o) == [available |-> FALSE, at |-> observer[o].draft.at]

\* The observation goes on with draft d, or ends with an unavailable snapshot.
Observed(o, holds, d, next) ==
    observer' = [observer EXCEPT ![o] = IF holds THEN [pc |-> next, draft |-> d]
                                        ELSE [pc |-> "publish", draft |-> Unavailable(o)]]

Launch(o) ==
    /\ observer[o].pc = "off"
    /\ observer' = [observer EXCEPT ![o].pc = "wait"]
    /\ UNCHANGED <<clock, target, guard, hostFile, reader>>

\* Variant: the loop ends after an observation that failed.
BeginWhileAvailable(o) ==
    /\ observer[o].pc = "wait"
    /\ hostFile # None => hostFile.available
    /\ observer' = [observer EXCEPT ![o] = [pc |-> "inspect", draft |-> [at |-> clock]]]
    /\ UNCHANGED <<clock, target, guard, hostFile, reader>>

\* The snapshot carries the time at which the observation began.
Begin(o) ==
    /\ observer[o].pc = "wait"
    /\ observer' = [observer EXCEPT ![o] = [pc |-> "inspect", draft |-> [at |-> clock]]]
    /\ UNCHANGED <<clock, target, guard, hostFile, reader>>

Inspect(o) ==
    /\ observer[o].pc = "inspect"
    /\ Observed(o, DockerAnswers /\ Running /\ TargetAsEnrolled,
                observer[o].draft, "plugins")
    /\ paper' = [paper EXCEPT !.inspected = @ \/ (DockerAnswers /\ Running)]
    /\ UNCHANGED <<clock, fault, slot, lastSlot, guard, hostFile, reader>>

ObservePlugins(o) ==
    /\ observer[o].pc = "plugins"
    /\ Observed(o, PluginsAttributed,
                [available |-> TRUE, at |-> observer[o].draft.at, artifact |-> slot],
                "barrier")
    /\ UNCHANGED <<clock, target, guard, hostFile, reader>>

ObserveBarrier(o) ==
    /\ observer[o].pc = "barrier"
    /\ Observed(o, DockerAnswers /\ BarrierAsEnrolled, observer[o].draft, "publish")
    /\ UNCHANGED <<clock, target, guard, hostFile, reader>>

\* The file is replaced by one rename; serve waits for the next tick of its ticker.
Publish(o) ==
    /\ observer[o].pc = "publish"
    /\ hostFile' = observer[o].draft
    /\ observer' = [observer EXCEPT ![o] = [pc |-> "wait", draft |-> None]]
    /\ UNCHANGED <<clock, target, guard, reader>>

\* The process ends: a signal, the end of "once", a crash, or a failed Publish.
Terminate(o) ==
    /\ observer[o].pc # "off"
    /\ observer' = [observer EXCEPT ![o] = [pc |-> "off", draft |-> None]]
    /\ UNCHANGED <<clock, target, guard, hostFile, reader>>

Observe(o) == Begin(o) \/ Inspect(o) \/ ObservePlugins(o) \/ ObserveBarrier(o) \/ Publish(o)

-----------------------------------------------------------------------------
(* The composite target inside gar.                                        *)

Fresh(at) == clock - at <= Freshness

\* Variant: the availability of the snapshot is not tested.
HostAcceptedAnyway(h) == h # None /\ Fresh(h.at)

\* read and validateSnapshot of internal/adapters/host.
HostAccepted(h) == h # None /\ h.available /\ Fresh(h.at)

\* read and validateSnapshot of internal/adapters/paper, and what the merge asks of them.
RuntimeAccepted(r) == r # None /\ r.ready /\ Fresh(r.at)

\* The host half.
ReadHost ==
    /\ reader = None
    /\ HostAccepted(hostFile)
    /\ reader' = hostFile
    /\ UNCHANGED <<clock, target, guard, observer, hostFile>>

\* Variant: a host snapshot older than the runtime snapshot is never too old.
PairedOneSided(h, r) == h.at - r.at <= MaxSkew

\* The two halves were observed within the maximum skew of each other.
Paired(h, r) == h.at - r.at <= MaxSkew /\ r.at - h.at <= MaxSkew

\* The two halves make a bundle.
Merges ==
    /\ reader # None
    /\ RuntimeAccepted(runtimeFile)
    /\ Paired(reader, runtimeFile)

\* The Paper half, and the merge: the caller gets a bundle of reader.artifact and
\* runtimeFile.boot if Merges, and an error otherwise.
ReadRuntime ==
    /\ reader # None
    /\ reader' = None
    /\ UNCHANGED <<clock, target, guard, observer, hostFile>>

Next ==
    \/ Capture \/ PublishLands \/ OnDisable \/ Exit \/ Start \/ Replace \/ Tick
    \/ \E f \in Fault : Change(f)
    \/ \E o \in Observers : Launch(o) \/ Observe(o) \/ Terminate(o)
    \/ ReadHost \/ ReadRuntime

\* The loop of gar-host goes on: requests to Docker time out and the ticker ticks.
Fairness == \A o \in Observers : WF_vars(Observe(o))

Spec == Init /\ [][Next]_vars /\ Fairness

-----------------------------------------------------------------------------
(* Properties.                                                             *)

\* When artifact a was in the slot, and the container was running, for the last time.
SlotHeld(a) == IF slot = a THEN clock ELSE lastSlot[a]
LastRunning == IF Running THEN clock ELSE paper.exitedAt

\* Stale evidence never becomes a bundle, however slow the observer, the plugin's write and
\* the reader are and however many observers overwrite each other's file: Paper was running
\* within the freshness bound of the merge, and the artifact of the bundle was in the slot
\* within the freshness and skew bounds.
BundleIsRecent ==
    Merges => /\ LastRunning >= clock - Freshness
              /\ SlotHeld(reader.artifact) >= clock - Freshness - MaxSkew

Healthy == Running /\ fault = "none"

\* "Continue probing so transient Docker/read errors can recover": once the target stays
\* healthy and some observer keeps running, the published host snapshot is available again
\* and again, whatever failed before.
ObserverRecovers ==
    (<>[]Healthy /\ \E o \in Observers : <>[](observer[o].pc # "off"))
        => []<>(hostFile # None /\ hostFile.available)

\* INV-05 of docs/GAR_V01_IMPLEMENTATION.md, "cross-boot evidence never becomes PASS": a
\* bundle that names the current run of Paper has host evidence of that run, so gar-host
\* has inspected the container since it was started.
NoCrossBootEvidence ==
    Merges /\ Running /\ runtimeFile.boot = paper.boot => paper.inspected
=============================================================================
