----------------------------- MODULE Foundation -----------------------------
(***************************************************************************)
(* The Foundation coordinator (internal/workflow/foundation.go), with the  *)
(* offline backup engine it calls (internal/backup/offline.go), working on *)
(* the journal and on the Paper server.  A coordinator is one gar-g03-     *)
(* verify process that executes Foundation.Run and writes the acceptance   *)
(* evidence; nothing stops the owner from starting it twice or again after *)
(* a crash.  Each store transaction, observation and external effect is    *)
(* one step; between two steps anything may happen.                        *)
(***************************************************************************)
EXTENDS Journal, Paper

CONSTANTS
    Coordinators,   \* processes that may execute Foundation.Run
    Budget          \* ExecutionBudgetSeconds, in clock units

ASSUME FoundationAssumption == Budget \in Nat /\ LastStep >= 5

VARIABLES
    expectedBoot,   \* ExpectedBootID frozen in the intent
    pc,             \* where a coordinator is
    job,            \* the intent whose operation it executes
    step,           \* n, the loop counter of Run
    seen,           \* op, its copy of the operation, read at the top of the loop
    readFrom,       \* the exited run whose files the archive reader started on, or 0
    archive,        \* files of the backup; offline: Paper did not run while it was read
    accepted,       \* the intent the G-03 evidence file is about, none before it exists
    effects,        \* how often each external effect was issued
    late            \* external effects issued after the intent was revoked

workVars == <<pc, job, step, seen, readFrom>>
traceVars == <<effects, late>>
recordVars == <<expectedBoot, accepted>>
vars == <<journalVars, paperVars, recordVars, workVars, archive, traceVars>>

MaintenanceStep == StopStep - 1
EffectStep == {MaintenanceStep, StopStep, BackupStep}

\* Where a coordinator is while it owns a dispatched attempt.
Creating ==
    {"check", "reserve", "write", "open", "read", "finalize", "rename", "verify", "recheck",
     "complete", "failed"}
Dispatched ==
    {"effect", "maintenance", "stopping", "stopped", "record", "other", "unattributed",
     "markUnknown", "unknown"} \cup Creating
Location ==
    {"idle", "claim", "loop", "prepare", "execute", "observe", "mark", "interrupted",
     "inspect", "accept", "reread", "publish"} \cup Dispatched

NoArchive == [partial |-> FALSE, final |-> FALSE, offline |-> FALSE]

FoundationTypeOK ==
    /\ JournalTypeOK
    /\ PaperTypeOK
    /\ expectedBoot \in [Intents -> Nat]
    /\ pc \in [Coordinators -> Location]
    /\ job \in [Coordinators -> Intents]
    /\ step \in [Coordinators -> Step]
    /\ seen \in [Coordinators -> Operation]
    /\ readFrom \in [Coordinators -> Nat]
    /\ archive \in [Intents -> [partial : BOOLEAN, final : BOOLEAN, offline : BOOLEAN]]
    /\ accepted \in SUBSET Intents
    /\ effects \in [Intents -> [Step -> 0..2]]
    /\ late \in [Intents -> 0..2]

Init ==
    /\ JournalInit
    /\ PaperInit
    /\ expectedBoot = [i \in Intents |-> 0]
    /\ pc = [c \in Coordinators |-> "idle"]
    /\ job \in [Coordinators -> Intents]
    /\ step = [c \in Coordinators |-> 0]
    /\ seen = [c \in Coordinators |-> NoOperation]
    /\ readFrom = [c \in Coordinators |-> 0]
    /\ archive = [i \in Intents |-> NoArchive]
    /\ accepted = {}
    /\ effects = [i \in Intents |-> [n \in Step |-> 0]]
    /\ late = [i \in Intents |-> 0]

-----------------------------------------------------------------------------
(* Local steps of a coordinator.                                           *)

Goto(c, location) ==
    /\ pc' = [pc EXCEPT ![c] = location]
    /\ UNCHANGED <<job, step, seen, readFrom>>

\* Run returns; its locals are gone.
Return(c) ==
    /\ pc' = [pc EXCEPT ![c] = "idle"]
    /\ step' = [step EXCEPT ![c] = 0]
    /\ seen' = [seen EXCEPT ![c] = NoOperation]
    /\ readFrom' = [readFrom EXCEPT ![c] = 0]
    /\ UNCHANGED job

\* Variant: the loop runs one step too far.
AdvancePastEnd(c) ==
    /\ pc' = [pc EXCEPT ![c] = "loop"]
    /\ step' = [step EXCEPT ![c] = @ + 1]
    /\ UNCHANGED <<job, seen, readFrom>>

\* Variant: the loop counter is not incremented.
AdvanceInPlace(c) == Goto(c, "loop")

\* The next iteration of the loop over the steps, or its end.
Advance(c) ==
    IF step[c] = LastStep
    THEN Goto(c, "inspect")
    ELSE /\ pc' = [pc EXCEPT ![c] = "loop"]
         /\ step' = [step EXCEPT ![c] = @ + 1]
         /\ UNCHANGED <<job, seen, readFrom>>

Count(k) == IF k < 2 THEN k + 1 ELSE k

\* Trace of an external effect issued for step n of intent i.
Issue(i, n) ==
    /\ effects' = [effects EXCEPT ![i][n] = Count(@)]
    /\ late' = [late EXCEPT ![i] = IF intents[i].status = "REVOKED" THEN Count(@) ELSE @]

worldVars == <<paperVars, recordVars, archive, traceVars>>

\* Offline evidence for the copy of the operation a coordinator holds (offline).
OfflineReady(c) == OfflineEvidence(expectedBoot[job[c]]) /\ StopIsDurable(seen[c])

-----------------------------------------------------------------------------
(* Foundation.Run up to the dispatch of a step.                            *)

\* Run's checks on the operation and its intent; both are read before any write.
MayStart(i) ==
    /\ Approved(i)
    /\ ~operations[i].released
    /\ operations[i].status \in {"QUEUED", "PREPARING", "EXECUTING"}
    /\ LET first == operations[i].attempts[0] IN
         /\ IF Present(first) THEN now < operations[i].started + Budget ELSE Budget > 0
         /\ first.dispatch \in {"NONE", "NOT_DISPATCHED"} => now < intents[i].created + StartWindow

Start(c, i) ==
    /\ pc[c] = "idle"
    /\ MayStart(i)
    /\ pc' = [pc EXCEPT ![c] = IF operations[i].status = "QUEUED" THEN "claim" ELSE "loop"]
    /\ job' = [job EXCEPT ![c] = i]
    /\ UNCHANGED <<journalVars, worldVars, step, seen, readFrom>>

Claim(c) ==
    /\ pc[c] = "claim"
    /\ TransitionOperation(job[c], "PREPARING")
    /\ Goto(c, "loop")
    /\ UNCHANGED worldVars

\* After a step is prepared.  The status is the one read before PrepareStep.
AfterPrepare(n, status) ==
    IF n = StopStep /\ status = "PREPARING" THEN "execute"
    ELSE IF n = 0 THEN "mark"
    ELSE "observe"

\* Variant: an effect that was interrupted is issued again.
AfterReadRepeating(a, n, status) ==
    IF ~Present(a) THEN "prepare"
    ELSE IF Prepared(a) THEN AfterPrepare(n, status)
    ELSE IF n \in EffectStep THEN "effect"
    ELSE "interrupted"

\* Variant: a step that was prepared before an interruption goes straight to its checks.
AfterReadResuming(a, n, status) ==
    IF ~Present(a) THEN "prepare"
    ELSE IF Prepared(a) THEN IF n = 0 THEN "mark" ELSE "observe"
    ELSE "interrupted"

\* What to do about the attempt read; one that may have been dispatched is not repeated.
AfterRead(a, n, status) ==
    IF ~Present(a) THEN "prepare"
    ELSE IF Prepared(a) THEN AfterPrepare(n, status)
    ELSE "interrupted"

\* The top of the loop: read the operation and decide about its attempt at step n.
Loop(c) ==
    LET op == operations[job[c]]
        a == op.attempts[step[c]]
    IN  /\ pc[c] = "loop"
        /\ \/ op.status \in {"UNKNOWN", "NEEDS_INTERVENTION"} /\ Return(c)
           \/ /\ op.status \notin {"UNKNOWN", "NEEDS_INTERVENTION"}
              /\ \/ Done(a) /\ Advance(c)
                 \/ /\ ~Done(a)
                    /\ pc' = [pc EXCEPT ![c] = AfterRead(a, step[c], op.status)]
                    /\ seen' = [seen EXCEPT ![c] = op]
                    /\ UNCHANGED <<job, step, readFrom>>
        /\ UNCHANGED <<journalVars, worldVars>>

Prepare(c) ==
    /\ pc[c] = "prepare"
    /\ PrepareStep(job[c], step[c])
    /\ Goto(c, AfterPrepare(step[c], seen[c].status))
    /\ UNCHANGED worldVars

Execute(c) ==
    /\ pc[c] = "execute"
    /\ TransitionOperation(job[c], "EXECUTING")
    /\ Goto(c, "observe")
    /\ UNCHANGED worldVars

\* Read-only checks before the dispatch: players and maintenance acknowledgement are in
\* the observation and can only make it fail.
Observe(c) ==
    /\ pc[c] = "observe"
    /\ IF step[c] > StopStep
       THEN OfflineReady(c)
       ELSE /\ OnlineEvidence(expectedBoot[job[c]])
            /\ step[c] = StopStep => admission = "CLOSED"
    /\ Goto(c, "mark")
    /\ UNCHANGED <<journalVars, worldVars>>

Mark(c) ==
    /\ pc[c] = "mark"
    /\ MarkDispatchPossible(job[c], step[c])
    /\ Goto(c, IF step[c] = BackupStep THEN "check"
               ELSE IF step[c] \in EffectStep THEN "effect"
               ELSE "record")
    /\ UNCHANGED worldVars

-----------------------------------------------------------------------------
(* S02 and S03.                                                            *)

\* The receipt may be lost, and the state file written or not.
CloseAdmission(c) ==
    /\ pc[c] = "effect"
    /\ step[c] = MaintenanceStep
    /\ Issue(job[c], step[c])
    /\ \/ admission' = "CLOSED" /\ Goto(c, "maintenance")
       \/ admission' \in {admission, "CLOSED"} /\ Goto(c, "unknown")
    /\ UNCHANGED <<journalVars, container, snapshot, recordVars, archive>>

\* Polls until Paper acknowledges; an intent found stale or a timeout ends in UNKNOWN.
WaitMaintenance(c) ==
    /\ pc[c] = "maintenance"
    /\ \/ /\ OnlineEvidence(expectedBoot[job[c]])
          /\ admission = "CLOSED"
          /\ Goto(c, "record")
       \/ Goto(c, "unknown")
    /\ UNCHANGED <<journalVars, worldVars>>

\* Docker accepts the request, or it is lost or refused (already stopped).
DispatchGracefulStop(c) ==
    /\ pc[c] = "effect"
    /\ step[c] = StopStep
    /\ Issue(job[c], step[c])
    /\ \/ /\ container.state \in Alive
          /\ container' = [container EXCEPT !.state = IF @ = "RUNNING" THEN "STOPPING" ELSE @]
          /\ Goto(c, "stopping")
       \/ UNCHANGED container /\ Goto(c, "unknown")
    /\ UNCHANGED <<journalVars, snapshot, admission, recordVars, archive>>

\* Docker answers when the container has exited; the answer may be lost.
StopAnswer(c) ==
    /\ pc[c] = "stopping"
    /\ \/ container.state = "EXITED" /\ Goto(c, "stopped")
       \/ Goto(c, "unknown")
    /\ UNCHANGED <<journalVars, worldVars>>

\* ClassifyStop on a polled observation: confirmed, failed, stopped without attribution,
\* or unknown (also on a timeout).
WaitStopped(c) ==
    /\ pc[c] = "stopped"
    /\ \/ /\ container.state = "EXITED"
          /\ \/ ~container.clean /\ Goto(c, "other")
             \/ container.clean /\ Goto(c, "unattributed")
             \/ container.clean /\ TerminalEvidence(expectedBoot[job[c]]) /\ Goto(c, "record")
       \/ Goto(c, "unknown")
    /\ UNCHANGED <<journalVars, worldVars>>

-----------------------------------------------------------------------------
(* S05: Engine.Create.                                                     *)

\* First offline check; the final name must be free.
Check(c) ==
    /\ pc[c] = "check"
    /\ OfflineReady(c)
    /\ ~archive[job[c]].final
    /\ Goto(c, "reserve")
    /\ UNCHANGED <<journalVars, worldVars>>

Reserve(c) ==
    /\ pc[c] = "reserve"
    /\ ReserveBackup(job[c])
    /\ Goto(c, "write")
    /\ UNCHANGED worldVars

\* The three status records of Create, each followed by the file operation it announces.
AnnounceAs(c, from, status, to) ==
    /\ pc[c] = from
    /\ TransitionBackupStatus(job[c], status)
    /\ Goto(c, to)
    /\ UNCHANGED worldVars

\* Creates the partial file (O_EXCL) and starts to read Paper's files.
Open(c) ==
    /\ pc[c] = "open"
    /\ ~archive[job[c]].partial
    /\ archive' = [archive EXCEPT ![job[c]].partial = TRUE]
    /\ Issue(job[c], step[c])
    /\ pc' = [pc EXCEPT ![c] = "read"]
    /\ readFrom' = [readFrom EXCEPT ![c] = IF container.state = "EXITED" THEN container.boot ELSE 0]
    /\ UNCHANGED <<journalVars, paperVars, recordVars, job, step, seen>>

\* The last byte is read and synced.
Read(c) ==
    /\ pc[c] = "read"
    /\ archive' = [archive EXCEPT ![job[c]].offline =
                     container.state = "EXITED" /\ container.boot = readFrom[c]]
    /\ Goto(c, "finalize")
    /\ UNCHANGED <<journalVars, paperVars, recordVars, traceVars>>

\* RENAME_NOREPLACE and directory sync.
Rename(c) ==
    /\ pc[c] = "rename"
    /\ archive[job[c]].partial
    /\ ~archive[job[c]].final
    /\ archive' = [archive EXCEPT ![job[c]].partial = FALSE, ![job[c]].final = TRUE]
    /\ Goto(c, "verify")
    /\ UNCHANGED <<journalVars, paperVars, recordVars, traceVars>>

\* Digest reread and second offline check.
Recheck(c) ==
    /\ pc[c] = "recheck"
    /\ archive[job[c]].final
    /\ OfflineReady(c)
    /\ Goto(c, "complete")
    /\ UNCHANGED <<journalVars, worldVars>>

\* The commit may succeed and its answer be lost.
Complete(c) ==
    /\ pc[c] = "complete"
    /\ CompleteBackup(job[c])
    /\ Advance(c) \/ Goto(c, "failed")
    /\ UNCHANGED worldVars

\* Any call of Create may be refused or fail.
CreateError(c) ==
    /\ pc[c] \in Creating \ {"failed"}
    /\ Goto(c, "failed")
    /\ UNCHANGED <<journalVars, worldVars>>

\* Run rereads the operation; an unsuccessful reread counts as not completed.
Failed(c) ==
    /\ pc[c] = "failed"
    /\ \/ /\ operations[job[c]].attempts[BackupStep].effect = "EXPECTED_STATE_OBSERVED"
          /\ operations[job[c]].attempts[BackupStep].attribution = "CORRELATED"
          /\ Return(c)
       \/ Goto(c, "unknown")
    /\ UNCHANGED <<journalVars, worldVars>>

Create(c) ==
    \/ Check(c)
    \/ Reserve(c)
    \/ AnnounceAs(c, "write", "WRITING", "open")
    \/ Open(c)
    \/ Read(c)
    \/ AnnounceAs(c, "finalize", "FINALIZING", "rename")
    \/ Rename(c)
    \/ AnnounceAs(c, "verify", "VERIFYING", "recheck")
    \/ Recheck(c)
    \/ Complete(c)
    \/ CreateError(c)

-----------------------------------------------------------------------------
(* Recording the outcome, and the end of Run.                              *)

RecordExpected(c) ==
    /\ pc[c] = "record"
    /\ RecordStepObservation(job[c], step[c], "EXPECTED_STATE_OBSERVED", "CORRELATED")
    /\ Advance(c)
    /\ UNCHANGED worldVars

RecordOther(c) ==
    /\ pc[c] = "other"
    /\ \E attribution \in Attribution :
         RecordStepObservation(job[c], step[c], "OTHER_STATE_OBSERVED", attribution)
    /\ Return(c)
    /\ UNCHANGED worldVars

RecordUnattributed(c) ==
    /\ pc[c] = "unattributed"
    /\ RecordStepObservation(job[c], step[c], "EXPECTED_STATE_OBSERVED", "UNATTRIBUTED")
    /\ Goto(c, "markUnknown")
    /\ UNCHANGED worldVars

RecordMarkUnknown(c) ==
    /\ pc[c] = "markUnknown"
    /\ MarkUnknown(job[c])
    /\ Return(c)
    /\ UNCHANGED worldVars

\* unknown: after a failed effect, or for an attempt found dispatched at the top of the loop.
RecordUnknown(c) ==
    /\ pc[c] \in {"unknown", "interrupted"}
    /\ RecordStepObservation(job[c], step[c], "UNKNOWN", "UNATTRIBUTED")
    /\ Return(c)
    /\ UNCHANGED worldVars

\* Engine.Inspect; a final file whose record is not VALID is marked ORPHANED.
Inspect(c) ==
    /\ pc[c] = "inspect"
    /\ IF /\ archive[job[c]].final
          /\ backups[job[c]] # "VALID"
          /\ CanTransitionBackup(backups[job[c]], "ORPHANED")
       THEN TransitionBackupStatus(job[c], "ORPHANED")
       ELSE UNCHANGED journalVars
    /\ IF archive[job[c]].final /\ backups[job[c]] = "VALID" THEN Goto(c, "accept") ELSE Return(c)
    /\ UNCHANGED worldVars

\* Run has returned without an error: the command inspects the backup again ...
AcceptBackup(c) ==
    /\ pc[c] = "accept"
    /\ archive[job[c]].final
    /\ backups[job[c]] = "VALID"
    /\ Goto(c, "reread")
    /\ UNCHANGED <<journalVars, worldVars>>

\* ... rereads the operation, which must still hold the target with all its steps,
\* and refuses to go on when there is an evidence file already ...
AcceptOperation(c) ==
    /\ pc[c] = "reread"
    /\ operations[job[c]].status = "EXECUTING"
    /\ ~operations[job[c]].released
    /\ \A n \in 0..LastStep : Present(operations[job[c]].attempts[n])
    /\ accepted = {}
    /\ Goto(c, "publish")
    /\ UNCHANGED <<journalVars, worldVars>>

\* ... and renames the evidence into place.
WriteEvidence(c) ==
    /\ pc[c] = "publish"
    /\ accepted' = {job[c]}
    /\ Return(c)
    /\ UNCHANGED <<journalVars, paperVars, expectedBoot, archive, traceVars>>

\* A store call or an observation is refused or fails, and Run returns its error.
Refused(c) ==
    /\ pc[c] \in {"claim", "prepare", "execute", "observe", "mark", "record", "other",
                  "unattributed", "markUnknown", "unknown", "interrupted", "inspect", "accept",
                  "reread", "publish"}
    /\ Return(c)
    /\ UNCHANGED <<journalVars, worldVars>>

\* The process dies, or its context ends, anywhere.
Crash(c) ==
    /\ pc[c] # "idle"
    /\ Return(c)
    /\ UNCHANGED <<journalVars, worldVars>>

Coordinate(c) ==
    \/ Claim(c) \/ Loop(c) \/ Prepare(c) \/ Execute(c) \/ Observe(c) \/ Mark(c)
    \/ CloseAdmission(c) \/ WaitMaintenance(c)
    \/ DispatchGracefulStop(c) \/ StopAnswer(c) \/ WaitStopped(c)
    \/ Create(c) \/ Failed(c)
    \/ RecordExpected(c) \/ RecordOther(c) \/ RecordUnattributed(c)
    \/ RecordMarkUnknown(c) \/ RecordUnknown(c) \/ Inspect(c) \/ Refused(c)
    \/ AcceptBackup(c) \/ AcceptOperation(c) \/ WriteEvidence(c)

-----------------------------------------------------------------------------
(* The agent's proposal, the owner's decisions, the clock and Paper.       *)

\* The proposal freezes the boot of a fresh, ready snapshot of a running Paper.
Propose(i) ==
    /\ OnlineEvidence(snapshot.boot)
    /\ PutIntent(i)
    /\ expectedBoot' = [expectedBoot EXCEPT ![i] = snapshot.boot]
    /\ UNCHANGED <<paperVars, accepted, archive, traceVars, workVars>>

Decide(i) ==
    /\ ApproveIntent(i) \/ RejectIntent(i) \/ RevokeIntent(i)
    /\ UNCHANGED <<worldVars, workVars>>

Environment ==
    \/ \E i \in Intents : Propose(i) \/ Decide(i)
    \/ Tick /\ UNCHANGED <<worldVars, workVars>>
    \/ PaperNext /\ UNCHANGED <<journalVars, recordVars, archive, traceVars, workVars>>

Next ==
    \/ \E c \in Coordinators :
         Coordinate(c) \/ Crash(c) \/ \E i \in Intents : Start(c, i)
    \/ Environment

Spec == Init /\ [][Next]_vars

\* A process that runs takes its next step: calls have timeouts and waits have deadlines.
Fairness == \A c \in Coordinators : WF_vars(Coordinate(c))

FairSpec == Spec /\ Fairness

-----------------------------------------------------------------------------
(* Properties.                                                             *)

\* However often Run is started, at most one coordinator is between the dispatch mark and
\* the recorded outcome of a step on an enrollment.
OneDispatcher ==
    \A c, d \in Coordinators :
        /\ pc[c] \in Dispatched
        /\ pc[d] \in Dispatched
        /\ EnrollmentOf[job[c]] = EnrollmentOf[job[d]]
        => c = d

\* Admission is closed, the stop is requested and the archive is begun at most once each,
\* in this order, and only after every earlier step was acknowledged ("exactly one stop
\* request", no second dispatch after a crash, a lost answer or a second Run).
EffectsOnceInOrder ==
    \A i \in Intents, n \in EffectStep :
        effects[i][n] > 0 =>
            /\ effects[i][n] = 1
            /\ \A m \in Step : m < n => operations[i].attempts[m].dispatch = "ACKNOWLEDGED"
            /\ \A m \in EffectStep : m < n => effects[i][m] = 1

\* A VALID backup has its final archive, and Paper was stopped from the first to the last
\* byte read, whatever restarts happen between the checks.
ValidBackupIsOffline ==
    \A i \in Intents : backups[i] = "VALID" => archive[i].final /\ archive[i].offline

\* S05 is acknowledged as expected only together with a VALID backup record.
DoneBackupIsValid ==
    \A i \in Intents : Done(operations[i].attempts[BackupStep]) => backups[i] = "VALID"

\* A revocation lets at most the one effect finish whose dispatch was already marked.
RevocationStopsDispatch == \A i \in Intents : late[i] <= 1

\* A coordinator that has dispatched a step works for an operation that owns its target,
\* so a revocation never frees the target under it.
DispatcherOwns == \A c \in Coordinators : pc[c] \in Dispatched => Owns(job[c])

\* G-03 evidence stands for what it says and goes on doing so: a VALID archive read
\* offline, one close, one stop and one backup, and an operation that still owns the
\* target, although the command reads the backup, the operation and the old evidence
\* one after the other while other processes and the owner go on.
AcceptanceIsEarned ==
    \A i \in accepted :
        /\ backups[i] = "VALID" /\ archive[i].offline
        /\ \A n \in EffectStep : effects[i][n] = 1
        /\ Owns(i)

\* The status of an operation keeps up with its steps, although Run decides about it on the
\* copy it read before PrepareStep and may be interrupted between the two: an operation with
\* a journaled step is PREPARING or further, and one whose stop may have been dispatched is
\* EXECUTING or blocked, never still PREPARING (such an operation could not be backed up).
StatusFollowsSteps ==
    \A i \in Intents :
        /\ \A n \in Step : Present(operations[i].attempts[n]) =>
             operations[i].status \in {"PREPARING", "EXECUTING"} \/ Blocked(i)
        /\ CanRecord(i, StopStep) => operations[i].status = "EXECUTING" \/ Blocked(i)

\* Every Run returns: the waits for Paper and Docker are bounded and no step is revisited,
\* with crashes or without.
RunReturns ==
    \A c \in Coordinators : pc[c] # "idle" ~> pc[c] = "idle"

-----------------------------------------------------------------------------
(* What the documentation says and the code does not do.                   *)

\* Crash table of docs/GAR_V01_IMPLEMENTATION.md: once the backup metadata is committed, the
\* VALID record and the acknowledgement of S05 survive.
CompletedBackupStaysAcknowledged ==
    \A i \in Intents : backups[i] = "VALID" => Done(operations[i].attempts[BackupStep])
=============================================================================
