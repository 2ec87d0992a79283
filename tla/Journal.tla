------------------------------ MODULE Journal ------------------------------
(***************************************************************************)
(* The durable state of GAR (internal/store): frozen intents, operator     *)
(* decisions, operations with their step attempts, and backup records.     *)
(* Every store method that writes runs in one immediate SQLite             *)
(* transaction, so it is one action here; a call the code refuses is an    *)
(* action that is not enabled.  An intent has at most one approval, one    *)
(* operation and one backup (UNIQUE columns), so all four tables are       *)
(* functions of the intent.                                                *)
(***************************************************************************)
EXTENDS Integers

CONSTANTS
    Intents,          \* intent identifiers
    Enrollments,      \* enrolled targets
    EnrollmentOf,     \* the enrollment an intent is bound to
    LastStep,         \* index of the last enabled step: 5 in the code (S05)
    ApprovalWindow,   \* ApprovalDeadline - CreatedAt (15 minutes)
    StartWindow,      \* StartBefore - CreatedAt (20 minutes)
    MaxNow            \* bound on the clock

ASSUME JournalAssumption ==
    /\ EnrollmentOf \in [Intents -> Enrollments]
    /\ LastStep \in Nat /\ LastStep >= 2
    /\ ApprovalWindow \in Nat
    /\ StartWindow \in Nat
    /\ MaxNow \in Nat

VARIABLES
    now,         \* wall clock, in abstract units
    intents,     \* v01_intents: status and creation time
    approvals,   \* v01_approvals: the operator's decision
    operations,  \* v01_operations with the embedded v01_steps
    backups      \* v01_backups: status of the record

journalVars == <<now, intents, approvals, operations, backups>>

-----------------------------------------------------------------------------
(* Domains. S00-S05 are the steps PrepareStep accepts; S06-S10 are refused *)
(* before the store is touched.  The workflow ends with the graceful stop  *)
(* (S03), the offline revalidation (S04) and the backup (S05); its length  *)
(* is a parameter so that small workflows can be checked exhaustively.     *)

Step == 0..LastStep
StopStep == LastStep - 2
BackupStep == LastStep

IntentStatus == {"NONE", "AWAITING_APPROVAL", "CONSUMED", "REJECTED", "REVOKED"}

OperationStatus ==
    {"QUEUED", "PREPARING", "EXECUTING", "VERIFYING", "SUCCEEDED", "FAILED",
     "ABORTED", "UNKNOWN", "ROLLBACK_REQUIRED", "ROLLING_BACK", "ROLLED_BACK",
     "ROLLBACK_FAILED", "NEEDS_INTERVENTION"}

Effect ==
    {"PROVEN_NOT_APPLIED", "EXPECTED_STATE_OBSERVED", "OTHER_STATE_OBSERVED", "UNKNOWN"}

Attribution == {"CORRELATED", "UNATTRIBUTED"}

BackupStatus ==
    {"NONE", "RESERVED", "WRITING", "FINALIZING", "VERIFYING", "VALID", "FAILED",
     "UNKNOWN", "ORPHANED"}

Attempt ==
    [dispatch    : {"NONE", "NOT_DISPATCHED", "DISPATCH_POSSIBLE", "ACKNOWLEDGED"},
     effect      : Effect,
     attribution : Attribution]

NoAttempt ==
    [dispatch |-> "NONE", effect |-> "PROVEN_NOT_APPLIED", attribution |-> "UNATTRIBUTED"]

Operation ==
    [status   : OperationStatus \cup {"NONE"},
     released : BOOLEAN,
     started  : Nat,
     attempts : [Step -> Attempt]]

NoOperation ==
    [status |-> "NONE", released |-> FALSE, started |-> 0,
     attempts |-> [n \in Step |-> NoAttempt]]

JournalTypeOK ==
    /\ now \in Nat
    /\ intents \in [Intents -> [status : IntentStatus, created : Nat]]
    /\ approvals \in [Intents -> {"NONE", "APPROVED", "REJECTED"}]
    /\ operations \in [Intents -> Operation]
    /\ backups \in [Intents -> BackupStatus]

JournalInit ==
    /\ now = 0
    /\ intents = [i \in Intents |-> [status |-> "NONE", created |-> 0]]
    /\ approvals = [i \in Intents |-> "NONE"]
    /\ operations = [i \in Intents |-> NoOperation]
    /\ backups = [i \in Intents |-> "NONE"]

-----------------------------------------------------------------------------
(* The operation state machine (internal/domain/state.go).                 *)

CanTransitionOperation(from, to) ==
    \/ from = "QUEUED" /\ to \in {"PREPARING", "ABORTED", "UNKNOWN", "NEEDS_INTERVENTION"}
    \/ from = "PREPARING" /\ to \in {"EXECUTING", "ABORTED", "UNKNOWN", "NEEDS_INTERVENTION"}
    \/ /\ from = "EXECUTING"
       /\ to \in {"VERIFYING", "FAILED", "UNKNOWN", "ROLLBACK_REQUIRED", "NEEDS_INTERVENTION"}
    \/ /\ from = "VERIFYING"
       /\ to \in {"SUCCEEDED", "FAILED", "UNKNOWN", "ROLLBACK_REQUIRED", "NEEDS_INTERVENTION"}
    \/ from = "ROLLBACK_REQUIRED" /\ to \in {"ROLLING_BACK", "NEEDS_INTERVENTION"}
    \/ /\ from = "ROLLING_BACK"
       /\ to \in {"ROLLED_BACK", "ROLLBACK_FAILED", "UNKNOWN", "NEEDS_INTERVENTION"}

IsTerminalOperation(status) ==
    status \in {"SUCCEEDED", "FAILED", "ABORTED", "ROLLED_BACK", "ROLLBACK_FAILED",
                "NEEDS_INTERVENTION"}

Present(a) == a.dispatch # "NONE"

Done(a) ==
    /\ a.dispatch = "ACKNOWLEDGED"
    /\ a.effect = "EXPECTED_STATE_OBSERVED"
    /\ a.attribution = "CORRELATED"

Prepared(a) == a.dispatch = "NOT_DISPATCHED" /\ a.effect = "PROVEN_NOT_APPLIED"

Owns(i) == operations[i].status # "NONE" /\ ~operations[i].released

Blocked(i) == operations[i].status \in {"UNKNOWN", "NEEDS_INTERVENTION"}

\* The operation has started work: it can no longer be aborted by a revocation.
Begun(i) ==
    \/ operations[i].status \notin {"NONE", "QUEUED", "ABORTED"}
    \/ \E n \in Step : Present(operations[i].attempts[n])

\* Variant: an approval counts even after its revocation.
ApprovedOnce(i) == approvals[i] = "APPROVED"

\* The decision the step journal requires, read again in every dispatch transaction.
Approved(i) == intents[i].status = "CONSUMED"

\* Variant: a revocation also aborts an operation that has begun.
AbortableAnyTime(i) == operations[i].status # "NONE"

\* A revocation aborts an operation only while nothing was journaled for it.
Abortable(i) == operations[i].status = "QUEUED" /\ ~Begun(i)

\* Variant: a blocked operation does not count as an owner.
ActiveOwnerRunning(e) == \E j \in Intents : EnrollmentOf[j] = e /\ Owns(j) /\ ~Blocked(j)

ActiveOwner(e) == \E j \in Intents : EnrollmentOf[j] = e /\ Owns(j)

-----------------------------------------------------------------------------
(* Proposals and operator decisions.  The operator quotes the intent digest; *)
(* a digest that differs from the frozen one is refused and changes nothing. *)

PutIntent(i) ==
    /\ intents[i].status = "NONE"
    /\ intents' = [intents EXCEPT ![i] = [status |-> "AWAITING_APPROVAL", created |-> now]]
    /\ UNCHANGED <<now, approvals, operations, backups>>

ApproveIntent(i) ==
    /\ approvals[i] = "NONE"
    /\ now < intents[i].created + ApprovalWindow
    /\ now < intents[i].created + StartWindow
    /\ intents[i].status = "AWAITING_APPROVAL"
    /\ ~ActiveOwner(EnrollmentOf[i])
    /\ approvals' = [approvals EXCEPT ![i] = "APPROVED"]
    /\ operations' = [operations EXCEPT ![i] = [NoOperation EXCEPT !.status = "QUEUED"]]
    /\ intents' = [intents EXCEPT ![i].status = "CONSUMED"]
    /\ UNCHANGED <<now, backups>>

RejectIntent(i) ==
    /\ approvals[i] = "NONE"
    /\ intents[i].status = "AWAITING_APPROVAL"
    /\ approvals' = [approvals EXCEPT ![i] = "REJECTED"]
    /\ intents' = [intents EXCEPT ![i].status = "REJECTED"]
    /\ UNCHANGED <<now, operations, backups>>

RevokeIntent(i) ==
    /\ intents[i].status \notin {"NONE", "REJECTED", "REVOKED"}
    /\ intents' = [intents EXCEPT ![i].status = "REVOKED"]
    /\ operations' =
         IF Abortable(i)
         THEN [operations EXCEPT ![i].status = "ABORTED", ![i].released = TRUE]
         ELSE operations
    /\ UNCHANGED <<now, approvals, backups>>

-----------------------------------------------------------------------------
(* The step journal.                                                       *)

\* Variant: the earlier steps are not looked at.
CanPrepareAny(i, n) ==
    /\ operations[i].status # "NONE"
    /\ ~Blocked(i)
    /\ Approved(i)
    /\ ~operations[i].released
    /\ ~Present(operations[i].attempts[n])

\* Attempts are a slice in the code: all earlier steps are done, no later one exists.
CanPrepare(i, n) ==
    /\ operations[i].status # "NONE"
    /\ ~Blocked(i)
    /\ Approved(i)
    /\ ~operations[i].released
    /\ ~IsTerminalOperation(operations[i].status)
    /\ \A m \in Step : m < n => Done(operations[i].attempts[m])
    /\ \A m \in Step : m >= n => ~Present(operations[i].attempts[m])

PrepareStep(i, n) ==
    /\ CanPrepare(i, n)
    /\ operations' =
         [operations EXCEPT
            ![i].attempts[n] = [NoAttempt EXCEPT !.dispatch = "NOT_DISPATCHED"],
            ![i].started = IF n = 0 THEN now ELSE operations[i].started]
    /\ UNCHANGED <<now, intents, approvals, backups>>

\* Variant: an attempt already marked may be marked again.
CanMarkAgain(i, n) ==
    /\ operations[i].status \notin {"NONE", "UNKNOWN"}
    /\ Approved(i)
    /\ Present(operations[i].attempts[n])

CanMark(i, n) ==
    /\ operations[i].status # "NONE"
    /\ ~operations[i].released
    /\ ~IsTerminalOperation(operations[i].status)
    /\ operations[i].status # "UNKNOWN"
    /\ Approved(i)
    /\ Prepared(operations[i].attempts[n])

MarkDispatchPossible(i, n) ==
    /\ CanMark(i, n)
    /\ operations' =
         [operations EXCEPT
            ![i].attempts[n] = [dispatch    |-> "DISPATCH_POSSIBLE",
                                effect      |-> "UNKNOWN",
                                attribution |-> "UNATTRIBUTED"]]
    /\ UNCHANGED <<now, intents, approvals, backups>>

CanRecord(i, n) ==
    operations[i].attempts[n].dispatch \in {"DISPATCH_POSSIBLE", "ACKNOWLEDGED"}

\* Variant: the operation takes the observed effect as its status.
StatusAfterVerbatim(status, effect) ==
    IF effect = "EXPECTED_STATE_OBSERVED" THEN status ELSE effect

\* Variant: an expected observation clears a blocked status.
StatusAfterClears(status, effect) ==
    IF effect = "UNKNOWN" THEN "UNKNOWN"
    ELSE IF effect = "OTHER_STATE_OBSERVED" THEN "NEEDS_INTERVENTION"
    ELSE "EXECUTING"

\* The status the operation takes from an observed effect (updateAttempt).
StatusAfter(status, effect) ==
    IF effect = "UNKNOWN" THEN "UNKNOWN"
    ELSE IF effect = "OTHER_STATE_OBSERVED" THEN "NEEDS_INTERVENTION"
    ELSE status

\* The observations the program records: the expected state, a stop that failed, a stop
\* without attribution, and an unknown outcome.
Observation ==
    [effect : {"EXPECTED_STATE_OBSERVED", "OTHER_STATE_OBSERVED"}, attribution : Attribution]
    \cup {[effect |-> "UNKNOWN", attribution |-> "UNATTRIBUTED"]}

RecordStepObservation(i, n, effect, attribution) ==
    /\ CanRecord(i, n)
    /\ operations' =
         [operations EXCEPT
            ![i].status = StatusAfter(operations[i].status, effect),
            ![i].attempts[n] =
               [dispatch    |-> IF attribution = "CORRELATED" THEN "ACKNOWLEDGED"
                                ELSE operations[i].attempts[n].dispatch,
                effect      |-> effect,
                attribution |-> attribution]]
    /\ UNCHANGED <<now, intents, approvals, backups>>

\* Variant: an unknown outcome gives up ownership.
MarkUnknownReleases(i) ==
    /\ CanTransitionOperation(operations[i].status, "UNKNOWN")
    /\ operations' = [operations EXCEPT ![i].status = "UNKNOWN", ![i].released = TRUE]
    /\ UNCHANGED <<now, intents, approvals, backups>>

MarkUnknown(i) ==
    /\ CanTransitionOperation(operations[i].status, "UNKNOWN")
    /\ operations' = [operations EXCEPT ![i].status = "UNKNOWN", ![i].released = FALSE]
    /\ UNCHANGED <<now, intents, approvals, backups>>

\* Every caller passes verification NOT_STARTED, so SUCCEEDED is refused.
TransitionOperation(i, to) ==
    /\ CanTransitionOperation(operations[i].status, to)
    /\ to # "SUCCEEDED"
    /\ operations' =
         [operations EXCEPT
            ![i].status = to,
            ![i].released = @ \/ to \in {"FAILED", "ABORTED", "ROLLED_BACK"}]
    /\ UNCHANGED <<now, intents, approvals, backups>>

-----------------------------------------------------------------------------
(* Backup records (internal/store/backup.go).                              *)

\* BackupReadyEvidence.Validate, the part about the operation it is given.
StopIsDurable(op) ==
    op.status = "EXECUTING" /\ ~op.released /\ Done(op.attempts[StopStep])

\* Variant: the dispatch of S05 is not required.
CanReserveEarly(i) == StopIsDurable(operations[i]) /\ backups[i] = "NONE"

CanReserve(i) ==
    /\ StopIsDurable(operations[i])
    /\ operations[i].attempts[BackupStep].dispatch = "DISPATCH_POSSIBLE"
    /\ backups[i] = "NONE"

ReserveBackup(i) ==
    /\ CanReserve(i)
    /\ backups' = [backups EXCEPT ![i] = "RESERVED"]
    /\ UNCHANGED <<now, intents, approvals, operations>>

\* Variant: every unfinished or failed backup may be continued.
CanTransitionBackupAgain(from, to) == from \notin {"NONE", "VALID"} /\ from # to

CanTransitionBackup(from, to) ==
    \/ from = "RESERVED" /\ to \in {"WRITING", "FAILED", "UNKNOWN", "ORPHANED"}
    \/ from = "WRITING" /\ to \in {"FINALIZING", "FAILED", "UNKNOWN", "ORPHANED"}
    \/ from = "FINALIZING" /\ to \in {"VERIFYING", "FAILED", "UNKNOWN", "ORPHANED"}
    \/ from = "VERIFYING" /\ to \in {"FAILED", "UNKNOWN", "ORPHANED"}

TransitionBackupStatus(i, to) ==
    /\ CanTransitionBackup(backups[i], to)
    /\ backups' = [backups EXCEPT ![i] = to]
    /\ UNCHANGED <<now, intents, approvals, operations>>

CanComplete(i) ==
    /\ backups[i] = "VERIFYING"
    /\ StopIsDurable(operations[i])
    /\ operations[i].attempts[BackupStep].dispatch = "DISPATCH_POSSIBLE"
    /\ operations[i].attempts[BackupStep].effect = "UNKNOWN"

\* Variant: the S05 evidence commits without the backup metadata.
CompleteBackupStepOnly(i) ==
    /\ CanComplete(i)
    /\ RecordStepObservation(i, BackupStep, "EXPECTED_STATE_OBSERVED", "CORRELATED")

\* Backup metadata and S05 evidence commit in one transaction.
CompleteBackup(i) ==
    /\ CanComplete(i)
    /\ backups' = [backups EXCEPT ![i] = "VALID"]
    /\ operations' =
         [operations EXCEPT
            ![i].attempts[BackupStep] = [dispatch    |-> "ACKNOWLEDGED",
                                effect      |-> "EXPECTED_STATE_OBSERVED",
                                attribution |-> "CORRELATED"]]
    /\ UNCHANGED <<now, intents, approvals>>

Tick ==
    /\ now < MaxNow
    /\ now' = now + 1
    /\ UNCHANGED <<intents, approvals, operations, backups>>

-----------------------------------------------------------------------------
(* The store under any sequence of the calls the program makes, by any     *)
(* number of processes.  TransitionOperation is called for PREPARING and   *)
(* EXECUTING only (internal/workflow/foundation.go), and                   *)
(* TransitionBackupStatus for the four statuses internal/backup uses.      *)

JournalNext ==
    \/ Tick
    \/ \E i \in Intents :
         \/ PutIntent(i)
         \/ ApproveIntent(i)
         \/ RejectIntent(i)
         \/ RevokeIntent(i)
         \/ MarkUnknown(i)
         \/ \E to \in {"PREPARING", "EXECUTING"} : TransitionOperation(i, to)
         \/ \E n \in Step :
              \/ PrepareStep(i, n)
              \/ MarkDispatchPossible(i, n)
              \/ \E o \in Observation :
                   RecordStepObservation(i, n, o.effect, o.attribution)
         \/ ReserveBackup(i)
         \/ \E to \in {"WRITING", "FINALIZING", "VERIFYING", "ORPHANED"} :
              TransitionBackupStatus(i, to)
         \/ CompleteBackup(i)

JournalSpec == JournalInit /\ [][JournalNext]_journalVars

-----------------------------------------------------------------------------
(* Properties.                                                             *)

\* INV-07: of all operations of one enrollment at most one is unreleased, however
\* approvals, revocations and blocked operations interleave (activeOwner).
SingleWriter ==
    \A i, j \in Intents :
        Owns(i) /\ Owns(j) /\ EnrollmentOf[i] = EnrollmentOf[j] => i = j

\* The three tables agree: an operation exists exactly for an approved intent, the
\* intent of an operation is consumed or revoked, a rejected one never gets one, and
\* only an aborted operation has given up ownership.
DecisionsAgree ==
    \A i \in Intents :
        /\ operations[i].status # "NONE" <=> approvals[i] = "APPROVED"
        /\ approvals[i] = "APPROVED" => intents[i].status \in {"CONSUMED", "REVOKED"}
        /\ approvals[i] = "REJECTED" <=> intents[i].status = "REJECTED"
        /\ intents[i].status = "CONSUMED" => approvals[i] = "APPROVED"
        /\ operations[i].released <=> operations[i].status = "ABORTED"
        /\ operations[i].released => ~Begun(i) /\ intents[i].status = "REVOKED"

\* Steps are journaled in the approved order: a step exists only for an approved operation
\* and only when every earlier step was dispatched, whatever was observed since (PrepareStep).
StepsInOrder ==
    \A i \in Intents, n \in Step :
        Present(operations[i].attempts[n]) =>
            /\ operations[i].status # "NONE"
            /\ \A m \in Step :
                 m < n => operations[i].attempts[m].dispatch \in {"DISPATCH_POSSIBLE", "ACKNOWLEDGED"}

\* A backup record is never ahead of the journal: it exists only if S05 was dispatched and
\* is VALID only if S05 was acknowledged, whatever is observed or marked unknown later.
BackupFollowsJournal ==
    \A i \in Intents :
        /\ backups[i] # "NONE" =>
             operations[i].attempts[BackupStep].dispatch \in {"DISPATCH_POSSIBLE", "ACKNOWLEDGED"}
        /\ backups[i] = "VALID" => operations[i].attempts[BackupStep].dispatch = "ACKNOWLEDGED"

\* A step that leaves a blocked operation blocked.
BlockedStep ==
    \A i \in Intents :
        Blocked(i) =>
            /\ Blocked(i)' /\ Owns(i)'
            /\ \A n \in Step :
                 \/ operations[i].attempts[n].dispatch = operations'[i].attempts[n].dispatch
                 \/ operations[i].attempts[n].dispatch = "DISPATCH_POSSIBLE"

\* INV-08: an UNKNOWN or NEEDS_INTERVENTION operation never advances: it stays blocked and
\* unreleased, and none of its steps becomes prepared or dispatched.
BlockedStaysBlocked == [][BlockedStep]_journalVars

Dispatch == {"DISPATCH_POSSIBLE", "ACKNOWLEDGED"}

\* A step that undoes neither a dispatch nor the outcome of a backup.
MonotoneStep ==
    \A i \in Intents :
        /\ \A n \in Step :
             operations[i].attempts[n].dispatch \in Dispatch
               => operations'[i].attempts[n].dispatch \in Dispatch
        /\ backups[i] \in {"VALID", "FAILED", "UNKNOWN", "ORPHANED"} => backups'[i] = backups[i]

\* A step that may have been dispatched is never again offered for dispatch, and a backup
\* that reached VALID, FAILED, UNKNOWN or ORPHANED keeps that status: recovery neither
\* repeats a step nor promotes an incomplete archive.
NothingIsRepeated == [][MonotoneStep]_journalVars

\* The store implements the abstract writer lock.
Lock == INSTANCE WriterLock WITH
    holders <- [e \in Enrollments |-> {i \in Intents : EnrollmentOf[i] = e /\ Owns(i)}],
    used <- {i \in Intents : operations[i].status # "NONE"},
    begun <- {i \in Intents : Begun(i)}

\* Refinement: every store transaction is an acquisition, a begin, a release or no change
\* of the abstract lock, so ownership is exclusive and is kept once an operation begins.
ImplementsWriterLock == Lock!Spec
=============================================================================
