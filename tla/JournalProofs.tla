--------------------------- MODULE JournalProofs ---------------------------
(***************************************************************************)
(* Proofs about the store for every set of intents, any number of steps    *)
(* and any deadlines.                                                      *)
(***************************************************************************)
EXTENDS Journal, TLAPS

USE Zenon

\* The inductive invariant: the four safety properties rest on each other and on the types.
JournalInv ==
    /\ JournalTypeOK
    /\ SingleWriter
    /\ DecisionsAgree
    /\ StepsInOrder
    /\ BackupFollowsJournal

-----------------------------------------------------------------------------

\* Bounds of the steps: stop and backup are steps of the workflow.
LEMMA StepBounds ==
    /\ StopStep \in Step
    /\ BackupStep \in Step
    /\ 0 \in Step
BY SMT, JournalAssumption DEF Step, StopStep, BackupStep

\* CanTransitionOperation: no step of the state machine leaves a blocked, aborted or missing
\* operation, and none the store uses for PREPARING, EXECUTING or UNKNOWN enters ABORTED.
LEMMA TransitionSources ==
    ASSUME NEW from, NEW to, CanTransitionOperation(from, to)
    PROVE  /\ from \notin {"NONE", "ABORTED", "UNKNOWN", "NEEDS_INTERVENTION"}
           /\ from \in OperationStatus
BY DEF CanTransitionOperation, OperationStatus

\* The store starts with empty tables.
LEMMA InitInv == JournalInit => JournalInv
BY SMT, StepBounds
   DEF JournalInit, JournalInv, Operation, OperationStatus, JournalTypeOK, SingleWriter, DecisionsAgree, StepsInOrder,
       BackupFollowsJournal, NoOperation, NoAttempt, Attempt, Effect, Attribution,
       IntentStatus, BackupStatus, Owns, Begun, Present, Done

\* PutIntent adds an undecided intent.
LEMMA PutIntentInv ==
    ASSUME JournalInv, NEW i \in Intents, PutIntent(i)
    PROVE  JournalInv'
<1>. USE StepBounds DEF JournalInv
<1>1. JournalTypeOK'
  BY DEF JournalTypeOK, Operation, PutIntent, IntentStatus, Owns, Begun, Present
<1>2. SingleWriter'
  BY DEF JournalTypeOK, Operation, SingleWriter, PutIntent, IntentStatus, Owns, Begun, Present
<1>3. DecisionsAgree'
  BY SMT DEF JournalTypeOK, Operation, DecisionsAgree, StepsInOrder, PutIntent, IntentStatus, Owns, Begun, Present
<1>4. StepsInOrder'
  BY DEF JournalTypeOK, Operation, StepsInOrder, PutIntent, IntentStatus, Owns, Begun, Present
<1>5. BackupFollowsJournal'
  BY DEF JournalTypeOK, Operation, BackupFollowsJournal, StepsInOrder, PutIntent, IntentStatus, Owns, Begun, Present
<1>. QED  BY <1>1, <1>2, <1>3, <1>4, <1>5

\* ApproveIntent takes the free target.
LEMMA ApproveInv ==
    ASSUME JournalInv, NEW i \in Intents, ApproveIntent(i)
    PROVE  JournalInv'
<1>. USE StepBounds DEF JournalInv
<1>1. JournalTypeOK'
  <2>1. operations'[i] \in Operation
    BY DEF JournalTypeOK, Operation, ApproveIntent, OperationStatus, NoOperation, NoAttempt, Attempt, Effect, Attribution
  <2>. QED  BY <2>1 DEF JournalTypeOK, ApproveIntent, IntentStatus
<1>2. SingleWriter'
  BY DEF JournalTypeOK, Operation, SingleWriter, ApproveIntent, IntentStatus, OperationStatus, ActiveOwner, NoOperation, NoAttempt, Attempt, Effect, Attribution, Owns, Begun, Present, Done
<1>3. DecisionsAgree'
  BY SMT DEF JournalTypeOK, Operation, DecisionsAgree, StepsInOrder, ApproveIntent, IntentStatus, OperationStatus, ActiveOwner, NoOperation, NoAttempt, Attempt, Effect, Attribution, Owns, Begun, Present, Done
<1>4. StepsInOrder'
  BY SMT DEF JournalTypeOK, Operation, StepsInOrder, ApproveIntent, IntentStatus, OperationStatus, ActiveOwner, NoOperation, NoAttempt, Attempt, Effect, Attribution, Owns, Begun, Present, Done
<1>5. BackupFollowsJournal'
  <2>1. operations[i].status = "NONE" /\ backups[i] = "NONE"
    BY DEF ApproveIntent, DecisionsAgree, BackupFollowsJournal, StepsInOrder, Present
  <2>. QED  BY <2>1 DEF JournalTypeOK, BackupFollowsJournal, ApproveIntent
<1>. QED  BY <1>1, <1>2, <1>3, <1>4, <1>5

\* RejectIntent decides an intent without an operation.
LEMMA RejectInv ==
    ASSUME JournalInv, NEW i \in Intents, RejectIntent(i)
    PROVE  JournalInv'
<1>. USE StepBounds DEF JournalInv
<1>1. JournalTypeOK'
  BY SMTT(30) DEF JournalTypeOK, Operation, RejectIntent, IntentStatus, Owns, Begun, Present
<1>2. SingleWriter'
  BY DEF JournalTypeOK, Operation, SingleWriter, RejectIntent, IntentStatus, Owns, Begun, Present
<1>3. DecisionsAgree'
  BY SMT DEF JournalTypeOK, Operation, DecisionsAgree, StepsInOrder, RejectIntent, IntentStatus, Owns, Begun, Present
<1>4. StepsInOrder'
  BY ZenonT(40) DEF JournalTypeOK, Operation, StepsInOrder, RejectIntent, IntentStatus, Owns, Begun, Present
<1>5. BackupFollowsJournal'
  BY DEF JournalTypeOK, Operation, BackupFollowsJournal, StepsInOrder, RejectIntent, IntentStatus, Owns, Begun, Present
<1>. QED  BY <1>1, <1>2, <1>3, <1>4, <1>5

\* RevokeIntent releases the target only before any step exists.
LEMMA RevokeInv ==
    ASSUME JournalInv, NEW i \in Intents, RevokeIntent(i)
    PROVE  JournalInv'
<1>. USE StepBounds DEF JournalInv
<1>1. JournalTypeOK'
  <2>1. operations'[i] \in Operation
    BY DEF JournalTypeOK, Operation, RevokeIntent, OperationStatus
  <2>. QED  BY <2>1 DEF JournalTypeOK, RevokeIntent, IntentStatus
<1>2. SingleWriter'
  BY SMT DEF JournalTypeOK, Operation, SingleWriter, RevokeIntent, Abortable, IntentStatus, OperationStatus, Owns, Begun, Present, Done
<1>3. DecisionsAgree'
  BY SMT DEF JournalTypeOK, Operation, DecisionsAgree, StepsInOrder, RevokeIntent, Abortable, IntentStatus, OperationStatus, Owns, Begun, Present, Done
<1>4. StepsInOrder'
  BY SMT DEF JournalTypeOK, Operation, StepsInOrder, RevokeIntent, Abortable, IntentStatus, OperationStatus, Owns, Begun, Present, Done
<1>5. BackupFollowsJournal'
  BY DEF JournalTypeOK, Operation, BackupFollowsJournal, StepsInOrder, RevokeIntent, Abortable, IntentStatus, OperationStatus, Owns, Begun, Present, Done
<1>. QED  BY <1>1, <1>2, <1>3, <1>4, <1>5

\* PrepareStep adds the next step.
LEMMA PrepareInv ==
    ASSUME JournalInv, NEW i \in Intents, NEW n \in Step, PrepareStep(i, n)
    PROVE  JournalInv'
<1>. USE StepBounds DEF JournalInv
<1>. DEFINE a == [NoAttempt EXCEPT !.dispatch = "NOT_DISPATCHED"]
<1>a. /\ operations[i] \in Operation
      /\ operations[i].status # "NONE"
      /\ ~operations[i].released
      /\ \A m \in Step : m < n => Done(operations[i].attempts[m])
      /\ \A m \in Step : m >= n => ~Present(operations[i].attempts[m])
      /\ UNCHANGED <<now, intents, approvals, backups>>
  BY DEF PrepareStep, CanPrepare, JournalTypeOK
<1>b. a \in Attempt /\ Present(a)
  BY DEF NoAttempt, Attempt, Effect, Attribution, Present
<1>c. PICK t \in Nat :
        operations' = [operations EXCEPT ![i].attempts[n] = a, ![i].started = t]
  BY <1>a DEF PrepareStep, JournalTypeOK, Operation
<1>d. operations'[i] = [operations[i] EXCEPT !.attempts[n] = a, !.started = t]
  BY <1>c DEF JournalTypeOK
<1>e. /\ operations'[i].status = operations[i].status
      /\ operations'[i].released = operations[i].released
      /\ operations'[i].attempts = [operations[i].attempts EXCEPT ![n] = a]
      /\ operations'[i] \in Operation
      /\ \A j \in Intents : j # i => operations'[j] = operations[j]
  BY <1>a, <1>b, <1>c, <1>d DEF Operation, JournalTypeOK
<1>. HIDE DEF a
<1>1. JournalTypeOK'
  BY <1>a, <1>c, <1>e DEF JournalTypeOK
<1>2. SingleWriter'
  BY <1>e DEF SingleWriter, Owns
<1>3. DecisionsAgree'
  BY <1>a, <1>e, ZenonT(40) DEF DecisionsAgree, Begun
<1>4. StepsInOrder'
  <2>. SUFFICES ASSUME NEW j \in Intents, NEW k \in Step,
                       Present(operations'[j].attempts[k])
                PROVE  /\ operations'[j].status # "NONE"
                       /\ \A m \in Step : m < k => operations'[j].attempts[m].dispatch
                                                 \in {"DISPATCH_POSSIBLE", "ACKNOWLEDGED"}
    BY DEF StepsInOrder, Present
  <2>1. CASE j # i
    BY <2>1, <1>e DEF StepsInOrder
  <2>2. CASE j = i
    <3>1. k <= n
      BY SMT, <2>2, <1>a, <1>e DEF Operation, Step
    <3>2. \A m \in Step : m < k => operations'[j].attempts[m] = operations[j].attempts[m]
      BY SMT, <2>2, <3>1, <1>a, <1>e DEF Operation, Step
    <3>. QED  BY SMT, <2>2, <3>1, <3>2, <1>a, <1>e DEF Done, Step
  <2>. QED  BY <2>1, <2>2
<1>5. BackupFollowsJournal'
  <2>1. backups[i] = "NONE"
    <3>1. ~Present(operations[i].attempts[BackupStep])
      BY SMT, <1>a DEF Step, BackupStep
    <3>. QED  BY <3>1 DEF BackupFollowsJournal, Present
  <2>. QED  BY <2>1, <1>a, <1>e DEF BackupFollowsJournal
<1>. QED  BY <1>1, <1>2, <1>3, <1>4, <1>5

\* MarkDispatchPossible only moves a prepared step on.
LEMMA MarkInv ==
    ASSUME JournalInv, NEW i \in Intents, NEW n \in Step, MarkDispatchPossible(i, n)
    PROVE  JournalInv'
<1>. USE StepBounds DEF JournalInv
<1>1. JournalTypeOK'
  <2>1. operations'[i] \in Operation
    BY DEF JournalTypeOK, Operation, MarkDispatchPossible, Attempt, Effect, Attribution
  <2>. QED  BY <2>1 DEF JournalTypeOK, MarkDispatchPossible
<1>2. SingleWriter'
  BY DEF JournalTypeOK, Operation, SingleWriter, MarkDispatchPossible, CanMark, Prepared, Approved, Attempt, Effect, Attribution, Owns, Begun, Present, IsTerminalOperation
<1>3. DecisionsAgree'
  BY SMT DEF JournalTypeOK, Operation, DecisionsAgree, StepsInOrder, MarkDispatchPossible, CanMark, Prepared, Approved, Attempt, Effect, Attribution, Owns, Begun, Present, IsTerminalOperation
<1>4. StepsInOrder'
  BY SMT DEF JournalTypeOK, Operation, StepsInOrder, MarkDispatchPossible, CanMark, Prepared, Approved, Attempt, Effect, Attribution, Owns, Begun, Present, IsTerminalOperation
<1>5. BackupFollowsJournal'
  BY ZenonT(40) DEF JournalTypeOK, Operation, BackupFollowsJournal, StepsInOrder, MarkDispatchPossible, CanMark, Prepared, Approved, Attempt, Effect, Attribution, Owns, Begun, Present, IsTerminalOperation
<1>. QED  BY <1>1, <1>2, <1>3, <1>4, <1>5

\* RecordStepObservation keeps a dispatched step dispatched.
LEMMA RecordInv ==
    ASSUME JournalInv, NEW i \in Intents, NEW n \in Step, NEW o \in Observation, RecordStepObservation(i, n, o.effect, o.attribution)
    PROVE  JournalInv'
<1>1. PICK a \in Attempt, st \in OperationStatus :
        /\ operations' = [operations EXCEPT ![i].status = st, ![i].attempts[n] = a]
        /\ a.dispatch \in {"DISPATCH_POSSIBLE", "ACKNOWLEDGED"}
        /\ operations[i].attempts[n].dispatch = "ACKNOWLEDGED" => a.dispatch = "ACKNOWLEDGED"
        /\ st # "ABORTED"
  <2>. DEFINE a == [dispatch    |-> IF o.attribution = "CORRELATED" THEN "ACKNOWLEDGED"
                                   ELSE operations[i].attempts[n].dispatch,
                    effect      |-> o.effect,
                    attribution |-> o.attribution]
              st == StatusAfter(operations[i].status, o.effect)
  <2>1. /\ operations' = [operations EXCEPT ![i].status = st, ![i].attempts[n] = a]
        /\ operations[i] \in Operation
        /\ operations[i].attempts[n].dispatch \in {"DISPATCH_POSSIBLE", "ACKNOWLEDGED"}
    BY DEF RecordStepObservation, CanRecord, JournalInv, JournalTypeOK
  <2>2. operations[i].status \notin {"NONE", "ABORTED"}
    BY <2>1 DEF JournalInv, StepsInOrder, DecisionsAgree, Begun, Present
  <2>3. a \in Attempt /\ a.dispatch \in {"DISPATCH_POSSIBLE", "ACKNOWLEDGED"}
    BY SMT, <2>1 DEF Observation, Attempt, Effect, Attribution
  <2>4. st \in OperationStatus /\ st # "ABORTED"
    BY <2>1, <2>2 DEF StatusAfter, Operation, OperationStatus
  <2>. QED  BY <2>1, <2>3, <2>4
<1>2. /\ operations' \in [Intents -> Operation]
      /\ operations'[i].status = st /\ operations'[i].released = operations[i].released
      /\ \A m \in Step : operations'[i].attempts[m] = IF m = n THEN a ELSE operations[i].attempts[m]
      /\ \A j \in Intents : j # i => operations'[j] = operations[j]
  <2>1. operations[i] \in Operation /\ operations \in [Intents -> Operation]
    BY DEF JournalInv, JournalTypeOK
  <2>2. operations'[i] = [operations[i] EXCEPT !.status = st, !.attempts[n] = a]
    BY <1>1, <2>1
  <2>3. /\ operations'[i].status = st
        /\ operations'[i].released = operations[i].released
        /\ operations'[i].attempts = [operations[i].attempts EXCEPT ![n] = a]
    BY <2>1, <2>2 DEF Operation
  <2>4. operations'[i] \in Operation
    <3>1. operations'[i] = [status   |-> st,
                            released |-> operations[i].released,
                            started  |-> operations[i].started,
                            attempts |-> [operations[i].attempts EXCEPT ![n] = a]]
      BY <2>1, <2>2 DEF Operation
    <3>2. [operations[i].attempts EXCEPT ![n] = a] \in [Step -> Attempt]
      BY <2>1 DEF Operation
    <3>. QED  BY SMT, <2>1, <3>1, <3>2 DEF Operation
  <2>5. \A m \in Step : operations'[i].attempts[m] = IF m = n THEN a ELSE operations[i].attempts[m]
    BY <2>1, <2>3 DEF Operation
  <2>. QED  BY <1>1, <2>1, <2>3, <2>4, <2>5
<1>3. /\ operations[i].status # "NONE" /\ ~operations[i].released
      /\ operations[i].attempts[n].dispatch \in {"DISPATCH_POSSIBLE", "ACKNOWLEDGED"}
      /\ st # "NONE"
      /\ UNCHANGED <<now, intents, approvals, backups>>
  BY <1>1 DEF JournalInv, StepsInOrder, DecisionsAgree, Begun, Present, OperationStatus,
              RecordStepObservation, CanRecord
<1>4. JournalTypeOK'
  BY <1>2, <1>3 DEF JournalInv, JournalTypeOK
<1>5. SingleWriter'
  BY <1>2, <1>3 DEF JournalInv, SingleWriter, Owns
<1>6. DecisionsAgree'
  BY <1>1, <1>2, <1>3, ZenonT(40) DEF JournalInv, DecisionsAgree, Begun
<1>7. StepsInOrder'
  BY SMT, <1>1, <1>2, <1>3 DEF JournalInv, StepsInOrder, Present
<1>8. BackupFollowsJournal'
  BY SMT, <1>1, <1>2, <1>3, StepBounds DEF JournalInv, BackupFollowsJournal
<1>. QED  BY <1>4, <1>5, <1>6, <1>7, <1>8 DEF JournalInv

\* MarkUnknown keeps ownership.
LEMMA MarkUnknownInv ==
    ASSUME JournalInv, NEW i \in Intents, MarkUnknown(i)
    PROVE  JournalInv'
<1>. USE StepBounds, TransitionSources DEF JournalInv
<1>1. JournalTypeOK'
  <2>1. operations[i] \in Operation
    BY DEF JournalTypeOK
  <2>2. PICK r \in BOOLEAN :
          operations' = [operations EXCEPT ![i].status = "UNKNOWN", ![i].released = r]
    BY <2>1 DEF MarkUnknown, Operation
  <2>3. [operations[i] EXCEPT !.status = "UNKNOWN", !.released = r] \in Operation
    BY <2>1 DEF Operation, OperationStatus
  <2>. QED  BY <2>2, <2>3, ZenonT(30) DEF JournalTypeOK, MarkUnknown
<1>2. SingleWriter'
  BY SMTT(20) DEF JournalTypeOK, Operation, SingleWriter, MarkUnknown, OperationStatus, Owns, Begun, Present
<1>3. DecisionsAgree'
  BY SMT DEF JournalTypeOK, Operation, DecisionsAgree, StepsInOrder, MarkUnknown, OperationStatus, Owns, Begun, Present
<1>4. StepsInOrder'
  BY SMT DEF JournalTypeOK, Operation, StepsInOrder, MarkUnknown, OperationStatus, Owns, Begun, Present
<1>5. BackupFollowsJournal'
  BY SMT DEF JournalTypeOK, Operation, BackupFollowsJournal, StepsInOrder, MarkUnknown, OperationStatus, Owns, Begun, Present
<1>. QED  BY <1>1, <1>2, <1>3, <1>4, <1>5

\* TransitionOperation starts the work of an operation.
LEMMA TransitionInv ==
    ASSUME JournalInv, NEW i \in Intents, NEW to \in {"PREPARING", "EXECUTING"}, TransitionOperation(i, to)
    PROVE  JournalInv'
<1>. USE StepBounds, TransitionSources DEF JournalInv
<1>1. JournalTypeOK'
  <2>1. operations[i] \in Operation
    BY DEF JournalTypeOK
  <2>2. PICK r \in BOOLEAN :
          operations' = [operations EXCEPT ![i].status = to, ![i].released = r]
    BY <2>1 DEF TransitionOperation, Operation
  <2>3. [operations[i] EXCEPT !.status = to, !.released = r] \in Operation
    BY <2>1 DEF Operation, OperationStatus
  <2>4. operations' \in [Intents -> Operation]
    BY <2>2, <2>3 DEF JournalTypeOK
  <2>. QED  BY <2>4 DEF JournalTypeOK, TransitionOperation
<1>2. SingleWriter'
  BY DEF JournalTypeOK, Operation, SingleWriter, TransitionOperation, OperationStatus, Owns, Begun, Present
<1>3. DecisionsAgree'
  BY SMT DEF JournalTypeOK, Operation, DecisionsAgree, StepsInOrder, TransitionOperation, OperationStatus, Owns, Begun, Present
<1>4. StepsInOrder'
  BY SMT DEF JournalTypeOK, Operation, StepsInOrder, TransitionOperation, OperationStatus, Owns, Begun, Present
<1>5. BackupFollowsJournal'
  BY SMT DEF JournalTypeOK, Operation, BackupFollowsJournal, StepsInOrder, TransitionOperation, OperationStatus, Owns, Begun, Present
<1>. QED  BY <1>1, <1>2, <1>3, <1>4, <1>5

\* ReserveBackup needs the dispatched S05.
LEMMA ReserveInv ==
    ASSUME JournalInv, NEW i \in Intents, ReserveBackup(i)
    PROVE  JournalInv'
<1>. USE StepBounds DEF JournalInv
<1>1. JournalTypeOK'
  BY DEF JournalTypeOK, Operation, ReserveBackup, CanReserve, BackupStatus, Owns, Begun, Present
<1>2. SingleWriter'
  BY DEF JournalTypeOK, Operation, SingleWriter, ReserveBackup, CanReserve, BackupStatus, Owns, Begun, Present
<1>3. DecisionsAgree'
  BY SMT DEF JournalTypeOK, Operation, DecisionsAgree, StepsInOrder, ReserveBackup, CanReserve, BackupStatus, Owns, Begun, Present
<1>4. StepsInOrder'
  BY DEF JournalTypeOK, Operation, StepsInOrder, ReserveBackup, CanReserve, BackupStatus, Owns, Begun, Present
<1>5. BackupFollowsJournal'
  BY DEF JournalTypeOK, Operation, BackupFollowsJournal, StepsInOrder, ReserveBackup, CanReserve, BackupStatus, Owns, Begun, Present
<1>. QED  BY <1>1, <1>2, <1>3, <1>4, <1>5

\* TransitionBackupStatus never produces VALID.
LEMMA BackupStatusInv ==
    ASSUME JournalInv, NEW i \in Intents, NEW to \in {"WRITING", "FINALIZING", "VERIFYING", "ORPHANED"}, TransitionBackupStatus(i, to)
    PROVE  JournalInv'
<1>. USE StepBounds DEF JournalInv
<1>1. JournalTypeOK'
  BY DEF JournalTypeOK, Operation, TransitionBackupStatus, CanTransitionBackup, BackupStatus, Owns, Begun, Present
<1>2. SingleWriter'
  BY DEF JournalTypeOK, Operation, SingleWriter, TransitionBackupStatus, CanTransitionBackup, BackupStatus, Owns, Begun, Present
<1>3. DecisionsAgree'
  BY SMT DEF JournalTypeOK, Operation, DecisionsAgree, StepsInOrder, TransitionBackupStatus, CanTransitionBackup, BackupStatus, Owns, Begun, Present
<1>4. StepsInOrder'
  BY DEF JournalTypeOK, Operation, StepsInOrder, TransitionBackupStatus, CanTransitionBackup, BackupStatus, Owns, Begun, Present
<1>5. BackupFollowsJournal'
  BY DEF JournalTypeOK, Operation, BackupFollowsJournal, StepsInOrder, TransitionBackupStatus, CanTransitionBackup, BackupStatus, Owns, Begun, Present
<1>. QED  BY <1>1, <1>2, <1>3, <1>4, <1>5

\* CompleteBackup acknowledges S05 with the record.
LEMMA CompleteInv ==
    ASSUME JournalInv, NEW i \in Intents, CompleteBackup(i)
    PROVE  JournalInv'
<1>. USE StepBounds DEF JournalInv
<1>1. JournalTypeOK'
  <2>1. operations'[i] \in Operation
    BY DEF JournalTypeOK, Operation, CompleteBackup, Attempt, Effect, Attribution
  <2>. QED  BY <2>1 DEF JournalTypeOK, CompleteBackup, BackupStatus
<1>2. SingleWriter'
  BY SMT DEF JournalTypeOK, Operation, SingleWriter, CompleteBackup, CanComplete, BackupStatus, Attempt, Effect, Attribution, Owns, Begun, Present
<1>3. DecisionsAgree'
  BY SMT DEF JournalTypeOK, Operation, DecisionsAgree, StepsInOrder, CompleteBackup, CanComplete, BackupStatus, Attempt, Effect, Attribution, Owns, Begun, Present
<1>4. StepsInOrder'
  BY SMT DEF JournalTypeOK, Operation, StepsInOrder, CompleteBackup, CanComplete, BackupStatus, Attempt, Effect, Attribution, Owns, Begun, Present
<1>5. BackupFollowsJournal'
  BY SMT DEF JournalTypeOK, Operation, BackupFollowsJournal, StepsInOrder, CompleteBackup, CanComplete, BackupStatus, Attempt, Effect, Attribution, Owns, Begun, Present
<1>. QED  BY <1>1, <1>2, <1>3, <1>4, <1>5

\* Every store call and every tick of the clock preserves the invariant.
LEMMA NextInv == JournalInv /\ [JournalNext]_journalVars => JournalInv'
<1>. SUFFICES ASSUME JournalInv, [JournalNext]_journalVars
              PROVE  JournalInv'
  OBVIOUS
<1>1. CASE UNCHANGED journalVars
  BY SMT, <1>1 DEF journalVars, JournalInv, JournalTypeOK, SingleWriter, DecisionsAgree, StepsInOrder,
              BackupFollowsJournal, Owns, Begun, Present
<1>2. CASE Tick
  BY SMT, <1>2 DEF Tick, JournalInv, JournalTypeOK, SingleWriter, DecisionsAgree, StepsInOrder,
              BackupFollowsJournal, Owns, Begun, Present
<1>3. ASSUME NEW i \in Intents,
             PutIntent(i) \/ ApproveIntent(i) \/ RejectIntent(i) \/ RevokeIntent(i)
      PROVE  JournalInv'
  BY <1>3, PutIntentInv, ApproveInv, RejectInv, RevokeInv
<1>4. ASSUME NEW i \in Intents,
             MarkUnknown(i) \/ \E to \in {"PREPARING", "EXECUTING"} : TransitionOperation(i, to)
      PROVE  JournalInv'
  BY <1>4, MarkUnknownInv, TransitionInv
<1>5. ASSUME NEW i \in Intents, NEW n \in Step,
             \/ PrepareStep(i, n)
             \/ MarkDispatchPossible(i, n)
             \/ \E o \in Observation : RecordStepObservation(i, n, o.effect, o.attribution)
      PROVE  JournalInv'
  BY <1>5, PrepareInv, MarkInv, RecordInv
<1>6. ASSUME NEW i \in Intents,
             \/ ReserveBackup(i)
             \/ \E to \in {"WRITING", "FINALIZING", "VERIFYING", "ORPHANED"} :
                  TransitionBackupStatus(i, to)
             \/ CompleteBackup(i)
      PROVE  JournalInv'
  BY <1>6, ReserveInv, BackupStatusInv, CompleteInv
<1>. QED  BY <1>1, <1>2, <1>3, <1>4, <1>5, <1>6 DEF JournalNext

\* The tables of the store always have their types and the invariant holds throughout.
THEOREM JournalInvariant == JournalSpec => []JournalInv
<1>1. JournalInit => JournalInv
  BY InitInv
<1>2. JournalInv /\ [JournalNext]_journalVars => JournalInv'
  BY NextInv
<1>. QED  BY <1>1, <1>2, PTL DEF JournalSpec

\* INV-07 for every number of intents: an enrolled target never has two unreleased operations.
THEOREM StoreSingleWriter == JournalSpec => []SingleWriter
<1>1. JournalInv => SingleWriter
  BY DEF JournalInv
<1>. QED  BY <1>1, JournalInvariant, PTL

\* Intents, approvals and operations agree in every reachable state.
THEOREM StoreDecisionsAgree == JournalSpec => []DecisionsAgree
<1>1. JournalInv => DecisionsAgree
  BY DEF JournalInv
<1>. QED  BY <1>1, JournalInvariant, PTL

\* The journal's rows keep their types; in particular a status is one of the state machine.
THEOREM StoreTypes == JournalSpec => []JournalTypeOK
<1>1. JournalInv => JournalTypeOK
  BY DEF JournalInv
<1>. QED  BY <1>1, JournalInvariant, PTL

\* Steps are journaled in order.
THEOREM StoreStepsInOrder == JournalSpec => []StepsInOrder
<1>1. JournalInv => StepsInOrder
  BY DEF JournalInv
<1>. QED  BY <1>1, JournalInvariant, PTL

\* No backup record is ahead of the journal.
THEOREM StoreBackupFollowsJournal == JournalSpec => []BackupFollowsJournal
<1>1. JournalInv => BackupFollowsJournal
  BY DEF JournalInv
<1>. QED  BY <1>1, JournalInvariant, PTL

-----------------------------------------------------------------------------
(* Action properties.                                                      *)

\* Calls on other operations leave an operation alone; the calls on a blocked operation that
\* are not refused only record observations.
LEMMA BlockedStepLemma == JournalInv /\ [JournalNext]_journalVars => BlockedStep
<1>. SUFFICES ASSUME JournalInv, [JournalNext]_journalVars, NEW k \in Intents, Blocked(k)
              PROVE  /\ Blocked(k)' /\ Owns(k)'
                     /\ \A n \in Step :
                          \/ operations[k].attempts[n].dispatch = operations'[k].attempts[n].dispatch
                          \/ operations[k].attempts[n].dispatch = "DISPATCH_POSSIBLE"
  BY DEF BlockedStep
<1>. USE DEF JournalInv
<1>1. operations[k].status \in {"UNKNOWN", "NEEDS_INTERVENTION"} /\ ~operations[k].released
  BY DEF Blocked, DecisionsAgree
<1>2. CASE UNCHANGED operations
  BY <1>1, <1>2 DEF Blocked, Owns
<1>3. CASE \E i \in Intents : operations' = [operations EXCEPT ![i] = operations'[i]] /\ i # k
  BY <1>1, <1>3 DEF Blocked, Owns, JournalTypeOK
<1>4. ASSUME NEW n \in Step, NEW o \in Observation,
             RecordStepObservation(k, n, o.effect, o.attribution)
      PROVE  /\ Blocked(k)' /\ Owns(k)'
             /\ \A m \in Step :
                  \/ operations[k].attempts[m].dispatch = operations'[k].attempts[m].dispatch
                  \/ operations[k].attempts[m].dispatch = "DISPATCH_POSSIBLE"
  <2>1. /\ operations'[k].status \in {"UNKNOWN", "NEEDS_INTERVENTION"}
        /\ ~operations'[k].released
    BY <1>1, <1>4 DEF RecordStepObservation, StatusAfter, JournalTypeOK, Operation
  <2>2. \A m \in Step :
          m # n => operations[k].attempts[m].dispatch = operations'[k].attempts[m].dispatch
    BY <1>4 DEF RecordStepObservation, JournalTypeOK, Operation
  <2>3. \/ operations[k].attempts[n].dispatch = operations'[k].attempts[n].dispatch
        \/ operations[k].attempts[n].dispatch = "DISPATCH_POSSIBLE"
    BY <1>4 DEF RecordStepObservation, CanRecord, JournalTypeOK, Operation
  <2>. QED  BY <2>1, <2>2, <2>3 DEF Blocked, Owns
<1>5. ASSUME NEW i \in Intents,
             ApproveIntent(i) \/ RevokeIntent(i) \/ MarkUnknown(i) \/ CompleteBackup(i)
               \/ \E to \in {"PREPARING", "EXECUTING"} : TransitionOperation(i, to)
      PROVE  UNCHANGED operations \/ (operations' = [operations EXCEPT ![i] = operations'[i]] /\ i # k)
  <2>1. i # k \/ UNCHANGED operations
    BY <1>1, <1>5, TransitionSources
       DEF ApproveIntent, RevokeIntent, Abortable, MarkUnknown, CompleteBackup, CanComplete,
           StopIsDurable, TransitionOperation, DecisionsAgree
  <2>2. UNCHANGED operations \/ operations' = [operations EXCEPT ![i] = operations'[i]]
    BY <1>5
       DEF ApproveIntent, RevokeIntent, MarkUnknown, CompleteBackup, TransitionOperation,
           JournalTypeOK
  <2>. QED  BY <2>1, <2>2
<1>6. ASSUME NEW i \in Intents, NEW n \in Step, PrepareStep(i, n) \/ MarkDispatchPossible(i, n)
      PROVE  operations' = [operations EXCEPT ![i] = operations'[i]] /\ i # k
  <2>1. i # k
    BY <1>1, <1>6 DEF PrepareStep, CanPrepare, MarkDispatchPossible, CanMark, Blocked,
                      IsTerminalOperation
  <2>2. operations' = [operations EXCEPT ![i] = operations'[i]]
    BY <1>6 DEF PrepareStep, MarkDispatchPossible, JournalTypeOK
  <2>. QED  BY <2>1, <2>2
<1>7. ASSUME NEW i \in Intents, NEW n \in Step, NEW o \in Observation,
             RecordStepObservation(i, n, o.effect, o.attribution), i # k
      PROVE  operations' = [operations EXCEPT ![i] = operations'[i]]
  BY <1>7 DEF RecordStepObservation, JournalTypeOK
<1>8. CASE Tick
  BY <1>2, <1>8 DEF Tick
<1>9. ASSUME NEW i \in Intents,
             PutIntent(i) \/ RejectIntent(i) \/ ReserveBackup(i)
               \/ \E to \in {"WRITING", "FINALIZING", "VERIFYING", "ORPHANED"} :
                    TransitionBackupStatus(i, to)
      PROVE  UNCHANGED operations
  BY <1>9 DEF PutIntent, RejectIntent, ReserveBackup, TransitionBackupStatus
<1>10. CASE UNCHANGED journalVars
  BY <1>2, <1>10 DEF journalVars
<1>. QED
  BY SMT, <1>2, <1>3, <1>4, <1>5, <1>6, <1>7, <1>8, <1>9, <1>10 DEF JournalNext

\* INV-08 for every number of intents and steps.
THEOREM StoreBlockedStaysBlocked == JournalSpec => BlockedStaysBlocked
<1>1. JournalInv /\ [JournalNext]_journalVars => [BlockedStep]_journalVars
  BY BlockedStepLemma
<1>. QED  BY <1>1, JournalInvariant, PTL DEF JournalSpec, BlockedStaysBlocked

\* No store call takes a dispatched step back or revives a finished backup.
LEMMA MonotoneStepLemma == JournalInv /\ [JournalNext]_journalVars => MonotoneStep
<1>. SUFFICES ASSUME JournalInv, [JournalNext]_journalVars, NEW k \in Intents
              PROVE  /\ \A m \in Step :
                          operations[k].attempts[m].dispatch \in Dispatch
                            => operations'[k].attempts[m].dispatch \in Dispatch
                     /\ backups[k] \in {"VALID", "FAILED", "UNKNOWN", "ORPHANED"}
                          => backups'[k] = backups[k]
  BY DEF MonotoneStep
<1>. USE DEF JournalInv
<1>1. \A m \in Step : operations[k].attempts[m].dispatch \in Dispatch
                        => operations'[k].attempts[m].dispatch \in Dispatch
  <2>. SUFFICES ASSUME NEW m \in Step, operations[k].attempts[m].dispatch \in Dispatch
                PROVE  operations'[k].attempts[m].dispatch \in Dispatch
    OBVIOUS
  <2>1. operations[k].status # "NONE" /\ Begun(k)
    BY DEF Dispatch, StepsInOrder, Present, Begun
  <2>2. ASSUME NEW i \in Intents,
               ApproveIntent(i) \/ RevokeIntent(i) \/ MarkUnknown(i)
                 \/ \E to \in {"PREPARING", "EXECUTING"} : TransitionOperation(i, to)
        PROVE  operations'[k].attempts = operations[k].attempts
    BY SMT, <2>1, <2>2 DEF ApproveIntent, RevokeIntent, Abortable, MarkUnknown, TransitionOperation,
                      JournalTypeOK, Operation, DecisionsAgree
  <2>3. ASSUME NEW i \in Intents, NEW n \in Step, PrepareStep(i, n) \/ MarkDispatchPossible(i, n)
        PROVE  operations'[k].attempts[m].dispatch \in Dispatch
    <3>1. i # k \/ n # m
      BY SMT, <2>3 DEF PrepareStep, CanPrepare, Present, MarkDispatchPossible, CanMark, Prepared,
                  Dispatch, Step
    <3>2. operations'[k].attempts[m] = operations[k].attempts[m]
      BY SMT, <3>1, <2>3 DEF PrepareStep, MarkDispatchPossible, JournalTypeOK, Operation
    <3>. QED  BY <3>2
  <2>4. ASSUME NEW i \in Intents, NEW n \in Step, NEW o \in Observation,
               RecordStepObservation(i, n, o.effect, o.attribution)
        PROVE  operations'[k].attempts[m].dispatch \in Dispatch
    BY <2>4 DEF RecordStepObservation, CanRecord, JournalTypeOK, Operation, Dispatch
  <2>5. ASSUME NEW i \in Intents, CompleteBackup(i)
        PROVE  operations'[k].attempts[m].dispatch \in Dispatch
    BY <2>5, StepBounds DEF CompleteBackup, JournalTypeOK, Operation, Dispatch
  <2>6. CASE UNCHANGED operations
    BY <2>6
  <2>. QED
    BY <2>2, <2>3, <2>4, <2>5, <2>6
       DEF JournalNext, journalVars, Tick, PutIntent, RejectIntent, ReserveBackup,
           TransitionBackupStatus
<1>2. backups[k] \in {"VALID", "FAILED", "UNKNOWN", "ORPHANED"} => backups'[k] = backups[k]
  <2>1. ASSUME NEW i \in Intents,
               ReserveBackup(i) \/ CompleteBackup(i)
                 \/ \E to \in {"WRITING", "FINALIZING", "VERIFYING", "ORPHANED"} :
                      TransitionBackupStatus(i, to)
        PROVE  backups[k] \in {"VALID", "FAILED", "UNKNOWN", "ORPHANED"} => backups'[k] = backups[k]
    <3>1. /\ backups[i] \notin {"VALID", "FAILED", "UNKNOWN", "ORPHANED"}
          /\ \E b \in BackupStatus : backups' = [backups EXCEPT ![i] = b]
      BY <2>1 DEF ReserveBackup, CanReserve, CompleteBackup, CanComplete,
                  TransitionBackupStatus, CanTransitionBackup, BackupStatus
    <3>. QED
      BY <3>1 DEF JournalTypeOK
  <2>. QED
    BY <2>1, ZenonT(30) DEF JournalNext, journalVars, Tick, PutIntent, ApproveIntent, RejectIntent,
                RevokeIntent, MarkUnknown, TransitionOperation, PrepareStep,
                MarkDispatchPossible, RecordStepObservation
<1>. QED  BY <1>1, <1>2

\* Dispatched steps and finished backups are never reopened, for every number of intents.
THEOREM StoreNothingIsRepeated == JournalSpec => NothingIsRepeated
<1>1. JournalInv /\ [JournalNext]_journalVars => [MonotoneStep]_journalVars
  BY MonotoneStepLemma
<1>. QED  BY <1>1, JournalInvariant, PTL DEF JournalSpec, NothingIsRepeated

-----------------------------------------------------------------------------
(* Refinement of the abstract writer lock.                                 *)

\* A call that changes one unreleased operation and leaves it begun is a Begin of the lock.
LEMMA BeginStep ==
    ASSUME JournalInv, NEW i \in Intents,
           \A j \in Intents : j # i => operations'[j] = operations[j],
           Owns(i), Owns(i)', Begun(i)'
    PROVE  Lock!Begin(i)
<1>1. \A j \in Intents : /\ Owns(j)' <=> Owns(j)
                         /\ operations'[j].status # "NONE" <=> operations[j].status # "NONE"
                         /\ Begun(j)' <=> Begun(j) \/ j = i
  BY DEF Owns, Begun
<1>2. i \in {j \in Intents : EnrollmentOf[j] = EnrollmentOf[i] /\ Owns(j)}
  OBVIOUS
<1>3. EnrollmentOf[i] \in Enrollments
  BY JournalAssumption
<1>4. \A e \in Enrollments : {j \in Intents : EnrollmentOf[j] = e /\ Owns(j)'}
                               = {j \in Intents : EnrollmentOf[j] = e /\ Owns(j)}
  BY <1>1
<1>5. {j \in Intents : Begun(j)'} = {j \in Intents : Begun(j)} \cup {i}
  BY <1>1
<1>6. {j \in Intents : operations'[j].status # "NONE"}
        = {j \in Intents : operations[j].status # "NONE"}
  BY <1>1
<1>. QED  BY <1>2, <1>3, <1>4, <1>5, <1>6 DEF Lock!Begin

\* An approval is an Acquire of the lock: the enrollment had no owner before.
LEMMA AcquireStep ==
    ASSUME JournalInv, NEW i \in Intents, ApproveIntent(i)
    PROVE  Lock!Acquire(i)
<1>. USE DEF JournalInv
<1>1. /\ operations[i].status = "NONE"
      /\ \A n \in Step : ~Present(operations[i].attempts[n])
  BY DEF ApproveIntent, DecisionsAgree, StepsInOrder
<1>2. /\ operations'[i].status = "QUEUED"
      /\ ~operations'[i].released
      /\ \A n \in Step : ~Present(operations'[i].attempts[n])
      /\ \A j \in Intents : j # i => operations'[j] = operations[j]
  BY StepBounds DEF ApproveIntent, NoOperation, NoAttempt, Present, JournalTypeOK
<1>3. \A j \in Intents : /\ Owns(j)' <=> Owns(j) \/ j = i
                         /\ operations'[j].status # "NONE" <=>
                              operations[j].status # "NONE" \/ j = i
                         /\ Begun(j)' <=> Begun(j)
  BY <1>1, <1>2 DEF Owns, Begun, Present
<1>4. \A j \in Intents : EnrollmentOf[j] = EnrollmentOf[i] => ~Owns(j)
  BY DEF ApproveIntent, ActiveOwner
<1>5. EnrollmentOf[i] \in Enrollments
  BY JournalAssumption
<1>6. /\ {j \in Intents : EnrollmentOf[j] = EnrollmentOf[i] /\ Owns(j)} = {}
      /\ {j \in Intents : EnrollmentOf[j] = EnrollmentOf[i] /\ Owns(j)'} = {i}
  BY <1>3, <1>4
<1>7. \A e \in Enrollments :
        e # EnrollmentOf[i] => {j \in Intents : EnrollmentOf[j] = e /\ Owns(j)'}
                                 = {j \in Intents : EnrollmentOf[j] = e /\ Owns(j)}
  BY <1>3
<1>8. /\ {j \in Intents : Begun(j)'} = {j \in Intents : Begun(j)}
      /\ {j \in Intents : operations'[j].status # "NONE"}
           = {j \in Intents : operations[j].status # "NONE"} \cup {i}
  BY <1>3
<1>. QED  BY <1>1, <1>5, <1>6, <1>7, <1>8, ZenonT(30) DEF Lock!Acquire

\* A revocation that aborts the operation is a Release of the lock: nothing had begun.
LEMMA ReleaseStep ==
    ASSUME JournalInv, NEW i \in Intents, RevokeIntent(i), Abortable(i)
    PROVE  Lock!Release(i)
<1>. USE DEF JournalInv
<1>1. Owns(i) /\ ~Begun(i) /\ operations[i].status = "QUEUED"
  BY DEF Abortable, Owns, DecisionsAgree
<1>2. /\ operations'[i].status = "ABORTED"
      /\ operations'[i].released
      /\ operations'[i].attempts = operations[i].attempts
      /\ \A j \in Intents : j # i => operations'[j] = operations[j]
  BY DEF RevokeIntent, JournalTypeOK, Operation
<1>3. \A j \in Intents : /\ Owns(j)' <=> Owns(j) /\ j # i
                         /\ operations'[j].status # "NONE" <=> operations[j].status # "NONE"
                         /\ Begun(j)' <=> Begun(j)
  BY <1>1, <1>2 DEF Owns, Begun
<1>4. EnrollmentOf[i] \in Enrollments
  BY JournalAssumption
<1>5. {j \in Intents : EnrollmentOf[j] = EnrollmentOf[i] /\ Owns(j)'} = {}
  BY <1>1, <1>3 DEF SingleWriter
<1>6. \A e \in Enrollments :
        e # EnrollmentOf[i] => {j \in Intents : EnrollmentOf[j] = e /\ Owns(j)'}
                                 = {j \in Intents : EnrollmentOf[j] = e /\ Owns(j)}
  BY <1>3
<1>7. /\ {j \in Intents : Begun(j)'} = {j \in Intents : Begun(j)}
      /\ {j \in Intents : operations'[j].status # "NONE"}
           = {j \in Intents : operations[j].status # "NONE"}
  BY <1>3
<1>. QED  BY <1>1, <1>4, <1>5, <1>6, <1>7, ZenonT(30) DEF Lock!Release

\* A step that leaves the operations alone leaves the lock alone.
LEMMA LockStutter ==
    ASSUME UNCHANGED operations
    PROVE  UNCHANGED Lock!vars
BY DEF Lock!vars, Owns, Begun, Present

\* Every store call is a step of the lock or does not touch it.
LEMMA LockSimulation ==
    JournalInv /\ [JournalNext]_journalVars => [Lock!Next]_(Lock!vars)
<1>. SUFFICES ASSUME JournalInv, [JournalNext]_journalVars
              PROVE  Lock!Next \/ UNCHANGED Lock!vars
  OBVIOUS
<1>. USE DEF JournalInv
<1>1. CASE UNCHANGED operations
  BY <1>1, LockStutter
<1>2. ASSUME NEW i \in Intents, ApproveIntent(i)
      PROVE  Lock!Next
  BY <1>2, AcquireStep DEF Lock!Next
<1>3. ASSUME NEW i \in Intents, RevokeIntent(i)
      PROVE  Lock!Next \/ UNCHANGED operations
  BY <1>3, ReleaseStep DEF RevokeIntent, Lock!Next
<1>4. ASSUME NEW i \in Intents,
             MarkUnknown(i) \/ \E to \in {"PREPARING", "EXECUTING"} : TransitionOperation(i, to)
      PROVE  Lock!Next
  <2>1. operations[i].status \notin {"NONE", "ABORTED"} /\ ~operations[i].released
    BY <1>4, TransitionSources DEF MarkUnknown, TransitionOperation, DecisionsAgree
  <2>2. /\ operations'[i].status \in {"UNKNOWN", "PREPARING", "EXECUTING"}
        /\ ~operations'[i].released
        /\ \A j \in Intents : j # i => operations'[j] = operations[j]
    BY SMT, <1>4, <2>1 DEF MarkUnknown, TransitionOperation, JournalTypeOK, Operation
  <2>3. Owns(i) /\ Owns(i)' /\ Begun(i)'
    BY <2>1, <2>2 DEF Owns, Begun
  <2>. QED  BY <2>2, <2>3, BeginStep DEF Lock!Next
<1>5. ASSUME NEW i \in Intents, NEW n \in Step, PrepareStep(i, n) \/ MarkDispatchPossible(i, n)
      PROVE  Lock!Next
  <2>1. operations[i].status # "NONE" /\ ~operations[i].released
    BY <1>5 DEF PrepareStep, CanPrepare, MarkDispatchPossible, CanMark
  <2>2. /\ operations'[i].status = operations[i].status
        /\ ~operations'[i].released
        /\ \A j \in Intents : j # i => operations'[j] = operations[j]
    BY SMT, <1>5, <2>1 DEF PrepareStep, MarkDispatchPossible, JournalTypeOK, Operation
  <2>3. Present(operations'[i].attempts[n])
    BY SMT, <1>5 DEF PrepareStep, MarkDispatchPossible, NoAttempt, Present, JournalTypeOK, Operation
  <2>4. Owns(i) /\ Owns(i)' /\ Begun(i)'
    BY <2>1, <2>2, <2>3 DEF Owns, Begun, Present
  <2>. QED  BY <2>2, <2>4, BeginStep DEF Lock!Next
<1>6. ASSUME NEW i \in Intents, NEW n \in Step, NEW o \in Observation,
             RecordStepObservation(i, n, o.effect, o.attribution)
      PROVE  Lock!Next
  <2>1. /\ operations[i].status # "NONE"
        /\ ~operations[i].released
        /\ operations[i].attempts[n].dispatch \in {"DISPATCH_POSSIBLE", "ACKNOWLEDGED"}
    BY <1>6 DEF RecordStepObservation, CanRecord, StepsInOrder, DecisionsAgree, Begun, Present
  <2>2. /\ operations'[i].status # "NONE"
        /\ ~operations'[i].released
        /\ \A j \in Intents : j # i => operations'[j] = operations[j]
    BY <1>6, <2>1, ZenonT(40) DEF RecordStepObservation, StatusAfter, JournalTypeOK, Operation
  <2>3. Present(operations'[i].attempts[n])
    BY <1>6, <2>1 DEF RecordStepObservation, Present, JournalTypeOK, Operation
  <2>4. Owns(i) /\ Owns(i)' /\ Begun(i)'
    BY <2>1, <2>2, <2>3 DEF Owns, Begun, Present
  <2>. QED  BY <2>2, <2>4, BeginStep DEF Lock!Next
<1>7. ASSUME NEW i \in Intents, CompleteBackup(i)
      PROVE  Lock!Next
  <2>1. operations[i].status = "EXECUTING" /\ ~operations[i].released
    BY <1>7 DEF CompleteBackup, CanComplete, StopIsDurable
  <2>2. /\ operations'[i].status = "EXECUTING"
        /\ ~operations'[i].released
        /\ \A j \in Intents : j # i => operations'[j] = operations[j]
    BY <1>7, <2>1 DEF CompleteBackup, JournalTypeOK, Operation
  <2>3. Owns(i) /\ Owns(i)' /\ Begun(i)'
    BY <2>1, <2>2 DEF Owns, Begun
  <2>. QED  BY <2>2, <2>3, BeginStep DEF Lock!Next
<1>8. CASE UNCHANGED journalVars \/ Tick
  BY <1>1, <1>8 DEF Tick, journalVars
<1>9. ASSUME NEW i \in Intents,
             PutIntent(i) \/ RejectIntent(i) \/ ReserveBackup(i)
               \/ \E to \in {"WRITING", "FINALIZING", "VERIFYING", "ORPHANED"} :
                    TransitionBackupStatus(i, to)
      PROVE  UNCHANGED operations
  BY <1>9 DEF PutIntent, RejectIntent, ReserveBackup, TransitionBackupStatus
<1>. QED
  BY <1>1, <1>2, <1>3, <1>4, <1>5, <1>6, <1>7, <1>8, <1>9 DEF JournalNext

\* The store implements the abstract writer lock for all intents, enrollments and steps.
THEOREM StoreImplementsWriterLock == JournalSpec => ImplementsWriterLock
<1>1. JournalInit => Lock!Init
  BY SMT, StepBounds DEF JournalInit, Lock!Init, NoOperation, NoAttempt, Owns, Begun, Present
<1>2. JournalInv /\ [JournalNext]_journalVars => [Lock!Next]_(Lock!vars)
  BY LockSimulation
<1>. QED  BY <1>1, <1>2, JournalInvariant, PTL DEF JournalSpec, ImplementsWriterLock, Lock!Spec
=============================================================================
