-------------------------- MODULE FoundationProofs --------------------------
(***************************************************************************)
(* Proofs about the Foundation coordinator for any number of intents,      *)
(* enrollments, coordinators and container runs: an enrollment has one     *)
(* dispatcher, each effect is issued once and in order, and the status of  *)
(* an operation keeps up with its steps.  The argument: an attempt marked  *)
(* DISPATCH_POSSIBLE has at most one coordinator that works on it, because *)
(* the journal lets only one of them mark it, and one that finds it marked *)
(* only records that its outcome is unknown; so the effects issued can be  *)
(* read off the journal and that coordinator's location.                   *)
(***************************************************************************)
EXTENDS Foundation, JournalProofs

USE Zenon

\* The locations of a holder before its effect is issued, after it, on S00-S04, and after
\* the outcome may have been committed although the holder does not know it.
PreEffect == {"effect", "check", "reserve", "write", "open"}
Issued ==
    {"maintenance", "stopping", "stopped", "record", "other", "unattributed", "markUnknown",
     "read", "finalize", "rename", "verify", "recheck", "complete"}
Simple ==
    {"effect", "maintenance", "stopping", "stopped", "record", "other", "unattributed",
     "markUnknown"}
Doubtful == {"failed", "unknown"}

Dsp(i, n) == operations[i].attempts[n].dispatch

\* What the location of a coordinator says about the attempt it works on.
HolderOK(l, i, n) ==
    /\ l \in Dispatched =>
         /\ Dsp(i, n) \in Dispatch
         /\ \A m \in Step : m > n => Dsp(i, m) = "NONE"
         /\ Dsp(i, n) = "DISPATCH_POSSIBLE" \/ (l \in Doubtful /\ n = BackupStep)
    /\ l \in Creating => n = BackupStep
    /\ l \in Simple => n # BackupStep
    /\ l \in PreEffect => effects[i][n] = 0 /\ late[i] = 0
    /\ l \in Issued /\ n \in EffectStep => effects[i][n] = 1

\* What the journal says about the effects issued for an intent.
LedgerOK(i) ==
    /\ late[i] \in {0, 1}
    /\ intents[i].status # "REVOKED" => late[i] = 0
    /\ \A n \in Step :
         /\ effects[i][n] \in {0, 1}
         /\ Dsp(i, n) # "NONE" => \A m \in Step : m < n => Dsp(i, m) = "ACKNOWLEDGED"
         /\ Dsp(i, n) \notin Dispatch => effects[i][n] = 0
         /\ Dsp(i, n) = "ACKNOWLEDGED" /\ n \in EffectStep => effects[i][n] = 1

\* A dispatched attempt has one holder.
OneHolder ==
    \A c, d \in Coordinators :
        pc[c] \in Dispatched /\ pc[d] \in Dispatched /\ job[c] = job[d] => c = d

\* FoundationTypeOK in the parts different steps change.
WorkTypeOK ==
    /\ pc \in [Coordinators -> Location]
    /\ job \in [Coordinators -> Intents]
    /\ step \in [Coordinators -> Step]
    /\ seen \in [Coordinators -> Operation]
    /\ readFrom \in [Coordinators -> Nat]
WorldTypeOK ==
    /\ PaperTypeOK
    /\ expectedBoot \in [Intents -> Nat]
    /\ archive \in [Intents -> [partial : BOOLEAN, final : BOOLEAN, offline : BOOLEAN]]
    /\ accepted \in SUBSET Intents
TraceTypeOK ==
    /\ effects \in [Intents -> [Step -> 0..2]]
    /\ late \in [Intents -> 0..2]

DispatchInv ==
    /\ JournalInv /\ WorkTypeOK /\ WorldTypeOK /\ TraceTypeOK
    /\ OneHolder
    /\ \A c \in Coordinators : HolderOK(pc[c], job[c], step[c])
    /\ \A i \in Intents : LedgerOK(i)

-----------------------------------------------------------------------------
(* Steps of a coordinator.                                                 *)

\* Coordinator c goes to location l; the others stay where they are.
Moves(c, l) ==
    /\ WorkTypeOK'
    /\ pc'[c] = l
    /\ \A d \in Coordinators :
         d # c => /\ pc'[d] = pc[d]
                  /\ job'[d] = job[d]
                  /\ step'[d] = step[d]
                  /\ readFrom'[d] = readFrom[d]

\* Coordinator c keeps its attempt.
Stays(c) == job'[c] = job[c] /\ step'[c] = step[c]

\* The effect steps are steps of the workflow.
LEMMA EffectSteps ==
    /\ MaintenanceStep \in Step /\ StopStep \in Step /\ BackupStep \in Step
    /\ MaintenanceStep < StopStep /\ StopStep < BackupStep
    /\ EffectStep \subseteq Step
    /\ 0 \in Step
BY SMT, JournalAssumption, FoundationAssumption
   DEF MaintenanceStep, EffectStep, Step, StopStep, BackupStep

\* Goto changes the location only.
LEMMA GotoMoves ==
    ASSUME WorkTypeOK, NEW c \in Coordinators, NEW l \in Location, Goto(c, l)
    PROVE  Moves(c, l) /\ Stays(c) /\ readFrom'[c] = readFrom[c]
BY DEF WorkTypeOK, Goto, Moves, Stays

\* Return makes the coordinator idle.
LEMMA ReturnMoves ==
    ASSUME WorkTypeOK, NEW c \in Coordinators, Return(c)
    PROVE  Moves(c, "idle")
<1>1. NoOperation \in Operation
  BY DEF NoOperation, NoAttempt, Operation, Attempt, Effect, Attribution
<1>2. "idle" \in Location
  BY DEF Location
<1>. QED
  BY <1>1, <1>2, EffectSteps DEF WorkTypeOK, Return, Moves

\* The loop goes on or ends; the counter stays a step.
LEMMA AdvanceMoves ==
    ASSUME WorkTypeOK, NEW c \in Coordinators, Advance(c)
    PROVE  \E l \in {"loop", "inspect"} : Moves(c, l)
<1>1. {"loop", "inspect"} \subseteq Location
  BY DEF Location
<1>2. CASE step[c] = LastStep
  BY <1>1, <1>2, GotoMoves DEF Advance
<1>3. CASE step[c] # LastStep
  <2>1. step[c] \in Step /\ step[c] + 1 \in Step
    BY SMT, <1>3, JournalAssumption DEF WorkTypeOK, Step
  <2>2. Moves(c, "loop")
    BY <1>1, <1>3, <2>1 DEF WorkTypeOK, Advance, Moves
  <2>. QED
    BY <2>2
<1>. QED
  BY <1>2, <1>3

-----------------------------------------------------------------------------
(* What the journal's transactions do to the dispatch of the attempts.     *)

\* All dispatches stay as they are, and a revocation stays.
SameDispatch ==
    /\ \A j \in Intents, m \in Step : Dsp(j, m)' = Dsp(j, m)
    /\ \A j \in Intents : intents[j].status = "REVOKED" => intents'[j].status = "REVOKED"

\* Only the dispatch of attempt n of intent i changes.
DispatchOnly(i, n) ==
    /\ \A j \in Intents, m \in Step : j # i \/ m # n => Dsp(j, m)' = Dsp(j, m)
    /\ UNCHANGED intents

\* PrepareStep: all earlier attempts are acknowledged, no later one exists.
LEMMA PrepareFacts ==
    ASSUME JournalTypeOK, NEW i \in Intents, NEW n \in Step, PrepareStep(i, n)
    PROVE  /\ DispatchOnly(i, n)
           /\ Dsp(i, n)' = "NOT_DISPATCHED"
           /\ \A m \in Step : m < n => Dsp(i, m) = "ACKNOWLEDGED"
           /\ \A m \in Step : m >= n => Dsp(i, m) = "NONE"
<1>. DEFINE a == [NoAttempt EXCEPT !.dispatch = "NOT_DISPATCHED"]
            t == IF n = 0 THEN now ELSE operations[i].started
<1>1. /\ operations \in [Intents -> Operation] /\ operations[i] \in Operation
      /\ operations' = [operations EXCEPT ![i].attempts[n] = a, ![i].started = t]
      /\ UNCHANGED intents
  BY DEF JournalTypeOK, PrepareStep
<1>2. a.dispatch = "NOT_DISPATCHED"
  BY DEF NoAttempt
<1>. HIDE DEF a, t
<1>3. operations'[i] = [operations[i] EXCEPT !.attempts[n] = a, !.started = t]
  BY <1>1
<1>4. operations'[i].attempts = [operations[i].attempts EXCEPT ![n] = a]
  BY <1>1, <1>3 DEF Operation
<1>5. \A j \in Intents : j # i => operations'[j] = operations[j]
  BY <1>1
<1>6. DispatchOnly(i, n) /\ Dsp(i, n)' = "NOT_DISPATCHED"
  BY <1>1, <1>2, <1>4, <1>5 DEF DispatchOnly, Dsp, Operation
<1>7. /\ \A m \in Step : m < n => Dsp(i, m) = "ACKNOWLEDGED"
      /\ \A m \in Step : m >= n => Dsp(i, m) = "NONE"
  BY DEF PrepareStep, CanPrepare, Done, Present, Dsp
<1>. QED
  BY <1>6, <1>7

\* MarkDispatchPossible: once, and only while the intent is approved.
LEMMA MarkFacts ==
    ASSUME JournalTypeOK, NEW i \in Intents, NEW n \in Step, MarkDispatchPossible(i, n)
    PROVE  /\ DispatchOnly(i, n)
           /\ Dsp(i, n) = "NOT_DISPATCHED"
           /\ Dsp(i, n)' = "DISPATCH_POSSIBLE"
           /\ intents[i].status = "CONSUMED"
<1>1. /\ operations \in [Intents -> Operation] /\ operations[i] \in Operation
      /\ UNCHANGED intents
      /\ Dsp(i, n) = "NOT_DISPATCHED" /\ intents[i].status = "CONSUMED"
  BY DEF JournalTypeOK, MarkDispatchPossible, CanMark, Prepared, Approved, Dsp
<1>2. /\ \A j \in Intents : j # i => operations'[j] = operations[j]
      /\ operations'[i].attempts =
           [operations[i].attempts EXCEPT ![n] = [dispatch    |-> "DISPATCH_POSSIBLE",
                                                  effect      |-> "UNKNOWN",
                                                  attribution |-> "UNATTRIBUTED"]]
  BY <1>1 DEF MarkDispatchPossible, Operation
<1>. QED
  BY SMT, <1>1, <1>2 DEF DispatchOnly, Dsp, Operation

\* RecordStepObservation acknowledges a dispatched attempt, or leaves its dispatch alone.
LEMMA RecordFacts ==
    ASSUME JournalTypeOK, NEW i \in Intents, NEW n \in Step, NEW e, NEW a,
           RecordStepObservation(i, n, e, a)
    PROVE  /\ DispatchOnly(i, n)
           /\ Dsp(i, n) \in Dispatch
           /\ Dsp(i, n)' = IF a = "CORRELATED" THEN "ACKNOWLEDGED" ELSE Dsp(i, n)
           /\ UNCHANGED backups
           /\ \A j \in Intents, m \in Step :
                j # i \/ m # n => operations'[j].attempts[m] = operations[j].attempts[m]
           /\ operations'[i].attempts[n].effect = e
           /\ operations'[i].attempts[n].attribution = a
<1>. DEFINE x == [dispatch    |-> IF a = "CORRELATED" THEN "ACKNOWLEDGED"
                                  ELSE operations[i].attempts[n].dispatch,
                  effect      |-> e,
                  attribution |-> a]
            st == StatusAfter(operations[i].status, e)
<1>1. /\ operations \in [Intents -> Operation] /\ operations[i] \in Operation
      /\ operations' = [operations EXCEPT ![i].status = st, ![i].attempts[n] = x]
      /\ UNCHANGED intents /\ UNCHANGED backups
      /\ Dsp(i, n) \in Dispatch
  BY DEF JournalTypeOK, RecordStepObservation, CanRecord, Dsp, Dispatch
<1>2. /\ x.dispatch = (IF a = "CORRELATED" THEN "ACKNOWLEDGED" ELSE Dsp(i, n))
      /\ x.effect = e /\ x.attribution = a
  BY DEF Dsp
<1>. HIDE DEF x, st
<1>3. operations'[i] = [operations[i] EXCEPT !.status = st, !.attempts[n] = x]
  BY <1>1
<1>4. operations'[i].attempts = [operations[i].attempts EXCEPT ![n] = x]
  BY <1>1, <1>3 DEF Operation
<1>5. \A j \in Intents : j # i => operations'[j] = operations[j]
  BY <1>1
<1>6. /\ operations'[i].attempts[n] = x
      /\ \A j \in Intents, m \in Step :
           j # i \/ m # n => operations'[j].attempts[m] = operations[j].attempts[m]
  BY <1>1, <1>4, <1>5 DEF Operation
<1>. QED
  BY <1>1, <1>2, <1>6 DEF DispatchOnly, Dsp

\* CompleteBackup acknowledges S05 together with the VALID record.
LEMMA CompleteFacts ==
    ASSUME JournalTypeOK, NEW i \in Intents, CompleteBackup(i)
    PROVE  /\ DispatchOnly(i, BackupStep)
           /\ Dsp(i, BackupStep) = "DISPATCH_POSSIBLE"
           /\ Dsp(i, BackupStep)' = "ACKNOWLEDGED"
           /\ backups' = [backups EXCEPT ![i] = "VALID"]
           /\ \A j \in Intents : j # i => operations'[j] = operations[j]
<1>1. /\ operations \in [Intents -> Operation] /\ operations[i] \in Operation
      /\ UNCHANGED intents
      /\ Dsp(i, BackupStep) = "DISPATCH_POSSIBLE"
      /\ backups' = [backups EXCEPT ![i] = "VALID"]
  BY DEF JournalTypeOK, CompleteBackup, CanComplete, Dsp
<1>2. /\ \A j \in Intents : j # i => operations'[j] = operations[j]
      /\ operations'[i].attempts =
           [operations[i].attempts EXCEPT ![BackupStep] = [dispatch    |-> "ACKNOWLEDGED",
                                                  effect      |-> "EXPECTED_STATE_OBSERVED",
                                                  attribution |-> "CORRELATED"]]
  BY <1>1 DEF CompleteBackup, Operation
<1>. QED
  BY SMT, <1>1, <1>2, EffectSteps DEF DispatchOnly, Dsp, Operation

\* The transitions of an operation leave its attempts alone.
LEMMA TransitionFacts ==
    ASSUME JournalTypeOK, NEW i \in Intents, NEW to,
           TransitionOperation(i, to) \/ MarkUnknown(i)
    PROVE  /\ UNCHANGED <<intents, backups>>
           /\ \A j \in Intents : operations'[j].attempts = operations[j].attempts
<1>1. operations \in [Intents -> Operation] /\ operations[i] \in Operation
  BY DEF JournalTypeOK
<1>2. PICK s, r : operations' = [operations EXCEPT ![i].status = s, ![i].released = r]
  BY <1>1 DEF TransitionOperation, MarkUnknown
<1>3. operations'[i] = [operations[i] EXCEPT !.status = s, !.released = r]
  BY <1>1, <1>2
<1>4. operations'[i].attempts = operations[i].attempts
  BY <1>1, <1>3 DEF Operation
<1>5. UNCHANGED <<intents, backups>>
  BY DEF TransitionOperation, MarkUnknown
<1>. QED
  BY <1>1, <1>2, <1>4, <1>5

\* Revocation and approval do not touch the dispatch of any attempt: an operation that is
\* approved has none yet.
LEMMA DecideFacts ==
    ASSUME JournalInv, NEW i \in Intents,
           ApproveIntent(i) \/ RejectIntent(i) \/ RevokeIntent(i)
    PROVE  SameDispatch /\ UNCHANGED backups
<1>. USE DEF JournalInv
<1>1. /\ operations \in [Intents -> Operation] /\ operations[i] \in Operation
      /\ intents \in [Intents -> [status : IntentStatus, created : Nat]]
  BY DEF JournalTypeOK
<1>2. CASE ApproveIntent(i)
  <2>1. operations[i].status = "NONE" /\ intents[i].status = "AWAITING_APPROVAL"
    BY <1>2 DEF ApproveIntent, DecisionsAgree
  <2>2. \A m \in Step : Dsp(i, m) = "NONE"
    BY <2>1 DEF StepsInOrder, Present, Dsp
  <2>3. /\ \A j \in Intents : j # i => operations'[j] = operations[j]
        /\ \A m \in Step : Dsp(i, m)' = "NONE"
    BY <1>1, <1>2 DEF ApproveIntent, NoOperation, NoAttempt, Dsp
  <2>4. \A j \in Intents : intents[j].status = "REVOKED" => intents'[j].status = "REVOKED"
    BY <1>1, <1>2, <2>1 DEF ApproveIntent
  <2>. QED
    BY SMT, <1>2, <2>2, <2>3, <2>4 DEF SameDispatch, Dsp, ApproveIntent
<1>3. CASE RejectIntent(i)
  BY <1>1, <1>3 DEF RejectIntent, SameDispatch, Dsp
<1>4. CASE RevokeIntent(i)
  <2>1. \A j \in Intents : operations'[j].attempts = operations[j].attempts
    <3>1. CASE UNCHANGED operations
      BY <3>1
    <3>2. CASE operations' = [operations EXCEPT ![i].status = "ABORTED", ![i].released = TRUE]
      <4>1. operations'[i] = [operations[i] EXCEPT !.status = "ABORTED", !.released = TRUE]
        BY <1>1, <3>2
      <4>2. operations'[i].attempts = operations[i].attempts
        BY <1>1, <4>1 DEF Operation
      <4>. QED
        BY <1>1, <3>2, <4>2
    <3>. QED
      BY <1>4, <3>1, <3>2 DEF RevokeIntent
  <2>2. \A j \in Intents : intents[j].status = "REVOKED" => intents'[j].status = "REVOKED"
    BY <1>1, <1>4 DEF RevokeIntent
  <2>. QED
    BY <1>4, <2>1, <2>2 DEF SameDispatch, Dsp, RevokeIntent
<1>. QED
  BY <1>2, <1>3, <1>4

-----------------------------------------------------------------------------
(* The dispatch invariant.                                                 *)

\* The location of a coordinator may go from l to k without losing what HolderOK says.
Flow(l, k) ==
    /\ l \in Dispatched
    /\ k \in Creating => l \in Creating
    /\ k \in Simple => l \in Simple
    /\ k \in PreEffect => l \in PreEffect
    /\ k \in Issued => l \in Issued
    /\ k \notin Doubtful => l \notin Doubtful

\* Steps that change no dispatch and issue no effect.
LEMMA QuietMove ==
    ASSUME DispatchInv, JournalInv', WorldTypeOK', SameDispatch, UNCHANGED traceVars,
           NEW c \in Coordinators, NEW l, Moves(c, l),
           l \notin Dispatched \/ (Stays(c) /\ Flow(pc[c], l))
    PROVE  DispatchInv'
<1>1. WorkTypeOK' /\ TraceTypeOK'
  BY DEF DispatchInv, Moves, TraceTypeOK, traceVars
<1>2. OneHolder'
  BY SMT DEF DispatchInv, OneHolder, Moves, Stays, Flow
<1>3. \A i \in Intents : LedgerOK(i)'
  BY SMT DEF DispatchInv, LedgerOK, SameDispatch, traceVars
<1>4. ASSUME NEW d \in Coordinators
      PROVE  HolderOK(pc[d], job[d], step[d])'
  <2>1. HolderOK(pc[d], job[d], step[d]) /\ job[d] \in Intents /\ step[d] \in Step
    BY DEF DispatchInv, WorkTypeOK
  <2>2. CASE d # c
    BY SMT, <2>1, <2>2 DEF HolderOK, Moves, SameDispatch, traceVars
  <2>3. CASE d = c /\ l \notin Dispatched
    BY <2>3 DEF HolderOK, Moves, Dispatched, Creating, Simple, PreEffect, Issued
  <2>4. CASE d = c /\ Stays(c) /\ Flow(pc[c], l)
    <3>1. pc'[d] = l /\ job'[d] = job[d] /\ step'[d] = step[d]
      BY <2>4 DEF Moves, Stays
    <3>2. l \in PreEffect => effects'[job[d]][step[d]] = 0 /\ late'[job[d]] = 0
      BY <2>1, <2>4 DEF HolderOK, Flow, traceVars
    <3>3. l \in Issued /\ step[d] \in EffectStep => effects'[job[d]][step[d]] = 1
      BY <2>1, <2>4 DEF HolderOK, Flow, traceVars
    <3>4. /\ l \in Creating => step[d] = BackupStep
          /\ l \in Simple => step[d] # BackupStep
      BY <2>1, <2>4 DEF HolderOK, Flow
    <3>5. /\ Dsp(job[d], step[d])' \in Dispatch
          /\ \A m \in Step : m > step[d] => Dsp(job[d], m)' = "NONE"
      <4>1. /\ Dsp(job[d], step[d]) \in Dispatch
            /\ \A m \in Step : m > step[d] => Dsp(job[d], m) = "NONE"
        BY <2>1, <2>4 DEF HolderOK, Flow
      <4>. QED
        BY <2>1, <3>1, <4>1 DEF SameDispatch, Dsp
    <3>6. Dsp(job[d], step[d])' = "DISPATCH_POSSIBLE" \/ (l \in Doubtful /\ step[d] = BackupStep)
      <4>1. Dsp(job[d], step[d]) = "DISPATCH_POSSIBLE"
              \/ (pc[d] \in Doubtful /\ step[d] = BackupStep)
        BY <2>1, <2>4 DEF HolderOK, Flow
      <4>. QED
        BY SMT, <2>1, <2>4, <3>1, <4>1 DEF SameDispatch, Dsp, Flow
    <3>. QED
      BY <3>1, <3>2, <3>3, <3>4, <3>5, <3>6 DEF HolderOK, Dsp
  <2>. QED
    BY <2>2, <2>3, <2>4
<1>. QED
  BY <1>1, <1>2, <1>3, <1>4 DEF DispatchInv

\* A holder of another intent is not concerned.
LEMMA OtherHolder ==
    ASSUME DispatchInv, NEW i \in Intents, NEW d \in Coordinators,
           \A j \in Intents, m \in Step : j # i => Dsp(j, m)' = Dsp(j, m),
           \A j \in Intents : j # i => effects'[j] = effects[j] /\ late'[j] = late[j],
           pc'[d] = pc[d], job'[d] = job[d], step'[d] = step[d],
           pc[d] \in Dispatched => job[d] # i
    PROVE  HolderOK(pc[d], job[d], step[d])'
<1>1. HolderOK(pc[d], job[d], step[d]) /\ job[d] \in Intents /\ step[d] \in Step
  BY DEF DispatchInv, WorkTypeOK
<1>2. CASE pc[d] \notin Dispatched
  BY <1>2 DEF HolderOK, Dispatched, Creating, Simple, PreEffect, Issued
<1>3. CASE pc[d] \in Dispatched
  BY <1>1, <1>3 DEF HolderOK
<1>. QED
  BY <1>2, <1>3

\* PrepareStep succeeds only when nobody holds an attempt of the intent.
LEMMA PrepareMove ==
    ASSUME DispatchInv, JournalInv', WorldTypeOK', UNCHANGED traceVars,
           NEW c \in Coordinators, NEW i \in Intents, NEW n \in Step, PrepareStep(i, n),
           NEW l, Moves(c, l), l \notin Dispatched
    PROVE  DispatchInv'
<1>1. /\ DispatchOnly(i, n)
      /\ Dsp(i, n)' = "NOT_DISPATCHED"
      /\ \A m \in Step : m < n => Dsp(i, m) = "ACKNOWLEDGED"
      /\ \A m \in Step : m >= n => Dsp(i, m) = "NONE"
  BY PrepareFacts DEF DispatchInv, JournalInv
<1>2. WorkTypeOK' /\ TraceTypeOK'
  BY DEF DispatchInv, Moves, TraceTypeOK, traceVars
<1>3. ASSUME NEW d \in Coordinators, pc[d] \in Dispatched, job[d] = i
      PROVE  FALSE
  <2>1. /\ step[d] \in Step
        /\ Dsp(i, step[d]) \in Dispatch
        /\ Dsp(i, step[d]) = "DISPATCH_POSSIBLE" \/ step[d] = BackupStep
    BY <1>3 DEF DispatchInv, WorkTypeOK, HolderOK
  <2>2. step[d] < n
    BY SMT, <1>1, <2>1 DEF Step, Dispatch
  <2>. QED
    BY SMT, <1>1, <2>1, <2>2 DEF Step, BackupStep
<1>4. OneHolder'
  BY DEF DispatchInv, OneHolder, Moves
<1>5. ASSUME NEW d \in Coordinators
      PROVE  HolderOK(pc[d], job[d], step[d])'
  <2>1. CASE d = c
    BY <2>1 DEF HolderOK, Moves, Dispatched, Creating, Simple, PreEffect, Issued
  <2>2. CASE d # c
    BY <1>1, <1>3, <2>2, OtherHolder DEF DispatchOnly, Moves, traceVars
  <2>. QED
    BY <2>1, <2>2
<1>6. ASSUME NEW j \in Intents
      PROVE  LedgerOK(j)'
  <2>1. LedgerOK(j)
    BY DEF DispatchInv
  <2>2. CASE j # i
    BY <1>1, <2>1, <2>2 DEF LedgerOK, DispatchOnly, traceVars
  <2>3. CASE j = i
    <3>1. /\ late'[j] \in {0, 1}
          /\ intents'[j].status # "REVOKED" => late'[j] = 0
      BY <1>1, <2>1 DEF LedgerOK, DispatchOnly, traceVars
    <3>2. ASSUME NEW k \in Step
          PROVE  /\ effects'[j][k] \in {0, 1}
                 /\ Dsp(j, k)' # "NONE" => \A m \in Step : m < k => Dsp(j, m)' = "ACKNOWLEDGED"
                 /\ Dsp(j, k)' \notin Dispatch => effects'[j][k] = 0
                 /\ Dsp(j, k)' = "ACKNOWLEDGED" /\ k \in EffectStep => effects'[j][k] = 1
      <4>1. CASE k < n
        BY SMT, <1>1, <2>1, <2>3, <4>1 DEF LedgerOK, DispatchOnly, traceVars, Step
      <4>2. CASE k = n
        BY SMT, <1>1, <2>1, <2>3, <4>2 DEF LedgerOK, DispatchOnly, traceVars, Step, Dispatch
      <4>3. CASE k > n
        BY SMT, <1>1, <2>1, <2>3, <4>3 DEF LedgerOK, DispatchOnly, traceVars, Step, Dispatch
      <4>. QED
        BY SMT, <4>1, <4>2, <4>3 DEF Step
    <3>. QED
      BY <3>1, <3>2 DEF LedgerOK
  <2>. QED
    BY <2>2, <2>3
<1>. QED
  BY <1>2, <1>4, <1>5, <1>6 DEF DispatchInv

\* The dispatch mark makes the coordinator the only holder of an attempt of the intent.
LEMMA MarkMove ==
    ASSUME DispatchInv, JournalInv', WorldTypeOK', UNCHANGED traceVars,
           NEW c \in Coordinators, NEW i \in Intents, NEW n \in Step,
           i = job[c], n = step[c], MarkDispatchPossible(i, n),
           NEW l, Moves(c, l), Stays(c),
           l = IF n = BackupStep THEN "check" ELSE IF n \in EffectStep THEN "effect" ELSE "record"
    PROVE  DispatchInv'
<1>1. /\ DispatchOnly(i, n)
      /\ Dsp(i, n) = "NOT_DISPATCHED"
      /\ Dsp(i, n)' = "DISPATCH_POSSIBLE"
      /\ intents[i].status = "CONSUMED"
  BY MarkFacts DEF DispatchInv, JournalInv
<1>2. WorkTypeOK' /\ TraceTypeOK'
  BY DEF DispatchInv, Moves, TraceTypeOK, traceVars
<1>3. LedgerOK(i)
  BY DEF DispatchInv
<1>4. /\ \A m \in Step : m > n => Dsp(i, m) = "NONE"
      /\ \A m \in Step : m < n => Dsp(i, m) = "ACKNOWLEDGED"
      /\ effects[i][n] = 0 /\ late[i] = 0
  BY <1>1, <1>3 DEF LedgerOK, Step, Dispatch
<1>5. ASSUME NEW d \in Coordinators, pc[d] \in Dispatched, job[d] = i
      PROVE  FALSE
  <2>1. /\ step[d] \in Step
        /\ Dsp(i, step[d]) \in Dispatch
        /\ \A m \in Step : m > step[d] => Dsp(i, m) = "NONE"
    BY SMT, <1>5 DEF DispatchInv, WorkTypeOK, HolderOK
  <2>2. step[d] # n /\ ~(step[d] < n) /\ ~(step[d] > n)
    BY <1>1, <1>4, <2>1 DEF Step, Dispatch
  <2>. QED
    BY SMT, <2>1, <2>2 DEF Step
<1>6. OneHolder'
  BY SMT, <1>5 DEF DispatchInv, OneHolder, Moves, Stays
<1>7. ASSUME NEW d \in Coordinators
      PROVE  HolderOK(pc[d], job[d], step[d])'
  <2>1. CASE d = c
    <3>1. pc'[d] = l /\ job'[d] = i /\ step'[d] = n
      BY <2>1 DEF Moves, Stays
    <3>2. \A m \in Step : m > n => Dsp(i, m)' = "NONE"
      BY <1>1, <1>4 DEF DispatchOnly, Step
    <3>3. effects'[i][n] = 0 /\ late'[i] = 0
      BY <1>4 DEF traceVars
    <3>4. /\ l \in {"check", "effect", "record"}
          /\ l = "check" <=> n = BackupStep
          /\ l = "record" => n \notin EffectStep
      BY DEF EffectStep
    <3>5. HolderOK(l, i, n)'
      BY <1>1, <3>2, <3>3, <3>4
         DEF HolderOK, Dispatched, Creating, Simple, PreEffect, Issued, Doubtful, Dispatch
    <3>. QED
      BY <3>1, <3>5 DEF HolderOK, Dsp
  <2>2. CASE d # c
    BY <1>1, <1>5, <2>2, OtherHolder DEF DispatchOnly, Moves, traceVars
  <2>. QED
    BY <2>1, <2>2
<1>8. ASSUME NEW j \in Intents
      PROVE  LedgerOK(j)'
  <2>1. LedgerOK(j)
    BY DEF DispatchInv
  <2>2. CASE j # i
    BY <1>1, <2>1, <2>2 DEF LedgerOK, DispatchOnly, traceVars
  <2>3. CASE j = i
    <3>1. /\ late'[j] \in {0, 1}
          /\ intents'[j].status # "REVOKED" => late'[j] = 0
      BY <1>1, <2>1 DEF LedgerOK, DispatchOnly, traceVars
    <3>2. ASSUME NEW k \in Step
          PROVE  /\ effects'[j][k] \in {0, 1}
                 /\ Dsp(j, k)' # "NONE" => \A m \in Step : m < k => Dsp(j, m)' = "ACKNOWLEDGED"
                 /\ Dsp(j, k)' \notin Dispatch => effects'[j][k] = 0
                 /\ Dsp(j, k)' = "ACKNOWLEDGED" /\ k \in EffectStep => effects'[j][k] = 1
      <4>1. CASE k < n
        BY SMT, <1>1, <2>1, <2>3, <4>1 DEF LedgerOK, DispatchOnly, traceVars, Step
      <4>2. CASE k = n
        BY SMT, <1>1, <1>4, <2>1, <2>3, <4>2 DEF LedgerOK, DispatchOnly, traceVars, Step, Dispatch
      <4>3. CASE k > n
        BY SMT, <1>1, <1>4, <2>1, <2>3, <4>3 DEF LedgerOK, DispatchOnly, traceVars, Step, Dispatch
      <4>. QED
        BY SMT, <4>1, <4>2, <4>3 DEF Step
    <3>. QED
      BY <3>1, <3>2 DEF LedgerOK
  <2>. QED
    BY <2>2, <2>3
<1>. QED
  BY <1>2, <1>6, <1>7, <1>8 DEF DispatchInv

\* The holder issues its effect.
LEMMA IssueMove ==
    ASSUME DispatchInv, UNCHANGED journalVars, JournalInv', WorldTypeOK',
           NEW c \in Coordinators, NEW i \in Intents, NEW n \in Step,
           i = job[c], n = step[c], pc[c] \in PreEffect, Issue(i, n),
           NEW l, Moves(c, l), Stays(c), l \in Issued \cup {"unknown"},
           l \in Creating => pc[c] \in Creating, l \in Simple => pc[c] \in Simple
    PROVE  DispatchInv'
<1>1. /\ HolderOK(pc[c], i, n) /\ LedgerOK(i) /\ TraceTypeOK
      /\ pc[c] \in Dispatched
  BY DEF DispatchInv, PreEffect, Dispatched, Creating
<1>2. /\ Dsp(i, n) = "DISPATCH_POSSIBLE"
      /\ \A m \in Step : m > n => Dsp(i, m) = "NONE"
      /\ effects[i][n] = 0 /\ late[i] = 0
  BY <1>1 DEF HolderOK, PreEffect, Doubtful
<1>3. /\ \A j \in Intents, m \in Step : Dsp(j, m)' = Dsp(j, m)
      /\ UNCHANGED intents
  BY DEF journalVars, Dsp
<1>4. /\ effects'[i][n] = 1
      /\ \A m \in Step : m # n => effects'[i][m] = effects[i][m]
      /\ late'[i] \in {0, 1}
      /\ intents[i].status # "REVOKED" => late'[i] = 0
      /\ \A j \in Intents : j # i => effects'[j] = effects[j] /\ late'[j] = late[j]
      /\ TraceTypeOK'
  <2>1. effects' = [effects EXCEPT ![i] = [effects[i] EXCEPT ![n] = 1]]
    BY SMT, <1>1, <1>2 DEF Issue, Count, TraceTypeOK
  <2>2. PICK z \in {0, 1} : /\ late' = [late EXCEPT ![i] = z]
                            /\ intents[i].status # "REVOKED" => z = 0
    <3>1. CASE intents[i].status = "REVOKED"
      <4>1. late' = [late EXCEPT ![i] = 1]
        BY SMT, <1>1, <1>2, <3>1 DEF Issue, Count, TraceTypeOK
      <4>. QED
        BY <3>1, <4>1
    <3>2. CASE intents[i].status # "REVOKED"
      <4>1. late' = [late EXCEPT ![i] = 0]
        BY <1>1, <1>2, <3>2 DEF Issue, TraceTypeOK
      <4>. QED
        BY <4>1
    <3>. QED
      BY <3>1, <3>2
  <2>. QED
    BY SMT, <1>1, <2>1, <2>2 DEF TraceTypeOK
<1>5. WorkTypeOK'
  BY DEF Moves
<1>6. OneHolder'
  BY SMT, <1>1 DEF DispatchInv, OneHolder, Moves, Stays
<1>7. ASSUME NEW d \in Coordinators
      PROVE  HolderOK(pc[d], job[d], step[d])'
  <2>1. CASE d = c
    <3>1. pc'[d] = l /\ job'[d] = i /\ step'[d] = n
      BY <2>1 DEF Moves, Stays
    <3>2. /\ l \in Creating => n = BackupStep
          /\ l \in Simple => n # BackupStep
      BY <1>1 DEF HolderOK
    <3>3. l \notin PreEffect /\ l \in Dispatched
      BY DEF Issued, PreEffect, Dispatched, Creating
    <3>4. HolderOK(l, i, n)'
      BY SMT, <1>2, <1>3, <1>4, <3>2, <3>3 DEF HolderOK, Dispatch
    <3>. QED
      BY <3>1, <3>4 DEF HolderOK, Dsp
  <2>2. CASE d # c
    <3>1. pc[d] \in Dispatched => job[d] # i
      BY <1>1, <2>2 DEF DispatchInv, OneHolder
    <3>. QED
      BY <1>3, <1>4, <2>2, <3>1, OtherHolder DEF Moves
  <2>. QED
    BY <2>1, <2>2
<1>8. ASSUME NEW j \in Intents
      PROVE  LedgerOK(j)'
  <2>1. LedgerOK(j)
    BY DEF DispatchInv
  <2>2. CASE j # i
    BY SMT, <1>3, <1>4, <2>1, <2>2 DEF LedgerOK
  <2>3. CASE j = i
    BY SMT, <1>2, <1>3, <1>4, <2>1, <2>3 DEF LedgerOK, Dispatch
  <2>. QED
    BY <2>2, <2>3
<1>. QED
  BY <1>4, <1>5, <1>6, <1>7, <1>8 DEF DispatchInv

\* The holder acknowledges its attempt, whose effect has been issued.
LEMMA AckMove ==
    ASSUME DispatchInv, JournalInv', WorldTypeOK', UNCHANGED traceVars,
           NEW c \in Coordinators, NEW i \in Intents, NEW n \in Step,
           i = job[c], n = step[c], pc[c] \in Issued,
           DispatchOnly(i, n), Dsp(i, n)' = "ACKNOWLEDGED",
           NEW l, Moves(c, l), l \notin Dispatched \/ (l = "failed" /\ Stays(c) /\ n = BackupStep)
    PROVE  DispatchInv'
<1>1. /\ HolderOK(pc[c], i, n) /\ LedgerOK(i)
      /\ pc[c] \in Dispatched
  BY DEF DispatchInv, Issued, Dispatched, Creating
<1>2. /\ Dsp(i, n) = "DISPATCH_POSSIBLE"
      /\ \A m \in Step : m > n => Dsp(i, m) = "NONE"
      /\ \A m \in Step : m < n => Dsp(i, m) = "ACKNOWLEDGED"
      /\ n \in EffectStep => effects[i][n] = 1
  BY <1>1 DEF HolderOK, LedgerOK, Issued, Doubtful
<1>3. WorkTypeOK' /\ TraceTypeOK'
  BY DEF DispatchInv, Moves, TraceTypeOK, traceVars
<1>4. OneHolder'
  BY SMT, <1>1 DEF DispatchInv, OneHolder, Moves, Stays
<1>5. ASSUME NEW d \in Coordinators
      PROVE  HolderOK(pc[d], job[d], step[d])'
  <2>1. CASE d = c /\ l \notin Dispatched
    BY <2>1 DEF HolderOK, Moves, Dispatched, Creating, Simple, PreEffect, Issued
  <2>2. CASE d = c /\ l = "failed" /\ Stays(c) /\ n = BackupStep
    <3>1. pc'[d] = l /\ job'[d] = i /\ step'[d] = n
      BY <2>2 DEF Moves, Stays
    <3>2. \A m \in Step : m > n => Dsp(i, m)' = "NONE"
      BY <1>2 DEF DispatchOnly, Step
    <3>3. HolderOK(l, i, n)'
      BY <2>2, <3>2
         DEF HolderOK, Dispatched, Creating, Simple, PreEffect, Issued, Doubtful, Dispatch
    <3>. QED
      BY <3>1, <3>3 DEF HolderOK, Dsp
  <2>3. CASE d # c
    <3>1. pc[d] \in Dispatched => job[d] # i
      BY <1>1, <2>3 DEF DispatchInv, OneHolder
    <3>. QED
      BY <2>3, <3>1, OtherHolder DEF DispatchOnly, Moves, traceVars
  <2>. QED
    BY <2>1, <2>2, <2>3
<1>6. ASSUME NEW j \in Intents
      PROVE  LedgerOK(j)'
  <2>1. LedgerOK(j)
    BY DEF DispatchInv
  <2>2. CASE j # i
    BY <2>1, <2>2 DEF LedgerOK, DispatchOnly, traceVars
  <2>3. CASE j = i
    <3>1. /\ late'[j] \in {0, 1}
          /\ intents'[j].status # "REVOKED" => late'[j] = 0
      BY <2>1 DEF LedgerOK, DispatchOnly, traceVars
    <3>2. ASSUME NEW k \in Step
          PROVE  /\ effects'[j][k] \in {0, 1}
                 /\ Dsp(j, k)' # "NONE" => \A m \in Step : m < k => Dsp(j, m)' = "ACKNOWLEDGED"
                 /\ Dsp(j, k)' \notin Dispatch => effects'[j][k] = 0
                 /\ Dsp(j, k)' = "ACKNOWLEDGED" /\ k \in EffectStep => effects'[j][k] = 1
      <4>1. CASE k < n
        BY SMT, <1>2, <2>1, <2>3, <4>1 DEF LedgerOK, DispatchOnly, traceVars, Step
      <4>2. CASE k = n
        BY SMT, <1>2, <2>1, <2>3, <4>2 DEF LedgerOK, DispatchOnly, traceVars, Step, Dispatch
      <4>3. CASE k > n
        BY SMT, <1>2, <2>1, <2>3, <4>3 DEF LedgerOK, DispatchOnly, traceVars, Step, Dispatch
      <4>. QED
        BY SMT, <4>1, <4>2, <4>3 DEF Step
    <3>. QED
      BY <3>1, <3>2 DEF LedgerOK
  <2>. QED
    BY <2>2, <2>3
<1>. QED
  BY <1>3, <1>4, <1>5, <1>6 DEF DispatchInv

-----------------------------------------------------------------------------
(* Every step is a call of the journal or leaves it alone, and keeps the   *)
(* dispatch invariant.                                                     *)

\* The calls of the coordinator and the engine are calls the journal knows.
LEMMA JournalCalls ==
    ASSUME NEW i \in Intents, NEW n \in Step
    PROVE  /\ \A to \in {"PREPARING", "EXECUTING"} : TransitionOperation(i, to) => JournalNext
           /\ MarkUnknown(i) => JournalNext
           /\ PrepareStep(i, n) => JournalNext
           /\ MarkDispatchPossible(i, n) => JournalNext
           /\ \A a \in Attribution :
                RecordStepObservation(i, n, "EXPECTED_STATE_OBSERVED", a) => JournalNext
           /\ \A a \in Attribution :
                RecordStepObservation(i, n, "OTHER_STATE_OBSERVED", a) => JournalNext
           /\ RecordStepObservation(i, n, "UNKNOWN", "UNATTRIBUTED") => JournalNext
           /\ ReserveBackup(i) => JournalNext
           /\ \A to \in {"WRITING", "FINALIZING", "VERIFYING", "ORPHANED"} :
                TransitionBackupStatus(i, to) => JournalNext
           /\ CompleteBackup(i) => JournalNext
           /\ PutIntent(i) \/ ApproveIntent(i) \/ RejectIntent(i) \/ RevokeIntent(i) => JournalNext
<1>1. ASSUME NEW e, NEW a, [effect |-> e, attribution |-> a] \in Observation,
             RecordStepObservation(i, n, e, a)
      PROVE  JournalNext
  <2>. DEFINE o == [effect |-> e, attribution |-> a]
  <2>1. o.effect = e /\ o.attribution = a /\ o \in Observation
    BY <1>1
  <2>. HIDE DEF o
  <2>2. RecordStepObservation(i, n, o.effect, o.attribution)
    BY <1>1, <2>1
  <2>. QED
    BY <2>1, <2>2 DEF JournalNext
<1>2. /\ \A a \in Attribution :
           /\ [effect |-> "EXPECTED_STATE_OBSERVED", attribution |-> a] \in Observation
           /\ [effect |-> "OTHER_STATE_OBSERVED", attribution |-> a] \in Observation
      /\ [effect |-> "UNKNOWN", attribution |-> "UNATTRIBUTED"] \in Observation
  BY DEF Observation
<1>3. /\ \A a \in Attribution :
           RecordStepObservation(i, n, "EXPECTED_STATE_OBSERVED", a) => JournalNext
      /\ \A a \in Attribution :
           RecordStepObservation(i, n, "OTHER_STATE_OBSERVED", a) => JournalNext
      /\ RecordStepObservation(i, n, "UNKNOWN", "UNATTRIBUTED") => JournalNext
  BY <1>1, <1>2
<1>4. /\ \A to \in {"PREPARING", "EXECUTING"} : TransitionOperation(i, to) => JournalNext
      /\ MarkUnknown(i) => JournalNext
      /\ PrepareStep(i, n) => JournalNext
      /\ MarkDispatchPossible(i, n) => JournalNext
  BY DEF JournalNext
<1>5. /\ ReserveBackup(i) => JournalNext
      /\ \A to \in {"WRITING", "FINALIZING", "VERIFYING", "ORPHANED"} :
           TransitionBackupStatus(i, to) => JournalNext
      /\ CompleteBackup(i) => JournalNext
      /\ PutIntent(i) \/ ApproveIntent(i) \/ RejectIntent(i) \/ RevokeIntent(i) => JournalNext
  BY DEF JournalNext
<1>. QED
  BY <1>3, <1>4, <1>5

\* Coordinator c goes to l and still knows what HolderOK asks for.
Keeps(c, l) == Moves(c, l) /\ (l \notin Dispatched \/ (Stays(c) /\ Flow(pc[c], l)))

\* Goto in terms of locations only.
LEMMA GotoKeeps ==
    ASSUME WorkTypeOK, NEW c \in Coordinators, NEW l \in Location, Goto(c, l),
           l \notin Dispatched \/ Flow(pc[c], l)
    PROVE  Keeps(c, l)
BY GotoMoves DEF Keeps

\* Return leaves the dispatched locations.
LEMMA ReturnKeeps ==
    ASSUME WorkTypeOK, NEW c \in Coordinators, Return(c)
    PROVE  Keeps(c, "idle")
BY ReturnMoves DEF Keeps, Dispatched, Creating

\* The target, the archive and the evidence keep their types when they do not change.
LEMMA StillWorld ==
    ASSUME DispatchInv, UNCHANGED worldVars
    PROVE  WorldTypeOK' /\ UNCHANGED traceVars
BY DEF DispatchInv, WorldTypeOK, PaperTypeOK, worldVars, paperVars, recordVars, traceVars

\* A step that changes a coordinator only.
LEMMA LocalMove ==
    ASSUME DispatchInv, UNCHANGED journalVars, WorldTypeOK', UNCHANGED traceVars,
           NEW c \in Coordinators, NEW l, Keeps(c, l)
    PROVE  DispatchInv'
<1>1. JournalInv'
  BY NextInv DEF DispatchInv
<1>2. SameDispatch
  BY DEF SameDispatch, Dsp, journalVars
<1>. QED
  BY <1>1, <1>2, QuietMove DEF Keeps

\* Reads, checks and waits, and the end of a process.
Local(c) ==
    \/ Loop(c) \/ Observe(c) \/ WaitMaintenance(c) \/ StopAnswer(c) \/ WaitStopped(c)
    \/ Check(c) \/ Recheck(c) \/ CreateError(c) \/ Failed(c)
    \/ AcceptBackup(c) \/ AcceptOperation(c) \/ Refused(c) \/ Crash(c)

\* Each of them keeps what the coordinator knows.
LEMMA LocalKeeps ==
    ASSUME WorkTypeOK, JournalTypeOK, NEW c \in Coordinators, Local(c)
    PROVE  (\E l : Keeps(c, l)) /\ UNCHANGED <<journalVars, worldVars>>
<1>. DEFINE K(ls) == \E l \in ls : Goto(c, l)
<1>0. ASSUME NEW ls, ls \subseteq Location, \A l \in ls : l \notin Dispatched \/ Flow(pc[c], l),
             K(ls)
      PROVE  \E l : Keeps(c, l)
  BY <1>0, GotoKeeps
<1>. HIDE DEF K
<1>1. CASE Loop(c)
  <2>. DEFINE op == operations[job[c]]
              a == op.attempts[step[c]]
  <2>1. op \in Operation
    BY DEF WorkTypeOK, JournalTypeOK
  <2>2. CASE Return(c)
    BY <1>1, <2>2, ReturnKeeps DEF Loop
  <2>3. CASE Advance(c)
    BY <1>1, <2>3, AdvanceMoves DEF Loop, Keeps, Dispatched, Creating
  <2>4. CASE /\ pc' = [pc EXCEPT ![c] = AfterRead(a, step[c], op.status)]
             /\ seen' = [seen EXCEPT ![c] = op]
             /\ UNCHANGED <<job, step, readFrom>>
    <3>. DEFINE l == AfterRead(a, step[c], op.status)
    <3>1. l \in Location /\ l \notin Dispatched
      BY DEF AfterRead, AfterPrepare, Location, Dispatched, Creating
    <3>. HIDE DEF l, op
    <3>2. Moves(c, l)
      BY <2>1, <2>4, <3>1 DEF Moves, WorkTypeOK, l
    <3>. QED
      BY <1>1, <3>1, <3>2 DEF Loop, Keeps
  <2>. QED
    BY <1>1, <2>2, <2>3, <2>4 DEF Loop
<1>2. CASE Observe(c)
  <2>1. K({"mark"}) /\ UNCHANGED <<journalVars, worldVars>>
    BY <1>2 DEF Observe, K
  <2>. QED
    BY <2>1, <1>0 DEF Location, Dispatched, Creating
<1>3. CASE WaitMaintenance(c)
  <2>1. K({"record", "unknown"}) /\ UNCHANGED <<journalVars, worldVars>> /\ pc[c] = "maintenance"
    BY <1>3 DEF WaitMaintenance, K
  <2>. QED
    BY <2>1, <1>0
       DEF Location, Dispatched, Creating, Flow, Simple, PreEffect, Issued, Doubtful
<1>4. CASE StopAnswer(c)
  <2>1. K({"stopped", "unknown"}) /\ UNCHANGED <<journalVars, worldVars>> /\ pc[c] = "stopping"
    BY <1>4 DEF StopAnswer, K
  <2>. QED
    BY <2>1, <1>0
       DEF Location, Dispatched, Creating, Flow, Simple, PreEffect, Issued, Doubtful
<1>5. CASE WaitStopped(c)
  <2>1. /\ K({"other", "unattributed", "record", "unknown"})
        /\ UNCHANGED <<journalVars, worldVars>> /\ pc[c] = "stopped"
    BY <1>5 DEF WaitStopped, K
  <2>. QED
    BY <2>1, <1>0
       DEF Location, Dispatched, Creating, Flow, Simple, PreEffect, Issued, Doubtful
<1>6. CASE Check(c)
  <2>1. K({"reserve"}) /\ UNCHANGED <<journalVars, worldVars>> /\ pc[c] = "check"
    BY <1>6 DEF Check, K
  <2>. QED
    BY <2>1, <1>0
       DEF Location, Dispatched, Creating, Flow, Simple, PreEffect, Issued, Doubtful
<1>7. CASE Recheck(c)
  <2>1. K({"complete"}) /\ UNCHANGED <<journalVars, worldVars>> /\ pc[c] = "recheck"
    BY <1>7 DEF Recheck, K
  <2>. QED
    BY <2>1, <1>0
       DEF Location, Dispatched, Creating, Flow, Simple, PreEffect, Issued, Doubtful
<1>8. CASE CreateError(c)
  <2>1. K({"failed"}) /\ UNCHANGED <<journalVars, worldVars>> /\ pc[c] \in Creating
    BY <1>8 DEF CreateError, K
  <2>. QED
    BY <2>1, <1>0
       DEF Location, Dispatched, Creating, Flow, Simple, PreEffect, Issued, Doubtful
<1>9. CASE Failed(c)
  <2>1. /\ Return(c) \/ K({"unknown"})
        /\ UNCHANGED <<journalVars, worldVars>> /\ pc[c] = "failed"
    BY <1>9 DEF Failed, K
  <2>. QED
    BY <2>1, <1>0, ReturnKeeps
       DEF Location, Dispatched, Creating, Flow, Simple, PreEffect, Issued, Doubtful
<1>10. CASE AcceptBackup(c) \/ AcceptOperation(c)
  <2>1. K({"reread", "publish"}) /\ UNCHANGED <<journalVars, worldVars>>
    BY <1>10 DEF AcceptBackup, AcceptOperation, K
  <2>. QED
    BY <2>1, <1>0 DEF Location, Dispatched, Creating
<1>11. CASE Refused(c) \/ Crash(c)
  BY <1>11, ReturnKeeps DEF Refused, Crash
<1>. QED
  BY <1>1, <1>2, <1>3, <1>4, <1>5, <1>6, <1>7, <1>8, <1>9, <1>10, <1>11 DEF Local

\* Start, and the calls that change the status of an operation or of a backup.
LEMMA StatusCalls ==
    ASSUME DispatchInv, NEW c \in Coordinators,
           \/ Claim(c) \/ Execute(c) \/ RecordMarkUnknown(c)
           \/ Reserve(c) \/ AnnounceAs(c, "write", "WRITING", "open")
           \/ AnnounceAs(c, "finalize", "FINALIZING", "rename")
           \/ AnnounceAs(c, "verify", "VERIFYING", "recheck") \/ Inspect(c)
    PROVE  DispatchInv' /\ [JournalNext]_journalVars
<1>1. WorkTypeOK /\ JournalTypeOK /\ JournalInv /\ job[c] \in Intents /\ 0 \in Step
  BY EffectSteps DEF DispatchInv, JournalInv, WorkTypeOK
<1>2. (\E l : Keeps(c, l)) /\ UNCHANGED worldVars
  <2>1. CASE Claim(c) \/ Execute(c)
    <3>1. PICK l \in {"loop", "observe"} : Goto(c, l) /\ UNCHANGED worldVars
      BY <2>1 DEF Claim, Execute
    <3>. QED
      BY <1>1, <3>1, GotoKeeps DEF Location, Dispatched, Creating
  <2>2. CASE RecordMarkUnknown(c)
    BY <1>1, <2>2, ReturnKeeps DEF RecordMarkUnknown
  <2>3. CASE \/ Reserve(c) \/ AnnounceAs(c, "write", "WRITING", "open")
             \/ AnnounceAs(c, "finalize", "FINALIZING", "rename")
             \/ AnnounceAs(c, "verify", "VERIFYING", "recheck")
    <3>1. PICK l : /\ Goto(c, l) /\ UNCHANGED worldVars
                   /\ <<pc[c], l>> \in {<<"reserve", "write">>, <<"write", "open">>,
                                        <<"finalize", "rename">>, <<"verify", "recheck">>}
      BY <2>3 DEF Reserve, AnnounceAs
    <3>2. l \in Location /\ Flow(pc[c], l)
      BY <3>1 DEF Location, Dispatched, Creating, Flow, Simple, PreEffect, Issued, Doubtful
    <3>. QED
      BY <1>1, <3>1, <3>2, GotoKeeps
  <2>4. CASE Inspect(c)
    <3>1. Goto(c, "accept") \/ Return(c)
      BY <2>4 DEF Inspect
    <3>2. "accept" \in Location /\ "accept" \notin Dispatched
      BY DEF Location, Dispatched, Creating
    <3>. QED
      BY <1>1, <2>4, <3>1, <3>2, GotoKeeps, ReturnKeeps DEF Inspect
  <2>. QED
    BY <2>1, <2>2, <2>3, <2>4
<1>3. SameDispatch /\ [JournalNext]_journalVars
  <2>1. CASE Claim(c) \/ Execute(c) \/ RecordMarkUnknown(c)
    <3>1. PICK to \in {"PREPARING", "EXECUTING"} :
            TransitionOperation(job[c], to) \/ MarkUnknown(job[c])
      BY <2>1 DEF Claim, Execute, RecordMarkUnknown
    <3>2. /\ UNCHANGED <<intents, backups>>
          /\ \A j \in Intents : operations'[j].attempts = operations[j].attempts
      BY <1>1, <3>1, TransitionFacts
    <3>. QED
      BY <1>1, <3>1, <3>2, JournalCalls DEF SameDispatch, Dsp
  <2>2. CASE \/ Reserve(c) \/ AnnounceAs(c, "write", "WRITING", "open")
             \/ AnnounceAs(c, "finalize", "FINALIZING", "rename")
             \/ AnnounceAs(c, "verify", "VERIFYING", "recheck") \/ Inspect(c)
    <3>1. \/ ReserveBackup(job[c])
          \/ \E to \in {"WRITING", "FINALIZING", "VERIFYING", "ORPHANED"} :
               TransitionBackupStatus(job[c], to)
          \/ UNCHANGED journalVars
      BY <2>2 DEF Reserve, AnnounceAs, Inspect
    <3>2. UNCHANGED <<operations, intents>>
      BY <3>1 DEF ReserveBackup, TransitionBackupStatus, journalVars
    <3>. QED
      BY <1>1, <3>1, <3>2, JournalCalls DEF SameDispatch, Dsp
  <2>. QED
    BY <2>1, <2>2
<1>4. JournalInv'
  BY <1>1, <1>3, NextInv
<1>. QED
  BY <1>2, <1>3, <1>4, StillWorld, QuietMove DEF Keeps

\* Start, the reader's and the command's file operations.
LEMMA FileSteps ==
    ASSUME DispatchInv, NEW c \in Coordinators,
           Read(c) \/ Rename(c) \/ WriteEvidence(c) \/ (\E i \in Intents : Start(c, i))
    PROVE  DispatchInv' /\ UNCHANGED journalVars
<1>1. WorkTypeOK /\ WorldTypeOK /\ job[c] \in Intents
  BY DEF DispatchInv, WorkTypeOK
<1>2. UNCHANGED <<journalVars, traceVars>>
  BY DEF Read, Rename, WriteEvidence, Start, worldVars
<1>3. (\E l : Keeps(c, l)) /\ WorldTypeOK'
  <2>1. CASE Read(c) \/ Rename(c)
    <3>1. PICK l : /\ Goto(c, l)
                   /\ <<pc[c], l>> \in {<<"read", "finalize">>, <<"rename", "verify">>}
      BY <2>1 DEF Read, Rename
    <3>2. l \in Location /\ Flow(pc[c], l)
      BY <3>1 DEF Location, Dispatched, Creating, Flow, Simple, PreEffect, Issued, Doubtful
    <3>3. archive' \in [Intents -> [partial : BOOLEAN, final : BOOLEAN, offline : BOOLEAN]]
      <4>1. archive[job[c]] \in [partial : BOOLEAN, final : BOOLEAN, offline : BOOLEAN]
        BY <1>1 DEF WorldTypeOK
      <4>2. CASE Read(c)
        <5>1. PICK b \in BOOLEAN : archive' = [archive EXCEPT ![job[c]].offline = b]
          BY <4>2 DEF Read
        <5>. QED
          BY <1>1, <4>1, <5>1 DEF WorldTypeOK
      <4>3. CASE Rename(c)
        BY <1>1, <4>1, <4>3 DEF WorldTypeOK, Rename
      <4>. QED
        BY <2>1, <4>2, <4>3
    <3>4. UNCHANGED <<paperVars, recordVars>>
      BY <2>1 DEF Read, Rename
    <3>5. WorldTypeOK'
      BY <1>1, <3>3, <3>4 DEF WorldTypeOK, PaperTypeOK, paperVars, recordVars
    <3>. QED
      BY <1>1, <3>1, <3>2, <3>5, GotoKeeps
  <2>2. CASE WriteEvidence(c)
    <3>1. WorldTypeOK'
      BY <1>1, <2>2 DEF WorldTypeOK, PaperTypeOK, paperVars, WriteEvidence
    <3>. QED
      BY <1>1, <2>2, <3>1, ReturnKeeps DEF WriteEvidence
  <2>3. CASE \E i \in Intents : Start(c, i)
    <3>1. PICK i \in Intents : Start(c, i)
      BY <2>3
    <3>2. PICK l \in {"claim", "loop"} : pc' = [pc EXCEPT ![c] = l]
      BY <3>1 DEF Start
    <3>3. l \in Location /\ l \notin Dispatched
      BY <3>2 DEF Location, Dispatched, Creating
    <3>4. Moves(c, l)
      BY SMT, <1>1, <3>1, <3>2, <3>3 DEF WorkTypeOK, Moves, Start
    <3>5. WorldTypeOK'
      BY <3>1, StillWorld DEF Start
    <3>. QED
      BY <3>3, <3>4, <3>5 DEF Keeps
  <2>. QED
    BY <2>1, <2>2, <2>3
<1>. QED
  BY <1>2, <1>3, LocalMove

\* The three external effects.
LEMMA IssueSteps ==
    ASSUME DispatchInv, NEW c \in Coordinators,
           CloseAdmission(c) \/ DispatchGracefulStop(c) \/ Open(c)
    PROVE  DispatchInv' /\ UNCHANGED journalVars
<1>1. /\ WorkTypeOK /\ WorldTypeOK /\ JournalInv /\ job[c] \in Intents /\ step[c] \in Step
  BY DEF DispatchInv, WorkTypeOK
<1>2. UNCHANGED journalVars /\ Issue(job[c], step[c])
  BY DEF CloseAdmission, DispatchGracefulStop, Open
<1>3. JournalInv'
  BY <1>1, <1>2, NextInv
<1>4. WorldTypeOK'
  <2>1. CASE CloseAdmission(c)
    <3>1. admission' \in {"OPEN", "CLOSED"}
      BY <1>1, <2>1 DEF CloseAdmission, WorldTypeOK, PaperTypeOK
    <3>. QED
      BY <1>1, <2>1, <3>1 DEF CloseAdmission, WorldTypeOK, PaperTypeOK, recordVars
  <2>2. CASE DispatchGracefulStop(c)
    <3>1. container' \in [state : Alive \cup {"EXITED"}, boot : Nat, clean : BOOLEAN]
      <4>1. PICK s \in Alive \cup {"EXITED"} : container' = [container EXCEPT !.state = s]
        BY SMT, <1>1, <2>2 DEF DispatchGracefulStop, WorldTypeOK, PaperTypeOK, Alive
      <4>. QED
        BY <1>1, <4>1 DEF WorldTypeOK, PaperTypeOK
    <3>. QED
      BY <1>1, <2>2, <3>1 DEF DispatchGracefulStop, WorldTypeOK, PaperTypeOK, recordVars
  <2>3. CASE Open(c)
    <3>1. archive[job[c]] \in [partial : BOOLEAN, final : BOOLEAN, offline : BOOLEAN]
      BY <1>1 DEF WorldTypeOK
    <3>2. archive' \in [Intents -> [partial : BOOLEAN, final : BOOLEAN, offline : BOOLEAN]]
      BY <1>1, <2>3, <3>1 DEF WorldTypeOK, Open
    <3>. QED
      BY <1>1, <2>3, <3>2 DEF Open, WorldTypeOK, PaperTypeOK, paperVars, recordVars
  <2>. QED
    BY <2>1, <2>2, <2>3
<1>5. PICK l : /\ Moves(c, l) /\ Stays(c)
               /\ <<pc[c], l>> \in {<<"effect", "maintenance">>, <<"effect", "stopping">>,
                                    <<"effect", "unknown">>, <<"open", "read">>}
  <2>1. CASE CloseAdmission(c) \/ DispatchGracefulStop(c)
    <3>1. PICK l \in {"maintenance", "stopping", "unknown"} : pc[c] = "effect" /\ Goto(c, l)
      BY <2>1 DEF CloseAdmission, DispatchGracefulStop
    <3>2. l \in Location
      BY DEF Location, Dispatched
    <3>. QED
      BY <1>1, <3>1, <3>2, GotoMoves
  <2>2. CASE Open(c)
    <3>1. container.boot \in Nat /\ "read" \in Location
      BY <1>1 DEF WorldTypeOK, PaperTypeOK, Location, Dispatched, Creating
    <3>2. Moves(c, "read") /\ Stays(c)
      BY <1>1, <2>2, <3>1 DEF WorkTypeOK, Moves, Stays, Open
    <3>. QED
      BY <2>2, <3>2 DEF Open
  <2>. QED
    BY <2>1, <2>2
<1>6. /\ pc[c] \in PreEffect /\ l \in Issued \cup {"unknown"}
      /\ l \in Creating => pc[c] \in Creating
      /\ l \in Simple => pc[c] \in Simple
  BY <1>5 DEF PreEffect, Issued, Creating, Simple
<1>. QED
  BY <1>1, <1>2, <1>3, <1>4, <1>5, <1>6, IssueMove

\* The calls on the attempt.
LEMMA AttemptCalls ==
    ASSUME DispatchInv, NEW c \in Coordinators,
           \/ Prepare(c) \/ Mark(c) \/ Complete(c) \/ RecordExpected(c)
           \/ RecordOther(c) \/ RecordUnattributed(c) \/ RecordUnknown(c)
    PROVE  DispatchInv' /\ JournalNext
<1>1. /\ WorkTypeOK /\ JournalTypeOK /\ JournalInv /\ job[c] \in Intents /\ step[c] \in Step
      /\ HolderOK(pc[c], job[c], step[c])
  BY DEF DispatchInv, JournalInv, WorkTypeOK
<1>2. WorldTypeOK' /\ UNCHANGED traceVars
  BY StillWorld DEF Prepare, Mark, Complete, RecordExpected, RecordOther, RecordUnattributed,
                    RecordUnknown
<1>3. CASE Prepare(c)
  <2>1. PrepareStep(job[c], step[c]) /\ JournalNext
    BY <1>1, <1>3, JournalCalls DEF Prepare
  <2>2. PICK l \in {"execute", "mark", "observe"} : Goto(c, l)
    BY <1>3 DEF Prepare, AfterPrepare
  <2>3. Moves(c, l) /\ l \notin Dispatched
    BY <1>1, <2>2, GotoMoves DEF Location, Dispatched, Creating
  <2>4. JournalInv'
    BY <1>1, <2>1, NextInv
  <2>. QED
    BY <1>1, <1>2, <2>1, <2>3, <2>4, PrepareMove
<1>4. CASE Mark(c)
  <2>1. MarkDispatchPossible(job[c], step[c]) /\ JournalNext
    BY <1>1, <1>4, JournalCalls DEF Mark
  <2>. DEFINE l == IF step[c] = BackupStep THEN "check"
                   ELSE IF step[c] \in EffectStep THEN "effect" ELSE "record"
  <2>2. Goto(c, l) /\ l \in Location
    BY <1>4 DEF Mark, Location, Dispatched, Creating
  <2>3. Moves(c, l) /\ Stays(c)
    BY <1>1, <2>2, GotoMoves
  <2>4. JournalInv'
    BY <1>1, <2>1, NextInv
  <2>. QED
    BY <1>1, <1>2, <2>1, <2>3, <2>4, MarkMove
<1>5. CASE Complete(c)
  <2>1. CompleteBackup(job[c]) /\ JournalNext /\ pc[c] = "complete"
    BY <1>1, <1>5, JournalCalls DEF Complete
  <2>2. step[c] = BackupStep /\ pc[c] \in Issued
    BY <1>1, <2>1 DEF HolderOK, Creating, Issued
  <2>3. PICK l : /\ Moves(c, l)
                 /\ l \notin Dispatched \/ (l = "failed" /\ Stays(c) /\ step[c] = BackupStep)
    <3>1. CASE Advance(c)
      BY <1>1, <3>1, AdvanceMoves DEF Dispatched, Creating
    <3>2. CASE Goto(c, "failed")
      BY <1>1, <2>2, <3>2, GotoMoves DEF Location, Dispatched, Creating
    <3>. QED
      BY <1>5, <3>1, <3>2 DEF Complete
  <2>4. PICK i \in Intents, n \in Step : i = job[c] /\ n = step[c]
    BY <1>1
  <2>5. DispatchOnly(i, n) /\ Dsp(i, n)' = "ACKNOWLEDGED"
    <3>1. DispatchOnly(i, BackupStep) /\ Dsp(i, BackupStep)' = "ACKNOWLEDGED"
      BY <1>1, <2>1, <2>4, CompleteFacts
    <3>2. n = BackupStep
      BY <2>2, <2>4
    <3>. QED
      BY <3>1, <3>2 DEF Dsp
  <2>6. JournalInv'
    BY <1>1, <2>1, NextInv
  <2>. QED
    BY <1>2, <2>1, <2>2, <2>3, <2>4, <2>5, <2>6, AckMove
<1>6. ASSUME NEW e, NEW a \in Attribution, RecordStepObservation(job[c], step[c], e, a),
             JournalNext, NEW l, Keeps(c, l),
             a = "CORRELATED" => pc[c] \in Issued /\ l \notin Dispatched
      PROVE  DispatchInv'
  <2>1. PICK i \in Intents, n \in Step : i = job[c] /\ n = step[c]
    BY <1>1
  <2>2. /\ DispatchOnly(i, n)
        /\ Dsp(i, n) \in Dispatch
        /\ Dsp(i, n)' = IF a = "CORRELATED" THEN "ACKNOWLEDGED" ELSE Dsp(i, n)
    BY SMT, <1>1, <1>6, <2>1, RecordFacts
  <2>3. JournalInv'
    BY <1>1, <1>6, NextInv
  <2>4. CASE a = "CORRELATED"
    BY <1>2, <1>6, <2>1, <2>2, <2>3, <2>4, AckMove DEF Keeps
  <2>5. CASE a # "CORRELATED"
    <3>1. SameDispatch
      BY <2>2, <2>5 DEF SameDispatch, DispatchOnly
    <3>. QED
      BY <1>2, <1>6, <2>3, <3>1, QuietMove DEF Keeps
  <2>. QED
    BY <2>4, <2>5
<1>7. "CORRELATED" \in Attribution /\ "UNATTRIBUTED" \in Attribution
  BY DEF Attribution
<1>8. CASE RecordExpected(c)
  <2>1. /\ RecordStepObservation(job[c], step[c], "EXPECTED_STATE_OBSERVED", "CORRELATED")
        /\ JournalNext /\ pc[c] \in Issued
    BY <1>1, <1>7, <1>8, JournalCalls DEF RecordExpected, Issued
  <2>2. PICK l \in {"loop", "inspect"} : Moves(c, l)
    BY <1>1, <1>8, AdvanceMoves DEF RecordExpected
  <2>3. Keeps(c, l) /\ l \notin Dispatched
    BY <2>2 DEF Keeps, Dispatched, Creating
  <2>. QED
    BY <1>6, <1>7, <2>1, <2>3
<1>9. CASE RecordOther(c)
  <2>1. PICK a \in Attribution :
          RecordStepObservation(job[c], step[c], "OTHER_STATE_OBSERVED", a)
    BY <1>9 DEF RecordOther
  <2>2. JournalNext /\ pc[c] \in Issued
    BY <1>1, <1>9, <2>1, JournalCalls DEF RecordOther, Issued
  <2>3. Keeps(c, "idle") /\ "idle" \notin Dispatched
    BY <1>1, <1>9, ReturnKeeps DEF RecordOther, Dispatched, Creating
  <2>. QED
    BY <1>6, <2>1, <2>2, <2>3
<1>10. CASE RecordUnattributed(c)
  <2>1. /\ RecordStepObservation(job[c], step[c], "EXPECTED_STATE_OBSERVED", "UNATTRIBUTED")
        /\ JournalNext
    BY <1>1, <1>7, <1>10, JournalCalls DEF RecordUnattributed
  <2>2. Keeps(c, "markUnknown")
    <3>1. pc[c] = "unattributed" /\ Goto(c, "markUnknown")
      BY <1>10 DEF RecordUnattributed
    <3>2. "markUnknown" \in Location /\ Flow("unattributed", "markUnknown")
      BY DEF Location, Dispatched, Creating, Flow, Simple, PreEffect, Issued, Doubtful
    <3>. QED
      BY <1>1, <3>1, <3>2, GotoKeeps
  <2>. QED
    BY <1>6, <1>7, <2>1, <2>2
<1>11. CASE RecordUnknown(c)
  <2>1. /\ RecordStepObservation(job[c], step[c], "UNKNOWN", "UNATTRIBUTED")
        /\ JournalNext
    BY <1>1, <1>11, JournalCalls DEF RecordUnknown
  <2>2. Keeps(c, "idle")
    BY <1>1, <1>11, ReturnKeeps DEF RecordUnknown
  <2>. QED
    BY <1>6, <1>7, <2>1, <2>2
<1>. QED
  BY <1>3, <1>4, <1>5, <1>8, <1>9, <1>10, <1>11

\* A step of the environment that changes no dispatch.
LEMMA StillMove ==
    ASSUME DispatchInv, JournalInv', WorldTypeOK', SameDispatch, UNCHANGED traceVars,
           UNCHANGED workVars
    PROVE  DispatchInv'
<1>1. WorkTypeOK' /\ TraceTypeOK' /\ OneHolder'
  BY DEF DispatchInv, WorkTypeOK, TraceTypeOK, OneHolder, workVars, traceVars
<1>2. \A i \in Intents : LedgerOK(i)'
  BY SMT DEF DispatchInv, LedgerOK, SameDispatch, traceVars
<1>3. ASSUME NEW d \in Coordinators
      PROVE  HolderOK(pc[d], job[d], step[d])'
  <2>1. HolderOK(pc[d], job[d], step[d]) /\ job[d] \in Intents /\ step[d] \in Step
    BY DEF DispatchInv, WorkTypeOK
  <2>. QED
    BY <2>1 DEF HolderOK, SameDispatch, workVars, traceVars
<1>. QED
  BY <1>1, <1>2, <1>3 DEF DispatchInv

\* Paper's own steps keep its types; a run that has ended is not resumed.
LEMMA PaperFacts ==
    ASSUME PaperTypeOK, PaperNext
    PROVE  /\ PaperTypeOK'
           /\ container'.boot >= container.boot
           /\ container'.boot = container.boot /\ container.state = "EXITED"
                => container'.state = "EXITED"
<1>. USE DEF PaperTypeOK
<1>1. CASE CaptureAndPublish
  BY SMT, <1>1 DEF CaptureAndPublish
<1>2. CASE OnDisable
  <2>1. container' \in [state : Alive \cup {"EXITED"}, boot : Nat, clean : BOOLEAN]
    BY <1>2 DEF OnDisable, Alive
  <2>2. snapshot' \in [boot : Nat, ready : BOOLEAN]
    <3>1. [boot |-> container.boot, ready |-> FALSE] \in [boot : Nat, ready : BOOLEAN]
      OBVIOUS
    <3>. QED
      BY <1>2, <3>1 DEF OnDisable
  <2>. QED
    BY SMT, <1>2, <2>1, <2>2 DEF OnDisable
<1>3. CASE Exit
  <2>1. PICK clean \in BOOLEAN :
          container' = [container EXCEPT !.state = "EXITED", !.clean = clean]
    BY <1>3 DEF Exit
  <2>2. container' = [state |-> "EXITED", boot |-> container.boot, clean |-> clean]
    BY <2>1
  <2>3. /\ container' \in [state : Alive \cup {"EXITED"}, boot : Nat, clean : BOOLEAN]
        /\ container'.boot = container.boot /\ container'.state = "EXITED"
    BY <2>2
  <2>. QED
    BY SMT, <1>3, <2>3 DEF Exit
<1>4. CASE RequestStop
  <2>1. container' \in [state : Alive \cup {"EXITED"}, boot : Nat, clean : BOOLEAN]
    BY <1>4 DEF RequestStop, Alive
  <2>. QED
    BY SMT, <1>4, <2>1 DEF RequestStop
<1>5. CASE StartContainer
  <2>1. /\ container' \in [state : Alive \cup {"EXITED"}, boot : Nat, clean : BOOLEAN]
        /\ container'.boot = container.boot + 1
    BY SMT, <1>5 DEF StartContainer, Alive
  <2>. QED
    BY SMT, <1>5, <2>1 DEF StartContainer
<1>6. CASE SetAdmission
  BY SMT, <1>6 DEF SetAdmission
<1>. QED
  BY <1>1, <1>2, <1>3, <1>4, <1>5, <1>6 DEF PaperNext

\* The agent, the owner, the clock and Paper.
LEMMA EnvironmentSteps ==
    ASSUME DispatchInv, Environment
    PROVE  DispatchInv' /\ [JournalNext]_journalVars
<1>1. JournalInv /\ WorldTypeOK /\ PaperTypeOK
  BY DEF DispatchInv, WorldTypeOK
<1>2. ASSUME NEW i \in Intents, Propose(i)
      PROVE  DispatchInv' /\ [JournalNext]_journalVars
  <2>1. PutIntent(i) /\ JournalNext
    BY <1>2, JournalCalls, EffectSteps DEF Propose
  <2>2. SameDispatch
    BY <1>1, <2>1 DEF SameDispatch, Dsp, PutIntent, JournalInv, JournalTypeOK
  <2>3. WorldTypeOK'
    BY <1>1, <1>2 DEF Propose, WorldTypeOK, PaperTypeOK, paperVars
  <2>. QED
    BY <1>1, <1>2, <2>1, <2>2, <2>3, NextInv, StillMove DEF Propose
<1>3. ASSUME NEW i \in Intents, Decide(i)
      PROVE  DispatchInv' /\ [JournalNext]_journalVars
  <2>1. (ApproveIntent(i) \/ RejectIntent(i) \/ RevokeIntent(i)) /\ JournalNext
    BY <1>3, JournalCalls, EffectSteps DEF Decide
  <2>2. SameDispatch
    BY <1>1, <2>1, DecideFacts
  <2>. QED
    BY <1>1, <1>3, <2>1, <2>2, NextInv, StillMove, StillWorld DEF Decide
<1>4. CASE Tick /\ UNCHANGED <<worldVars, workVars>>
  <2>1. JournalNext
    BY <1>4 DEF JournalNext
  <2>2. SameDispatch
    BY <1>4 DEF Tick, SameDispatch, Dsp
  <2>. QED
    BY <1>1, <1>4, <2>1, <2>2, NextInv, StillMove, StillWorld
<1>5. CASE PaperNext /\ UNCHANGED <<journalVars, recordVars, archive, traceVars, workVars>>
  <2>1. SameDispatch /\ JournalInv'
    BY <1>1, <1>5, NextInv DEF SameDispatch, Dsp, journalVars
  <2>2. WorldTypeOK'
    BY <1>1, <1>5, PaperFacts DEF WorldTypeOK, recordVars
  <2>. QED
    BY <1>5, <2>1, <2>2, StillMove
<1>. QED
  BY <1>2, <1>3, <1>4, <1>5 DEF Environment

\* Every step keeps the dispatch invariant and is a step of the journal or leaves it alone.
LEMMA DispatchNext ==
    ASSUME DispatchInv, [Next]_vars
    PROVE  DispatchInv' /\ [JournalNext]_journalVars
<1>1. ASSUME NEW c \in Coordinators, Coordinate(c) \/ Crash(c) \/ (\E i \in Intents : Start(c, i))
      PROVE  DispatchInv' /\ [JournalNext]_journalVars
  <2>1. CASE Local(c)
    <3>1. (\E l : Keeps(c, l)) /\ UNCHANGED <<journalVars, worldVars>>
      BY <2>1, LocalKeeps DEF DispatchInv, JournalInv
    <3>. QED
      BY <3>1, LocalMove, StillWorld
  <2>2. CASE \/ Claim(c) \/ Execute(c) \/ RecordMarkUnknown(c)
             \/ Reserve(c) \/ AnnounceAs(c, "write", "WRITING", "open")
             \/ AnnounceAs(c, "finalize", "FINALIZING", "rename")
             \/ AnnounceAs(c, "verify", "VERIFYING", "recheck") \/ Inspect(c)
    BY <2>2, StatusCalls
  <2>3. CASE Read(c) \/ Rename(c) \/ WriteEvidence(c) \/ (\E i \in Intents : Start(c, i))
    BY <2>3, FileSteps
  <2>4. CASE CloseAdmission(c) \/ DispatchGracefulStop(c) \/ Open(c)
    BY <2>4, IssueSteps
  <2>5. CASE \/ Prepare(c) \/ Mark(c) \/ Complete(c) \/ RecordExpected(c)
             \/ RecordOther(c) \/ RecordUnattributed(c) \/ RecordUnknown(c)
    BY <2>5, AttemptCalls
  <2>. QED
    BY <1>1, <2>1, <2>2, <2>3, <2>4, <2>5 DEF Coordinate, Create, Local
<1>2. CASE UNCHANGED vars
  <2>1. /\ UNCHANGED journalVars /\ UNCHANGED worldVars /\ UNCHANGED workVars
    BY <1>2 DEF vars, worldVars
  <2>2. SameDispatch /\ JournalInv'
    BY <2>1, NextInv DEF SameDispatch, Dsp, journalVars, DispatchInv
  <2>. QED
    BY <2>1, <2>2, StillMove, StillWorld
<1>. QED
  BY <1>1, <1>2, EnvironmentSteps DEF Next

\* Nothing is dispatched at the start.
LEMMA DispatchInit == Init => DispatchInv
<1>. SUFFICES ASSUME Init PROVE DispatchInv
  OBVIOUS
<1>1. JournalInv
  BY InitInv DEF Init
<1>2. WorkTypeOK
  <2>1. NoOperation \in Operation
    BY DEF NoOperation, NoAttempt, Operation, Attempt, Effect, Attribution
  <2>2. "idle" \in Location
    BY DEF Location
  <2>. QED
    BY <2>1, <2>2, EffectSteps DEF Init, WorkTypeOK
<1>3. WorldTypeOK /\ TraceTypeOK
  BY SMT DEF Init, PaperInit, PaperTypeOK, Alive, WorldTypeOK, TraceTypeOK, NoArchive
<1>4. \A c \in Coordinators : pc[c] = "idle"
  BY DEF Init
<1>5. OneHolder /\ \A c \in Coordinators : HolderOK(pc[c], job[c], step[c])
  BY <1>4 DEF OneHolder, HolderOK, Dispatched, Creating, Simple, PreEffect, Issued
<1>6. ASSUME NEW i \in Intents PROVE LedgerOK(i)
  <2>1. \A n \in Step : Dsp(i, n) = "NONE"
    BY DEF Init, JournalInit, NoOperation, NoAttempt, Dsp
  <2>2. late[i] = 0 /\ \A n \in Step : effects[i][n] = 0
    BY DEF Init
  <2>. QED
    BY <2>1, <2>2 DEF LedgerOK
<1>. QED
  BY <1>1, <1>2, <1>3, <1>5, <1>6 DEF DispatchInv

-----------------------------------------------------------------------------
(* Theorems.                                                               *)

\* The dispatch invariant holds in every reachable state.
THEOREM DispatchInvariant == Spec => []DispatchInv
<1>1. Init => DispatchInv
  BY DispatchInit
<1>2. DispatchInv /\ [Next]_vars => DispatchInv'
  BY DispatchNext
<1>. QED
  BY <1>1, <1>2, PTL DEF Spec

\* The steps of the composed system are calls the journal knows, by construction: the module
\* works on the journal's own variables.
LEMMA FoundationIsJournal == Spec => JournalSpec
<1>1. Init => JournalInit
  BY DEF Init
<1>2. DispatchInv /\ [Next]_vars => [JournalNext]_journalVars
  BY DispatchNext
<1>. QED
  BY <1>1, <1>2, DispatchInvariant, PTL DEF Spec, JournalSpec

\* What is proved of the journal on its own holds while coordinators, operators, the driver
\* and the gate work on it: one writer per target, decisions that agree, an outcome in doubt
\* that blocks for good, nothing reopened.
COROLLARY FoundationKeepsJournal ==
    Spec => /\ []SingleWriter
            /\ []DecisionsAgree
            /\ []StepsInOrder
            /\ []BackupFollowsJournal
            /\ BlockedStaysBlocked
            /\ NothingIsRepeated
            /\ ImplementsWriterLock
BY FoundationIsJournal, StoreSingleWriter, StoreDecisionsAgree, StoreStepsInOrder,
   StoreBackupFollowsJournal, StoreBlockedStaysBlocked, StoreNothingIsRepeated,
   StoreImplementsWriterLock, PTL

\* The composed system keeps its types, the journal's tables included.
THEOREM FoundationTypes == Spec => []FoundationTypeOK
<1>1. DispatchInv => FoundationTypeOK
  BY DEF DispatchInv, JournalInv, WorkTypeOK, WorldTypeOK, TraceTypeOK,
         FoundationTypeOK
<1>. QED
  BY <1>1, DispatchInvariant, PTL

\* A holder's operation owns its target: its attempt is journaled, so it cannot have been
\* released.
LEMMA HolderOwns ==
    ASSUME DispatchInv, NEW c \in Coordinators, pc[c] \in Dispatched
    PROVE  Owns(job[c])
<1>1. /\ job[c] \in Intents /\ step[c] \in Step /\ JournalInv
      /\ Dsp(job[c], step[c]) \in Dispatch
  BY DEF DispatchInv, WorkTypeOK, HolderOK
<1>2. Present(operations[job[c]].attempts[step[c]])
  BY <1>1 DEF Dsp, Present, Dispatch
<1>3. operations[job[c]].status # "NONE"
  BY <1>1, <1>2 DEF JournalInv, StepsInOrder
<1>4. Begun(job[c])
  BY <1>1, <1>2 DEF Begun
<1>5. ~operations[job[c]].released
  BY <1>1, <1>4 DEF JournalInv, DecisionsAgree
<1>. QED
  BY <1>3, <1>5 DEF Owns

\* A coordinator between the dispatch mark and the outcome works for an operation that owns
\* its target, for any number of coordinators and enrollments.
THEOREM FoundationDispatcherOwns == Spec => []DispatcherOwns
<1>1. DispatchInv => DispatcherOwns
  BY HolderOwns DEF DispatcherOwns
<1>. QED
  BY <1>1, DispatchInvariant, PTL

\* However many processes execute Run, on whatever intents of an enrollment, at most one is
\* between the dispatch mark and the recorded outcome.
THEOREM FoundationOneDispatcher == Spec => []OneDispatcher
<1>1. DispatchInv => OneDispatcher
  <2>. SUFFICES ASSUME DispatchInv, NEW c \in Coordinators, NEW d \in Coordinators,
                       pc[c] \in Dispatched, pc[d] \in Dispatched,
                       EnrollmentOf[job[c]] = EnrollmentOf[job[d]]
                PROVE  c = d
    BY DEF OneDispatcher
  <2>1. DispatchInv /\ job[c] \in Intents /\ job[d] \in Intents
    BY DEF DispatchInv, WorkTypeOK
  <2>2. Owns(job[c]) /\ Owns(job[d])
    BY <2>1, HolderOwns
  <2>3. job[c] = job[d]
    BY <2>1, <2>2 DEF DispatchInv, JournalInv, SingleWriter
  <2>. QED
    BY <2>1, <2>3 DEF DispatchInv, OneHolder
<1>. QED
  BY <1>1, DispatchInvariant, PTL

\* The journal accounts for every effect of an intent: each was issued at most once, after
\* everything before it was acknowledged and issued.
LEMMA LedgerOrder ==
    ASSUME NEW i \in Intents, LedgerOK(i), NEW n \in EffectStep, Dsp(i, n) \in Dispatch
    PROVE  /\ \A m \in Step : m < n => Dsp(i, m) = "ACKNOWLEDGED"
           /\ \A m \in EffectStep : m < n => effects[i][m] = 1
<1>1. n \in Step /\ Dsp(i, n) # "NONE"
  BY EffectSteps DEF Dispatch
<1>2. \A m \in Step : m < n => Dsp(i, m) = "ACKNOWLEDGED"
  BY <1>1 DEF LedgerOK
<1>. QED
  BY <1>2, EffectSteps DEF LedgerOK

\* Admission is closed, the stop requested and the archive begun at most once each and in
\* order, for any number of coordinators, crashes and repeated Runs.
THEOREM FoundationEffectsOnceInOrder == Spec => []EffectsOnceInOrder
<1>1. DispatchInv => EffectsOnceInOrder
  <2>. SUFFICES ASSUME DispatchInv, NEW i \in Intents, NEW n \in EffectStep, effects[i][n] > 0
                PROVE  /\ effects[i][n] = 1
                       /\ \A m \in Step : m < n =>
                            operations[i].attempts[m].dispatch = "ACKNOWLEDGED"
                       /\ \A m \in EffectStep : m < n => effects[i][m] = 1
    BY DEF EffectsOnceInOrder
  <2>1. LedgerOK(i) /\ n \in Step
    BY EffectSteps DEF DispatchInv
  <2>2. effects[i][n] = 1 /\ Dsp(i, n) \in Dispatch
    BY SMT, <2>1 DEF LedgerOK
  <2>. QED
    BY <2>1, <2>2, LedgerOrder DEF Dsp
<1>. QED
  BY <1>1, DispatchInvariant, PTL

\* A revocation lets at most one effect of the intent finish, the one already marked.
THEOREM FoundationRevocation == Spec => []RevocationStopsDispatch
<1>1. DispatchInv => RevocationStopsDispatch
  <2>. SUFFICES ASSUME DispatchInv, NEW i \in Intents PROVE late[i] <= 1
    BY DEF RevocationStopsDispatch
  <2>1. LedgerOK(i)
    BY DEF DispatchInv
  <2>2. late[i] \in {0, 1}
    BY <2>1 DEF LedgerOK
  <2>. QED
    BY SMT, <2>2
<1>. QED
  BY <1>1, DispatchInvariant, PTL

-----------------------------------------------------------------------------
(* The status of an operation keeps up with its steps.                     *)

\* The operation has been claimed; it may be stopping Paper.
Claimed(i) == operations[i].status \in {"PREPARING", "EXECUTING"} \/ Blocked(i)
Executing(i) == operations[i].status = "EXECUTING" \/ Blocked(i)

\* What a coordinator past the claim, and one about to dispatch the stop, relies on.
CoordinatorOK(c) ==
    /\ pc[c] \notin {"idle", "claim"} => Claimed(job[c])
    /\ step[c] = StopStep =>
         /\ pc[c] \in {"observe", "mark"} => Executing(job[c])
         /\ pc[c] = "prepare" /\ seen[c].status # "PREPARING" => Executing(job[c])

OperationOK(i) ==
    /\ \A n \in Step : Dsp(i, n) # "NONE" => Claimed(i)
    /\ Dsp(i, StopStep) \in Dispatch => Executing(i)

StatusInv ==
    /\ \A c \in Coordinators : CoordinatorOK(c)
    /\ \A i \in Intents : OperationOK(i)

\* A status only moves forward.
Forward == \A i \in Intents : (Claimed(i) => Claimed(i)') /\ (Executing(i) => Executing(i)')

\* Every call of the journal moves the statuses forward: only a queued operation is aborted,
\* and only a queued one becomes PREPARING.
LEMMA StatusForward ==
    ASSUME JournalInv, [JournalNext]_journalVars
    PROVE  Forward
<1>. USE DEF Claimed, Executing, Blocked
<1>1. operations \in [Intents -> Operation] /\ JournalTypeOK
  BY DEF JournalInv, JournalTypeOK
<1>2. ASSUME NEW i \in Intents, NEW s,
             operations'[i].status = s,
             \A j \in Intents : j # i => operations'[j] = operations[j],
             \/ operations[i].status \notin {"PREPARING", "EXECUTING", "UNKNOWN", "NEEDS_INTERVENTION"}
             \/ s \in {"EXECUTING", "UNKNOWN", "NEEDS_INTERVENTION"}
             \/ s = operations[i].status
      PROVE  Forward
  BY <1>2 DEF Forward
<1>3. ASSUME UNCHANGED operations PROVE Forward
  BY <1>3 DEF Forward
<1>4. ASSUME NEW i \in Intents, ApproveIntent(i)
      PROVE  Forward
  <2>1. operations[i].status = "NONE"
    BY <1>4 DEF ApproveIntent, JournalInv, DecisionsAgree
  <2>2. /\ operations'[i].status = "QUEUED"
        /\ \A j \in Intents : j # i => operations'[j] = operations[j]
    BY <1>1, <1>4 DEF ApproveIntent, NoOperation
  <2>. QED
    BY <1>2, <2>1, <2>2
<1>5. ASSUME NEW i \in Intents, RevokeIntent(i)
      PROVE  Forward
  <2>1. CASE Abortable(i)
    <3>1. operations' = [operations EXCEPT ![i].status = "ABORTED", ![i].released = TRUE]
      BY <1>5, <2>1 DEF RevokeIntent
    <3>2. operations[i] \in Operation /\ operations[i].status = "QUEUED"
      BY <1>1, <2>1 DEF Abortable
    <3>3. /\ operations'[i].status = "ABORTED"
          /\ \A j \in Intents : j # i => operations'[j] = operations[j]
      BY <1>1, <3>1, <3>2 DEF Operation
    <3>. QED
      BY <1>2, <3>2, <3>3
  <2>2. CASE ~Abortable(i)
    BY <1>3, <1>5, <2>2 DEF RevokeIntent
  <2>. QED
    BY <2>1, <2>2
<1>6. ASSUME NEW i \in Intents, NEW to \in {"PREPARING", "EXECUTING"},
             TransitionOperation(i, to) \/ MarkUnknown(i)
      PROVE  Forward
  <2>1. operations[i] \in Operation
    BY <1>1
  <2>2. PICK s, r : operations' = [operations EXCEPT ![i].status = s, ![i].released = r]
                    /\ s \in {to, "UNKNOWN"} /\ CanTransitionOperation(operations[i].status, s)
    BY <1>6 DEF TransitionOperation, MarkUnknown
  <2>3. /\ operations'[i].status = s
        /\ \A j \in Intents : j # i => operations'[j] = operations[j]
    BY <1>1, <2>1, <2>2 DEF Operation
  <2>4. s = "PREPARING" => operations[i].status = "QUEUED"
    BY <2>2 DEF CanTransitionOperation
  <2>. QED
    BY <1>2, <2>2, <2>3, <2>4
<1>7. ASSUME NEW i \in Intents, NEW n \in Step,
             \/ PrepareStep(i, n) \/ MarkDispatchPossible(i, n) \/ CompleteBackup(i)
             \/ \E o \in Observation : RecordStepObservation(i, n, o.effect, o.attribution)
      PROVE  Forward
  <2>1. /\ operations[i] \in Operation /\ operations[i].attempts \in [Step -> Attempt]
        /\ BackupStep \in Step
    BY <1>1, EffectSteps DEF Operation
  <2>2. /\ operations'[i].status \in {operations[i].status, "UNKNOWN", "NEEDS_INTERVENTION"}
        /\ \A j \in Intents : j # i => operations'[j] = operations[j]
    <3>1. CASE PrepareStep(i, n)
      BY <1>1, <2>1, <3>1 DEF PrepareStep, Operation
    <3>2. CASE MarkDispatchPossible(i, n)
      BY <1>1, <2>1, <3>2 DEF MarkDispatchPossible, Operation
    <3>3. CASE CompleteBackup(i)
      BY <1>1, <2>1, <3>3 DEF CompleteBackup, Operation
    <3>4. ASSUME NEW e, NEW a, RecordStepObservation(i, n, e, a)
          PROVE  /\ operations'[i].status \in {operations[i].status, "UNKNOWN", "NEEDS_INTERVENTION"}
                 /\ \A j \in Intents : j # i => operations'[j] = operations[j]
      <4>1. PICK x, st : /\ operations' = [operations EXCEPT ![i].status = st, ![i].attempts[n] = x]
                         /\ st \in {operations[i].status, "UNKNOWN", "NEEDS_INTERVENTION"}
        BY <3>4 DEF RecordStepObservation, StatusAfter
      <4>. QED
        BY <1>1, <2>1, <4>1 DEF Operation
    <3>. QED
      BY <1>7, <3>1, <3>2, <3>3, <3>4
  <2>. QED
    BY <1>2, <2>2
<1>8. CASE UNCHANGED journalVars
  BY <1>3, <1>8 DEF journalVars
<1>9. ASSUME NEW i \in Intents,
             \/ PutIntent(i) \/ RejectIntent(i) \/ ReserveBackup(i)
             \/ \E to \in {"WRITING", "FINALIZING", "VERIFYING", "ORPHANED"} :
                  TransitionBackupStatus(i, to)
      PROVE  Forward
  BY <1>3, <1>9 DEF PutIntent, RejectIntent, ReserveBackup, TransitionBackupStatus
<1>10. CASE Tick
  BY <1>3, <1>10 DEF Tick
<1>11. 0 \in Step
  BY EffectSteps
<1>. QED
  BY <1>4, <1>5, <1>6, <1>7, <1>8, <1>9, <1>10, <1>11 DEF JournalNext

\* A step of coordinator c alone: the others keep what they rely on.
LEMMA OthersKeep ==
    ASSUME DispatchInv, StatusInv, Forward, NEW c \in Coordinators, CoordinatorOK(c)',
           \A d \in Coordinators : d # c => /\ pc'[d] = pc[d] /\ job'[d] = job[d]
                                            /\ step'[d] = step[d] /\ seen'[d] = seen[d]
    PROVE  \A d \in Coordinators : CoordinatorOK(d)'
<1>. SUFFICES ASSUME NEW d \in Coordinators, d # c PROVE CoordinatorOK(d)'
  OBVIOUS
<1>1. CoordinatorOK(d) /\ job[d] \in Intents
  BY DEF StatusInv, DispatchInv, WorkTypeOK
<1>2. pc'[d] = pc[d] /\ job'[d] = job[d] /\ step'[d] = step[d] /\ seen'[d] = seen[d]
  OBVIOUS
<1>3. /\ Claimed(job[d]) => Claimed(job[d])'
      /\ Executing(job[d]) => Executing(job[d])'
  <2>1. PICK i \in Intents : i = job[d]
    BY <1>1
  <2>2. (Claimed(i) => Claimed(i)') /\ (Executing(i) => Executing(i)')
    BY DEF Forward
  <2>. QED
    BY <1>2, <2>1, <2>2 DEF Claimed, Executing, Blocked
<1>. QED
  BY <1>1, <1>2, <1>3 DEF CoordinatorOK

\* No attempt is added and none is marked.
NoNewDispatch ==
    \A j \in Intents, m \in Step :
        /\ Dsp(j, m)' # "NONE" => Dsp(j, m) # "NONE"
        /\ Dsp(j, m)' \in Dispatch => Dsp(j, m) \in Dispatch

\* Only PrepareStep adds an attempt and only MarkDispatchPossible marks one.
LEMMA OldDispatch ==
    ASSUME JournalInv,
           \/ UNCHANGED operations
           \/ \E i \in Intents :
                \/ ApproveIntent(i) \/ RejectIntent(i) \/ RevokeIntent(i)
                \/ (\E to : TransitionOperation(i, to)) \/ MarkUnknown(i) \/ CompleteBackup(i)
                \/ \E n \in Step : \E e, a : RecordStepObservation(i, n, e, a)
    PROVE  NoNewDispatch
<1>1. JournalTypeOK
  BY DEF JournalInv
<1>2. CASE UNCHANGED operations
  BY <1>2 DEF NoNewDispatch, Dsp
<1>3. ASSUME NEW i \in Intents, ApproveIntent(i) \/ RejectIntent(i) \/ RevokeIntent(i)
      PROVE  NoNewDispatch
  BY <1>3, DecideFacts DEF SameDispatch, NoNewDispatch
<1>4. ASSUME NEW i \in Intents, NEW to, TransitionOperation(i, to) \/ MarkUnknown(i)
      PROVE  NoNewDispatch
  BY <1>1, <1>4, TransitionFacts DEF NoNewDispatch, Dsp
<1>5. ASSUME NEW i \in Intents, CompleteBackup(i)
      PROVE  NoNewDispatch
  <2>1. DispatchOnly(i, BackupStep) /\ Dsp(i, BackupStep) = "DISPATCH_POSSIBLE"
    BY <1>1, <1>5, CompleteFacts
  <2>. QED
    BY <2>1 DEF DispatchOnly, NoNewDispatch, Dispatch
<1>6. ASSUME NEW i \in Intents, NEW n \in Step, NEW e, NEW a, RecordStepObservation(i, n, e, a)
      PROVE  NoNewDispatch
  <2>1. DispatchOnly(i, n) /\ Dsp(i, n) \in Dispatch
    BY <1>1, <1>6, RecordFacts
  <2>. QED
    BY <2>1 DEF DispatchOnly, NoNewDispatch, Dispatch
<1>. QED
  BY <1>2, <1>3, <1>4, <1>5, <1>6

\* A step that adds and marks no attempt.
LEMMA OperationsKeep ==
    ASSUME StatusInv, Forward, NoNewDispatch
    PROVE  \A i \in Intents : OperationOK(i)'
<1>. SUFFICES ASSUME NEW i \in Intents PROVE OperationOK(i)'
  OBVIOUS
<1>1. OperationOK(i) /\ StopStep \in Step
  BY EffectSteps DEF StatusInv
<1>2. (Claimed(i) => Claimed(i)') /\ (Executing(i) => Executing(i)')
  BY DEF Forward
<1>. QED
  BY <1>1, <1>2 DEF OperationOK, NoNewDispatch

\* Coordinator c takes a step of its own.
Alone(c) ==
    \A d \in Coordinators : d # c => /\ pc'[d] = pc[d] /\ job'[d] = job[d]
                                     /\ step'[d] = step[d] /\ seen'[d] = seen[d]

\* The three ways to go on.
LEMMA LocalSteps ==
    ASSUME WorkTypeOK, NEW c \in Coordinators
    PROVE  /\ \A l : Goto(c, l) => /\ Alone(c) /\ Stays(c)
                                   /\ pc'[c] = l /\ seen'[c] = seen[c]
           /\ Return(c) => Alone(c) /\ pc'[c] = "idle"
           /\ Advance(c) => Alone(c) /\ job'[c] = job[c] /\ pc'[c] \in {"loop", "inspect"}
BY DEF WorkTypeOK, Alone, Stays, Goto, Return, Advance

\* Steps after which the coordinator relies on nothing new.
Plain(c) ==
    \/ Mark(c) \/ CloseAdmission(c) \/ WaitMaintenance(c) \/ DispatchGracefulStop(c)
    \/ StopAnswer(c) \/ WaitStopped(c) \/ Create(c) \/ Failed(c) \/ RecordExpected(c)
    \/ RecordOther(c) \/ RecordUnattributed(c) \/ RecordMarkUnknown(c) \/ RecordUnknown(c)
    \/ Inspect(c) \/ Refused(c) \/ AcceptBackup(c) \/ AcceptOperation(c) \/ WriteEvidence(c)
    \/ Crash(c)

LEMMA PlainSteps ==
    ASSUME WorkTypeOK, NEW c \in Coordinators, Plain(c)
    PROVE  /\ Alone(c)
           /\ \/ pc'[c] = "idle"
              \/ /\ job'[c] = job[c]
                 /\ pc[c] \notin {"idle", "claim"}
                 /\ pc'[c] \notin {"prepare", "observe", "mark"}
<1>1. \/ Return(c)
      \/ Advance(c) /\ pc[c] \notin {"idle", "claim"}
      \/ \E l : Goto(c, l) /\ pc[c] \notin {"idle", "claim"} /\ l \notin {"prepare", "observe", "mark"}
      \/ Open(c)
  <2>1. CASE Check(c) \/ Reserve(c) \/ Read(c) \/ Rename(c) \/ Recheck(c) \/ CreateError(c)
    <3>1. PICK l \in Creating : Goto(c, l) /\ pc[c] \in Creating
      BY <2>1 DEF Check, Reserve, Read, Rename, Recheck, CreateError, Creating
    <3>. QED
      BY <3>1 DEF Creating
  <2>2. CASE \/ AnnounceAs(c, "write", "WRITING", "open")
             \/ AnnounceAs(c, "finalize", "FINALIZING", "rename")
             \/ AnnounceAs(c, "verify", "VERIFYING", "recheck")
    <3>1. PICK l \in Creating : Goto(c, l) /\ pc[c] \in Creating
      BY <2>2 DEF AnnounceAs, Creating
    <3>. QED
      BY <3>1 DEF Creating
  <2>3. CASE Complete(c)
    <3>1. pc[c] = "complete" /\ (Advance(c) \/ \E l \in {"failed"} : Goto(c, l))
      BY <2>3 DEF Complete
    <3>. QED
      BY <3>1
  <2>4. CASE Mark(c)
    <3>1. PICK l \in {"check", "effect", "record"} : Goto(c, l) /\ pc[c] = "mark"
      BY <2>4 DEF Mark
    <3>. QED
      BY <3>1
  <2>5. CASE CloseAdmission(c) \/ WaitMaintenance(c) \/ DispatchGracefulStop(c)
    <3>1. PICK l \in {"maintenance", "stopping", "record", "unknown"} :
            Goto(c, l) /\ pc[c] \in {"effect", "maintenance"}
      BY <2>5 DEF CloseAdmission, WaitMaintenance, DispatchGracefulStop
    <3>. QED
      BY <3>1
  <2>6. CASE StopAnswer(c) \/ WaitStopped(c)
    <3>1. PICK l \in {"stopped", "other", "unattributed", "record", "unknown"} :
            Goto(c, l) /\ pc[c] \in {"stopping", "stopped"}
      BY <2>6 DEF StopAnswer, WaitStopped
    <3>. QED
      BY <3>1
  <2>7. CASE Failed(c) \/ Inspect(c)
    <3>1. Return(c) \/ (pc[c] \in {"failed", "inspect"} /\ \E l \in {"unknown", "accept"} : Goto(c, l))
      BY <2>7 DEF Failed, Inspect
    <3>. QED
      BY <3>1
  <2>8. CASE RecordUnattributed(c) \/ AcceptBackup(c) \/ AcceptOperation(c)
    <3>1. PICK l \in {"markUnknown", "reread", "publish"} :
            Goto(c, l) /\ pc[c] \in {"unattributed", "accept", "reread"}
      BY <2>8 DEF RecordUnattributed, AcceptBackup, AcceptOperation
    <3>. QED
      BY <3>1
  <2>9. CASE RecordExpected(c)
    BY <2>9 DEF RecordExpected
  <2>10. CASE \/ RecordOther(c) \/ RecordMarkUnknown(c) \/ RecordUnknown(c) \/ Refused(c)
              \/ WriteEvidence(c) \/ Crash(c)
    BY <2>10 DEF RecordOther, RecordMarkUnknown, RecordUnknown, Refused, WriteEvidence, Crash
  <2>. QED
    BY <2>1, <2>2, <2>3, <2>4, <2>5, <2>6, <2>7, <2>8, <2>9, <2>10 DEF Plain, Create
<1>2. CASE Open(c)
  BY <1>2 DEF Open, Alone, WorkTypeOK
<1>. QED
  BY <1>1, <1>2, LocalSteps DEF Stays

\* What coordinator c relies on after its step.
LEMMA CoordinatorSteps ==
    ASSUME DispatchInv, StatusInv, Forward, NEW c \in Coordinators,
           Coordinate(c) \/ Crash(c) \/ (\E i \in Intents : Start(c, i))
    PROVE  Alone(c) /\ CoordinatorOK(c)'
<1>1. /\ WorkTypeOK /\ JournalTypeOK /\ CoordinatorOK(c) /\ job[c] \in Intents /\ step[c] \in Step
      /\ operations \in [Intents -> Operation] /\ operations[job[c]] \in Operation
  BY DEF DispatchInv, StatusInv, WorkTypeOK, JournalInv, JournalTypeOK
<1>2. ASSUME job'[c] = job[c]
      PROVE  /\ Claimed(job[c]) => Claimed(job[c])'
             /\ Executing(job[c]) => Executing(job[c])'
  <2>1. PICK i \in Intents : i = job[c]
    BY <1>1
  <2>2. (Claimed(i) => Claimed(i)') /\ (Executing(i) => Executing(i)')
    BY DEF Forward
  <2>. QED
    BY <1>2, <2>1, <2>2 DEF Claimed, Executing, Blocked
<1>3. CASE Plain(c)
  BY <1>1, <1>2, <1>3, PlainSteps DEF CoordinatorOK
<1>4. CASE Claim(c)
  <2>1. /\ Alone(c) /\ pc'[c] = "loop" /\ job'[c] = job[c]
        /\ TransitionOperation(job[c], "PREPARING")
    BY <1>1, <1>4, LocalSteps DEF Claim, Stays
  <2>2. operations'[job[c]].status = "PREPARING"
    BY <1>1, <2>1 DEF TransitionOperation, Operation
  <2>. QED
    BY <2>1, <2>2 DEF CoordinatorOK, Claimed
<1>5. CASE Execute(c)
  <2>1. /\ Alone(c) /\ pc'[c] = "observe" /\ job'[c] = job[c]
        /\ TransitionOperation(job[c], "EXECUTING")
    BY <1>1, <1>5, LocalSteps DEF Execute, Stays
  <2>2. operations'[job[c]].status = "EXECUTING"
    BY <1>1, <2>1 DEF TransitionOperation, Operation
  <2>. QED
    BY <2>1, <2>2 DEF CoordinatorOK, Claimed, Executing
<1>6. CASE Observe(c)
  <2>1. Alone(c) /\ pc[c] = "observe" /\ pc'[c] = "mark" /\ Stays(c)
    BY <1>1, <1>6, LocalSteps DEF Observe
  <2>. QED
    BY <1>1, <1>2, <2>1 DEF CoordinatorOK, Stays
<1>7. StopStep # 0
  BY SMT, JournalAssumption, FoundationAssumption DEF StopStep
<1>8. CASE Prepare(c)
  <2>1. /\ Alone(c) /\ Stays(c) /\ pc[c] = "prepare"
        /\ pc'[c] = AfterPrepare(step[c], seen[c].status)
    BY <1>1, <1>8, LocalSteps DEF Prepare
  <2>2. /\ pc'[c] # "prepare"
        /\ step[c] = StopStep /\ pc'[c] \in {"observe", "mark"} => seen[c].status # "PREPARING"
    BY <1>7, <2>1 DEF AfterPrepare
  <2>. QED
    BY <1>1, <1>2, <2>1, <2>2 DEF CoordinatorOK, Stays
<1>9. CASE Loop(c)
  <2>. DEFINE op == operations[job[c]]
              l == AfterRead(op.attempts[step[c]], step[c], op.status)
  <2>1. pc[c] = "loop" /\ Claimed(job[c]) /\ UNCHANGED journalVars
    BY <1>1, <1>9 DEF Loop, CoordinatorOK
  <2>2. CASE Return(c) \/ Advance(c)
    BY <1>1, <1>2, <2>1, <2>2, LocalSteps DEF CoordinatorOK
  <2>3. CASE /\ op.status \notin {"UNKNOWN", "NEEDS_INTERVENTION"}
             /\ pc' = [pc EXCEPT ![c] = l]
             /\ seen' = [seen EXCEPT ![c] = op]
             /\ UNCHANGED <<job, step, readFrom>>
    <3>1. op.status \in {"PREPARING", "EXECUTING"}
      BY <2>1, <2>3 DEF Claimed, Blocked
    <3>2. step[c] = StopStep /\ l \in {"observe", "mark"} => op.status = "EXECUTING"
      BY <1>7, <3>1 DEF AfterRead, AfterPrepare
    <3>. HIDE DEF l
    <3>3. pc'[c] = l /\ seen'[c] = op /\ job'[c] = job[c] /\ step'[c] = step[c] /\ Alone(c)
      BY <1>1, <2>3 DEF WorkTypeOK, Alone
    <3>4. operations'[job[c]].status = op.status
      BY <2>1 DEF journalVars
    <3>. QED
      BY <3>1, <3>2, <3>3, <3>4 DEF CoordinatorOK, Claimed, Executing
  <2>. QED
    BY <1>9, <2>2, <2>3 DEF Loop
<1>10. ASSUME NEW i \in Intents, Start(c, i)
       PROVE  Alone(c) /\ CoordinatorOK(c)'
  <2>1. /\ Alone(c) /\ job'[c] = i /\ UNCHANGED journalVars
        /\ pc'[c] = IF operations[i].status = "QUEUED" THEN "claim" ELSE "loop"
        /\ operations[i].status \in {"QUEUED", "PREPARING", "EXECUTING"}
    BY <1>1, <1>10 DEF Start, MayStart, WorkTypeOK, Alone
  <2>. QED
    BY <2>1 DEF CoordinatorOK, Claimed, journalVars
<1>. QED
  BY <1>3, <1>4, <1>5, <1>6, <1>8, <1>9, <1>10 DEF Coordinate, Plain

\* What is known of the operations after a step of coordinator c.
LEMMA OperationSteps ==
    ASSUME DispatchInv, StatusInv, Forward, NEW c \in Coordinators,
           Coordinate(c) \/ Crash(c) \/ (\E i \in Intents : Start(c, i))
    PROVE  \A i \in Intents : OperationOK(i)'
<1>1. /\ JournalTypeOK /\ JournalInv /\ CoordinatorOK(c)
      /\ StopStep \in Step /\ BackupStep \in Step
  BY EffectSteps DEF DispatchInv, StatusInv, JournalInv
<1>2. PICK i \in Intents, n \in Step : i = job[c] /\ n = step[c]
  BY DEF DispatchInv, WorkTypeOK
<1>3. ASSUME NEW j \in Intents
      PROVE  OperationOK(j) /\ (Claimed(j) => Claimed(j)') /\ (Executing(j) => Executing(j)')
  BY DEF StatusInv, Forward
<1>4. CASE Prepare(c)
  <2>1. PrepareStep(i, n) /\ Claimed(i)
    BY <1>1, <1>2, <1>4 DEF Prepare, CoordinatorOK
  <2>2. DispatchOnly(i, n) /\ Dsp(i, n)' = "NOT_DISPATCHED"
    BY <1>1, <2>1, PrepareFacts
  <2>3. ASSUME NEW j \in Intents
        PROVE  OperationOK(j)'
    BY <1>1, <1>3, <2>1, <2>2 DEF OperationOK, DispatchOnly, Dispatch
  <2>. QED
    BY <2>3
<1>5. CASE Mark(c)
  <2>1. MarkDispatchPossible(i, n) /\ (n = StopStep => Executing(i))
    BY <1>1, <1>2, <1>5 DEF Mark, CoordinatorOK
  <2>2. DispatchOnly(i, n) /\ Dsp(i, n) = "NOT_DISPATCHED"
    BY <1>1, <2>1, MarkFacts
  <2>3. ASSUME NEW j \in Intents
        PROVE  OperationOK(j)'
    BY <1>1, <1>3, <2>1, <2>2 DEF OperationOK, DispatchOnly, Dispatch
  <2>. QED
    BY <2>3
<1>6. CASE ~Prepare(c) /\ ~Mark(c)
  <2>1. \/ UNCHANGED operations
        \/ \E to : TransitionOperation(i, to)
        \/ MarkUnknown(i) \/ CompleteBackup(i)
        \/ \E e, a : RecordStepObservation(i, n, e, a)
    <3>1. CASE \/ Claim(c) \/ Execute(c) \/ RecordExpected(c) \/ RecordOther(c)
               \/ RecordUnattributed(c) \/ RecordMarkUnknown(c) \/ RecordUnknown(c)
      BY <1>2, <3>1 DEF Claim, Execute, RecordExpected, RecordOther, RecordUnattributed,
                        RecordMarkUnknown, RecordUnknown
    <3>2. CASE Create(c)
      BY <1>2, <3>2 DEF Create, Check, Reserve, AnnounceAs, Open, Read, Rename, Recheck, Complete,
                        CreateError, ReserveBackup, TransitionBackupStatus, journalVars
    <3>3. CASE \/ Loop(c) \/ Observe(c) \/ CloseAdmission(c) \/ WaitMaintenance(c)
               \/ DispatchGracefulStop(c) \/ StopAnswer(c) \/ WaitStopped(c) \/ Failed(c)
      BY <3>3 DEF Loop, Observe, CloseAdmission, WaitMaintenance, DispatchGracefulStop,
                  StopAnswer, WaitStopped, Failed, journalVars
    <3>4. CASE \/ Inspect(c) \/ Refused(c) \/ AcceptBackup(c) \/ AcceptOperation(c)
               \/ WriteEvidence(c) \/ Crash(c) \/ (\E j \in Intents : Start(c, j))
      BY <3>4 DEF Inspect, TransitionBackupStatus, Refused, AcceptBackup, AcceptOperation,
                  WriteEvidence, Crash, Start, journalVars
    <3>. QED
      BY <1>6, <3>1, <3>2, <3>3, <3>4 DEF Coordinate
  <2>2. NoNewDispatch
    BY <1>1, <2>1, OldDispatch
  <2>. QED
    BY <2>2, OperationsKeep
<1>. QED
  BY <1>4, <1>5, <1>6

\* Every step keeps the statuses in step.
LEMMA StatusNext ==
    ASSUME DispatchInv, StatusInv, [Next]_vars
    PROVE  StatusInv'
<1>1. Forward /\ JournalInv
  BY DispatchNext, StatusForward DEF DispatchInv
<1>2. ASSUME NEW c \in Coordinators,
             Coordinate(c) \/ Crash(c) \/ (\E i \in Intents : Start(c, i))
      PROVE  StatusInv'
  <2>1. Alone(c) /\ CoordinatorOK(c)'
    BY <1>1, <1>2, CoordinatorSteps
  <2>2. \A d \in Coordinators : CoordinatorOK(d)'
    BY <1>1, <2>1, OthersKeep DEF Alone
  <2>. QED
    BY <1>1, <1>2, <2>2, OperationSteps DEF StatusInv
<1>3. ASSUME UNCHANGED workVars, NoNewDispatch
      PROVE  StatusInv'
  <2>1. ASSUME NEW d \in Coordinators
        PROVE  CoordinatorOK(d)'
    <3>1. CoordinatorOK(d) /\ job[d] \in Intents
      BY DEF StatusInv, DispatchInv, WorkTypeOK
    <3>2. pc'[d] = pc[d] /\ job'[d] = job[d] /\ step'[d] = step[d] /\ seen'[d] = seen[d]
      BY <1>3 DEF workVars
    <3>3. PICK i \in Intents : i = job[d]
      BY <3>1
    <3>4. (Claimed(i) => Claimed(i)') /\ (Executing(i) => Executing(i)')
      BY <1>1 DEF Forward
    <3>5. /\ Claimed(job[d]) => Claimed(job[d])'
          /\ Executing(job[d]) => Executing(job[d])'
      BY <3>2, <3>3, <3>4 DEF Claimed, Executing, Blocked
    <3>. QED
      BY <3>1, <3>2, <3>5 DEF CoordinatorOK
  <2>. QED
    BY <1>1, <1>3, <2>1, OperationsKeep DEF StatusInv
<1>4. CASE Environment \/ UNCHANGED vars
  <2>1. UNCHANGED workVars
    BY <1>4 DEF Environment, Propose, Decide, vars
  <2>2. \/ UNCHANGED operations
        \/ \E i \in Intents : ApproveIntent(i) \/ RejectIntent(i) \/ RevokeIntent(i)
    BY <1>4 DEF Environment, Propose, PutIntent, Decide, Tick, vars, journalVars
  <2>3. NoNewDispatch
    BY <1>1, <2>2, OldDispatch
  <2>. QED
    BY <1>3, <2>1, <2>3
<1>. QED
  BY <1>2, <1>4 DEF Next

\* The status of an operation keeps up with its steps, for any number of coordinators and
\* whatever is interrupted between PrepareStep, the change of status and the dispatch mark.
THEOREM FoundationStatusFollowsSteps == Spec => []StatusFollowsSteps
<1>1. Init => StatusInv
  <2>. SUFFICES ASSUME Init PROVE StatusInv
    OBVIOUS
  <2>1. \A i \in Intents, n \in Step : Dsp(i, n) = "NONE"
    BY DEF Init, JournalInit, NoOperation, NoAttempt, Dsp
  <2>2. \A c \in Coordinators : pc[c] = "idle"
    BY DEF Init
  <2>. QED
    BY <2>1, <2>2, EffectSteps DEF StatusInv, CoordinatorOK, OperationOK, Dispatch
<1>2. DispatchInv /\ StatusInv /\ [Next]_vars => StatusInv'
  BY StatusNext
<1>3. StatusInv => StatusFollowsSteps
  BY EffectSteps DEF StatusInv, OperationOK, StatusFollowsSteps, Claimed, Executing, Dsp, Present,
                     CanRecord, Dispatch
<1>. QED
  BY <1>1, <1>2, <1>3, DispatchInvariant, PTL DEF Spec
=============================================================================
