---------------------------- MODULE LegacyRunner ----------------------------
(***************************************************************************)
(* The Python concept runner (guarded_agent_runner/): runs of the fixed    *)
(* diagnose-and-restart plan against service-a of the demo sandbox, exact  *)
(* approvals, resume revalidation, and the supervisor that executes.       *)
(* compile_scope lets a restart of nginx run without approval, but the     *)
(* sandbox has only service-a, where it needs one.  A coroutine holds the  *)
(* lock of its run from the call to the answer; coroutines of different    *)
(* runs interleave at every await.  Between two saves of one coroutine the *)
(* process may die: the database keeps the first save.                     *)
(*                                                                         *)
(* The status of a single ToolCall, the audit trail and the scope and      *)
(* binding hashes are left out: no decision modelled here reads the first  *)
(* two, and no action changes what the hashes cover.                       *)
(***************************************************************************)
EXTENDS Integers, Sequences, FiniteSets

CONSTANTS
    Runs,            \* runs, all of them against the same service
    RunTtl,          \* run_ttl_seconds
    ApprovalTtl,     \* approval_ttl_seconds
    MaxNow,          \* bound on the clock
    MaxGeneration,   \* bound on the restarts of the worker process
    MaxApprovals,    \* bound on the approvals requested for one run
    MaxCrashes       \* bound on the restarts of the runner's process

ASSUME LegacyAssumption ==
    /\ IsFiniteSet(Runs)
    /\ {RunTtl, ApprovalTtl, MaxNow, MaxGeneration, MaxApprovals, MaxCrashes} \subseteq Nat

VARIABLES
    now,
    crashes,
    service,      \* what /status answers: health and generation (with it the PID)
    run,          \* the runs table
    approvals,    \* the approvals table, per run in order of created_at
    pc,           \* where the coroutine that holds the run's lock is
    looping,      \* the coroutine goes on after its action (_resume_after_approval)
    request,      \* the restart request whose answer the coroutine awaits
    abandoned,    \* restart requests on their way whose caller is gone
    dispatched    \* history: restarts handed to the executor

sandbox == <<service, abandoned>>
vars == <<now, crashes, sandbox, run, approvals, pc, looping, request, dispatched>>

Plan == <<"diagnose", "logs", "restart", "verify">>
Observed == [healthy : BOOLEAN, generation : 0..MaxGeneration]
RunStatus == {"NONE", "CREATED", "PLANNED", "RUNNING", "WAITING_APPROVAL", "APPROVED",
              "REJECTED", "COMPLETED", "FAILED", "STALE", "EXPIRED"}
Decision == {"APPROVED", "REJECTED", "EXPIRED"}
Approval == [status : {"PENDING"} \cup Decision, expires : 0..(MaxNow + ApprovalTtl)]
RunRecord == [status : RunStatus, step : 1..(Len(Plan) + 1), expires : 0..(MaxNow + RunTtl),
              seen : Observed, evidence : BOOLEAN]
Location == {"idle", "planning", "advance", "requesting", "observing", "exec"} \cup Decision

\* ALLOWED_TRANSITIONS; nothing asks for CANCELLED, and NONE is no row yet.
AllowedTransitions ==
    [NONE |-> {}, CREATED |-> {"PLANNED", "FAILED"},
     PLANNED |-> {"RUNNING", "FAILED", "EXPIRED"},
     RUNNING |-> {"WAITING_APPROVAL", "COMPLETED", "FAILED", "EXPIRED"},
     WAITING_APPROVAL |-> {"APPROVED", "REJECTED", "FAILED", "EXPIRED"},
     APPROVED |-> {"RUNNING", "FAILED", "STALE", "EXPIRED"},
     REJECTED |-> {}, COMPLETED |-> {}, FAILED |-> {}, STALE |-> {}, EXPIRED |-> {}]

\* The type of the runner's tables and coroutines; a run has a pending action
\* until it is COMPLETED, so the branches of _advance, _execute and
\* _resume_after_approval for a missing action are never taken, and a coroutine's
\* run keeps the status that its next transition_run needs.
RunnerTypeOK ==
    /\ now \in 0..MaxNow
    /\ crashes \in 0..MaxCrashes
    /\ service \in Observed
    /\ run \in [Runs -> RunRecord]
    /\ approvals \in [Runs -> Seq(Approval)]
    /\ \A r \in Runs : /\ run[r].step > Len(Plan) => run[r].status = "COMPLETED"
                       /\ Len(approvals[r]) <= MaxApprovals
    /\ pc \in [Runs -> Location]
    /\ looping \in [Runs -> BOOLEAN]
    /\ \A r \in Runs : /\ pc[r] = "planning" => run[r].status = "CREATED"
                       /\ pc[r] \in {"advance", "requesting", "exec"} => run[r].status = "RUNNING"
                       /\ pc[r] = "observing" => run[r].status = "APPROVED"
                       /\ pc[r] \in Decision => run[r].status = "WAITING_APPROVAL"
    /\ request \in [Runs -> {"none", "sent", "landed"}]
    /\ abandoned \in Nat
    /\ dispatched \in [Runs -> 0..MaxApprovals]

\* The supervisor has started the worker unhealthy.
Init ==
    /\ now = 0
    /\ crashes = 0
    /\ service = [healthy |-> FALSE, generation |-> 0]
    /\ run = [r \in Runs |-> [status |-> "NONE", step |-> 1, expires |-> 0,
                              seen |-> [healthy |-> FALSE, generation |-> 0],
                              evidence |-> FALSE]]
    /\ approvals = [r \in Runs |-> <<>>]
    /\ pc = [r \in Runs |-> "idle"]
    /\ looping = [r \in Runs |-> FALSE]
    /\ request = [r \in Runs |-> "none"]
    /\ abandoned = 0
    /\ dispatched = [r \in Runs |-> 0]

-----------------------------------------------------------------------------

\* transition_run, which raises if the table does not allow it, and save_run.
Save(r, status) ==
    /\ status \in AllowedTransitions[run[r].status]
    /\ run' = [run EXCEPT ![r].status = status]

Goto(r, l) == pc' = [pc EXCEPT ![r] = l]

\* The coroutine answers its caller and releases the lock.
Answer(r) == Goto(r, "idle") /\ looping' = [looping EXCEPT ![r] = FALSE]

Latest(r) == approvals[r][Len(approvals[r])]

Pending(r) == Plan[run[r].step]

CreateRun(r) ==
    /\ run[r].status = "NONE"
    /\ run' = [run EXCEPT ![r].status = "CREATED", ![r].expires = now + RunTtl]
    /\ Goto(r, "planning")
    /\ UNCHANGED <<now, crashes, sandbox, approvals, looping, request, dispatched>>

\* The second save of create_run.
PlanRun(r) ==
    /\ pc[r] = "planning"
    /\ Save(r, "PLANNED")
    /\ Answer(r)
    /\ UNCHANGED <<now, crashes, sandbox, approvals, request, dispatched>>

\* step: every other status raises before anything is saved, CREATED included.
Step(r) ==
    /\ pc[r] = "idle"
    /\ run[r].status \in {"PLANNED", "RUNNING"}
    /\ IF now >= run[r].expires
       THEN Save(r, "EXPIRED") /\ UNCHANGED pc
       ELSE /\ Goto(r, "advance")
            /\ IF run[r].status = "PLANNED" THEN Save(r, "RUNNING") ELSE UNCHANGED run
    /\ UNCHANGED <<now, crashes, sandbox, approvals, looping, request, dispatched>>

-----------------------------------------------------------------------------
(* _advance: one of the following, from the same point of the coroutine.   *)

Skips(r) == Pending(r) = "restart" /\ run[r].seen.healthy /\ ~run[r].evidence

\* Variant: an approval of this run that was granted once covers a later restart.
NeedsApprovalOnce(r) ==
    /\ Pending(r) = "restart"
    /\ \A k \in DOMAIN approvals[r] : approvals[r][k].status # "APPROVED"

\* compile_scope requires approval for restart_service of service-a only.
NeedsApproval(r) == Pending(r) = "restart"

\* Diagnostics show a healthy service: the restart is skipped.
Skip(r) ==
    /\ pc[r] = "advance"
    /\ Skips(r)
    /\ run' = [run EXCEPT ![r].step = @ + 1]
    /\ Answer(r)
    /\ UNCHANGED <<now, crashes, sandbox, approvals, request, dispatched>>

\* safe_evaluate denies, because the policy engine failed.
Deny(r) ==
    /\ pc[r] = "advance"
    /\ ~Skips(r)
    /\ Save(r, "FAILED")
    /\ Answer(r)
    /\ UNCHANGED <<now, crashes, sandbox, approvals, request, dispatched>>

\* create_approval and save_approval; an approval never outlives its run.
RequestApproval(r) ==
    /\ pc[r] = "advance"
    /\ ~Skips(r)
    /\ NeedsApproval(r)
    /\ Len(approvals[r]) < MaxApprovals
    /\ LET ends == IF now + ApprovalTtl > run[r].expires THEN run[r].expires
                                                          ELSE now + ApprovalTtl
       IN  approvals' = [approvals EXCEPT ![r] =
                            Append(@, [status |-> "PENDING", expires |-> ends])]
    /\ Goto(r, "requesting")
    /\ UNCHANGED <<now, crashes, sandbox, run, looping, request, dispatched>>

\* The save_run that follows.
Wait(r) ==
    /\ pc[r] = "requesting"
    /\ Save(r, "WAITING_APPROVAL")
    /\ Answer(r)
    /\ UNCHANGED <<now, crashes, sandbox, approvals, request, dispatched>>

\* _execute up to the await of the executor; a token is made for this call only.
Dispatch(r) ==
    /\ Goto(r, "exec")
    /\ IF Pending(r) = "restart"
       THEN /\ request' = [request EXCEPT ![r] = "sent"]
            /\ dispatched' = [dispatched EXCEPT ![r] = @ + 1]
       ELSE UNCHANGED <<request, dispatched>>

Execute(r) ==
    /\ pc[r] = "advance"
    /\ ~Skips(r)
    /\ ~NeedsApproval(r)
    /\ Dispatch(r)
    /\ UNCHANGED <<now, crashes, sandbox, run, approvals, looping>>

\* GuardedExecutor.execute has an answer: a restart is answered when it is over.
Answered(r) == Pending(r) = "restart" => request[r] = "landed"

\* Variant: the run is completed by the step after its last action.
SucceedLate(r) ==
    /\ pc[r] = "exec"
    /\ Answered(r)
    /\ run' = [run EXCEPT ![r].step = @ + 1,
                          ![r].seen = IF Pending(r) = "diagnose" THEN service ELSE @]
    /\ request' = [request EXCEPT ![r] = "none"]
    /\ Answer(r)
    /\ UNCHANGED <<now, crashes, sandbox, approvals, dispatched>>

\* The executor answers; what the answer says is the service's state at that time.
Succeed(r) ==
    /\ pc[r] = "exec"
    /\ Answered(r)
    /\ run[r].step = Len(Plan) => "COMPLETED" \in AllowedTransitions[run[r].status]
    /\ \E bad \in BOOLEAN :
         run' = [run EXCEPT ![r].step = @ + 1,
                            ![r].status = IF run[r].step = Len(Plan) THEN "COMPLETED" ELSE @,
                            ![r].seen = IF Pending(r) = "diagnose" THEN service ELSE @,
                            ![r].evidence = IF Pending(r) = "logs" THEN bad ELSE @]
    /\ request' = [request EXCEPT ![r] = "none"]
    /\ IF looping[r] /\ run[r].step < Len(Plan)
       THEN Goto(r, "advance") /\ UNCHANGED looping
       ELSE Answer(r)
    /\ UNCHANGED <<now, crashes, sandbox, approvals, dispatched>>

\* Nobody awaits the restarts any more that the runs in gone have sent, and nobody
\* calls them back.
Abandon(gone) ==
    /\ abandoned' = abandoned + Cardinality({r \in gone : request[r] = "sent"})
    /\ request' = [r \in Runs |-> IF r \in gone THEN "none" ELSE request[r]]

\* The call fails or times out.
Fail(r) ==
    /\ pc[r] = "exec"
    /\ Save(r, "FAILED")
    /\ Answer(r)
    /\ Abandon({r})
    /\ UNCHANGED <<now, crashes, service, approvals, dispatched>>

-----------------------------------------------------------------------------
(* Approvals.                                                              *)

\* What approve and reject check under the lock.
CanDecide(r, k) ==
    /\ pc[r] = "idle"
    /\ approvals[r][k].status = "PENDING"
    /\ run[r].status = "WAITING_APPROVAL"

\* The first save of approve and of reject.
Decide(r, k) ==
    /\ CanDecide(r, k)
    /\ \E d \in {"REJECTED", IF now >= approvals[r][k].expires THEN "EXPIRED" ELSE "APPROVED"} :
         /\ approvals' = [approvals EXCEPT ![r][k].status = d]
         /\ Goto(r, d)
    /\ UNCHANGED <<now, crashes, sandbox, run, looping, request, dispatched>>

\* Variant: an approval that came too late is recorded, the run is not.
SettleKeepsWaiting(r) ==
    /\ pc[r] \in Decision
    /\ IF pc[r] = "EXPIRED" THEN UNCHANGED run ELSE Save(r, pc[r])
    /\ Answer(r)
    /\ UNCHANGED <<now, crashes, sandbox, approvals, request, dispatched>>

\* The second one; an approval that came too late fails the run.
Settle(r) ==
    /\ pc[r] \in Decision
    /\ Save(r, IF pc[r] = "EXPIRED" THEN "FAILED" ELSE pc[r])
    /\ Answer(r)
    /\ UNCHANGED <<now, crashes, sandbox, approvals, request, dispatched>>

\* step of an APPROVED run: _resume_after_approval up to the await of service_status.
Resume(r) ==
    /\ pc[r] = "idle"
    /\ run[r].status = "APPROVED"
    /\ IF now >= run[r].expires
       THEN Save(r, "EXPIRED") /\ UNCHANGED <<pc, looping>>
       ELSE IF Latest(r).status # "APPROVED" \/ now >= Latest(r).expires
       THEN Save(r, "FAILED") /\ UNCHANGED <<pc, looping>>
       ELSE /\ Goto(r, "observing")
            /\ looping' = [looping EXCEPT ![r] = TRUE]
            /\ UNCHANGED run
    /\ UNCHANGED <<now, crashes, sandbox, approvals, request, dispatched>>

\* Variant: the precondition is compared after the restart was handed over.
RefuseLate(r) ==
    /\ pc[r] = "observing"
    /\ \/ Save(r, "FAILED") /\ UNCHANGED dispatched
       \/ /\ service # run[r].seen
          /\ Save(r, "STALE")
          /\ dispatched' = [dispatched EXCEPT ![r] = @ + 1]
    /\ Answer(r)
    /\ UNCHANGED <<now, crashes, sandbox, approvals, request>>

\* The observation fails, or the precondition has changed since it was approved.
Refuse(r) ==
    /\ pc[r] = "observing"
    /\ \/ Save(r, "FAILED")
       \/ service # run[r].seen /\ Save(r, "STALE")
    /\ Answer(r)
    /\ UNCHANGED <<now, crashes, sandbox, approvals, request, dispatched>>

Revalidated(r) ==
    /\ pc[r] = "observing"
    /\ service = run[r].seen
    /\ Save(r, "RUNNING")
    /\ Dispatch(r)
    /\ UNCHANGED <<now, crashes, sandbox, approvals, looping>>

-----------------------------------------------------------------------------
(* The sandbox, the owner, the clock and the process.                      *)

\* _replace stops the worker process and starts the next generation of it.
Replace(healthy) ==
    /\ service.generation < MaxGeneration
    /\ service' = [healthy |-> healthy, generation |-> service.generation + 1]

\* SandboxManager.restart, one at a time under its lock.
Restart(r) ==
    /\ request[r] = "sent"
    /\ Replace(TRUE)
    /\ request' = [request EXCEPT ![r] = "landed"]
    /\ UNCHANGED <<now, crashes, run, approvals, pc, looping, abandoned, dispatched>>

\* A restart that outlived its caller, before or after what the run has sent since.
RestartLate ==
    /\ abandoned > 0
    /\ abandoned' = abandoned - 1
    /\ Replace(TRUE)
    /\ UNCHANGED <<now, crashes, run, approvals, pc, looping, request, dispatched>>

\* SandboxManager.reset: the demo button makes the service unhealthy again.
Reset ==
    /\ Replace(FALSE)
    /\ UNCHANGED <<now, crashes, run, approvals, pc, looping, request, abandoned, dispatched>>

Crash ==
    /\ crashes < MaxCrashes
    /\ crashes' = crashes + 1
    /\ pc' = [r \in Runs |-> "idle"]
    /\ looping' = [r \in Runs |-> FALSE]
    /\ Abandon(Runs)
    /\ UNCHANGED <<now, service, run, approvals, dispatched>>

Tick ==
    /\ now < MaxNow
    /\ now' = now + 1
    /\ UNCHANGED <<crashes, sandbox, run, approvals, pc, looping, request, dispatched>>

Coroutine(r) ==
    \/ PlanRun(r) \/ Skip(r) \/ Deny(r) \/ RequestApproval(r) \/ Wait(r) \/ Execute(r)
    \/ Succeed(r) \/ Fail(r) \/ Settle(r) \/ Refuse(r) \/ Revalidated(r)

Next ==
    \/ \E r \in Runs : CreateRun(r) \/ Step(r) \/ Resume(r) \/ Coroutine(r) \/ Restart(r)
    \/ \E r \in Runs : \E k \in DOMAIN approvals[r] : Decide(r, k)
    \/ RestartLate \/ Reset \/ Crash \/ Tick

Spec == Init /\ [][Next]_vars

-----------------------------------------------------------------------------
(* Properties.                                                             *)

\* Approval authorizes only the exact pending action, once: a run never hands
\* more restarts to the executor than approvals were granted to it, however
\* the process dies, a restart outlives its timeout and the run is stepped again.
RestartsAreAuthorized ==
    \A r \in Runs :
        dispatched[r] <=
            Cardinality({k \in DOMAIN approvals[r] : approvals[r][k].status = "APPROVED"})

\* While the process lives, a run that waits can be decided and a run that was
\* approved can be resumed: the runs table and the approvals table, saved one
\* after the other, agree whenever the lock is free.
TablesAgree ==
    crashes = 0 =>
        \A r \in Runs : pc[r] = "idle" =>
            /\ run[r].status = "WAITING_APPROVAL" => Latest(r).status = "PENDING"
            /\ run[r].status = "APPROVED" => Latest(r).status = "APPROVED"
            /\ run[r].status = "REJECTED" => dispatched[r] = 0

\* STALE_PRECONDITION means that nothing was restarted for the approval that
\* went stale: of the approvals granted to the run one has led to no restart.
StaleDispatchesNothing ==
    \A r \in Runs : run[r].status = "STALE" =>
        dispatched[r] <
            Cardinality({k \in DOMAIN approvals[r] : approvals[r][k].status = "APPROVED"})
=============================================================================
