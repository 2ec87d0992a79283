# Verification of Guarded Agent Runner

TLA+ modules, TLC runs and TLAPS proofs for the repository's own code: the Go
control plane of GAR v0.1 (`internal/`, `cmd/`), the GARGuard Paper plugin
(`plugins/paper-guard`), and the Python concept runner
(`guarded_agent_runner/`). Every definition is translated from the source;
`PROJECT.json` maps each one to the lines it stands for.

## 1. The system

An agent *proposes* a plugin change over MCP. The proposal freezes a
`ChangeIntent` in SQLite. The owner decides on it locally with `garctl`.
Approval creates an `Operation`, which owns its enrollment (the target) until
it is released. The Foundation coordinator executes the steps S00 to S05 of
the operation: checks, closing admission (S02), graceful stop (S03), offline
revalidation (S04), offline backup (S05). Steps S06 to S10 are refused. Every
step is journaled before and after its effect, so that a crash leaves
evidence. Players reach Paper through a TCP gate that admits them only while an
owner's lease and a snapshot of the GARGuard plugin both say OPEN. Proposals
are decided on bundles of evidence, merged from a file of the host observer
(`gar-host`) and a file of the plugin. Two acceptance commands exercise the
whole: `gar-g02-verify` opens and closes admission around a probe and checks a
reboot of the host, and `gar-g03-verify` executes an approved operation and
writes its evidence.

| Part | Source | Module | State |
| --- | --- | --- | --- |
| Operation store | `internal/store`, `internal/domain` | `Journal`, `WriterLock`, `JournalProofs` | modelled, proved |
| Foundation coordinator | `internal/workflow/foundation.go` | `Foundation`, `FoundationProofs` | modelled, proved |
| Offline backup engine | `internal/backup/offline.go` | `Foundation`, `BackupProofs` | modelled, proved |
| Paper target adapter | `internal/adapters/paperops`, `internal/adapters/host/lifecycle.go` | `Paper` | modelled |
| Admission gate | `internal/admission`, `cmd/gar-gate` | `AdmissionGate`, `Admission`, `GateProofs` | modelled, proved |
| GARGuard plugin | `plugins/paper-guard` | `AdmissionGate`, `Paper` | modelled |
| Proposal service, bearer sessions | `internal/workflow/service.go`, `internal/mcpserver/auth.go`, `cmd/gar` | `Proposals`, `ProposalsProofs` | proved; partly: the read tools change nothing and are left out |
| Operator service, `garctl` | `internal/workflow/operator.go`, `cmd/garctl` | `Journal`, `Foundation`, `Proposals` | partly: approve, reject, revoke and `agent issue` with its output files; `show` and `doctor` change nothing |
| G-03 acceptance command | `cmd/gar-g03-verify`, `internal/g03` | `Foundation`, `BackupProofs` | proved; partly: `execute` to the evidence file; `prepare` is a proposal like those of `Proposals` and is left out |
| Concept runner and sandbox | `guarded_agent_runner/` | `LegacyRunner`, `LegacyProofs` | modelled and proved for service-a of the sandbox |
| Host observer and host snapshot | `internal/adapters/host`, `cmd/gar-host` | `Evidence`, `EvidenceProofs` | proved; `ObserveOffline` and the recent errors are left out |
| Snapshot readers, composite target | `internal/adapters/paper`, `internal/adapters/composite` | `Evidence`, `EvidenceProofs` | proved; the read tools change nothing and are left out |
| MCP transport, rate limits, output screening | `internal/mcpserver/server.go` | none | I/O around the calls modelled in `Proposals` |
| Canonical JSON, digests, strict JSON, file checks, configuration | `internal/domain/canonical.go`, `internal/strictjson`, `internal/localfile`, `internal/runtimeconfig` | none | pure encoding and validation; a digest is modelled as equality of what it covers |
| Policy gates | `internal/policy` | none | a constant profile; mutation is disabled |
| G-02 acceptance runner | `internal/acceptance/g02`, `cmd/gar-g02-verify` | `Acceptance`, `AcceptanceProofs` | proved; Minecraft packets and the validation of the configuration are left out |
| Concept API, audit trail, fake infrastructure, frontend | `guarded_agent_runner/api`, `audit.py`, `frontend/` | none | routing, append-only output and user interface |

## 2. The modules

### WriterLock
The abstract specification of ownership: an operation acquires a free target
once, may begin work, and may release the target only if it has not begun.

### Journal
`internal/store` with the state machine of `internal/domain/state.go`. The four
tables are functions of the intent, because the UNIQUE columns allow one
approval, one operation and one backup each. Each writing method is one
immediate transaction and so one action; what the method refuses is a guard.

| Action | Code |
| --- | --- |
| `PutIntent`, `ApproveIntent`, `RejectIntent`, `RevokeIntent` | the methods of the same names, with deadlines, `activeOwner` and the abort of an operation that has not begun |
| `PrepareStep`, `MarkDispatchPossible`, `RecordStepObservation` | same; `StatusAfter` is the status an observation leads to |
| `MarkUnknown`, `TransitionOperation` | same, over `CanTransitionOperation` |
| `ReserveBackup`, `TransitionBackupStatus`, `CompleteBackup` | `internal/store/backup.go` |

The number of steps is the constant `LastStep`; the stop is two steps before
the backup, which is the last. The code has `LastStep = 5`.

### Paper
The container's lifecycle, the last GARGuard snapshot, and the admission mode.
A boot is one run of the container. `OnlineEvidence` and `OfflineEvidence` are
what `ObserveSafety` concludes from them.

### Foundation
`Foundation.Run` and the engine's `Create` and `Inspect`, one action for each
store transaction, observation and external effect, for any number of processes
that execute Run. It extends `Journal`: a write is the journal's action, taken
by a coordinator at the right place of its program. `pc` is the place, `seen`
the copy of the operation read at the top of the loop, `archive` the files of
the backup. After a Run that returned without an error the acceptance command
inspects the backup again, rereads the operation and writes its evidence
(`accepted`). Store calls may be refused or fail (`Refused`), and a process may
die anywhere (`Crash`). `effects` and `late` are history variables.

### AdmissionGate
The lease file, the plugin that reads it and publishes snapshots
asynchronously, and the gate: handlers in the steps of `handle` (slot, read of
the lease, read of the snapshot, dial, track, proxy, end) and the monitor in
the steps of its poll and of `closeAll` (copy under the lock, close without
it). Gate and Paper may be restarted. `lease.written` is the time at which the
state file was replaced: a lease is issued for the time its command began and may
be over when it is written. `LeaseEnd` is the moment from which the file allows
nothing.

### Admission
The contract of player admission, without sockets, handlers and monitor: the
lease, the plugin's snapshots, the connections whose bytes reach Paper
(`carrying`) and the players (`online`). A connection may begin and a player may
join only until a poll interval after the lease, and time does not pass beyond
it while a connection is carried. `AdmissionGate!ImplementsAdmission` maps
`carrying` to the handlers that proxy with both sockets open and `online` to the
logins that Paper has completed.

### Acceptance
The commands `minecraft-login-close`, `host-reboot-prepare` and
`host-reboot-verify` as processes of their own. Each takes the time and the
evidence file when it starts (`baseEvidence`), makes its checks one after the
other, and replaces the evidence file when it ends. The login probe opens
admission, and two deferred calls close it and write the evidence. Commands may
fail at any check, die at any step, and the host may reboot between any two
steps. A write of the state file may land and still report an error: when the
write that opens admission does, the probe returns before its deferred close is
registered, and the lease is left to run out. A boot is counted by the times at
which the kernel came up. Two things are history: `seen`, the boots of the
snapshots that `verify` accepted, and `unrenewed`, the probes that have found
the gate open and behind which no runtime snapshot has landed. `RebootAssumption` says that a
reboot takes longer than a snapshot stays fresh; it is about hosts, not code,
and `RebootPassIsReal` rests on it, because `readRuntime` compares times and
`After` only asks for a snapshot later than the checkpoint.

### Evidence
Any number of `gar-host` processes in the steps of `observe` (time stamp, Docker
inspection, plugin directory, gate, publication), GARGuard's asynchronous
snapshots, and the composite target's two reads. `paper`, `slot` and `fault`
are the target, which changes between any two steps; `fault` says which of the
observer's checks would fail. `ReadRuntime` ends an observation of the composite
target; it returns a bundle if `Merges` holds and an error otherwise.
`lastSlot`, `paper.exitedAt` and `paper.inspected` are history.

### Proposals
A call of `propose_plugin_change`: middleware, second authorization, the time
stamp (a clock read of its own), observation of the target, idempotency lookup,
insert, resolution of a lost race, reply. `repeat` records whether the bytes of a
call were frozen under its key when it arrived.
Around it: the process's restart with a new revocation epoch, changes of the
target, lost answers, and `garctl agent issue`, which saves a session and then
creates a credential file and a token file that must not exist. The owner moves
the record to the served credential file, and deletes what a failed command
left, when no command is running (`OwnerCollects`).

### LegacyRunner
Runs of the diagnose-and-restart plan. A coroutine holds its run's lock; its
saves, awaits and the sandbox's restart are separate steps, and the process may
die between two of them. A save goes through `AllowedTransitions`; `RunnerTypeOK`
says in which status a coroutine is at each of its places, so that
`transition_run` never raises. `abandoned` counts the restarts whose caller timed
out or died; each of them may still happen (`RestartLate`).

## 3. The runs

All bounds are the constants of the `.cfg` files.

| Run | Checks |
| --- | --- |
| `journal` | `JournalTypeOK`, `SingleWriter`, `DecisionsAgree`, `StepsInOrder`, `BackupFollowsJournal`, `BlockedStaysBlocked`, `NothingIsRepeated`, `ImplementsWriterLock` |
| `foundation_race` | `FoundationTypeOK`, `OneDispatcher`, `EffectsOnceInOrder`, `DoneBackupIsValid`, `RevocationStopsDispatch`, `DispatcherOwns`, `AcceptanceIsEarned`, `StatusFollowsSteps` |
| `foundation_restart` | `ValidBackupIsOffline`, `RunReturns` |
| `gate_cutoff` | `GateTypeOK`, `SessionsCounted`, `CutOff`, `LateJoinsAreBounded` |
| `gate_drain` | `SessionsDrain`, `ImplementsAdmission` |
| `proposals` | `ProposalsTypeOK`, `AnswersAgree`, `ConflictIsReal`, `RevokedFreezesNothing`, `IssuedTokenOpens` |
| `acceptance` | `AcceptanceTypeOK`, `RebootPassIsReal`, `LoginPassIsReal` |
| `legacy` | `RunnerTypeOK`, `RestartsAreAuthorized`, `TablesAgree`, `StaleDispatchesNothing` |
| `evidence` | `EvidenceTypeOK`, `BundleIsRecent`, `ObserverRecovers` |
| `foundation_acknowledged`, `evidence_boot`, `proposals_retry` | sentences of the documentation that the code does not satisfy (section 6) |

* **`journal`**: two intents on one enrollment, so that they compete for it.
  `LastStep = 2` has the three steps the store treats specially (stop,
  revalidation, backup); earlier steps behave like the revalidation. One clock
  tick is enough to be before, at and after each deadline. The theorems of
  section 5 remove all of these bounds.
* **`foundation_race`**: two processes run the same operation at once with all
  six steps. The clock stands still: deadlines only refuse work, and a budget
  that elapses between a crash and a restart is covered by the theorems of
  section 5, not by this run; one boot of Paper. `AcceptanceIsEarned` says
  of the G-03 evidence only what stays true: another process may record UNKNOWN
  for the operation, also between the last reread and the rename of the evidence.
  `StatusFollowsSteps` is about the status that Run decides on before S03: it is
  the copy read at the top of the loop, and another process, or the same one
  after a crash, may have moved the operation since.
* **`foundation_restart`**: one process that may crash and be started again any
  number of times, a clock that can exhaust the windows and the budget, and two
  boots of Paper, so that Paper can come back between two checks of the
  archive. One process is enough for the data of a backup, since
  `foundation_race` shows that a second one never works beside it; the proof
  has any number of them. `RunReturns` shows that no path of Run revisits a
  step. The two waits are single steps that may always time out, so it says
  nothing about the deadline inside their loops.
* **`gate_cutoff`**: two connections and one slot against lease, plugin and
  monitor over three clock values. A snapshot is fresh in its own unit only.
  `CutOff` and `LateJoinsAreBounded` take the monitor to poll on time (`Due`).
  A login that was allowed just before the end of the lease may join behind a
  snapshot without players, which `waitMaintenance` accepts; the second property
  bounds the time in which this can happen.
* **`gate_drain`**: one connection, with freshness and skew of one unit.
  Connections share nothing but the slots.

  In both, time passes the cut-off of a lease that was closed or lost. It reaches
  the cut-off of a lease that runs out by itself but does not pass it, which
  takes a fourth clock value; that case rests on the theorems `CutsOff`,
  `LateJoins` and `Implements`, which have no bounds.
* **`evidence`**: one observer, two contents of the plugin slot and two runs of
  Paper. The clock outlasts freshness and skew by one unit, so that each of them
  can be exceeded. Docker is the part that breaks: it is asked twice in an
  observation, so an observation can fail at its start and after its draft is
  complete. The proof removes the bounds for safety, including the single
  observer.
* **`proposals`**: two calls, one key, two inputs and two sessions make every
  pair of equal and different proposals race; two boots let the target change
  between a call and its retry; one clock tick expires a session. Both sessions
  are issued into the same two output files. A session that expires between the
  authorization and the insert still gets its intent; one of an older revocation
  epoch never does, because only a restart changes the epoch of the process and
  it ends the calls (`RevokedFreezesNothing`).
* **`acceptance`**: two commands, a clock of three values and two reboots of one
  unit. A snapshot is fresh only in the unit it was made in, the most that
  `RebootAssumption` allows for such a reboot. That is enough for a checkpoint, a
  reboot and its verification while the other command holds an older copy of the
  evidence, and for a second reboot in between. `LoginPassIsReal` is about the
  end of the login probe: `waitForClosedRuntime` compares no time with the close,
  and the snapshot it accepts is later than the opening only because
  `waitForDecision` had waited for the plugin, too, to show OPEN. The proof
  removes the bounds.
* **`legacy`**: two runs about one service, one crash and two approvals per run,
  so that a run finds the service restarted by the other one, and asks for a
  second approval after a crash. One clock tick expires runs and approvals; an
  approval that expires before its run is the one case it leaves out, and it
  ends in FAILED like the others. `TablesAgree` is stated for a process that has
  not died: after a crash between the two saves the tables may disagree.
  `StaleDispatchesNothing` is about changes up to the comparison of the
  precondition; a change between it and the restart is allowed. The proof removes
  the bounds.

Deadlock is not checked where the system may really stop: when the clock and
the other bounds are exhausted, all operations are blocked or done. It is
checked for the gate, the evidence, the proposals and the acceptance commands.

Each property is also run against a variant of the code with a plausible
mistake (an operator marked "Variant" before the definition it changes), which
violates it.

## 4. Fairness

* `Foundation!FairSpec`: weak fairness of each coordinator's next step. Every
  call in `Run` has a context with a deadline, and the two waits end at theirs;
  `Crash` is not fair, nor is anything the owner, the agent or Paper does.
* `AdmissionGate!Spec`: weak fairness of the monitor, of each handler and of
  time. Goroutines that can run are scheduled; reads and dials have deadlines.
  No fairness is assumed of players, the owner or the plugin.
* `Evidence!Spec`: weak fairness of each running observer. Requests to Docker
  time out and the ticker ticks; starting an observer again is up to the owner
  and not fair.

## 5. The proofs

`JournalProofs` proves, for every set of intents and enrollments, every
assignment of one to the other, every number of steps from three on and every
deadline (`JournalAssumption`):

| Theorem | Statement |
| --- | --- |
| `JournalInvariant` | `JournalSpec => []JournalInv` |
| `StoreSingleWriter` | at most one unreleased operation per enrollment |
| `StoreDecisionsAgree` | intents, approvals and operations agree |
| `StoreTypes` | `JournalTypeOK` |
| `StoreStepsInOrder` | steps are dispatched and observed in order |
| `StoreBackupFollowsJournal` | backups follow the journal |
| `StoreBlockedStaysBlocked` | blocked operations stay blocked, owned and undispatched |
| `StoreNothingIsRepeated` | dispatches and finished backups are never undone |
| `StoreImplementsWriterLock` | the store refines `WriterLock` |

`JournalInv` is the conjunction of the type invariant and the four safety
invariants. None of them is inductive alone. `SingleWriter` needs
`DecisionsAgree` when an intent is approved: an undecided intent has no
operation yet. `DecisionsAgree` needs `StepsInOrder`: a revocation releases an
operation only if it has no first step, and then it has no later one.
`BackupFollowsJournal` needs `StepsInOrder` when the approval creates an
operation with no attempts. There is one lemma per store method; the action
properties and the refinement are proved action by action under `JournalInv`.

`EvidenceProofs` proves, for any number of observers, any freshness and skew and
any number of restarts and replacements (`EvidenceAssumption`):

| Theorem | Statement |
| --- | --- |
| `EvidenceTypes` | `Spec => []EvidenceTypeOK` |
| `EvidenceRecent` | a merged bundle is no older than freshness plus skew |

`BundleIsRecent` speaks of the moment of the merge only. `EvidenceInv` follows
the evidence there: a host observation is stamped before it reads anything, so
what it says of the slot was true at its stamp or later (`Attested`), in the
draft, in the file and in the reader's copy; the same holds of a runtime
snapshot and the running container (`Captured`). Both survive every step,
because the history only grows. At the merge the runtime half is fresh, and the
skew bounds the age of the host half even if the reader was stopped after
reading it.

`GateProofs` proves, for any finite set of connections, any number of slots and
any freshness, skew and lease, of `SafetySpec` (`Spec` without its fairness):

| Theorem | Statement |
| --- | --- |
| `GateTypes` | `GateTypeOK` |
| `Slots` | the handlers past the semaphore are those counted (`SessionsCounted`) |
| `CutsOff` | no connection is carried past a poll interval after the lease (`CutOff`) |
| `LateJoins` | a snapshot without players is contradicted only if it was captured no later than a poll interval after the lease (`LateJoinsAreBounded`) |
| `Implements` | the gate refines `Admission` |

The cut-off is the work of a poll that is still to come, so `GateInv` says why it
comes in time and finds everything. The ticker is at most an interval away
(`Timely`), every open socket is in the table that `closeAll` copies, except an
upstream just dialled (`Tracked`), and while a handler past its decision has its
client the next poll is due within an interval of the lease's end (`Bounded`).
Between the copy and the closes the copy still holds everything that was decided
before it (`Polling`). `Paired` ties logins to upstream connections, and
`Snapshots` follows a snapshot without players from its capture to the file. The
refinement is then one lemma for each group of actions.

`AcceptanceProofs` proves, for any number of commands, reboots and clock values
(`RebootAssumption`):

| Theorem | Statement |
| --- | --- |
| `TypeCorrect` | `AcceptanceTypeOK` |
| `RebootPass` | a PASS is a real reboot, seen in the new boot only (`RebootPassIsReal`) |
| `LoginPass` | a login probe passes only on a snapshot that landed after it had found the gate open (`LoginPassIsReal`) |

A command may write back an evidence file it read long ago. `AcceptanceInv`
therefore says of every copy, in the file and in each command, that a PASS in it
is genuine and that a checkpoint is not of a later boot than the current one
(`Genuine`). Every command that is running began in this boot (`StartedNow`), so
a snapshot that is fresh for it was made in this boot too, as a reboot takes
longer than freshness lasts. `Verifying` carries what `verify` has seen from
check to check. `ProbeOK` says that the snapshot in the file shows OPEN while some
probe has seen no other since the gate was open; the probe's last check asks for
MAINTENANCE.

`ProposalsProofs` proves, for any calls, keys, inputs and sessions and any
lifetime of a session (`ProposalsAssumption`):

| Theorem | Statement |
| --- | --- |
| `ProposalsTypes` | `ProposalsTypeOK` |
| `ProposalsAgree` | every answer is the one row of its key (`AnswersAgree`) |
| `ProposalsConflict` | a conflict means other bytes or another scope in the row (`ConflictIsReal`) |
| `ProposalsRevoked` | no intent is frozen for a session of another epoch than the process's (`RevokedFreezesNothing`) |
| `ProposalsIssued` | the files of a successful `agent issue` stay its own (`IssuedTokenOpens`) |

`ProposalsInv` says what a call knows at each of its places (`CallOK`): up to the
insert its session is stored with the epoch of the process, and the row it was
answered with, or conflicts with, is the one in the table. Rows are
inserted only where there is none, so an answer stays right. Scopes are stored
once (`ScopeOK`): a session that is about to be saved is not yet stored, so no
call and no row refers to it. `FilesOK` says that a command past the creation of
a file has it alone; so the credential file that a failed command removes is its
own.

`FoundationProofs` and `BackupProofs` prove, for every set of intents and
coordinators, every number of steps from six on, every window and budget and any
number of runs of the container, with crashes and lost calls at every step
(`JournalAssumption`, `PaperAssumption`, `FoundationAssumption`):

| Theorem | Statement |
| --- | --- |
| `DispatchInvariant` | `Spec => []DispatchInv` |
| `FoundationKeepsJournal` | all that `JournalProofs` shows holds of the composed system |
| `FoundationTypes` | `FoundationTypeOK` |
| `FoundationDispatcherOwns` | a dispatched step belongs to an operation that owns its target (`DispatcherOwns`) |
| `FoundationOneDispatcher` | one process per target works on a dispatched step (`OneDispatcher`) |
| `FoundationEffectsOnceInOrder` | one close, one stop, one archive, in this order (`EffectsOnceInOrder`) |
| `FoundationRevocation` | a revocation lets at most the effect already marked finish (`RevocationStopsDispatch`) |
| `FoundationStatusFollowsSteps` | the status of an operation keeps up with its steps (`StatusFollowsSteps`) |
| `FoundationInvariant` | `Spec => [](DispatchInv /\ BackupInv)` |
| `FoundationValidBackupIsOffline` | a VALID archive was read while Paper was stopped (`ValidBackupIsOffline`) |
| `FoundationDoneBackupIsValid` | S05 is acknowledged as expected only with a VALID record (`DoneBackupIsValid`) |
| `FoundationAcceptance` | G-03 evidence stands for what it says (`AcceptanceIsEarned`) |

That an effect is issued once does not follow from the effects alone. What
prevents the second one is that an attempt marked DISPATCH_POSSIBLE has one
holder (`OneHolder`): `MarkDispatchPossible` succeeds for one coordinator only,
and one that finds the attempt marked goes to `interrupted`, from where it only
records UNKNOWN. `HolderOK` says what the place of a holder tells about its
attempt: not yet issued up to the call, issued once after it, and still marked.
`LedgerOK` says the same of the attempts nobody holds, from the journal alone.
The journal changes only through its own actions, so `JournalInv` is inherited
rather than proved again; the lemmas are one for each group of steps that write
the same tables. `OneDispatcher` then follows from `OneHolder` and
`SingleWriter`, because a holder's operation cannot have been released.

The status needs an invariant of its own (`StatusInv`), since Run compares a
copy. A coordinator past the claim has an operation that is PREPARING or further;
one that skipped the transition before S03, because its copy was not PREPARING,
has one that is EXECUTING or blocked, since a status only moves forward
(`StatusForward`).

A backup is checked offline twice, before it is read and before it is completed,
and Paper may be started and stopped in between. `ArchiveOK` carries through the
places of `Create` that Paper, if it is still in the run that the intent names,
has not left EXITED (`StillOffline`), and that if so the archive was read
offline. A restart gives the container a later run for good, and then the second
check fails; so what is completed was read offline.

`LegacyProofs` proves, for any number of runs, approvals, restarts of the worker
and deaths of the process (`LegacyAssumption`):

| Theorem | Statement |
| --- | --- |
| `LegacyInvariant` | `Spec => []LegacyInv` |
| `RunnerTypes` | `RunnerTypeOK`; only a COMPLETED run has no pending action |
| `RunnerRestartsAuthorized` | no run hands over more restarts than it was granted approvals (`RestartsAreAuthorized`) |
| `RunnerStale` | a STALE run has an approval that led to no restart (`StaleDispatchesNothing`) |
| `RunnerTablesAgree` | the two tables agree whenever the lock is free (`TablesAgree`) |

The counts alone are not inductive: a run that is APPROVED may be dispatched
next. `Covered` asks for an approval to spare wherever a restart is still due, at
`APPROVED` and at the place between the two saves of `approve`. A restart spends
it and leaves the run RUNNING, from where only a new approval leads back.
`TablesAgree` speaks of the latest approval, and rests on there being one only:
`Uninterrupted` says that a run asks at most once while the process lives.

Not proved, only model-checked: the liveness properties `RunReturns`,
`SessionsDrain` and `ObserverRecovers` (fairness and ENABLED are out of the
prover's reach). Every safety invariant, action property and refinement that a
passing run checks has its theorem.

## 6. Where documentation and code disagree

* **S05 acknowledgement** (`foundation_acknowledged`).
  `docs/GAR_V01_IMPLEMENTATION.md:185` says of a completed metadata commit that
  "VALID record, S05 acknowledgement and reread integrity survive reopen". If
  the commit's answer is lost and the reread at `foundation.go:263` fails,
  `unknown` overwrites the acknowledgement with UNKNOWN. The record stays VALID.
* **Cross-boot evidence** (`evidence_boot`). Line 42 of the same document says
  that cross-boot evidence "never becomes PASS". A host snapshot has no boot
  identity. If Paper exits after the inspection and its next run is ready within
  `maxObservationSkew` (5 s) of it, the two halves of an accepted bundle are of
  different runs. `BundleIsRecent` still holds.
* **Idempotency** (`proposals_retry`). `docs/CAPABILITIES.md:14` says: "Same
  principal/enrollment/key and bytes return the frozen intent; changed bytes
  conflict". `propose` observes the target and may refuse the call
  (`service.go:225-246`) before it looks the key up (`:257`). So when the answer
  to a committed proposal is lost and the target has stopped or changed since,
  the retry is refused although its intent is frozen; this is the trace TLC
  finds. The same property fails a second way: the digest compared also covers
  the session (`:251`), so the same bytes from a renewed session conflict.

Two more sentences hold only in part, as the actions of `Foundation` show. "A
final file without metadata becomes ORPHANED" (line 147): only `Inspect` marks
orphans, and Run calls it only after a success. An interrupted S03 "yields
UNKNOWN on recovery" (line 181): Run refuses with CLOCK_UNSAFE once the
execution budget has elapsed and leaves the operation EXECUTING; it still owns
its target and no stop is repeated.

## 7. Abstractions

* Digests, canonical JSON and identifiers are model values compared for
  equality. The checks of the store that compare a frozen digest with itself
  are left out.
* The processes of one host share a clock: the tolerance for times in the future
  is left out of `Evidence`. The contents of the plugin slot are numbered.
* Times are small integers; a window is one unit where only before and after
  matter.
* The contents of an archive are reduced to whether Paper was stopped from the
  first to the last byte read. Size limits, file types and hashes are failures
  of `Create`, which may happen at any step.
* SQLite transactions are atomic and durable; a failed commit is a refused or a
  lost call. Audit rows are written in the same transactions and omitted.
* A Docker stop may be carried out, lost or answered wrongly. The operating
  system, Docker and Paper are modelled from how the code uses them.

## 8. Not modelled

* Read tools (`get_health`, `get_players` and the others, the paging of
  `ListIntentSummaries`, `garctl show` and `doctor`): they change nothing. Where
  another part uses what they read, the read is a step of that part.
* `gar-g03-verify prepare`: a proposal and an evidence file without a race of its
  own.
* Minecraft packets, the validation of configurations, strict JSON, canonical
  JSON and file permissions: functions of their input without state. Their
  refusals are refusals of the step that calls them.
* The MCP transport's rate limits and the screening of its output, the concept
  API, its audit file and the frontend: I/O around steps that are modelled.
* Hazards the models contain but no property states: the lease that a login
  probe leaves OPEN when its opening write reports an error after the rename
  (`g02/runner.go:146`; it runs out after 20 s), the start window read
  before the transaction that uses it (`foundation.go:123`), the interval of
  one to five seconds between host observations (`host/observer.go:140`), and a
  concept run that a crash leaves in CREATED (`service.py:93`).

## 9. Plan

1. The composition of `Evidence` with `Proposals` and `Foundation`: what a frozen
   intent and its revalidation say of the target when they rest on bundles.
2. The composition of `Acceptance` with `AdmissionGate`, whose handlers the login
   probe exercises.
