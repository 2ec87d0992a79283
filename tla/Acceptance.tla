---------------------------- MODULE Acceptance -----------------------------
(***************************************************************************)
(* The G-02 acceptance commands (internal/acceptance/g02, gar-g02-verify): *)
(* minecraft-login-close, host-reboot-prepare and host-reboot-verify.      *)
(* They are processes of their own beside the gate, the plugin and the     *)
(* host observer, share one evidence file that each reads when it starts   *)
(* and replaces when it ends, and may die at any step; the host may reboot *)
(* between any two steps.                                                  *)
(*                                                                         *)
(* A snapshot or a probe that does not qualify is not told apart from one  *)
(* that is missing: the command is refused, which may happen at any check. *)
(* The bindings of an enrollment are probed one after the other under the  *)
(* same lease; one binding stands for all of them.                         *)
(***************************************************************************)
EXTENDS Integers, FiniteSets

CONSTANTS
    Runners,          \* gar-g02-verify processes
    Freshness,        \* age at which a runtime snapshot is stale
    HostFreshness,    \* age at which a host snapshot is stale
    Skew,             \* tolerance for times ahead of the reader's clock
    RebootTime,       \* time a reboot of the host takes
    MaxBoots,         \* bound on the reboots
    MaxNow            \* bound on the clock

\* A host is down for longer than a snapshot is fresh.
ASSUME RebootAssumption ==
    /\ {Freshness, HostFreshness, Skew, RebootTime, MaxBoots, MaxNow} \subseteq Nat
    /\ RebootTime > Freshness
    /\ RebootTime > HostFreshness

VARIABLES
    clock,
    boots,            \* times at which the kernel came up again
    host,             \* time of the host snapshot, which shows the closed topology
    runtime,          \* time of the runtime snapshot, and what it shows
    lease,            \* what the admission state file says
    evidence,         \* the host-reboot part of the evidence file
    runner,           \* the commands
    unrenewed         \* history: the probes that found the gate open and no runtime snapshot landed since

world == <<clock, boots, host, runtime>>
vars == <<world, lease, evidence, runner, unrenewed>>

\* The kernel boot in which time t was; the current one is the boot ID.
BootOf(t) == Cardinality({b \in boots : b <= t})
Boot == Cardinality(boots)

Time == 0..MaxNow
HostReboot == [result : {"NONE", "PREPARED", "FAIL", "PASS"}, preparedAt : Time,
               pre : 0..MaxBoots, post : 0..MaxBoots, seen : SUBSET (0..MaxBoots)]
Absent == [result |-> "NONE", preparedAt |-> 0, pre |-> 0, post |-> 0, seen |-> {}]
\* What a failed check recorded is not read again.
Failed == [Absent EXCEPT !.result = "FAIL"]
Idle == [pc |-> "idle", command |-> "login", now |-> 0, draft |-> Absent]

Checks == {"closed", "host", "health", "runtime", "probe"}
Opened == {"await", "connect", "alive", "close", "cut", "settle", "cleanup", "passed"}
Process == [pc : {"idle", "before", "open", "write"} \cup Checks \cup Opened,
            command : {"login", "prepare", "verify"}, now : Time, draft : HostReboot]
Lease == {"OPEN", "CLOSED", "OTHER"}
\* The plugin is in MAINTENANCE and has no players, or still has some, or is open.
Runtime == [at : Time, shows : {"MAINTENANCE", "PLAYERS", "OPEN"}]

\* The type of the commands' state, with the times and boots within their bounds.
AcceptanceTypeOK ==
    /\ clock \in Time
    /\ boots \subseteq 1..MaxNow
    /\ Cardinality(boots) <= MaxBoots
    /\ host \in Time
    /\ runtime \in Runtime
    /\ lease \in Lease
    /\ evidence \in HostReboot
    /\ runner \in [Runners -> Process]
    /\ unrenewed \subseteq Runners

Init ==
    /\ clock = 0
    /\ boots = {}
    /\ host = 0
    /\ runtime = [at |-> 0, shows |-> "MAINTENANCE"]
    /\ lease = "CLOSED"
    /\ evidence = Absent
    /\ runner = [r \in Runners |-> Idle]
    /\ unrenewed = {}

-----------------------------------------------------------------------------
(* The environment.                                                        *)

BootedAt == CHOOSE t \in boots \cup {0} : \A b \in boots : b <= t

\* gar-host publishes an inspection of the current boot.
HostPublishes ==
    /\ \E t \in BootedAt..clock : t > host /\ host' = t
    /\ UNCHANGED <<clock, boots, runtime, lease, evidence, runner, unrenewed>>

\* The plugin's write of a capture lands.
PaperPublishes ==
    /\ \E t \in BootedAt..clock, s \in {"MAINTENANCE", "PLAYERS", "OPEN"} :
         t >= runtime.at /\ runtime' = [at |-> t, shows |-> s]
    /\ unrenewed' = {}
    /\ UNCHANGED <<clock, boots, host, lease, evidence, runner>>

\* The owner writes or loses the lease file; a lease runs out.
LeaseChanges ==
    /\ lease' \in Lease
    /\ UNCHANGED <<world, evidence, runner, unrenewed>>

Tick ==
    /\ clock < MaxNow
    /\ clock' = clock + 1
    /\ UNCHANGED <<boots, host, runtime, lease, evidence, runner, unrenewed>>

-----------------------------------------------------------------------------
(* The commands: start.                                                    *)

\* Variant: the time of the start is rounded up.
BeginRoundedUp(r, command, pc, draft) ==
    /\ runner[r].pc = "idle"
    /\ runner' = [runner EXCEPT ![r] =
         [pc |-> pc, command |-> command, now |-> clock + 1, draft |-> draft]]
    /\ UNCHANGED <<world, lease, evidence, unrenewed>>

\* Every command takes the time and the evidence file as they are when it starts.
Begin(r, command, pc, draft) ==
    /\ runner[r].pc = "idle"
    /\ runner' = [runner EXCEPT ![r] =
         [pc |-> pc, command |-> command, now |-> clock, draft |-> draft]]
    /\ UNCHANGED <<world, lease, evidence, unrenewed>>

MinecraftLoginClose(r) == Begin(r, "login", "closed", evidence)

\* What the file says of an earlier reboot will be replaced.
PrepareHostReboot(r) == Begin(r, "prepare", "closed", Absent)

\* An unchanged boot ID fails at once, and the failure takes the checkpoint's place.
VerifyHostReboot(r) ==
    /\ evidence.result = "PREPARED"
    /\ IF Boot = evidence.pre
       THEN Begin(r, "verify", "write", Failed)
       ELSE Begin(r, "verify", "closed", [evidence EXCEPT !.result = "FAIL", !.post = Boot])

-----------------------------------------------------------------------------
(* The commands: verifyRecoveredClosed.  Its reads are made one after the  *)
(* other; what was read first may have changed when the next is made.      *)

\* The command goes on at l, with the time and the evidence it has then.
Continue(r, l, now, draft) ==
    runner' = [runner EXCEPT ![r] =
        [pc |-> l, command |-> runner[r].command, now |-> now, draft |-> draft]]

\* verify remembers the boot that a snapshot of time t shows.
Noted(r, t) ==
    IF runner[r].command = "verify"
    THEN [runner[r].draft EXCEPT !.seen = @ \cup {BootOf(t)}]
    ELSE runner[r].draft

\* A snapshot of time t passes a check.
Accept(r, from, to, t) ==
    /\ runner[r].pc = from
    /\ Continue(r, to, runner[r].now, Noted(r, t))
    /\ UNCHANGED <<world, lease, evidence, unrenewed>>

After(r, t) == runner[r].command = "verify" => t > runner[r].draft.preparedAt

\* EvaluateAccess answers ADMISSION_CLOSED.
CheckClosed(r) == lease = "CLOSED" /\ Accept(r, "closed", "host", clock)

HostIsFresh == clock - host <= HostFreshness

CheckHost(r) == HostIsFresh /\ After(r, host) /\ Accept(r, "host", "health", host)

\* get_health reads the snapshot file again.
CheckHealth(r) == HostIsFresh /\ Accept(r, "health", "runtime", host)

\* Variant: the age of the snapshot is not looked at.
RuntimeIsFreshAnyAge(now) == runtime.at <= now + Skew

\* readRuntime, for the time the command began.
RuntimeIsFresh(now) == runtime.at <= now + Skew /\ now - runtime.at <= Freshness

CheckRuntime(r) ==
    /\ RuntimeIsFresh(runner[r].now)
    /\ runtime.shows = "MAINTENANCE"
    /\ After(r, runtime.at)
    /\ Accept(r, "runtime", "probe", runtime.at)

\* The live probe; what closes the connection cannot be told from outside.  It is the
\* last check: prepare reads the boot ID for its checkpoint, verify passes.
ProbeClosedGate(r) ==
    /\ runner[r].pc = "probe"
    /\ \/ /\ runner[r].command = "login"
          /\ Continue(r, "before", runner[r].now, runner[r].draft)
       \/ /\ runner[r].command = "prepare"
          /\ Continue(r, "write", 0, [result |-> "PREPARED", preparedAt |-> runner[r].now,
                                      pre |-> Boot, post |-> 0, seen |-> {}])
       \/ /\ runner[r].command = "verify"
          /\ Continue(r, "write", 0, [runner[r].draft EXCEPT !.result = "PASS"])
    /\ UNCHANGED <<world, lease, evidence, unrenewed>>

-----------------------------------------------------------------------------
(* The commands: the rest of MinecraftLoginClose, and how commands end.    *)

Go(r, from, to) ==
    /\ runner[r].pc = from
    /\ Continue(r, to, runner[r].now, runner[r].draft)
    /\ UNCHANGED <<world, evidence>>

\* The second read of the runtime snapshot, for the player count.
ReadBefore(r) ==
    /\ RuntimeIsFresh(runner[r].now)
    /\ runtime.shows # "PLAYERS"
    /\ Go(r, "before", "open")
    /\ UNCHANGED <<lease, unrenewed>>

\* The lease is issued for the time the command began and may be over when written;
\* that time is not used again.  WriteState may report an error after its rename, and
\* the command then returns before the deferred close is registered: the lease is left
\* to run out.
OpenAdmission(r) ==
    /\ runner[r].pc = "open"
    /\ \E to \in {"await", "write"} : Continue(r, to, 0, runner[r].draft)
    /\ lease' \in {"OPEN", "OTHER"}
    /\ UNCHANGED <<world, evidence, unrenewed>>

\* Variant: the wait ends with the lease alone, as EvaluateState would have it.
WaitForLease(r) ==
    /\ lease = "OPEN"
    /\ Go(r, "await", "connect")
    /\ unrenewed' = unrenewed \cup {r}
    /\ UNCHANGED lease

\* EvaluateAccess answers open: the plugin, too, shows that it is.
WaitForDecision(r) ==
    /\ lease = "OPEN"
    /\ RuntimeIsFresh(clock)
    /\ runtime.shows = "OPEN"
    /\ Go(r, "await", "connect")
    /\ unrenewed' = unrenewed \cup {r}
    /\ UNCHANGED lease

\* Paper answers the status request and takes the login start.
BeginLogin(r) == Go(r, "connect", "alive") /\ UNCHANGED <<lease, unrenewed>>

ProveConnectionAlive(r) == Go(r, "alive", "close") /\ UNCHANGED <<lease, unrenewed>>

\* Here, too, the write may land and report an error.
CloseAdmission(r) ==
    /\ \E to \in {"cut", "cleanup"} : Go(r, "close", to)
    /\ lease' = "CLOSED"
    /\ UNCHANGED unrenewed

WaitForConnectionClose(r) == Go(r, "cut", "settle") /\ UNCHANGED <<lease, unrenewed>>

\* The last check of the login probe: every login's result is PASS.
WaitForClosedRuntime(r) ==
    /\ lease = "CLOSED"
    /\ RuntimeIsFresh(clock)
    /\ runtime.shows = "MAINTENANCE"
    /\ Go(r, "settle", "passed")
    /\ UNCHANGED <<lease, unrenewed>>

\* An error return: prepare leaves the file alone, verify writes its FAIL, login
\* runs the deferred calls it has registered.
AfterError(r) ==
    \/ runner[r].command = "prepare" /\ runner' = [runner EXCEPT ![r] = Idle]
    \/ runner[r].command = "verify" /\ Continue(r, "write", 0, Failed)
    \/ /\ runner[r].command = "login"
       /\ Continue(r, IF runner[r].pc \in Opened THEN "cleanup" ELSE "write",
                   0, runner[r].draft)

\* A check does not hold, a deadline passes or a call fails.
Refused(r) ==
    /\ runner[r].pc \notin {"idle", "cleanup", "passed", "write"}
    /\ AfterError(r)
    /\ UNCHANGED <<world, lease, evidence, unrenewed>>

\* Deferred: the connection is closed and then admission, whatever the outcome; an
\* error of that write is ignored.
Cleanup(r) ==
    /\ \E from \in {"cleanup", "passed"} : Go(r, from, "write")
    /\ lease' \in {"CLOSED", lease}
    /\ unrenewed' = unrenewed \ {r}

\* writeEvidence renames the whole file over the old one, or fails before that.
WriteEvidence(r) ==
    /\ runner[r].pc = "write"
    /\ evidence' \in {runner[r].draft, evidence}
    /\ runner' = [runner EXCEPT ![r] = Idle]
    /\ UNCHANGED <<world, lease, unrenewed>>

Step(r) ==
    \/ CheckClosed(r) \/ CheckHost(r) \/ CheckHealth(r) \/ CheckRuntime(r) \/ ProbeClosedGate(r)
    \/ ReadBefore(r) \/ OpenAdmission(r) \/ WaitForDecision(r) \/ BeginLogin(r)
    \/ ProveConnectionAlive(r) \/ CloseAdmission(r) \/ WaitForConnectionClose(r)
    \/ WaitForClosedRuntime(r) \/ Refused(r) \/ Cleanup(r) \/ WriteEvidence(r)

-----------------------------------------------------------------------------
(* Faults.                                                                 *)

Crash(r) ==
    /\ runner[r].pc # "idle"
    /\ runner' = [runner EXCEPT ![r] = Idle]
    /\ unrenewed' = unrenewed \ {r}
    /\ UNCHANGED <<world, lease, evidence>>

\* Every process ends; the files stay.
HostReboots ==
    /\ Boot < MaxBoots
    /\ clock + RebootTime <= MaxNow
    /\ clock' = clock + RebootTime
    /\ boots' = boots \cup {clock'}
    /\ runner' = [r \in Runners |-> Idle]
    /\ unrenewed' = {}
    /\ UNCHANGED <<host, runtime, lease, evidence>>

Next ==
    \/ HostPublishes \/ PaperPublishes \/ LeaseChanges \/ Tick \/ HostReboots
    \/ \E r \in Runners : MinecraftLoginClose(r) \/ PrepareHostReboot(r) \/ VerifyHostReboot(r)
    \/ \E r \in Runners : Step(r) \/ Crash(r)

Spec == Init /\ [][Next]_vars

-----------------------------------------------------------------------------
(* Properties.                                                             *)

\* A HOST_RECOVERY PASS is a real reboot: the kernel boot differs from the one of
\* the checkpoint and every host and Paper observation that VerifyHostReboot
\* accepted was made in the new boot.  Neither a checkpoint that another command
\* wrote back from an older copy of the evidence file, nor a snapshot that outlived
\* the reboot, nor a restart of Paper alone produces it.
RebootPassIsReal ==
    evidence.result = "PASS" =>
        /\ evidence.pre < evidence.post
        /\ evidence.seen = {evidence.post}

\* A login PASS is about this probe: the zero-player MAINTENANCE snapshot it ends with
\* landed after the gate had been found open.  The one it began with may still be fresh
\* then, for readRuntime takes snapshots of three seconds ago, and another command may
\* have opened and closed admission in between; what keeps it out is that the open
\* decision needs a snapshot of its own.
LoginPassIsReal ==
    \A r \in Runners : runner[r].pc = "passed" => r \notin unrenewed
=============================================================================
