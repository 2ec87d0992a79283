-------------------------- MODULE AcceptanceProofs --------------------------
(***************************************************************************)
(* The G-02 commands for any number of processes, any freshness bounds,    *)
(* any number of reboots.  The argument for RebootPassIsReal: a snapshot   *)
(* of an earlier boot is older than the outage, hence stale for every      *)
(* process that runs now; and a checkpoint never names a later boot than   *)
(* the current one, in whichever copy of the evidence file it is.  For     *)
(* LoginPassIsReal: as long as no snapshot has landed since a probe found  *)
(* the gate open, the one there is shows an open plugin.                   *)
(***************************************************************************)
EXTENDS Acceptance, FiniteSetTheorems, TLAPS

USE Zenon

\* Time t is in the current boot or before the outage that ended an earlier one.
Placed(t) ==
    /\ t <= clock
    /\ \A b \in boots : b <= t \/ t + RebootTime <= b

\* What any copy of the host-reboot evidence may claim.
Genuine(e, n) ==
    /\ e.result = "PASS" => e.pre < e.post /\ e.seen = {e.post}
    /\ e.result = "PREPARED" => e.pre <= n /\ e.seen = {}

\* A command that still uses its start time was started in this boot.
StartedNow(p, bs) == p.pc \in Checks \cup {"before", "open"} => \A b \in bs : b <= p.now

\* A running verification has seen another boot than the checkpoint's, and no third.
Verifying(p, n) ==
    p.command = "verify" /\ p.pc \in Checks =>
        /\ p.draft.result = "FAIL"
        /\ p.draft.pre < p.draft.post
        /\ p.draft.post = n
        /\ p.draft.seen = IF p.pc = "closed" THEN {} ELSE {n}

ProcessOK(p, bs) ==
    /\ Genuine(p.draft, Cardinality(bs))
    /\ StartedNow(p, bs)
    /\ Verifying(p, Cardinality(bs))
    /\ p.pc \in Opened \cup {"before", "open"} => p.command = "login"

\* The runtime snapshot of an open decision is the one that is there, until another lands.
ProbeOK ==
    /\ unrenewed # {} => runtime.shows = "OPEN"
    /\ LoginPassIsReal

\* The inductive invariant.
AcceptanceInv ==
    /\ AcceptanceTypeOK
    /\ \A b \in boots : b <= clock
    /\ \E m \in boots \cup {0} : \A b \in boots : b <= m
    /\ Placed(host)
    /\ Placed(runtime.at)
    /\ Genuine(evidence, Boot)
    /\ \A r \in Runners : ProcessOK(runner[r], boots)
    /\ ProbeOK

-----------------------------------------------------------------------------
(* Boots.                                                                  *)

\* The boots are finitely many and counted by a number.
LEMMA BootType ==
    ASSUME AcceptanceTypeOK
    PROVE  IsFiniteSet(boots) /\ Boot \in 0..MaxBoots
<1>1. IsFiniteSet(1..MaxNow)
  BY SMT, FS_Interval, RebootAssumption
<1>2. IsFiniteSet(boots)
  BY <1>1, FS_Subset DEF AcceptanceTypeOK
<1>. QED
  BY SMT, <1>2, FS_CardinalityType, RebootAssumption DEF AcceptanceTypeOK, Boot

\* Every time lies in a boot that there was.
LEMMA BootOfType ==
    ASSUME AcceptanceTypeOK, NEW t
    PROVE  BootOf(t) \in 0..MaxBoots
<1>1. IsFiniteSet(boots) /\ Boot \in 0..MaxBoots
  BY BootType
<1>2. {b \in boots : b <= t} \in SUBSET boots
  OBVIOUS
<1>3. IsFiniteSet({b \in boots : b <= t}) /\ Cardinality({b \in boots : b <= t}) <= Boot
  BY <1>1, <1>2, FS_Subset DEF Boot
<1>4. Cardinality({b \in boots : b <= t}) \in Nat
  BY <1>3, FS_CardinalityType
<1>. QED
  BY SMT, <1>1, <1>3, <1>4, RebootAssumption DEF BootOf

\* A time after every reboot is in the current boot.
LEMMA CurrentBoot ==
    ASSUME NEW t, \A b \in boots : b <= t
    PROVE  BootOf(t) = Boot
<1>1. {b \in boots : b <= t} = boots
  OBVIOUS
<1>. QED
  BY <1>1 DEF BootOf, Boot

\* A snapshot that is fresh at a moment of this boot was taken in this boot: readRuntime
\* and the host snapshot's age check.
LEMMA FreshIsCurrent ==
    ASSUME AcceptanceTypeOK, NEW t \in Time, NEW now \in Time, NEW age \in Nat,
           age < RebootTime, Placed(t), \A b \in boots : b <= now, now - t <= age
    PROVE  BootOf(t) = Boot
<1>1. ASSUME NEW b \in boots PROVE b <= t
  <2>1. b \in Nat /\ b <= now /\ (b <= t \/ t + RebootTime <= b)
    BY SMT DEF AcceptanceTypeOK, Placed
  <2>. QED
    BY SMT, <2>1, RebootAssumption DEF Time
<1>. QED
  BY <1>1, CurrentBoot

\* A publication of this boot is placed: BootedAt is the last reboot.
LEMMA PublishedIsPlaced ==
    ASSUME AcceptanceInv, NEW t \in BootedAt..clock
    PROVE  t \in Int /\ t <= clock /\ \A b \in boots : b <= t
<1>1. PICK m \in boots \cup {0} : \A b \in boots : b <= m
  BY DEF AcceptanceInv
<1>2. /\ BootedAt \in boots \cup {0}
      /\ \A b \in boots : b <= BootedAt
  BY <1>1 DEF BootedAt
<1>3. BootedAt \in Int /\ clock \in Int /\ boots \subseteq Int
  BY SMT, <1>2, RebootAssumption DEF AcceptanceInv, AcceptanceTypeOK, Time
<1>. QED
  BY SMT, <1>2, <1>3

-----------------------------------------------------------------------------
(* Start and frame.                                                        *)

\* An idle process and absent or failed evidence claim nothing.
LEMMA Initials ==
    /\ Absent \in HostReboot /\ Failed \in HostReboot /\ Idle \in Process
    /\ \A n : Genuine(Absent, n) /\ Genuine(Failed, n)
    /\ \A bs : ProcessOK(Idle, bs)
<1>1. Absent \in HostReboot /\ Failed \in HostReboot
  BY SMT, RebootAssumption DEF Absent, Failed, HostReboot, Time
<1>2. Idle \in Process
  BY SMT, <1>1, RebootAssumption DEF Idle, Process, Time
<1>3. ASSUME NEW n PROVE Genuine(Absent, n) /\ Genuine(Failed, n)
  BY DEF Absent, Failed, Genuine
<1>4. ASSUME NEW bs PROVE ProcessOK(Idle, bs)
  BY <1>3 DEF ProcessOK, StartedNow, Verifying, Idle, Checks, Opened
<1>. QED
  BY <1>1, <1>2, <1>3, <1>4

\* Nothing has run.
LEMMA InitInv == Init => AcceptanceInv
<1>. SUFFICES ASSUME Init PROVE AcceptanceInv
  OBVIOUS
<1>1. Cardinality(boots) = 0
  BY FS_EmptySet DEF Init
<1>2. AcceptanceTypeOK
  BY SMT, <1>1, Initials, RebootAssumption DEF Init, AcceptanceTypeOK, Time, Lease, Runtime
<1>3. Genuine(evidence, Boot) /\ \A r \in Runners : ProcessOK(runner[r], boots)
  BY Initials DEF Init
<1>4. ProbeOK
  BY DEF Init, ProbeOK, LoginPassIsReal
<1>5. Placed(host) /\ Placed(runtime.at)
  BY SMT DEF Init, Placed
<1>. QED
  BY <1>2, <1>3, <1>4, <1>5 DEF Init, AcceptanceInv

\* A command moves on: it is enough to look at its new state and at the probes.
LEMMA Moves ==
    ASSUME AcceptanceInv, NEW r \in Runners, NEW p,
           p \in Process, ProcessOK(p, boots), runner' = [runner EXCEPT ![r] = p],
           UNCHANGED world, evidence' \in HostReboot, Genuine(evidence', Boot),
           lease' \in Lease, unrenewed' \subseteq Runners, ProbeOK'
    PROVE  AcceptanceInv'
<1>1. boots' = boots /\ clock' = clock /\ host' = host /\ runtime' = runtime
  BY DEF world
<1>2. runner \in [Runners -> Process]
  BY DEF AcceptanceInv, AcceptanceTypeOK
<1>3. AcceptanceTypeOK'
  BY <1>1, <1>2 DEF AcceptanceInv, AcceptanceTypeOK
<1>4. ASSUME NEW q \in Runners PROVE ProcessOK(runner'[q], boots')
  <2>1. runner'[q] = p \/ runner'[q] = runner[q]
    BY <1>2
  <2>2. ProcessOK(runner'[q], boots)
    BY <2>1 DEF AcceptanceInv
  <2>. QED
    BY <1>1, <2>2
<1>5. Genuine(evidence', Boot')
  BY <1>1 DEF Boot
<1>6. Placed(host)' /\ Placed(runtime.at)'
  BY <1>1 DEF AcceptanceInv, Placed
<1>. QED
  BY <1>1, <1>3, <1>4, <1>5, <1>6 DEF AcceptanceInv

\* A command that moves on without passing its probe.
LEMMA ProbeStays ==
    ASSUME AcceptanceInv, NEW r \in Runners, NEW p, p.pc # "passed",
           runner' = [runner EXCEPT ![r] = p],
           runtime' = runtime, unrenewed' \subseteq unrenewed
    PROVE  ProbeOK' /\ unrenewed' \subseteq Runners
<1>1. /\ runner \in [Runners -> Process] /\ unrenewed \subseteq Runners /\ LoginPassIsReal
      /\ unrenewed # {} => runtime.shows = "OPEN"
  BY DEF AcceptanceInv, AcceptanceTypeOK, ProbeOK
<1>2. LoginPassIsReal'
  BY <1>1 DEF LoginPassIsReal
<1>3. unrenewed' # {} => runtime'.shows = "OPEN"
  BY <1>1
<1>. QED
  BY <1>1, <1>2, <1>3 DEF ProbeOK

-----------------------------------------------------------------------------
(* The environment.                                                        *)

\* A new snapshot of the host or of Paper is one of this boot.
LEMMA PublishInv ==
    ASSUME AcceptanceInv, HostPublishes \/ PaperPublishes
    PROVE  AcceptanceInv'
<1>. DEFINE Shown == {"MAINTENANCE", "PLAYERS", "OPEN"}
<1>1. /\ UNCHANGED <<clock, boots, lease, evidence, runner>>
      /\ \/ /\ runtime' = runtime /\ unrenewed' = unrenewed
            /\ \E t \in BootedAt..clock : t > host /\ host' = t
         \/ /\ host' = host /\ unrenewed' = {}
            /\ \E t \in BootedAt..clock, s \in Shown :
                 t >= runtime.at /\ runtime' = [at |-> t, shows |-> s]
  BY DEF HostPublishes, PaperPublishes
<1>. HIDE DEF Shown
<1>2. /\ clock \in Time /\ host \in Time /\ runtime \in Runtime /\ runtime.at \in Time
  BY DEF AcceptanceInv, AcceptanceTypeOK, Runtime
<1>3. /\ host' \in Time /\ Placed(host)' /\ runtime' \in Runtime /\ Placed(runtime.at)'
  <2>1. CASE runtime' = runtime /\ \E t \in BootedAt..clock : t > host /\ host' = t
    <3>1. PICK t \in BootedAt..clock : t > host /\ host' = t
      BY <2>1
    <3>2. t \in Int /\ t <= clock /\ \A b \in boots : b <= t
      BY PublishedIsPlaced
    <3>3. t \in Time
      BY SMT, <1>2, <3>1, <3>2, RebootAssumption DEF Time
    <3>4. Placed(host)'
      BY <1>1, <3>1, <3>2 DEF Placed
    <3>5. Placed(runtime.at)'
      BY <1>1, <2>1 DEF Placed, AcceptanceInv
    <3>. QED
      BY <1>2, <2>1, <3>1, <3>3, <3>4, <3>5
  <2>2. CASE /\ host' = host
             /\ \E t \in BootedAt..clock, s \in Shown :
                  t >= runtime.at /\ runtime' = [at |-> t, shows |-> s]
    <3>1. PICK t \in BootedAt..clock, s \in Shown :
                 t >= runtime.at /\ runtime' = [at |-> t, shows |-> s]
      BY <2>2
    <3>2. t \in Int /\ t <= clock /\ \A b \in boots : b <= t
      BY PublishedIsPlaced
    <3>3. t \in Time
      BY SMT, <1>2, <3>1, <3>2, RebootAssumption DEF Time
    <3>4. runtime'.at = t /\ runtime' \in Runtime
      BY <3>1, <3>3 DEF Runtime, Shown
    <3>5. Placed(host)'
      BY <1>1, <2>2 DEF Placed, AcceptanceInv
    <3>6. Placed(runtime.at)'
      BY <1>1, <3>2, <3>4 DEF Placed
    <3>. QED
      BY <1>2, <2>2, <3>4, <3>5, <3>6
  <2>. QED
    BY <1>1, <2>1, <2>2
<1>4. AcceptanceTypeOK'
  BY <1>1, <1>3 DEF AcceptanceInv, AcceptanceTypeOK
<1>5. ProbeOK'
  BY <1>1 DEF AcceptanceInv, ProbeOK, LoginPassIsReal
<1>. QED
  BY <1>1, <1>3, <1>4, <1>5 DEF AcceptanceInv, Boot

\* A lease says nothing of the snapshots, and time keeps each of them placed.
LEMMA EnvironmentInv ==
    ASSUME AcceptanceInv, LeaseChanges \/ Tick
    PROVE  AcceptanceInv'
<1>1. CASE LeaseChanges
  <2>1. UNCHANGED <<clock, boots, host, runtime, evidence, runner, unrenewed>>
    BY <1>1 DEF LeaseChanges, world
  <2>2. lease' \in Lease
    BY <1>1 DEF LeaseChanges
  <2>3. AcceptanceTypeOK'
    BY <2>1, <2>2 DEF AcceptanceInv, AcceptanceTypeOK
  <2>4. ProbeOK'
    BY <2>1 DEF AcceptanceInv, ProbeOK, LoginPassIsReal
  <2>. QED
    BY <2>1, <2>3, <2>4 DEF AcceptanceInv, Placed, Boot
<1>2. CASE Tick
  <2>1. /\ UNCHANGED <<boots, host, runtime, lease, evidence, runner, unrenewed>>
        /\ clock' = clock + 1
        /\ clock \in Time /\ clock' \in Time
    BY SMT, <1>2, RebootAssumption DEF Tick, AcceptanceInv, AcceptanceTypeOK, Time
  <2>2. AcceptanceTypeOK'
    BY <2>1 DEF AcceptanceInv, AcceptanceTypeOK
  <2>3. boots \subseteq Int /\ host \in Int /\ runtime.at \in Int
    BY SMT DEF AcceptanceInv, AcceptanceTypeOK, Time, Runtime
  <2>4. Placed(host)' /\ Placed(runtime.at)' /\ \A b \in boots' : b <= clock'
    BY SMT, <2>1, <2>3 DEF AcceptanceInv, Placed, Time
  <2>5. ProbeOK'
    BY <2>1 DEF AcceptanceInv, ProbeOK, LoginPassIsReal
  <2>. QED
    BY <2>1, <2>2, <2>4, <2>5 DEF AcceptanceInv, Boot
<1>. QED
  BY <1>1, <1>2


\* A reboot ends every command and leaves each snapshot a whole outage behind.
LEMMA RebootInv ==
    ASSUME AcceptanceInv, HostReboots
    PROVE  AcceptanceInv'
<1>1. /\ clock' = clock + RebootTime /\ clock + RebootTime <= MaxNow
      /\ boots' = boots \cup {clock'}
      /\ runner' = [r \in Runners |-> Idle]
      /\ UNCHANGED <<host, runtime, lease, evidence>> /\ unrenewed' = {}
  BY DEF HostReboots
<1>2. /\ clock \in Time /\ boots \subseteq 1..MaxNow /\ host \in Time /\ runtime.at \in Time
      /\ evidence \in HostReboot /\ lease \in Lease
      /\ RebootTime \in Nat /\ RebootTime > 0 /\ MaxNow \in Nat
  BY SMT, RebootAssumption DEF AcceptanceInv, AcceptanceTypeOK, Runtime
<1>3. clock' \in 1..MaxNow /\ clock' \notin boots /\ \A b \in boots : b < clock'
  BY SMT, <1>1, <1>2 DEF AcceptanceInv, Time
<1>4. IsFiniteSet(boots) /\ Boot \in 0..MaxBoots
  BY BootType DEF AcceptanceInv
<1>5. Boot' = Boot + 1
  BY <1>1, <1>3, <1>4, FS_AddElement DEF Boot
<1>6. Boot' <= MaxBoots
  BY SMT, <1>4, <1>5, RebootAssumption DEF HostReboots
<1>8. AcceptanceTypeOK'
  <2>1. clock' \in Time /\ boots' \subseteq 1..MaxNow
    BY SMT, <1>1, <1>2, <1>3 DEF Time
  <2>2. runner' \in [Runners -> Process]
    BY <1>1, Initials
  <2>. QED
    BY <1>1, <1>6, <2>1, <2>2 DEF AcceptanceInv, AcceptanceTypeOK, Boot
<1>9. \A b \in boots' : b <= clock'
  BY SMT, <1>1, <1>2, <1>3 DEF Time
<1>10. Placed(host)' /\ Placed(runtime.at)'
  BY SMT, <1>1, <1>2 DEF AcceptanceInv, Placed, Time
<1>11. Genuine(evidence, Boot)'
  BY SMT, <1>1, <1>2, <1>4, <1>5 DEF AcceptanceInv, Genuine, HostReboot
<1>12. \A r \in Runners : ProcessOK(runner[r], boots)'
  BY <1>1, Initials
<1>13. ProbeOK'
  BY <1>1 DEF ProbeOK, LoginPassIsReal
<1>. QED
  BY <1>1, <1>8, <1>9, <1>10, <1>11, <1>12, <1>13 DEF AcceptanceInv

-----------------------------------------------------------------------------
(* The commands.                                                           *)

\* A started command holds the evidence it read and the time it was.
LEMMA BeginInv ==
    ASSUME AcceptanceInv, NEW r \in Runners,
           MinecraftLoginClose(r) \/ PrepareHostReboot(r) \/ VerifyHostReboot(r)
    PROVE  AcceptanceInv'
<1>1. /\ clock \in Time /\ evidence \in HostReboot /\ lease \in Lease
      /\ Genuine(evidence, Boot) /\ \A b \in boots : b <= clock
      /\ runner \in [Runners -> Process]
  BY DEF AcceptanceInv, AcceptanceTypeOK
<1>2. ASSUME NEW c \in {"login", "prepare", "verify"}, NEW l \in {"closed", "write"},
             NEW d \in HostReboot, Genuine(d, Boot), Begin(r, c, l, d),
             c = "verify" /\ l = "closed" =>
                /\ d.result = "FAIL" /\ d.pre < d.post /\ d.post = Boot /\ d.seen = {}
      PROVE  AcceptanceInv'
  <2>. DEFINE p == [pc |-> l, command |-> c, now |-> clock, draft |-> d]
  <2>1. p \in Process
    BY <1>1 DEF Process, Checks
  <2>2. ProcessOK(p, boots)
    BY <1>1, <1>2 DEF ProcessOK, StartedNow, Verifying, Boot, Opened, Checks
  <2>3. /\ runner' = [runner EXCEPT ![r] = p]
        /\ UNCHANGED <<world, lease, evidence, unrenewed>>
        /\ p.pc # "passed"
    BY <1>2 DEF Begin
  <2>. HIDE DEF p
  <2>4. ProbeOK' /\ unrenewed' \subseteq Runners
    BY <2>3, ProbeStays DEF world
  <2>. QED
    BY <1>1, <2>1, <2>2, <2>3, <2>4, Moves
<1>3. CASE MinecraftLoginClose(r) \/ PrepareHostReboot(r)
  BY <1>1, <1>2, <1>3, Initials DEF MinecraftLoginClose, PrepareHostReboot
<1>4. CASE VerifyHostReboot(r)
  <2>1. CASE Boot = evidence.pre
    BY <1>2, <1>4, <2>1, Initials DEF VerifyHostReboot
  <2>2. CASE Boot # evidence.pre
    <3>. DEFINE d == [evidence EXCEPT !.result = "FAIL", !.post = Boot]
    <3>1. Begin(r, "verify", "closed", d) /\ evidence.result = "PREPARED"
      BY <1>4, <2>2 DEF VerifyHostReboot
    <3>2. Boot \in 0..MaxBoots
      BY BootType DEF AcceptanceInv
    <3>3. /\ d \in HostReboot
          /\ d.result = "FAIL" /\ d.pre = evidence.pre /\ d.post = Boot /\ d.seen = evidence.seen
      BY <1>1, <3>2 DEF HostReboot
    <3>4. evidence.pre < Boot /\ evidence.seen = {}
      BY SMT, <1>1, <2>2, <3>1, <3>2, RebootAssumption DEF Genuine, HostReboot
    <3>5. Genuine(d, Boot)
      BY <3>3 DEF Genuine
    <3>. HIDE DEF d
    <3>. QED
      BY <1>2, <3>1, <3>3, <3>4, <3>5
  <2>. QED
    BY <2>1, <2>2
<1>. QED
  BY <1>3, <1>4

\* A check that passes adds nothing but the current boot to what was seen.
LEMMA AcceptInv ==
    ASSUME AcceptanceInv, NEW r \in Runners, NEW t,
           NEW from \in Checks, NEW to \in Checks \ {"closed"},
           Accept(r, from, to, t), BootOf(t) = Boot
    PROVE  AcceptanceInv'
<1>. DEFINE d == [runner[r].draft EXCEPT !.seen = @ \cup {Boot}]
            e == IF runner[r].command = "verify" THEN d ELSE runner[r].draft
            p == [pc |-> to, command |-> runner[r].command, now |-> runner[r].now, draft |-> e]
<1>1. /\ runner \in [Runners -> Process] /\ lease \in Lease /\ evidence \in HostReboot
      /\ Genuine(evidence, Boot)
      /\ runner[r] \in Process /\ ProcessOK(runner[r], boots)
  BY DEF AcceptanceInv, AcceptanceTypeOK
<1>2. /\ runner[r].draft \in HostReboot /\ runner[r].now \in Time
      /\ runner[r].command \in {"login", "prepare", "verify"}
      /\ runner[r] = [pc |-> runner[r].pc, command |-> runner[r].command,
                      now |-> runner[r].now, draft |-> runner[r].draft]
  BY <1>1 DEF Process
<1>3. runner[r].pc = from /\ UNCHANGED <<world, lease, evidence, unrenewed>>
  BY DEF Accept
<1>4. runner' = [runner EXCEPT ![r] = p]
  <2>1. Noted(r, t) = e
    BY DEF Noted
  <2>. QED
    BY <2>1 DEF Accept, Continue
<1>5. Boot \in 0..MaxBoots
  BY BootType DEF AcceptanceInv
<1>6. /\ d \in HostReboot
      /\ d.result = runner[r].draft.result /\ d.pre = runner[r].draft.pre
      /\ d.post = runner[r].draft.post /\ d.seen = runner[r].draft.seen \cup {Boot}
  BY <1>2, <1>5 DEF HostReboot
<1>7. p \in Process
  BY <1>2, <1>6 DEF Process
<1>8. ASSUME runner[r].command = "verify"
      PROVE  /\ d.result = "FAIL" /\ d.pre < d.post /\ d.post = Boot /\ d.seen = {Boot}
             /\ Genuine(d, Boot)
  <2>1. /\ runner[r].draft.result = "FAIL" /\ runner[r].draft.pre < runner[r].draft.post
        /\ runner[r].draft.post = Boot /\ runner[r].draft.seen \subseteq {Boot}
    BY <1>1, <1>3, <1>8 DEF ProcessOK, Verifying, Boot
  <2>. HIDE DEF d
  <2>. QED
    BY <1>6, <2>1 DEF Genuine
<1>9. ProcessOK(p, boots)
  <2>1. Genuine(e, Boot)
    BY <1>1, <1>8 DEF ProcessOK, Boot
  <2>2. \A b \in boots : b <= runner[r].now
    BY <1>1, <1>3 DEF ProcessOK, StartedNow
  <2>3. Verifying(p, Boot)
    <3>. HIDE DEF d
    <3>. QED  BY <1>8 DEF Verifying
  <2>. HIDE DEF e
  <2>. QED
    BY <2>1, <2>2, <2>3 DEF ProcessOK, StartedNow, Boot, Checks, Opened
<1>10. ProbeOK' /\ unrenewed' \subseteq Runners
  <2>1. p.pc # "passed"
    BY DEF Checks
  <2>. HIDE DEF p
  <2>. QED
    BY <1>3, <1>4, <2>1, ProbeStays DEF world
<1>. HIDE DEF p
<1>. QED
  BY <1>1, <1>3, <1>4, <1>7, <1>9, <1>10, Moves

\* The checks of verifyRecoveredClosed.
LEMMA CheckInv ==
    ASSUME AcceptanceInv, NEW r \in Runners,
           CheckClosed(r) \/ CheckHost(r) \/ CheckHealth(r) \/ CheckRuntime(r)
    PROVE  AcceptanceInv'
<1>1. /\ AcceptanceTypeOK /\ clock \in Time /\ host \in Time /\ runtime.at \in Time
      /\ Placed(host) /\ Placed(runtime.at) /\ \A b \in boots : b <= clock
      /\ runner[r] \in Process /\ ProcessOK(runner[r], boots)
  BY DEF AcceptanceInv, AcceptanceTypeOK, Runtime
<1>2. CASE CheckClosed(r)
  <2>1. BootOf(clock) = Boot
    BY <1>1, CurrentBoot
  <2>. QED
    BY <1>2, <2>1, AcceptInv DEF CheckClosed, Checks
<1>3. CASE CheckHost(r) \/ CheckHealth(r)
  <2>1. BootOf(host) = Boot
    BY <1>1, <1>3, FreshIsCurrent, RebootAssumption DEF CheckHost, CheckHealth, HostIsFresh
  <2>. QED
    BY <1>3, <2>1, AcceptInv DEF CheckHost, CheckHealth, Checks
<1>4. CASE CheckRuntime(r)
  <2>1. runner[r].pc = "runtime" /\ runner[r].now - runtime.at <= Freshness
    BY <1>4 DEF CheckRuntime, Accept, RuntimeIsFresh
  <2>2. runner[r].now \in Time /\ \A b \in boots : b <= runner[r].now
    BY <1>1, <2>1 DEF Process, ProcessOK, StartedNow, Checks
  <2>3. BootOf(runtime.at) = Boot
    BY <1>1, <2>1, <2>2, FreshIsCurrent, RebootAssumption
  <2>. QED
    BY <1>4, <2>3, AcceptInv DEF CheckRuntime, Checks
<1>. QED
  BY <1>2, <1>3, <1>4

\* What every step of a command may use.
LEMMA ProcessFacts ==
    ASSUME AcceptanceInv, NEW r \in Runners
    PROVE  /\ runner \in [Runners -> Process] /\ lease \in Lease /\ evidence \in HostReboot
           /\ Genuine(evidence, Boot)
           /\ runner[r].draft \in HostReboot /\ runner[r].now \in Time /\ 0 \in Time
           /\ runner[r].command \in {"login", "prepare", "verify"}
           /\ ProcessOK(runner[r], boots) /\ Genuine(runner[r].draft, Boot)
<1>1. runner \in [Runners -> Process] /\ runner[r] \in Process /\ ProcessOK(runner[r], boots)
  BY DEF AcceptanceInv, AcceptanceTypeOK
<1>2. 0 \in Time
  BY SMT, RebootAssumption DEF Time
<1>. QED
  BY <1>1, <1>2 DEF AcceptanceInv, AcceptanceTypeOK, Process, ProcessOK, Boot

\* A command that goes on outside the checks: only its location, its evidence and the
\* probes matter.
LEMMA ContinueInv ==
    ASSUME AcceptanceInv, NEW r \in Runners, NEW l \in {"before", "open", "write"} \cup Opened,
           NEW now \in Time, NEW d \in HostReboot, Continue(r, l, now, d), Genuine(d, Boot),
           l \in {"before", "open"} => \A b \in boots : b <= now,
           l # "write" => runner[r].command = "login",
           UNCHANGED <<world, evidence>>, lease' \in Lease,
           unrenewed' \subseteq Runners, ProbeOK'
    PROVE  AcceptanceInv'
<1>. DEFINE p == [pc |-> l, command |-> runner[r].command, now |-> now, draft |-> d]
<1>1. p \in Process
  BY ProcessFacts DEF Process
<1>2. l \notin Checks
  BY DEF Checks, Opened
<1>3. ProcessOK(p, boots)
  BY <1>2 DEF ProcessOK, StartedNow, Verifying, Boot, Opened
<1>4. runner' = [runner EXCEPT ![r] = p]
  BY DEF Continue
<1>. HIDE DEF p
<1>. QED
  BY <1>1, <1>3, <1>4, ProcessFacts, Moves

\* The same for a command that does not pass its probe with this step.
LEMMA GoesOn ==
    ASSUME AcceptanceInv, NEW r \in Runners,
           NEW l \in {"before", "open", "write"} \cup (Opened \ {"passed"}),
           NEW now \in Time, NEW d \in HostReboot, Continue(r, l, now, d), Genuine(d, Boot),
           l \in {"before", "open"} => \A b \in boots : b <= now,
           l # "write" => runner[r].command = "login",
           UNCHANGED <<world, evidence>>, lease' \in Lease, unrenewed' \subseteq unrenewed
    PROVE  AcceptanceInv'
<1>. DEFINE p == [pc |-> l, command |-> runner[r].command, now |-> now, draft |-> d]
<1>1. runner' = [runner EXCEPT ![r] = p]
  BY DEF Continue
<1>2. p.pc # "passed"
  OBVIOUS
<1>. HIDE DEF p
<1>3. ProbeOK' /\ unrenewed' \subseteq Runners
  BY <1>1, <1>2, ProbeStays DEF world
<1>. QED
  BY <1>3, ContinueInv

\* The last check: prepare's checkpoint names the current boot, verify's PASS has seen
\* it and no other.
LEMMA ProbeInv ==
    ASSUME AcceptanceInv, NEW r \in Runners, ProbeClosedGate(r)
    PROVE  AcceptanceInv'
<1>. DEFINE q == runner[r]
<1>1. q.pc = "probe" /\ UNCHANGED <<world, lease, evidence, unrenewed>>
  BY DEF ProbeClosedGate
<1>2. /\ q.draft \in HostReboot /\ q.now \in Time /\ 0 \in Time /\ lease \in Lease
      /\ Genuine(q.draft, Boot)
      /\ StartedNow(q, boots) /\ Verifying(q, Boot)
  BY ProcessFacts DEF ProcessOK, Boot
<1>3. "probe" \in Checks /\ "probe" \notin Opened
  BY DEF Checks, Opened
<1>4. Boot \in 0..MaxBoots
  BY BootType DEF AcceptanceInv
<1>6. CASE q.command = "login" /\ Continue(r, "before", q.now, q.draft)
  <2>1. \A b \in boots : b <= q.now
    BY <1>1, <1>2, <1>3 DEF StartedNow
  <2>. QED
    BY <1>1, <1>2, <1>6, <2>1, GoesOn
<1>7. CASE q.command = "prepare"
           /\ Continue(r, "write", 0, [result |-> "PREPARED", preparedAt |-> q.now,
                                       pre |-> Boot, post |-> 0, seen |-> {}])
  <2>. DEFINE d == [result |-> "PREPARED", preparedAt |-> q.now,
                    pre |-> Boot, post |-> 0, seen |-> {}]
  <2>1. d \in HostReboot
    BY SMT, <1>2, <1>4, RebootAssumption DEF HostReboot
  <2>2. Genuine(d, Boot)
    BY SMT, <1>4 DEF Genuine
  <2>3. Continue(r, "write", 0, d)
    BY <1>7
  <2>. HIDE DEF d
  <2>. QED
    BY <1>1, <1>2, <2>1, <2>2, <2>3, GoesOn
<1>8. CASE q.command = "verify" /\ Continue(r, "write", 0, [q.draft EXCEPT !.result = "PASS"])
  <2>. DEFINE d == [q.draft EXCEPT !.result = "PASS"]
  <2>1. /\ d \in HostReboot /\ d.result = "PASS"
        /\ d.pre = q.draft.pre /\ d.post = q.draft.post /\ d.seen = q.draft.seen
    BY <1>2 DEF HostReboot
  <2>2. q.draft.pre < q.draft.post /\ q.draft.seen = {q.draft.post}
    BY <1>1, <1>2, <1>3, <1>8 DEF Verifying
  <2>3. Genuine(d, Boot)
    BY <2>1, <2>2 DEF Genuine
  <2>4. Continue(r, "write", 0, d)
    BY <1>8
  <2>. HIDE DEF d
  <2>. QED
    BY <1>1, <1>2, <2>1, <2>3, <2>4, GoesOn
<1>. QED
  BY <1>6, <1>7, <1>8 DEF ProbeClosedGate

\* The steps of the login probe between its second read and its cleanup.
LEMMA LoginInv ==
    ASSUME AcceptanceInv, NEW r \in Runners,
           \/ ReadBefore(r) \/ OpenAdmission(r) \/ WaitForDecision(r) \/ BeginLogin(r)
           \/ ProveConnectionAlive(r) \/ CloseAdmission(r) \/ WaitForConnectionClose(r)
           \/ WaitForClosedRuntime(r) \/ Cleanup(r)
    PROVE  AcceptanceInv'
<1>. DEFINE q == runner[r]
<1>1. /\ q.draft \in HostReboot /\ q.now \in Time /\ 0 \in Time /\ lease \in Lease
      /\ Genuine(q.draft, Boot) /\ StartedNow(q, boots)
      /\ q.pc \in Opened \cup {"before", "open"} => q.command = "login"
      /\ runner \in [Runners -> Process] /\ unrenewed \subseteq Runners /\ LoginPassIsReal
  BY ProcessFacts DEF ProcessOK, AcceptanceInv, AcceptanceTypeOK, ProbeOK
<1>2. ASSUME NEW from \in Opened, NEW to \in {"write"} \cup (Opened \ {"passed"}),
             Go(r, from, to), lease' \in Lease, unrenewed' \subseteq unrenewed
      PROVE  AcceptanceInv'
  <2>1. q.pc = from /\ Continue(r, to, q.now, q.draft) /\ UNCHANGED <<world, evidence>>
    BY <1>2 DEF Go
  <2>2. to \notin {"before", "open"}
    BY DEF Opened
  <2>. QED
    BY <1>1, <1>2, <2>1, <2>2, GoesOn
<1>3. CASE ReadBefore(r)
  <2>1. /\ q.pc = "before" /\ Continue(r, "open", q.now, q.draft)
        /\ UNCHANGED <<world, evidence, lease, unrenewed>>
    BY <1>3 DEF ReadBefore, Go
  <2>2. \A b \in boots : b <= q.now
    BY <1>1, <2>1 DEF StartedNow
  <2>. QED
    BY <1>1, <2>1, <2>2, GoesOn
<1>4. CASE OpenAdmission(r)
  <2>1. PICK to \in {"await", "write"} : Continue(r, to, 0, q.draft)
    BY <1>4 DEF OpenAdmission
  <2>2. q.pc = "open" /\ UNCHANGED <<world, evidence, unrenewed>> /\ lease' \in Lease
    BY <1>4 DEF OpenAdmission, Lease
  <2>3. to \in {"write"} \cup (Opened \ {"passed"}) /\ to \notin {"before", "open"}
    BY DEF Opened
  <2>. QED
    BY <1>1, <2>1, <2>2, <2>3, GoesOn
<1>5. CASE WaitForDecision(r)
  <2>1. /\ q.pc = "await" /\ Continue(r, "connect", q.now, q.draft)
        /\ UNCHANGED <<world, evidence, lease>>
        /\ runtime.shows = "OPEN" /\ unrenewed' = unrenewed \cup {r}
    BY <1>5 DEF WaitForDecision, Go
  <2>. DEFINE p == [pc |-> "connect", command |-> q.command, now |-> q.now, draft |-> q.draft]
  <2>2. runner' = [runner EXCEPT ![r] = p] /\ p.pc # "passed"
    BY <2>1 DEF Continue
  <2>. HIDE DEF p
  <2>3. LoginPassIsReal'
    BY <1>1, <2>1, <2>2 DEF LoginPassIsReal
  <2>4. ProbeOK' /\ unrenewed' \subseteq Runners
    BY <1>1, <2>1, <2>3 DEF ProbeOK, world
  <2>5. "await" \in Opened /\ "connect" \in Opened
    BY DEF Opened
  <2>. QED
    BY <1>1, <2>1, <2>4, <2>5, ContinueInv
<1>6. CASE BeginLogin(r) \/ ProveConnectionAlive(r) \/ WaitForConnectionClose(r)
  BY <1>1, <1>2, <1>6 DEF BeginLogin, ProveConnectionAlive, WaitForConnectionClose, Opened
<1>7. CASE CloseAdmission(r)
  BY <1>2, <1>7 DEF CloseAdmission, Opened, Lease
<1>8. CASE WaitForClosedRuntime(r)
  <2>1. /\ q.pc = "settle" /\ Continue(r, "passed", q.now, q.draft)
        /\ UNCHANGED <<world, evidence, lease, unrenewed>>
        /\ runtime.shows = "MAINTENANCE"
    BY <1>8 DEF WaitForClosedRuntime, Go
  <2>2. unrenewed = {}
    BY <2>1 DEF AcceptanceInv, ProbeOK
  <2>3. ProbeOK' /\ unrenewed' \subseteq Runners
    BY <2>1, <2>2 DEF ProbeOK, LoginPassIsReal
  <2>4. "settle" \in Opened /\ "passed" \in Opened
    BY DEF Opened
  <2>. QED
    BY <1>1, <2>1, <2>3, <2>4, ContinueInv
<1>9. CASE Cleanup(r)
  <2>1. PICK from \in {"cleanup", "passed"} : Go(r, from, "write")
    BY <1>9 DEF Cleanup
  <2>2. from \in Opened /\ lease' \in Lease /\ unrenewed' \subseteq unrenewed
    BY <1>1, <1>9 DEF Cleanup, Opened, Lease
  <2>. QED
    BY <1>2, <2>1, <2>2
<1>. QED
  BY <1>3, <1>4, <1>5, <1>6, <1>7, <1>8, <1>9

\* A process that ends, by itself or by a crash, claims nothing more.
LEMMA EndInv ==
    ASSUME AcceptanceInv, NEW r \in Runners, runner' = [runner EXCEPT ![r] = Idle],
           UNCHANGED world, evidence' \in HostReboot, Genuine(evidence', Boot),
           lease' = lease, unrenewed' \subseteq unrenewed
    PROVE  AcceptanceInv'
<1>1. Idle.pc # "passed"
  BY DEF Idle
<1>2. ProbeOK' /\ unrenewed' \subseteq Runners
  BY <1>1, ProbeStays DEF world
<1>. QED
  BY <1>2, Initials, ProcessFacts, Moves

\* An error return passes nothing.
LEMMA RefusedInv ==
    ASSUME AcceptanceInv, NEW r \in Runners, Refused(r)
    PROVE  AcceptanceInv'
<1>. DEFINE q == runner[r]
<1>1. /\ q.draft \in HostReboot /\ q.now \in Time /\ 0 \in Time /\ lease \in Lease
      /\ evidence \in HostReboot /\ Genuine(evidence, Boot)
      /\ Genuine(q.draft, Boot)
      /\ q.pc \in Opened \cup {"before", "open"} => q.command = "login"
  BY ProcessFacts DEF ProcessOK
<1>2. UNCHANGED <<world, lease, evidence, unrenewed>> /\ AfterError(r)
  BY DEF Refused
<1>4. CASE q.command = "prepare" /\ runner' = [runner EXCEPT ![r] = Idle]
  BY <1>1, <1>2, <1>4, EndInv
<1>5. CASE q.command = "verify" /\ Continue(r, "write", 0, Failed)
  BY <1>1, <1>2, <1>5, Initials, GoesOn
<1>6. CASE q.command = "login"
           /\ Continue(r, IF q.pc \in Opened THEN "cleanup" ELSE "write", 0, q.draft)
  <2>1. PICK l \in {"cleanup", "write"} :
           Continue(r, l, 0, q.draft)
    BY <1>6
  <2>2. /\ l \in {"before", "open", "write"} \cup (Opened \ {"passed"})
        /\ l \notin {"before", "open"}
    BY DEF Opened
  <2>. QED
    BY <1>1, <1>2, <1>6, <2>1, <2>2, GoesOn
<1>. QED
  BY <1>2, <1>4, <1>5, <1>6 DEF AfterError

\* writeEvidence publishes the copy of one command.
LEMMA WriteInv ==
    ASSUME AcceptanceInv, NEW r \in Runners, WriteEvidence(r) \/ Crash(r)
    PROVE  AcceptanceInv'
<1>1. /\ runner[r].draft \in HostReboot /\ Genuine(runner[r].draft, Boot)
      /\ evidence \in HostReboot /\ Genuine(evidence, Boot)
  BY ProcessFacts
<1>2. CASE WriteEvidence(r)
  <2>1. runner' = [runner EXCEPT ![r] = Idle] /\ UNCHANGED <<world, lease, unrenewed>>
    BY <1>2 DEF WriteEvidence
  <2>2. evidence' \in HostReboot /\ Genuine(evidence', Boot)
    BY <1>1, <1>2 DEF WriteEvidence
  <2>. QED
    BY <2>1, <2>2, EndInv
<1>3. CASE Crash(r)
  BY <1>1, <1>3, EndInv DEF Crash
<1>. QED
  BY <1>2, <1>3

\* Every step keeps the invariant.
LEMMA NextInv == AcceptanceInv /\ [Next]_vars => AcceptanceInv'
<1>. SUFFICES ASSUME AcceptanceInv, [Next]_vars PROVE AcceptanceInv'
  OBVIOUS
<1>1. CASE HostPublishes \/ PaperPublishes
  BY <1>1, PublishInv
<1>2. CASE LeaseChanges \/ Tick
  BY <1>2, EnvironmentInv
<1>3. CASE HostReboots
  BY <1>3, RebootInv
<1>4. CASE \E r \in Runners : MinecraftLoginClose(r) \/ PrepareHostReboot(r) \/ VerifyHostReboot(r)
  BY <1>4, BeginInv
<1>5. CASE \E r \in Runners : Step(r) \/ Crash(r)
  BY <1>5, CheckInv, ProbeInv, LoginInv, RefusedInv, WriteInv DEF Step
<1>6. CASE UNCHANGED vars
  BY <1>6 DEF vars, world, AcceptanceInv, AcceptanceTypeOK, Placed, Boot, ProbeOK,
              LoginPassIsReal
<1>. QED
  BY <1>1, <1>2, <1>3, <1>4, <1>5, <1>6 DEF Next

-----------------------------------------------------------------------------
(* The results.                                                            *)

\* The invariant holds throughout.
THEOREM Invariance == Spec => []AcceptanceInv
BY InitInv, NextInv, PTL DEF Spec

\* The commands keep their types, whatever the bounds.
THEOREM TypeCorrect == Spec => []AcceptanceTypeOK
<1>1. AcceptanceInv => AcceptanceTypeOK
  BY DEF AcceptanceInv
<1>. QED
  BY <1>1, Invariance, PTL

\* A HOST_RECOVERY PASS is a real reboot, for any number of processes that share the
\* evidence file, any reboots and any freshness bounds shorter than an outage.
THEOREM RebootPass == Spec => []RebootPassIsReal
<1>1. AcceptanceInv => RebootPassIsReal
  BY DEF AcceptanceInv, Genuine, RebootPassIsReal
<1>. QED
  BY <1>1, Invariance, PTL

\* A login PASS rests on a snapshot that landed after the gate was found open, whatever
\* other commands and the owner do to the lease in between.
THEOREM LoginPass == Spec => []LoginPassIsReal
<1>1. AcceptanceInv => LoginPassIsReal
  BY DEF AcceptanceInv, ProbeOK
<1>. QED
  BY <1>1, Invariance, PTL
=============================================================================
