--------------------------- MODULE EvidenceProofs ---------------------------
(***************************************************************************)
(* BundleIsRecent for any number of observers, runs of Paper, replacements *)
(* and any bounds.  The argument follows one host observation: it is       *)
(* stamped before it reads anything, so whatever it says of the slot was   *)
(* true at its stamp or later, and stays so in the draft, in the file and  *)
(* in the reader's copy, since the history of the slot only grows.         *)
(***************************************************************************)
EXTENDS Evidence, TLAPS

USE Zenon

\* What the draft of an observer is at each point of observe.
DraftOK(p) ==
    /\ p.pc \in {"inspect", "plugins"} => p.draft \in [at : Time] /\ p.draft.at <= clock
    /\ p.pc = "barrier" => p.draft \in AvailableSnapshot /\ p.draft.at <= clock
    /\ p.pc = "publish" => p.draft \in HostSnapshot

\* A host snapshot is not older than what it says of the slot.
Attested(h) == h \in AvailableSnapshot => h.at <= SlotHeld(h.artifact)

\* Paper was running when the runtime snapshot was captured, or later.
Captured(r) == r \in RuntimeSnapshot => r.at <= LastRunning

\* The inductive invariant.
EvidenceInv ==
    /\ EvidenceTypeOK
    /\ paper.exitedAt <= clock
    /\ \A a \in Artifacts : lastSlot[a] <= clock
    /\ \A o \in Observers : DraftOK(observer[o]) /\ Attested(observer[o].draft)
    /\ Attested(hostFile)
    /\ Attested(reader)
    /\ Captured(writing)
    /\ Captured(runtimeFile)

-----------------------------------------------------------------------------

\* A missing file is no snapshot.
LEMMA NoneIsNoSnapshot ==
    None \notin AvailableSnapshot /\ None \notin RuntimeSnapshot /\ None \notin HostSnapshot
BY DEF None, AvailableSnapshot, RuntimeSnapshot, HostSnapshot

\* Nothing has been observed.
LEMMA InitInv == Init => EvidenceInv
<1>. SUFFICES ASSUME Init PROVE EvidenceInv
  OBVIOUS
<1>1. None \notin AvailableSnapshot /\ None \notin RuntimeSnapshot
  BY NoneIsNoSnapshot
<1>2. EvidenceTypeOK
  BY SMT, EvidenceAssumption DEF Init, EvidenceTypeOK, Time, Boot, Artifacts, Fault, Container, Process
<1>3. \A o \in Observers : DraftOK(observer[o]) /\ Attested(observer[o].draft)
  BY <1>1 DEF Init, DraftOK, Attested
<1>. QED
  BY SMT, <1>1, <1>2, <1>3 DEF Init, EvidenceInv, Attested, Captured

\* Types of the container's and the clock's steps.
LEMMA TargetType ==
    ASSUME EvidenceTypeOK,
           OnDisable \/ Exit \/ Start \/ Replace \/ Tick \/ \E f \in Fault : Change(f)
    PROVE  EvidenceTypeOK'
<1>. USE EvidenceAssumption
<1>1. CASE OnDisable
  <2>1. paper \in Container /\ paper' = [paper EXCEPT !.state = "disabled"]
    BY <1>1 DEF OnDisable, EvidenceTypeOK
  <2>2. paper' \in Container
    BY <2>1 DEF Container
  <2>3. paper.boot \in Boot /\ clock \in Time
    BY <2>1 DEF EvidenceTypeOK, Container
  <2>4. [boot |-> paper.boot, at |-> clock, ready |-> FALSE] \in RuntimeSnapshot
    BY <2>3 DEF RuntimeSnapshot
  <2>5. runtimeFile' \in {None} \cup RuntimeSnapshot
    BY <1>1, <2>4 DEF OnDisable, EvidenceTypeOK
  <2>. QED  BY <1>1, <2>2, <2>5 DEF OnDisable, EvidenceTypeOK
<1>2. CASE Exit
  <2>1. paper' \in Container
    BY <1>2 DEF Exit, EvidenceTypeOK, Container
  <2>. QED  BY <1>2, <2>1 DEF Exit, EvidenceTypeOK
<1>3. CASE Start
  <2>1. /\ paper \in Container
        /\ paper' = [paper EXCEPT !.state = "up", !.boot = @ + 1, !.inspected = FALSE]
    BY <1>3 DEF Start, EvidenceTypeOK
  <2>2. paper.boot + 1 \in Boot
    BY SMT, <1>3, <2>1 DEF Start, Container, Boot
  <2>3. paper' \in Container
    BY <2>1, <2>2 DEF Container
  <2>. QED  BY <1>3, <2>3 DEF Start, EvidenceTypeOK, guard
<1>4. CASE Replace
  <2>1. slot' \in Artifacts /\ lastSlot' \in [Artifacts -> Time]
    BY SMT, <1>4 DEF Replace, EvidenceTypeOK, Artifacts
  <2>. QED  BY <1>4, <2>1 DEF Replace, EvidenceTypeOK, guard
<1>5. CASE Tick
  BY SMT, <1>5 DEF Tick, EvidenceTypeOK, Time, target, guard
<1>6. CASE \E f \in Fault : Change(f)
  BY <1>6 DEF Change, EvidenceTypeOK, guard
<1>. QED  BY <1>1, <1>2, <1>3, <1>4, <1>5, <1>6

\* The history only grows: a fact that was true at some time or later stays so.
LEMMA HistoryGrows ==
    ASSUME EvidenceInv,
           OnDisable \/ Exit \/ Start \/ Replace \/ Tick \/ \E f \in Fault : Change(f)
    PROVE  /\ clock <= clock'
           /\ (paper.exitedAt <= clock)'
           /\ (\A a \in Artifacts : lastSlot[a] <= clock)'
           /\ \A a \in Artifacts : SlotHeld(a) <= SlotHeld(a)'
           /\ LastRunning <= LastRunning'
<1>. USE EvidenceAssumption DEF EvidenceInv, SlotHeld, LastRunning, Running
<1>0. /\ clock \in Int /\ slot \in Artifacts /\ paper.exitedAt \in Int
      /\ \A a \in Artifacts : lastSlot[a] \in Int
      /\ lastSlot \in [Artifacts -> Time] /\ paper \in Container
  BY SMT DEF EvidenceTypeOK, Container, Time
<1>1. CASE OnDisable
  BY SMT, <1>0, <1>1 DEF OnDisable, Container
<1>2. CASE Exit
  BY SMT, <1>0, <1>2 DEF Exit, Container
<1>3. CASE Start
  BY SMT, <1>0, <1>3 DEF Start, Container
<1>4. CASE Replace
  BY SMT, <1>0, <1>4 DEF Replace, Artifacts
<1>5. CASE Tick
  BY SMT, <1>0, <1>5 DEF Tick, target
<1>6. CASE \E f \in Fault : Change(f)
  BY SMT, <1>0, <1>6 DEF Change
<1>. QED  BY <1>1, <1>2, <1>3, <1>4, <1>5, <1>6

\* The container, the owner and the clock: evidence taken earlier keeps its meaning.
LEMMA TargetStep ==
    ASSUME EvidenceInv,
           OnDisable \/ Exit \/ Start \/ Replace \/ Tick \/ \E f \in Fault : Change(f)
    PROVE  EvidenceInv'
<1>. USE DEF EvidenceInv
<1>1. EvidenceTypeOK'
  BY TargetType
<1>2. /\ clock <= clock'
      /\ (paper.exitedAt <= clock)'
      /\ (\A a \in Artifacts : lastSlot[a] <= clock)'
      /\ \A a \in Artifacts : SlotHeld(a) <= SlotHeld(a)'
      /\ LastRunning <= LastRunning'
  BY HistoryGrows
<1>3. UNCHANGED <<observer, hostFile, reader>>
  BY DEF OnDisable, Exit, Start, Replace, Tick, Change
<1>4. /\ clock \in Int /\ clock' \in Int
      /\ \A a \in Artifacts : SlotHeld(a) \in Int /\ SlotHeld(a)' \in Int
      /\ LastRunning \in Int /\ LastRunning' \in Int
  BY SMT, <1>1, EvidenceAssumption
     DEF EvidenceTypeOK, Container, Time, SlotHeld, LastRunning
<1>5. ASSUME NEW h \in AvailableSnapshot, h.at <= SlotHeld(h.artifact)
      PROVE  h.at <= SlotHeld(h.artifact)'
  BY SMT, <1>2, <1>4, <1>5, EvidenceAssumption DEF AvailableSnapshot, Time
<1>6. ASSUME NEW o \in Observers
      PROVE  DraftOK(observer[o])' /\ Attested(observer[o].draft)'
  <2>1. ASSUME NEW d, d \in [at : Time] \/ d \in AvailableSnapshot, d.at <= clock
        PROVE  d.at <= clock'
    <3>1. d.at \in Time
      BY <2>1 DEF AvailableSnapshot
    <3>. QED  BY SMT, <1>2, <1>4, <2>1, <3>1 DEF Time
  <2>2. DraftOK(observer[o])'
    BY <1>3, <2>1 DEF DraftOK
  <2>3. Attested(observer[o].draft)'
    BY <1>3, <1>5 DEF Attested, SlotHeld
  <2>. QED  BY <2>2, <2>3
<1>7. Attested(hostFile)' /\ Attested(reader)'
  BY <1>3, <1>5 DEF Attested, SlotHeld
<1>8. ASSUME NEW r \in RuntimeSnapshot, r.at <= LastRunning
      PROVE  r.at <= LastRunning'
  BY SMT, <1>2, <1>4, <1>8, EvidenceAssumption DEF RuntimeSnapshot, Time
<1>9. writing' \in {writing, None}
  BY DEF OnDisable, Exit, Start, Replace, Tick, Change, guard
<1>10. runtimeFile' = runtimeFile \/ runtimeFile'.at = LastRunning'
  BY SMT, <1>4 DEF OnDisable, Exit, Start, Replace, Tick, Change, guard, LastRunning, Running,
              EvidenceTypeOK, Container
<1>11. Captured(writing)' /\ Captured(runtimeFile)'
  BY SMT, <1>4, <1>8, <1>9, <1>10, NoneIsNoSnapshot DEF Captured
<1>. QED  BY <1>1, <1>2, <1>6, <1>7, <1>11

\* GARGuard: a capture is of the present, and a write that lands publishes a capture.
LEMMA GuardStep ==
    ASSUME EvidenceInv, Capture \/ PublishLands
    PROVE  EvidenceInv'
<1>. USE DEF EvidenceInv
<1>1. UNCHANGED <<clock, target, observer, hostFile, reader>>
  BY DEF Capture, PublishLands
<1>2. CASE Capture
  <2>1. paper.boot \in Boot /\ clock \in Time
    BY DEF EvidenceTypeOK, Container
  <2>2. writing' \in RuntimeSnapshot /\ writing'.at = clock
    BY <1>2, <2>1 DEF Capture, RuntimeSnapshot
  <2>3. Running /\ runtimeFile' = runtimeFile
    BY <1>2 DEF Capture, Running
  <2>. QED
    BY SMT, <1>1, <2>1, <2>2, <2>3, EvidenceAssumption
       DEF EvidenceTypeOK, DraftOK, Attested, Captured, SlotHeld, LastRunning, Running, target, Time
<1>3. CASE PublishLands
  BY <1>1, <1>3, NoneIsNoSnapshot
     DEF PublishLands, EvidenceTypeOK, DraftOK, Attested, Captured, SlotHeld, LastRunning, Running,
         target
<1>. QED  BY <1>2, <1>3

\* A process in a state that satisfies its part of the invariant.
Settled(q) == q \in Process /\ DraftOK(q) /\ Attested(q.draft)

\* A step of one observer that leaves it settled and publishes at most its own draft.
LEMMA Update ==
    ASSUME EvidenceInv, NEW o \in Observers, NEW q, Settled(q),
           observer' = [observer EXCEPT ![o] = q],
           UNCHANGED <<clock, fault, slot, lastSlot, writing, runtimeFile, reader>>,
           paper' \in Container, paper'.state = paper.state, paper'.exitedAt = paper.exitedAt,
           hostFile' = hostFile \/ (hostFile' = observer[o].draft /\ hostFile' \in HostSnapshot)
    PROVE  EvidenceInv'
<1>. USE DEF EvidenceInv
<1>1. EvidenceTypeOK'
  BY DEF EvidenceTypeOK, Settled
<1>2. ASSUME NEW n \in Observers
      PROVE  observer'[n] = (IF n = o THEN q ELSE observer[n])
  BY DEF EvidenceTypeOK
<1>3. ASSUME NEW n \in Observers
      PROVE  DraftOK(observer[n])' /\ Attested(observer[n].draft)'
  BY <1>2, ZenonT(40) DEF Settled, DraftOK, Attested, SlotHeld
<1>4. Attested(hostFile)' /\ Attested(reader)'
  BY DEF Attested, SlotHeld
<1>5. Captured(writing)' /\ Captured(runtimeFile)'
  BY DEF Captured, LastRunning, Running
<1>. QED  BY <1>1, <1>3, <1>4, <1>5

\* The snapshot of an observation that failed.
LEMMA UnavailableSettled ==
    ASSUME NEW o, observer[o].draft.at \in Time
    PROVE  Settled([pc |-> "publish", draft |-> Unavailable(o)])
<1>. DEFINE u == [available |-> FALSE, at |-> observer[o].draft.at]
<1>1. u \in HostSnapshot /\ u \notin AvailableSnapshot
  BY DEF HostSnapshot, AvailableSnapshot
<1>. QED  BY <1>1 DEF Settled, Unavailable, Process, Draft, DraftOK, Attested

\* gar-host: an observation is stamped before it reads what it says.
LEMMA ObserverStep ==
    ASSUME EvidenceInv, NEW o \in Observers, Launch(o) \/ Observe(o) \/ Terminate(o)
    PROVE  EvidenceInv'
<1>. USE DEF EvidenceInv, target, guard
<1>1. /\ observer[o] \in Process /\ DraftOK(observer[o]) /\ Attested(observer[o].draft)
      /\ clock \in Time /\ clock \in Int /\ slot \in Artifacts /\ paper \in Container
  BY SMT, EvidenceAssumption DEF EvidenceTypeOK, Time
<1>2. CASE Launch(o)
  <2>. DEFINE q == [observer[o] EXCEPT !.pc = "wait"]
  <2>1. Settled(q)
    BY <1>1 DEF Settled, Process, DraftOK
  <2>2. observer' = [observer EXCEPT ![o] = q]
    BY <1>2 DEF Launch, EvidenceTypeOK
  <2>. QED  BY <1>1, <1>2, <2>1, <2>2, Update DEF Launch
<1>3. CASE Begin(o)
  <2>. DEFINE q == [pc |-> "inspect", draft |-> [at |-> clock]]
  <2>1. [at |-> clock] \in [at : Time]
    BY <1>1
  <2>2. [at |-> clock] \notin AvailableSnapshot
    <3>1. \A h \in AvailableSnapshot : "available" \in DOMAIN h
      BY DEF AvailableSnapshot
    <3>2. "available" \notin DOMAIN [at |-> clock]
      OBVIOUS
    <3>. QED  BY <3>1, <3>2
  <2>3. Settled(q)
    BY SMT, <1>1, <2>1, <2>2 DEF Settled, Process, Draft, DraftOK, Attested
  <2>. QED  BY <1>1, <1>3, <2>3, Update DEF Begin
<1>4. CASE Terminate(o)
  <2>. DEFINE q == [pc |-> "off", draft |-> None]
  <2>1. Settled(q)
    BY NoneIsNoSnapshot DEF Settled, Process, DraftOK, Attested
  <2>. QED  BY <1>1, <1>4, <2>1, Update DEF Terminate
<1>5. CASE Publish(o)
  <2>. DEFINE q == [pc |-> "wait", draft |-> None]
  <2>1. Settled(q)
    BY NoneIsNoSnapshot DEF Settled, Process, DraftOK, Attested
  <2>2. hostFile' = observer[o].draft /\ hostFile' \in HostSnapshot
    BY <1>1, <1>5 DEF Publish, DraftOK
  <2>. QED  BY <1>1, <1>5, <2>1, <2>2, Update DEF Publish
<1>6. CASE Inspect(o)
  <2>1. observer[o].draft \in [at : Time] /\ observer[o].draft.at <= clock
    BY <1>1, <1>6 DEF Inspect, DraftOK
  <2>2. Settled([pc |-> "publish", draft |-> Unavailable(o)])
    BY <2>1, UnavailableSettled
  <2>3. Settled([pc |-> "plugins", draft |-> observer[o].draft])
    BY <1>1, <2>1 DEF Settled, Process, Draft, DraftOK
  <2>4. PICK q : Settled(q) /\ observer' = [observer EXCEPT ![o] = q]
    BY <1>6, <2>2, <2>3 DEF Inspect, Observed
  <2>5. paper' \in Container /\ paper'.state = paper.state /\ paper'.exitedAt = paper.exitedAt
    BY <1>1, <1>6 DEF Inspect, Container
  <2>. QED  BY <1>6, <2>4, <2>5, Update DEF Inspect
<1>7. CASE ObservePlugins(o)
  <2>. DEFINE d == [available |-> TRUE, at |-> observer[o].draft.at, artifact |-> slot]
  <2>1. observer[o].draft \in [at : Time] /\ observer[o].draft.at <= clock
    BY <1>1, <1>7 DEF ObservePlugins, DraftOK
  <2>2. Settled([pc |-> "publish", draft |-> Unavailable(o)])
    BY <2>1, UnavailableSettled
  <2>3. d \in AvailableSnapshot
    BY <1>1, <2>1 DEF AvailableSnapshot
  <2>4. Settled([pc |-> "barrier", draft |-> d])
    BY <1>1, <2>1, <2>3 DEF Settled, Process, Draft, HostSnapshot, DraftOK, Attested, SlotHeld
  <2>5. PICK q : Settled(q) /\ observer' = [observer EXCEPT ![o] = q]
    BY <1>7, <2>2, <2>4 DEF ObservePlugins, Observed
  <2>. QED  BY <1>1, <1>7, <2>5, Update DEF ObservePlugins
<1>8. CASE ObserveBarrier(o)
  <2>1. observer[o].draft \in AvailableSnapshot /\ observer[o].draft.at \in Time
    BY <1>1, <1>8 DEF ObserveBarrier, DraftOK, AvailableSnapshot
  <2>2. Settled([pc |-> "publish", draft |-> Unavailable(o)])
    BY <2>1, UnavailableSettled
  <2>3. Settled([pc |-> "publish", draft |-> observer[o].draft])
    BY <1>1, <2>1 DEF Settled, Process, Draft, HostSnapshot, DraftOK
  <2>4. PICK q : Settled(q) /\ observer' = [observer EXCEPT ![o] = q]
    BY <1>8, <2>2, <2>3 DEF ObserveBarrier, Observed
  <2>. QED  BY <1>1, <1>8, <2>4, Update DEF ObserveBarrier
<1>. QED  BY <1>2, <1>3, <1>4, <1>5, <1>6, <1>7, <1>8 DEF Observe

\* The reader keeps a copy of the file.
LEMMA ReaderStep ==
    ASSUME EvidenceInv, ReadHost \/ ReadRuntime
    PROVE  EvidenceInv'
<1>. USE DEF EvidenceInv
<1>1. UNCHANGED <<clock, target, guard, observer, hostFile>>
  BY DEF ReadHost, ReadRuntime
<1>2. reader' \in {None} \cup AvailableSnapshot /\ Attested(reader)'
  <2>1. CASE ReadHost
    <3>1. hostFile \in HostSnapshot /\ hostFile.available /\ reader' = hostFile
      BY <2>1 DEF ReadHost, HostAccepted, EvidenceTypeOK
    <3>2. hostFile \in AvailableSnapshot
      BY <3>1 DEF HostSnapshot
    <3>. QED  BY <1>1, <3>1, <3>2 DEF Attested, SlotHeld, target
  <2>2. CASE ReadRuntime
    BY <2>2, NoneIsNoSnapshot DEF ReadRuntime, Attested
  <2>. QED  BY <2>1, <2>2
<1>. QED
  BY <1>1, <1>2
     DEF EvidenceTypeOK, DraftOK, Attested, Captured, SlotHeld, LastRunning, Running, target, guard

\* Every step preserves the invariant.
LEMMA NextInv == EvidenceInv /\ [Next]_vars => EvidenceInv'
<1>. SUFFICES ASSUME EvidenceInv, [Next]_vars PROVE EvidenceInv'
  OBVIOUS
<1>1. CASE UNCHANGED vars
  BY <1>1 DEF vars, EvidenceInv, EvidenceTypeOK, DraftOK, Attested, Captured, SlotHeld,
              LastRunning, Running
<1>. QED
  BY <1>1, TargetStep, GuardStep, ObserverStep, ReaderStep DEF Next

\* The invariant implies the property: the runtime half is fresh when it is merged, and the
\* skew bounds how much older the host half may be, even if the reader stopped in between.
LEMMA InvImpliesRecent == EvidenceInv => BundleIsRecent
<1>. SUFFICES ASSUME EvidenceInv, Merges PROVE BundleIsRecent
  BY DEF BundleIsRecent
<1>1. reader \in AvailableSnapshot /\ runtimeFile \in RuntimeSnapshot
  BY DEF EvidenceInv, EvidenceTypeOK, Merges, RuntimeAccepted
<1>2. /\ reader.at \in Int /\ reader.artifact \in Artifacts /\ runtimeFile.at \in Int
      /\ clock \in Int /\ Freshness \in Int /\ MaxSkew \in Int
  BY SMT, <1>1, EvidenceAssumption
     DEF AvailableSnapshot, RuntimeSnapshot, Time, EvidenceInv, EvidenceTypeOK
<1>3. SlotHeld(reader.artifact) \in Int /\ LastRunning \in Int
  BY SMT, <1>2, EvidenceAssumption
     DEF EvidenceInv, EvidenceTypeOK, Container, Time, SlotHeld, LastRunning
<1>4. reader.at <= SlotHeld(reader.artifact) /\ runtimeFile.at <= LastRunning
  BY <1>1 DEF EvidenceInv, Attested, Captured
<1>5. clock - runtimeFile.at <= Freshness /\ runtimeFile.at - reader.at <= MaxSkew
  BY DEF Merges, RuntimeAccepted, Fresh, Paired
<1>. QED  BY SMT, <1>2, <1>3, <1>4, <1>5 DEF BundleIsRecent

\* Files, processes and histories keep their types, whatever breaks and whoever terminates.
THEOREM EvidenceTypes == Spec => []EvidenceTypeOK
<1>1. EvidenceInv => EvidenceTypeOK
  BY DEF EvidenceInv
<1>. QED  BY <1>1, InitInv, NextInv, PTL DEF Spec

\* Bundles of the composite target are recent for any number of observers and any bounds.
THEOREM EvidenceRecent == Spec => []BundleIsRecent
BY InitInv, NextInv, InvImpliesRecent, PTL DEF Spec
=============================================================================
