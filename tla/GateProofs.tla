----------------------------- MODULE GateProofs -----------------------------
(***************************************************************************)
(* The safety of player admission for any number of connections, any lease,*)
(* poll interval and freshness.  The argument: a handler that got past its *)
(* decision did so while the lease ran, and the monitor's next poll, due   *)
(* within one interval of that, finds the client in gate.connections.  A   *)
(* session that closeAll did not copy was decided after the copy, so the   *)
(* lease still ran then.                                                   *)
(***************************************************************************)
EXTENDS AdmissionGate, FiniteSetTheorems, TLAPS

USE Zenon

\* A handler past its decision whose client has not been closed.
Live(c) == pc[c] \in {"confirm", "dial", "track", "proxy"} /\ Client(c) \in sockets

\* A login that Paper has allowed on a connection it still has.
Joinable(c) == login[c] # "NONE" /\ Upstream(c) \in sockets

\* The ticker is never overdue, nor due later than an interval from now.
Timely == clock <= monitor.due /\ monitor.due <= clock + PollInterval

\* closeAll finds every client and every upstream but one that was just dialled.
Tracked ==
    \A c \in Connections :
        /\ Client(c) \in sockets => Client(c) \in connections
        /\ Upstream(c) \in sockets => pc[c] = "track" \/ Upstream(c) \in connections

\* Paper has upstream connections only while it is up, and logins only after proxying.
Paired ==
    \A c \in Connections :
        /\ Upstream(c) \in sockets => up
        /\ login[c] # "NONE" => pc[c] \in {"proxy", "end", "done"}

\* The next poll comes within an interval of the lease's end.
Bounded ==
    \A c \in Connections :
        Live(c) \/ Joinable(c) => monitor.due <= LeaseEnd + PollInterval

\* What the monitor has decided still means something: the lease ran at this moment,
\* or the copy holds everything that was decided before this moment.
Polling ==
    /\ monitor.pc = "runtime" => clock <= LeaseEnd
    /\ monitor.pc = "close" =>
         \A c \in Connections :
             /\ Live(c) => Client(c) \in monitor.targets \/ clock <= LeaseEnd
             /\ Joinable(c) => Upstream(c) \in monitor.targets \/ clock <= LeaseEnd

\* A snapshot without players from after the cut-off is true now.
SnapshotOK(s) ==
    /\ s.at <= clock
    /\ s.empty /\ s.at > LeaseEnd + PollInterval => \A c \in Connections : login[c] # "ONLINE"

Snapshots == \A s \in writing \cup {published} : SnapshotOK(s)

\* The inductive invariant.
GateInv ==
    /\ GateTypeOK /\ SessionsCounted
    /\ Timely /\ Tracked /\ Paired /\ Bounded /\ Polling /\ Snapshots

-----------------------------------------------------------------------------
(* Sockets, the lease and the count of the sessions.                       *)

\* The sockets of the connections are different sockets.
LEMMA SocketFacts ==
    /\ \A c \in Connections : Client(c) \in Sockets /\ Upstream(c) \in Sockets
    /\ \A c, d \in Connections :
         /\ Client(c) # Upstream(d)
         /\ Client(c) = Client(d) => c = d
         /\ Upstream(c) = Upstream(d) => c = d
    /\ \A c \in Connections :
         Upstream(c) \in Connections \X {"upstream"} /\ Client(c) \notin Connections \X {"upstream"}
BY DEF Client, Upstream, Sockets

\* While the lease runs, now is before its end.
LEMMA LeaseFacts ==
    ASSUME GateTypeOK
    PROVE  /\ LeaseEnd \in Nat /\ clock \in Nat /\ monitor.due \in Nat /\ PollInterval \in Nat
           /\ PollInterval > 0
           /\ EvaluateState(clock) => clock <= LeaseEnd
<1>1. /\ lease.written \in Nat /\ lease.expires \in Nat /\ clock \in Nat /\ monitor.due \in Nat
  BY SMT, AdmissionAssumption DEF GateTypeOK
<1>. QED
  BY SMT, <1>1, AdmissionAssumption DEF LeaseEnd, EvaluateState

\* The handlers between startSession and endSession.
Handlers(p) == {c \in Connections : p[c] \in InSession}

\* How the number of handlers changes with the location of one.
LEMMA HandlersCounted ==
    ASSUME NEW p \in [Connections -> InSession \cup {"new", "done"}], NEW c \in Connections,
           NEW l \in InSession \cup {"new", "done"}
    PROVE  /\ Cardinality(Handlers(p)) \in Nat
           /\ (p[c] \in InSession <=> l \in InSession) =>
                Handlers([p EXCEPT ![c] = l]) = Handlers(p)
           /\ p[c] \notin InSession /\ l \in InSession =>
                Cardinality(Handlers([p EXCEPT ![c] = l])) = Cardinality(Handlers(p)) + 1
           /\ p[c] \in InSession /\ l \notin InSession =>
                /\ Cardinality(Handlers([p EXCEPT ![c] = l])) = Cardinality(Handlers(p)) - 1
                /\ Cardinality(Handlers(p)) > 0
<1>1. IsFiniteSet(Handlers(p))
  BY FS_Subset, AdmissionAssumption DEF Handlers
<1>2. Cardinality(Handlers(p)) \in Nat
  BY <1>1, FS_CardinalityType
<1>3. ASSUME p[c] \in InSession <=> l \in InSession
      PROVE  Handlers([p EXCEPT ![c] = l]) = Handlers(p)
  BY <1>3 DEF Handlers
<1>4. ASSUME p[c] \notin InSession, l \in InSession
      PROVE  Cardinality(Handlers([p EXCEPT ![c] = l])) = Cardinality(Handlers(p)) + 1
  <2>1. Handlers([p EXCEPT ![c] = l]) = Handlers(p) \cup {c} /\ c \notin Handlers(p)
    BY <1>4 DEF Handlers
  <2>. QED
    BY <1>1, <2>1, FS_AddElement
<1>5. ASSUME p[c] \in InSession, l \notin InSession
      PROVE  /\ Cardinality(Handlers([p EXCEPT ![c] = l])) = Cardinality(Handlers(p)) - 1
             /\ Cardinality(Handlers(p)) > 0
  <2>1. Handlers([p EXCEPT ![c] = l]) = Handlers(p) \ {c} /\ c \in Handlers(p)
    BY <1>5 DEF Handlers
  <2>2. Cardinality(Handlers(p)) # 0
    BY <1>1, <2>1, FS_EmptySet
  <2>3. Cardinality(Handlers(p) \ {c}) = Cardinality(Handlers(p)) - 1
    BY <1>1, <2>1, FS_RemoveElement
  <2>4. Cardinality(Handlers(p)) > 0
    BY SMT, <1>2, <2>2
  <2>5. Cardinality(Handlers([p EXCEPT ![c] = l])) = Cardinality(Handlers(p)) - 1
    BY <2>1, <2>3
  <2>. QED
    BY <2>4, <2>5
<1>. QED
  BY <1>2, <1>3, <1>4, <1>5

\* Nothing runs.
LEMMA InitInv == Init => GateInv
<1>. SUFFICES ASSUME Init PROVE GateInv
  OBVIOUS
<1>1. Cardinality({}) = 0
  BY FS_EmptySet
<1>2. GateTypeOK
  BY SMT, <1>1, AdmissionAssumption DEF Init, GateTypeOK, Mode, Snapshot
<1>3. {c \in Connections : pc[c] \in InSession} = {}
  BY DEF Init, InSession
<1>4. SessionsCounted
  BY <1>1, <1>3 DEF Init, SessionsCounted
<1>5. Timely
  BY SMT, AdmissionAssumption DEF Init, Timely
<1>6. Tracked /\ Paired /\ Bounded /\ Polling
  BY DEF Init, Tracked, Paired, Bounded, Polling, Live, Joinable
<1>7. Snapshots
  BY SMT, AdmissionAssumption DEF Init, Snapshots, SnapshotOK, LeaseEnd
<1>. QED
  BY <1>2, <1>4, <1>5, <1>6, <1>7 DEF GateInv

-----------------------------------------------------------------------------
(* The lease file.                                                         *)

\* Whatever is written, the new lease ends now or later.
LEMMA LeaseInv ==
    ASSUME GateInv, SetOpen \/ SetClosed \/ LoseState
    PROVE  GateInv'
<1>1. UNCHANGED <<clock, published, paper, handlers, monitor>>
  BY DEF SetOpen, SetClosed, LoseState
<1>2. UNCHANGED <<up, writing, login, pc, readAt, sockets, connections, activeSessions>>
  BY <1>1 DEF paper, handlers
<1>3. clock \in 0..MaxNow /\ MaxNow \in Nat /\ MaxOpenLease \in Nat
  BY AdmissionAssumption DEF GateInv, GateTypeOK
<1>4. /\ lease' \in [mode : Mode, issued : 0..MaxNow, expires : 0..(MaxNow + MaxOpenLease),
                     written : 0..MaxNow]
      /\ lease'.written = clock
  <2>1. CASE SetOpen
    <3>1. PICK issued \in 0..clock, l \in 1..MaxOpenLease :
             lease' = [mode |-> "OPEN", issued |-> issued, expires |-> issued + l, written |-> clock]
      BY <2>1 DEF SetOpen
    <3>2. issued \in 0..MaxNow /\ issued + l \in 0..(MaxNow + MaxOpenLease)
      BY SMT, <1>3, <3>1
    <3>. QED
      BY SMT, <1>3, <3>1, <3>2 DEF Mode
  <2>2. CASE SetClosed \/ LoseState
    <3>1. \E m \in {"CLOSED", "UNREADABLE"} :
             lease' = [mode |-> m, issued |-> clock, expires |-> 0, written |-> clock]
      BY <2>2 DEF SetClosed, LoseState
    <3>. QED
      BY SMT, <1>3, <3>1 DEF Mode
  <2>. QED
    BY <2>1, <2>2
<1>5. GateTypeOK'
  BY <1>1, <1>2, <1>4 DEF GateInv, GateTypeOK
<1>6. /\ clock' \in Nat /\ LeaseEnd' \in Nat /\ monitor'.due \in Nat /\ PollInterval \in Nat
      /\ PollInterval > 0 /\ clock <= LeaseEnd'
  <2>1. lease'.expires \in Nat /\ lease'.written \in Nat /\ clock' \in Nat /\ monitor'.due \in Nat
    BY SMT, <1>5, AdmissionAssumption DEF GateTypeOK
  <2>. QED
    BY SMT, <1>1, <1>3, <1>4, <2>1, AdmissionAssumption DEF LeaseEnd
<1>7. SessionsCounted' /\ Timely' /\ Tracked' /\ Paired'
  BY <1>1, <1>2 DEF GateInv, SessionsCounted, Timely, Tracked, Paired, Joinable
<1>8. Bounded' /\ Polling'
  BY SMT, <1>1, <1>4, <1>6, <1>7 DEF Bounded, Polling, Timely
<1>9. Snapshots'
  <2>1. ASSUME NEW s \in writing' \cup {published'} PROVE SnapshotOK(s)'
    <3>1. s.at <= clock' /\ s.at \in Nat
      BY SMT, <1>1, <1>2 DEF GateInv, Snapshots, SnapshotOK, GateTypeOK, Snapshot
    <3>. QED
      BY SMT, <1>1, <1>4, <1>6, <3>1 DEF SnapshotOK
  <2>. QED
    BY <2>1 DEF Snapshots
<1>. QED
  BY <1>5, <1>7, <1>8, <1>9 DEF GateInv

-----------------------------------------------------------------------------
(* GARGuard and the server.                                                *)

\* A capture of this moment is a snapshot and says what is.
LEMMA CaptureFacts ==
    ASSUME GateInv, NEW ready \in BOOLEAN
    PROVE  Capture(ready) \in Snapshot /\ SnapshotOK(Capture(ready))
<1>1. clock \in 0..MaxNow /\ MaxNow \in Nat
  BY AdmissionAssumption DEF GateInv, GateTypeOK
<1>2. EvaluateState(clock) \in BOOLEAN
  BY DEF EvaluateState
<1>3. Capture(ready) \in Snapshot
  BY <1>1, <1>2 DEF Capture, Snapshot
<1>4. Capture(ready).at = clock
      /\ (Capture(ready).empty => \A c \in Connections : login[c] # "ONLINE")
  BY DEF Capture
<1>. QED
  BY SMT, <1>1, <1>3, <1>4 DEF SnapshotOK

\* Snapshots are captured and published.
LEMMA PublishInv ==
    ASSUME GateInv, CaptureAndPublish \/ PublishLands
    PROVE  GateInv'
<1>1. /\ UNCHANGED <<clock, lease, up, login, handlers, monitor>>
      /\ writing' = {} \/ writing' = {Capture(TRUE)}
      /\ published' \in writing \cup {published}
  BY DEF CaptureAndPublish, PublishLands, files
<1>2. UNCHANGED <<pc, readAt, sockets, connections, activeSessions>>
  BY <1>1 DEF handlers
<1>3. \A s \in writing' \cup {published'} : s \in Snapshot /\ SnapshotOK(s)
  BY <1>1, CaptureFacts DEF GateInv, GateTypeOK, Snapshots
<1>4. Cardinality(writing') <= 1
  <2>1. Cardinality({}) = 0 /\ Cardinality({Capture(TRUE)}) = 1
    BY FS_EmptySet, FS_Singleton
  <2>2. Cardinality(writing') = 0 \/ Cardinality(writing') = 1
    BY <1>1, <2>1
  <2>. QED
    BY SMT, <2>2
<1>5. GateTypeOK'
  BY <1>1, <1>2, <1>3, <1>4 DEF GateInv, GateTypeOK
<1>6. LeaseEnd' = LeaseEnd
  BY <1>1 DEF LeaseEnd
<1>7. Snapshots'
  BY <1>1, <1>3, <1>6 DEF Snapshots, SnapshotOK
<1>8. SessionsCounted' /\ Timely' /\ Tracked' /\ Paired' /\ Bounded' /\ Polling'
  BY <1>1, <1>2, <1>6 DEF GateInv, SessionsCounted, Timely, Tracked, Paired, Bounded, Polling,
                          Live, Joinable
<1>. QED
  BY <1>5, <1>7, <1>8 DEF GateInv

\* Paper goes down with its connections and players.
LEMMA DisableInv ==
    ASSUME GateInv, OnDisable
    PROVE  GateInv'
<1>1. /\ UNCHANGED <<clock, lease, writing, pc, readAt, connections, activeSessions, monitor>>
      /\ up' = FALSE
      /\ published' \in {Capture(FALSE), published}
      /\ sockets' = sockets \ (Connections \X {"upstream"})
      /\ login' = [c \in Connections |-> "NONE"]
  BY DEF OnDisable
<1>2. GateTypeOK'
  BY <1>1, CaptureFacts DEF GateInv, GateTypeOK
<1>3. LeaseEnd' = LeaseEnd
  BY <1>1 DEF LeaseEnd
<1>4. Snapshots'
  <2>1. \A s \in writing' \cup {published'} : s.at <= clock'
    BY <1>1, CaptureFacts DEF GateInv, Snapshots, SnapshotOK
  <2>. QED
    BY <1>1, <2>1 DEF Snapshots, SnapshotOK
<1>5. \A c \in Connections : /\ Upstream(c) \notin sockets'
                             /\ Client(c) \in sockets' => Client(c) \in sockets
                             /\ Live(c)' => Live(c)
                             /\ ~Joinable(c)'
  BY <1>1, SocketFacts DEF Live, Joinable
<1>6. Tracked' /\ Paired'
  BY <1>1, <1>5 DEF GateInv, Tracked, Paired
<1>7. SessionsCounted' /\ Timely'
  BY <1>1 DEF GateInv, SessionsCounted, Timely
<1>8. Bounded' /\ Polling'
  BY <1>1, <1>3, <1>5 DEF GateInv, Bounded, Polling
<1>. QED
  BY <1>2, <1>4, <1>6, <1>7, <1>8 DEF GateInv

\* Paper comes up.
LEMMA EnableInv ==
    ASSUME GateInv, OnEnable
    PROVE  GateInv'
<1>1. UNCHANGED <<clock, lease, published, writing, login, handlers, monitor>> /\ up' = TRUE
  BY DEF OnEnable, files
<1>2. UNCHANGED <<pc, readAt, sockets, connections, activeSessions>>
  BY <1>1 DEF handlers
<1>3. GateTypeOK'
  BY <1>1, <1>2 DEF GateInv, GateTypeOK
<1>4. LeaseEnd' = LeaseEnd
  BY <1>1 DEF LeaseEnd
<1>5. SessionsCounted' /\ Timely' /\ Tracked' /\ Paired' /\ Bounded' /\ Polling' /\ Snapshots'
  BY <1>1, <1>2, <1>4 DEF GateInv, SessionsCounted, Timely, Tracked, Paired, Bounded, Polling,
                          Snapshots, SnapshotOK, Live, Joinable
<1>. QED
  BY <1>3, <1>5 DEF GateInv

\* Logins are allowed only while the lease runs; joins only while the cut-off is ahead.
LEMMA LoginInv ==
    ASSUME GateInv, NEW c \in Connections, OnAsyncPlayerPreLogin(c) \/ Join(c) \/ Quit(c)
    PROVE  GateInv'
<1>1. UNCHANGED <<clock, lease, published, up, writing, handlers, monitor>>
  BY DEF OnAsyncPlayerPreLogin, Join, Quit, files
<1>2. UNCHANGED <<pc, readAt, sockets, connections, activeSessions>>
  BY <1>1 DEF handlers
<1>3. PICK v \in {"NONE", "ALLOWED", "ONLINE"} : login' = [login EXCEPT ![c] = v]
  BY DEF OnAsyncPlayerPreLogin, Join, Quit
<1>4. login \in [Connections -> {"NONE", "ALLOWED", "ONLINE"}]
  BY DEF GateInv, GateTypeOK
<1>5. GateTypeOK'
  BY <1>1, <1>2, <1>3, <1>4 DEF GateInv, GateTypeOK
<1>6. LeaseEnd' = LeaseEnd /\ \A d \in Connections : Live(d)' = Live(d)
  BY <1>1, <1>2 DEF LeaseEnd, Live
<1>7. SessionsCounted' /\ Timely'
  BY <1>1, <1>2 DEF GateInv, SessionsCounted, Timely
<1>8. \A d \in Connections : d # c => login'[d] = login[d] /\ Joinable(d)' = Joinable(d)
  BY <1>2, <1>3, <1>4 DEF Joinable
<1>9. Joinable(c)' => \/ Joinable(c)
                      \/ EvaluateState(clock) /\ Live(c) /\ pc[c] = "proxy" /\ Upstream(c) \in sockets
  BY <1>2, <1>3, <1>4 DEF Joinable, Live, OnAsyncPlayerPreLogin, Join, Quit
<1>10. Tracked'
  BY <1>2 DEF GateInv, Tracked
<1>11. Paired'
  BY <1>1, <1>2, <1>3, <1>4, <1>8 DEF GateInv, Paired, OnAsyncPlayerPreLogin, Join, Quit
<1>12. Bounded' /\ Polling'
  BY <1>1, <1>6, <1>8, <1>9, LeaseFacts DEF GateInv, Bounded, Polling
<1>13. Snapshots'
  <2>1. CASE login'[c] # "ONLINE"
    BY <1>1, <1>4, <1>6, <1>8, <2>1 DEF GateInv, Snapshots, SnapshotOK
  <2>2. CASE login'[c] = "ONLINE"
    <3>1. Joinable(c)
      BY <1>3, <1>4, <2>2 DEF OnAsyncPlayerPreLogin, Join, Quit, Joinable
    <3>2. clock <= LeaseEnd + PollInterval
      BY SMT, <3>1, LeaseFacts DEF GateInv, Bounded, Timely
    <3>3. ASSUME NEW s \in writing' \cup {published'} PROVE SnapshotOK(s)'
      <4>1. s.at <= clock /\ s.at \in Nat
        BY SMT, <1>1 DEF GateInv, Snapshots, SnapshotOK, GateTypeOK, Snapshot
      <4>2. ~(s.at > LeaseEnd + PollInterval)
        BY SMT, <3>2, <4>1, LeaseFacts DEF GateInv
      <4>. QED
        BY <1>1, <1>6, <4>1, <4>2 DEF SnapshotOK
    <3>. QED
      BY <3>3 DEF Snapshots
  <2>. QED
    BY <2>1, <2>2
<1>. QED
  BY <1>5, <1>7, <1>10, <1>11, <1>12, <1>13 DEF GateInv

-----------------------------------------------------------------------------
(* The handlers.                                                           *)

\* A step of the gate that starts nothing behind the lease keeps the invariant.
LEMMA HandlerFrame ==
    ASSUME GateInv, UNCHANGED <<clock, files, paper, monitor>>,
           GateTypeOK', SessionsCounted', Tracked',
           \A d \in Connections :
               /\ Upstream(d) \in sockets' => Upstream(d) \in sockets \/ (up /\ login[d] = "NONE")
               /\ login[d] # "NONE" => pc'[d] \in {"proxy", "end", "done"}
               /\ Live(d)' => Live(d) \/ EvaluateState(clock)
    PROVE  GateInv'
<1>1. UNCHANGED <<clock, lease, published, up, writing, login, monitor>>
  BY DEF files, paper
<1>2. LeaseEnd' = LeaseEnd
  BY <1>1 DEF LeaseEnd
<1>3. \A d \in Connections : Joinable(d)' => Joinable(d)
  BY <1>1 DEF Joinable
<1>4. Timely' /\ Paired' /\ Snapshots'
  BY <1>1, <1>2 DEF GateInv, Timely, Paired, Snapshots, SnapshotOK
<1>5. ASSUME NEW d \in Connections, (Live(d) \/ Joinable(d))'
      PROVE  monitor'.due <= LeaseEnd' + PollInterval
  <2>1. Live(d) \/ Joinable(d) \/ EvaluateState(clock)
    BY <1>3, <1>5
  <2>. QED
    BY SMT, <1>1, <1>2, <2>1, LeaseFacts DEF GateInv, Bounded, Timely
<1>6. Bounded'
  BY <1>5 DEF Bounded
<1>7. Polling'
  BY <1>1, <1>2, <1>3, LeaseFacts DEF GateInv, Polling
<1>. QED
  BY <1>4, <1>6, <1>7 DEF GateInv

\* What a step of handler c leaves of the others, and the count.
LEMMA HandlerTypes ==
    ASSUME GateInv, NEW c \in Connections, NEW l \in InSession \cup {"new", "done"},
           pc' = [pc EXCEPT ![c] = l]
    PROVE  /\ pc' \in [Connections -> InSession \cup {"new", "done"}]
           /\ pc'[c] = l /\ \A d \in Connections : d # c => pc'[d] = pc[d]
           /\ activeSessions = Cardinality(Handlers(pc)) /\ activeSessions \in 0..MaxConnections
           /\ MaxConnections \in Nat
<1>1. pc \in [Connections -> InSession \cup {"new", "done"}] /\ MaxConnections \in Nat
  BY AdmissionAssumption DEF GateInv, GateTypeOK
<1>2. activeSessions = Cardinality(Handlers(pc)) /\ activeSessions \in 0..MaxConnections
  BY DEF GateInv, GateTypeOK, SessionsCounted, Handlers
<1>. QED
  BY <1>1, <1>2

\* accept and startSession.
LEMMA AcceptInv ==
    ASSUME GateInv, NEW c \in Connections, Accept(c)
    PROVE  GateInv'
<1>1. UNCHANGED <<clock, files, paper, readAt, monitor>> /\ pc[c] = "new" /\ StartSession(c)
  BY DEF Accept
<1>2. UNCHANGED <<clock, lease, published, up, writing, login, readAt, monitor>>
  BY <1>1 DEF files, paper
<1>3. login[c] = "NONE"
  BY <1>1 DEF GateInv, Paired
<1>4. CASE activeSessions >= MaxConnections
  <2>1. pc' = [pc EXCEPT ![c] = "done"] /\ UNCHANGED <<sockets, connections, activeSessions>>
    BY <1>1, <1>4 DEF StartSession
  <2>2. /\ pc' \in [Connections -> InSession \cup {"new", "done"}]
        /\ pc'[c] = "done" /\ \A d \in Connections : d # c => pc'[d] = pc[d]
    BY <2>1, HandlerTypes
  <2>3. Handlers(pc') = Handlers(pc)
    BY <1>1, <2>2 DEF Handlers, InSession
  <2>4. GateTypeOK'
    BY <1>2, <2>1, <2>2 DEF GateInv, GateTypeOK
  <2>5. SessionsCounted'
    BY <1>1, <2>1, <2>2, <2>3 DEF GateInv, SessionsCounted, Handlers, InSession
  <2>6. Tracked'
    BY <1>1, <2>1, <2>2 DEF GateInv, Tracked
  <2>7. \A d \in Connections : /\ Upstream(d) \in sockets' => Upstream(d) \in sockets
                               /\ login[d] # "NONE" => pc'[d] \in {"proxy", "end", "done"}
                               /\ Live(d)' => Live(d)
    BY <1>3, <2>1, <2>2 DEF GateInv, Paired, Live
  <2>. QED
    BY <1>1, <2>4, <2>5, <2>6, <2>7, HandlerFrame
<1>5. CASE ~(activeSessions >= MaxConnections)
  <2>1. /\ pc' = [pc EXCEPT ![c] = "decide"]
        /\ activeSessions' = activeSessions + 1
        /\ connections' = connections \cup {Client(c)}
        /\ sockets' = sockets \cup {Client(c)}
    BY <1>1, <1>5 DEF StartSession
  <2>2. /\ pc' \in [Connections -> InSession \cup {"new", "done"}]
        /\ pc'[c] = "decide" /\ \A d \in Connections : d # c => pc'[d] = pc[d]
        /\ activeSessions = Cardinality(Handlers(pc)) /\ activeSessions \in 0..MaxConnections
        /\ MaxConnections \in Nat
    BY <2>1, HandlerTypes DEF InSession
  <2>3. Cardinality(Handlers(pc')) = activeSessions'
    <3>1. pc \in [Connections -> InSession \cup {"new", "done"}]
      BY DEF GateInv, GateTypeOK
    <3>2. "new" \notin InSession /\ "decide" \in InSession
      BY DEF InSession
    <3>3. Cardinality(Handlers([pc EXCEPT ![c] = "decide"])) = Cardinality(Handlers(pc)) + 1
      BY <1>1, <3>1, <3>2, HandlersCounted, ZenonT(30)
    <3>. QED
      BY <2>1, <2>2, <3>3
  <2>4. activeSessions' \in 0..MaxConnections
    BY SMT, <1>5, <2>1, <2>2
  <2>5. GateTypeOK'
    <3>1. connections' \subseteq Sockets /\ sockets' \subseteq Sockets
      BY <2>1, SocketFacts, ZenonT(40) DEF GateInv, GateTypeOK
    <3>. QED
      BY <1>2, <2>2, <2>4, <3>1 DEF GateInv, GateTypeOK
  <2>6. SessionsCounted'
    <3>1. \A d \in Connections : /\ Client(d) \in connections' => Client(d) \in connections \/ d = c
                                 /\ Upstream(d) \in connections' => Upstream(d) \in connections
      BY <2>1, SocketFacts
    <3>2. \A d \in Connections : /\ Client(d) \in connections' => pc'[d] \in InSession
                                 /\ Upstream(d) \in connections' => pc'[d] = "proxy"
      BY <1>1, <2>2, <3>1 DEF GateInv, SessionsCounted, InSession
    <3>. QED
      BY <2>3, <3>2 DEF SessionsCounted, Handlers
  <2>7. Tracked'
    BY <1>1, <2>1, <2>2, SocketFacts DEF GateInv, Tracked
  <2>8. \A d \in Connections : /\ Upstream(d) \in sockets' => Upstream(d) \in sockets
                               /\ login[d] # "NONE" => pc'[d] \in {"proxy", "end", "done"}
                               /\ Live(d)' => Live(d)
    BY <1>3, <2>1, <2>2, SocketFacts, ZenonT(40) DEF GateInv, Paired, Live
  <2>. QED
    BY <1>1, <2>5, <2>6, <2>7, <2>8, HandlerFrame
<1>. QED
  BY <1>4, <1>5

\* EvaluateAccess and the dial: a handler passes its decision while the lease runs.
LEMMA DecideInv ==
    ASSUME GateInv, NEW c \in Connections, Decide(c) \/ Confirm(c) \/ Dial(c)
    PROVE  GateInv'
<1>1. /\ UNCHANGED <<clock, files, paper, connections, activeSessions, monitor>>
      /\ pc[c] \in {"decide", "confirm", "dial"}
  BY DEF Decide, Confirm, Dial
<1>2. UNCHANGED <<clock, lease, published, up, writing, login, monitor>>
  BY <1>1 DEF files, paper
<1>3. PICK l \in {"confirm", "dial", "track", "end"} : pc' = [pc EXCEPT ![c] = l]
  BY DEF Decide, Confirm, Dial
<1>4. /\ pc' \in [Connections -> InSession \cup {"new", "done"}]
      /\ pc'[c] = l /\ \A d \in Connections : d # c => pc'[d] = pc[d]
  BY <1>3, HandlerTypes DEF InSession
<1>5. login[c] = "NONE" /\ Upstream(c) \notin connections
  BY <1>1 DEF GateInv, Paired, SessionsCounted
<1>6. readAt' \in [Connections -> 0..MaxNow]
  BY SMT, AdmissionAssumption DEF Decide, Confirm, Dial, GateInv, GateTypeOK
<1>7. \/ sockets' = sockets /\ (l = "track" => FALSE)
      \/ sockets' = sockets \cup {Upstream(c)} /\ l = "track" /\ up
  BY <1>3, <1>4 DEF Decide, Confirm, Dial, GateInv, GateTypeOK
<1>8. GateTypeOK'
  <2>1. sockets' \subseteq Sockets
    BY SMT, <1>7, SocketFacts DEF GateInv, GateTypeOK
  <2>. QED
    BY <1>1, <1>2, <1>4, <1>6, <2>1 DEF GateInv, GateTypeOK
<1>9. Handlers(pc') = Handlers(pc)
  BY <1>1, <1>4 DEF Handlers, InSession
<1>10. SessionsCounted'
  BY <1>1, <1>4, <1>5, <1>9 DEF GateInv, SessionsCounted, Handlers, InSession
<1>11. Tracked'
  BY SMT, <1>1, <1>4, <1>5, <1>7, SocketFacts DEF GateInv, Tracked
<1>12. \A d \in Connections : /\ Client(d) \in sockets' => Client(d) \in sockets
                              /\ Upstream(d) \in sockets' => Upstream(d) \in sockets \/ (d = c /\ up)
  BY SMT, <1>7, SocketFacts
<1>13. pc[c] = "decide" /\ l # "end" => EvaluateState(clock)
  BY <1>3, <1>4 DEF Decide, Confirm, Dial
<1>14. Live(c)' => Live(c) \/ EvaluateState(clock)
  BY <1>1, <1>4, <1>12, <1>13 DEF Live
<1>15. ASSUME NEW d \in Connections
       PROVE  /\ Upstream(d) \in sockets' => Upstream(d) \in sockets \/ (up /\ login[d] = "NONE")
              /\ login[d] # "NONE" => pc'[d] \in {"proxy", "end", "done"}
              /\ Live(d)' => Live(d) \/ EvaluateState(clock)
  <2>1. Upstream(d) \in sockets' => Upstream(d) \in sockets \/ (up /\ login[d] = "NONE")
    BY <1>5, <1>12
  <2>2. login[d] # "NONE" => pc'[d] \in {"proxy", "end", "done"}
    BY <1>4, <1>5 DEF GateInv, Paired
  <2>3. Live(d)' => Live(d) \/ EvaluateState(clock)
    BY <1>4, <1>12, <1>14 DEF Live
  <2>. QED
    BY <2>1, <2>2, <2>3
<1>. QED
  BY <1>1, <1>8, <1>10, <1>11, <1>15, HandlerFrame

\* The upstream is tracked, a peer hangs up, or both sockets are closed.
LEMMA ProxyInv ==
    ASSUME GateInv, NEW c \in Connections, Track(c) \/ HangUp(c) \/ Finish(c)
    PROVE  GateInv'
<1>1. UNCHANGED <<clock, files, paper, readAt, activeSessions, monitor>>
  BY DEF Track, HangUp, Finish
<1>2. UNCHANGED <<clock, lease, published, up, writing, login, readAt, monitor>>
  BY <1>1 DEF files, paper
<1>3. CASE Track(c)
  <2>1. /\ pc[c] = "track" /\ pc' = [pc EXCEPT ![c] = "proxy"]
        /\ connections' = connections \cup {Upstream(c)} /\ sockets' = sockets
    BY <1>3 DEF Track
  <2>2. /\ pc' \in [Connections -> InSession \cup {"new", "done"}]
        /\ pc'[c] = "proxy" /\ \A d \in Connections : d # c => pc'[d] = pc[d]
    BY <2>1, HandlerTypes DEF InSession
  <2>3. GateTypeOK'
    <3>1. connections' \subseteq Sockets
      BY <2>1, SocketFacts DEF GateInv, GateTypeOK
    <3>. QED
      BY <1>1, <1>2, <2>1, <2>2, <3>1 DEF GateInv, GateTypeOK
  <2>4. Handlers(pc') = Handlers(pc)
    BY <2>1, <2>2 DEF Handlers, InSession
  <2>5. SessionsCounted'
    <3>1. activeSessions' = Cardinality(Handlers(pc'))
      BY <1>1, <2>4 DEF GateInv, SessionsCounted, Handlers
    <3>2. \A d \in Connections : /\ Client(d) \in connections' => Client(d) \in connections
                                 /\ Upstream(d) \in connections' => Upstream(d) \in connections \/ d = c
      BY <2>1, SocketFacts
    <3>3. \A d \in Connections : /\ Client(d) \in connections' => pc'[d] \in InSession
                                 /\ Upstream(d) \in connections' => pc'[d] = "proxy"
      BY <2>1, <2>2, <3>2 DEF GateInv, SessionsCounted, InSession
    <3>. QED
      BY <3>1, <3>3 DEF SessionsCounted, Handlers
  <2>6. Tracked'
    BY <2>1, <2>2, SocketFacts DEF GateInv, Tracked
  <2>7. \A d \in Connections : /\ Upstream(d) \in sockets' => Upstream(d) \in sockets
                               /\ login[d] # "NONE" => pc'[d] \in {"proxy", "end", "done"}
                               /\ Live(d)' => Live(d)
    BY <2>1, <2>2 DEF GateInv, Paired, Live
  <2>. QED
    BY <1>1, <2>3, <2>5, <2>6, <2>7, HandlerFrame
<1>4. CASE HangUp(c)
  <2>1. sockets' \subseteq sockets /\ UNCHANGED <<pc, connections>>
    BY <1>4 DEF HangUp
  <2>2. GateTypeOK' /\ SessionsCounted' /\ Tracked'
    BY <1>1, <1>2, <2>1 DEF GateInv, GateTypeOK, SessionsCounted, Tracked
  <2>3. \A d \in Connections : /\ Upstream(d) \in sockets' => Upstream(d) \in sockets
                               /\ login[d] # "NONE" => pc'[d] \in {"proxy", "end", "done"}
                               /\ Live(d)' => Live(d)
    BY <2>1 DEF GateInv, Paired, Live
  <2>. QED
    BY <1>1, <2>2, <2>3, HandlerFrame
<1>5. CASE Finish(c)
  <2>1. /\ pc[c] = "proxy" /\ pc' = [pc EXCEPT ![c] = "end"]
        /\ sockets' = sockets \ {Client(c), Upstream(c)}
        /\ connections' = connections \ {Upstream(c)}
    BY <1>5 DEF Finish
  <2>2. /\ pc' \in [Connections -> InSession \cup {"new", "done"}]
        /\ pc'[c] = "end" /\ \A d \in Connections : d # c => pc'[d] = pc[d]
    BY <2>1, HandlerTypes DEF InSession
  <2>3. GateTypeOK'
    BY <1>1, <1>2, <2>1, <2>2 DEF GateInv, GateTypeOK
  <2>4. Handlers(pc') = Handlers(pc)
    BY <2>1, <2>2 DEF Handlers, InSession
  <2>5. SessionsCounted'
    BY <1>1, <2>1, <2>2, <2>4, SocketFacts DEF GateInv, SessionsCounted, Handlers, InSession
  <2>6. Tracked'
    BY <2>1, <2>2, SocketFacts DEF GateInv, Tracked
  <2>7. \A d \in Connections : /\ Upstream(d) \in sockets' => Upstream(d) \in sockets
                               /\ login[d] # "NONE" => pc'[d] \in {"proxy", "end", "done"}
                               /\ Live(d)' => Live(d)
    BY <2>1, <2>2 DEF GateInv, Paired, Live
  <2>. QED
    BY <1>1, <2>3, <2>5, <2>6, <2>7, HandlerFrame
<1>. QED
  BY <1>3, <1>4, <1>5

\* endSession gives the slot back.
LEMMA EndInv ==
    ASSUME GateInv, NEW c \in Connections, EndSession(c)
    PROVE  GateInv'
<1>1. /\ UNCHANGED <<clock, files, paper, readAt, monitor>>
      /\ pc[c] = "end" /\ pc' = [pc EXCEPT ![c] = "done"]
      /\ activeSessions' = activeSessions - 1
      /\ connections' = connections \ {Client(c)} /\ sockets' = sockets \ {Client(c)}
  BY DEF EndSession
<1>2. UNCHANGED <<clock, lease, published, up, writing, login, readAt, monitor>>
  BY <1>1 DEF files, paper
<1>3. /\ pc' \in [Connections -> InSession \cup {"new", "done"}]
      /\ pc'[c] = "done" /\ \A d \in Connections : d # c => pc'[d] = pc[d]
      /\ activeSessions = Cardinality(Handlers(pc)) /\ activeSessions \in 0..MaxConnections
      /\ MaxConnections \in Nat
  BY <1>1, HandlerTypes
<1>4. Cardinality(Handlers(pc')) = activeSessions - 1 /\ activeSessions > 0
  <2>1. pc \in [Connections -> InSession \cup {"new", "done"}]
    BY DEF GateInv, GateTypeOK
  <2>2. "end" \in InSession /\ "done" \notin InSession
    BY DEF InSession
  <2>3. /\ Cardinality(Handlers([pc EXCEPT ![c] = "done"])) = Cardinality(Handlers(pc)) - 1
        /\ Cardinality(Handlers(pc)) > 0
    BY <1>1, <2>1, <2>2, HandlersCounted
  <2>. QED
    BY <1>1, <1>3, <2>3
<1>5. GateTypeOK'
  <2>1. activeSessions' \in 0..MaxConnections
    BY SMT, <1>1, <1>3, <1>4
  <2>. QED
    BY <1>1, <1>2, <1>3, <2>1 DEF GateInv, GateTypeOK
<1>6. SessionsCounted'
  BY <1>1, <1>3, <1>4, SocketFacts DEF GateInv, SessionsCounted, Handlers, InSession
<1>7. Tracked'
  BY <1>1, <1>3, SocketFacts DEF GateInv, Tracked
<1>8. \A d \in Connections : /\ Upstream(d) \in sockets' => Upstream(d) \in sockets
                             /\ login[d] # "NONE" => pc'[d] \in {"proxy", "end", "done"}
                             /\ Live(d)' => Live(d)
  BY <1>1, <1>3 DEF GateInv, Paired, Live
<1>. QED
  BY <1>1, <1>5, <1>6, <1>7, <1>8, HandlerFrame

\* The gate's process starts again with nothing open.
LEMMA RestartInv ==
    ASSUME GateInv, Restart
    PROVE  GateInv'
<1>1. /\ UNCHANGED <<clock, lease, published, up, writing, login>>
      /\ sockets' = {} /\ connections' = {} /\ activeSessions' = 0
      /\ pc' = [c \in Connections |-> IF pc[c] \in InSession THEN "done" ELSE pc[c]]
      /\ monitor' = [pc |-> "wait", due |-> clock, targets |-> {}]
      /\ readAt' = [c \in Connections |-> 0]
  BY DEF Restart, files, paper
<1>2. clock \in 0..MaxNow /\ MaxNow \in Nat /\ PollInterval \in Nat /\ MaxConnections \in Nat
  BY AdmissionAssumption DEF GateInv, GateTypeOK
<1>3. pc' \in [Connections -> InSession \cup {"new", "done"}]
      /\ \A c \in Connections : pc'[c] \notin InSession /\ (pc'[c] = pc[c] \/ pc'[c] = "done")
  BY <1>1 DEF GateInv, GateTypeOK, InSession
<1>4. GateTypeOK'
  BY SMT, <1>1, <1>2, <1>3 DEF GateInv, GateTypeOK
<1>5. SessionsCounted'
  <2>1. {c \in Connections : pc'[c] \in InSession} = {}
    BY <1>3
  <2>. QED
    BY <1>1, <2>1, FS_EmptySet DEF SessionsCounted
<1>6. LeaseEnd' = LeaseEnd
  BY <1>1 DEF LeaseEnd
<1>7. Timely' /\ Tracked' /\ Bounded' /\ Polling'
  <2>1. monitor'.pc = "wait" /\ monitor'.due = clock
    BY <1>1
  <2>2. Timely'
    BY SMT, <1>1, <1>2, <2>1 DEF Timely
  <2>3. Tracked' /\ Bounded'
    BY <1>1 DEF Tracked, Bounded, Live, Joinable
  <2>4. Polling'
    BY <2>1 DEF Polling
  <2>. QED
    BY <2>2, <2>3, <2>4
<1>8. Paired' /\ Snapshots'
  BY <1>1, <1>3, <1>6 DEF GateInv, Paired, Snapshots, SnapshotOK
<1>. QED
  BY <1>4, <1>5, <1>7, <1>8 DEF GateInv


-----------------------------------------------------------------------------
(* The monitor and the clock.                                              *)

\* A poll that changes only the monitor.
LEMMA MonitorFrame ==
    ASSUME GateInv, UNCHANGED <<clock, files, paper, handlers>>,
           monitor' \in [pc : {"wait", "runtime", "copy", "close"},
                         due : 0..(MaxNow + PollInterval), targets : SUBSET Sockets],
           Timely', Bounded', Polling'
    PROVE  GateInv'
<1>1. UNCHANGED <<clock, lease, published, up, writing, login, pc, readAt, sockets,
                  connections, activeSessions>>
  BY DEF files, paper, handlers
<1>2. GateTypeOK'
  BY <1>1 DEF GateInv, GateTypeOK
<1>3. SessionsCounted' /\ Tracked' /\ Paired'
  BY <1>1 DEF GateInv, SessionsCounted, Tracked, Paired
<1>4. Snapshots'
  BY <1>1 DEF GateInv, Snapshots, SnapshotOK, LeaseEnd
<1>. QED
  BY <1>2, <1>3, <1>4 DEF GateInv

\* The monitor polls, confirms the runtime or copies the map.
LEMMA PollInv ==
    ASSUME GateInv, Poll \/ PollRuntime \/ CloseAllCopy
    PROVE  GateInv'
<1>1. UNCHANGED <<clock, files, paper, handlers>>
  BY DEF Poll, PollRuntime, CloseAllCopy
<1>2. UNCHANGED <<clock, lease, login, pc, sockets, connections>>
  BY <1>1 DEF files, paper, handlers
<1>3. /\ monitor \in [pc : {"wait", "runtime", "copy", "close"},
                      due : 0..(MaxNow + PollInterval), targets : SUBSET Sockets]
      /\ clock \in 0..MaxNow /\ connections \subseteq Sockets /\ MaxNow \in Nat
  BY AdmissionAssumption DEF GateInv, GateTypeOK
<1>4. /\ LeaseEnd \in Nat /\ clock \in Nat /\ monitor.due \in Nat /\ PollInterval \in Nat
      /\ PollInterval > 0 /\ (EvaluateState(clock) => clock <= LeaseEnd)
  BY LeaseFacts DEF GateInv
<1>5. LeaseEnd' = LeaseEnd /\ \A c \in Connections : Live(c)' = Live(c) /\ Joinable(c)' = Joinable(c)
  BY <1>2 DEF LeaseEnd, Live, Joinable
<1>6. CASE Poll
  <2>1. /\ monitor'.due = monitor.due /\ monitor'.targets = monitor.targets
        /\ monitor'.pc \in {"runtime", "copy"}
        /\ monitor'.pc = "runtime" => EvaluateState(clock)
        /\ monitor' \in [pc : {"wait", "runtime", "copy", "close"},
                         due : 0..(MaxNow + PollInterval), targets : SUBSET Sockets]
    BY <1>3, <1>6 DEF Poll
  <2>2. Timely' /\ Bounded'
    BY <1>2, <1>5, <2>1 DEF GateInv, Timely, Bounded
  <2>3. Polling'
    BY <1>2, <1>4, <1>5, <2>1 DEF Polling
  <2>. QED
    BY <1>1, <2>1, <2>2, <2>3, MonitorFrame
<1>7. CASE PollRuntime
  <2>1. CASE RuntimeConfirms(clock)
    <3>1. monitor' = [monitor EXCEPT !.pc = "wait", !.due = clock + PollInterval]
      BY <1>7, <2>1 DEF PollRuntime
    <3>2. /\ monitor'.due = clock + PollInterval /\ monitor'.pc = "wait"
          /\ monitor'.targets = monitor.targets
          /\ clock + PollInterval \in 0..(MaxNow + PollInterval)
      BY SMT, <1>3, <1>4, <3>1
    <3>3. monitor' \in [pc : {"wait", "runtime", "copy", "close"},
                        due : 0..(MaxNow + PollInterval), targets : SUBSET Sockets]
      BY <1>3, <3>1, <3>2
    <3>4. clock <= LeaseEnd
      BY <1>7 DEF PollRuntime, GateInv, Polling
    <3>5. Timely' /\ Bounded'
      BY SMT, <1>2, <1>4, <1>5, <3>2, <3>4 DEF Timely, Bounded
    <3>6. Polling'
      BY <3>2 DEF Polling
    <3>. QED
      BY <1>1, <3>3, <3>5, <3>6, MonitorFrame
  <2>2. CASE ~RuntimeConfirms(clock)
    <3>1. monitor' = [monitor EXCEPT !.pc = "copy"]
      BY <1>7, <2>2 DEF PollRuntime
    <3>2. /\ monitor'.due = monitor.due /\ monitor'.pc = "copy"
          /\ monitor' \in [pc : {"wait", "runtime", "copy", "close"},
                           due : 0..(MaxNow + PollInterval), targets : SUBSET Sockets]
      BY <1>3, <3>1
    <3>3. Timely' /\ Bounded' /\ Polling'
      BY <1>2, <1>5, <3>2 DEF GateInv, Timely, Bounded, Polling
    <3>. QED
      BY <1>1, <3>2, <3>3, MonitorFrame
  <2>. QED
    BY <2>1, <2>2
<1>8. CASE CloseAllCopy
  <2>1. monitor' = [monitor EXCEPT !.pc = "close", !.targets = connections]
    BY <1>8 DEF CloseAllCopy
  <2>2. /\ monitor'.due = monitor.due /\ monitor'.pc = "close" /\ monitor'.targets = connections
        /\ monitor' \in [pc : {"wait", "runtime", "copy", "close"},
                         due : 0..(MaxNow + PollInterval), targets : SUBSET Sockets]
    BY <1>3, <2>1
  <2>3. Timely' /\ Bounded'
    BY <1>2, <1>5, <2>2 DEF GateInv, Timely, Bounded
  <2>4. \A c \in Connections : /\ Live(c) => Client(c) \in connections
                               /\ Joinable(c) => Upstream(c) \in connections
    BY DEF GateInv, Tracked, Paired, Live, Joinable
  <2>5. Polling'
    BY <1>5, <2>2, <2>4 DEF Polling
  <2>. QED
    BY <1>1, <2>2, <2>3, <2>5, MonitorFrame
<1>. QED
  BY <1>6, <1>7, <1>8

\* The monitor closes what it copied.  What is still open was decided after the copy.
LEMMA CloseAllInv ==
    ASSUME GateInv, CloseAll
    PROVE  GateInv'
<1>1. /\ UNCHANGED <<clock, files, paper, pc, readAt, connections, activeSessions>>
      /\ monitor.pc = "close" /\ sockets' = sockets \ monitor.targets
      /\ monitor' = [monitor EXCEPT !.pc = "wait", !.targets = {}, !.due = clock + PollInterval]
  BY DEF CloseAll
<1>2. UNCHANGED <<clock, lease, published, up, writing, login>>
  BY <1>1 DEF files, paper
<1>3. /\ monitor \in [pc : {"wait", "runtime", "copy", "close"},
                      due : 0..(MaxNow + PollInterval), targets : SUBSET Sockets]
      /\ clock \in 0..MaxNow /\ MaxNow \in Nat
  BY AdmissionAssumption DEF GateInv, GateTypeOK
<1>4. LeaseEnd \in Nat /\ clock \in Nat /\ PollInterval \in Nat /\ PollInterval > 0
  BY LeaseFacts DEF GateInv
<1>5. /\ monitor'.due = clock + PollInterval /\ monitor'.pc = "wait" /\ monitor'.targets = {}
      /\ clock + PollInterval \in 0..(MaxNow + PollInterval)
  BY SMT, <1>1, <1>3, <1>4
<1>6. monitor' \in [pc : {"wait", "runtime", "copy", "close"},
                    due : 0..(MaxNow + PollInterval), targets : SUBSET Sockets]
  BY <1>1, <1>3, <1>5
<1>7. GateTypeOK'
  BY <1>1, <1>2, <1>6 DEF GateInv, GateTypeOK
<1>8. SessionsCounted' /\ Tracked' /\ Paired'
  BY <1>1, <1>2 DEF GateInv, SessionsCounted, Tracked, Paired
<1>9. LeaseEnd' = LeaseEnd
  BY <1>2 DEF LeaseEnd
<1>10. \A c \in Connections : Live(c)' \/ Joinable(c)' => clock <= LeaseEnd
  BY <1>1, <1>2 DEF GateInv, Polling, Live, Joinable
<1>11. Timely' /\ Bounded'
  BY SMT, <1>1, <1>4, <1>5, <1>9, <1>10 DEF Timely, Bounded
<1>12. Polling' /\ Snapshots'
  BY <1>1, <1>2, <1>5, <1>9 DEF GateInv, Polling, Snapshots, SnapshotOK
<1>. QED
  BY <1>7, <1>8, <1>11, <1>12 DEF GateInv

\* Time passes only while the ticker is not due.
LEMMA TickInv ==
    ASSUME GateInv, Tick
    PROVE  GateInv'
<1>1. /\ UNCHANGED <<files, paper, handlers, monitor>>
      /\ clock < MaxNow /\ monitor.pc = "wait" /\ ~Due /\ clock' = clock + 1
  BY DEF Tick
<1>2. UNCHANGED <<lease, published, up, writing, login, pc, readAt, sockets, connections,
                  activeSessions, monitor>>
  BY <1>1 DEF files, paper, handlers
<1>3. clock \in 0..MaxNow /\ MaxNow \in Nat
  BY AdmissionAssumption DEF GateInv, GateTypeOK
<1>4. LeaseEnd \in Nat /\ monitor.due \in Nat /\ PollInterval \in Nat
  BY LeaseFacts DEF GateInv
<1>5. clock' \in 0..MaxNow
  BY SMT, <1>1, <1>3
<1>6. GateTypeOK'
  BY <1>2, <1>5 DEF GateInv, GateTypeOK
<1>7. SessionsCounted' /\ Tracked' /\ Paired'
  BY <1>2 DEF GateInv, SessionsCounted, Tracked, Paired
<1>8. LeaseEnd' = LeaseEnd /\ \A c \in Connections : Live(c)' = Live(c) /\ Joinable(c)' = Joinable(c)
  BY <1>2 DEF LeaseEnd, Live, Joinable
<1>9. Timely'
  BY SMT, <1>1, <1>2, <1>3, <1>4 DEF GateInv, Timely, Due
<1>10. Bounded' /\ Polling'
  BY <1>1, <1>2, <1>8 DEF GateInv, Bounded, Polling
<1>11. Snapshots'
  <2>1. \A s \in writing \cup {published} : s.at \in Nat
    BY SMT DEF GateInv, GateTypeOK, Snapshot
  <2>. QED
    BY SMT, <1>1, <1>2, <1>3, <1>8, <2>1 DEF GateInv, Snapshots, SnapshotOK
<1>. QED
  BY <1>6, <1>7, <1>9, <1>10, <1>11 DEF GateInv


\* Every step of the gate, the plugin, the owner and the players keeps the invariant.
LEMMA NextInv == GateInv /\ [Next]_vars => GateInv'
<1>. SUFFICES ASSUME GateInv, [Next]_vars PROVE GateInv'
  OBVIOUS
<1>1. CASE SetOpen \/ SetClosed \/ LoseState
  BY <1>1, LeaseInv
<1>2. CASE CaptureAndPublish \/ PublishLands
  BY <1>2, PublishInv
<1>3. CASE OnDisable \/ OnEnable
  BY <1>3, DisableInv, EnableInv
<1>4. ASSUME NEW c \in Connections, OnAsyncPlayerPreLogin(c) \/ Join(c) \/ Quit(c)
      PROVE  GateInv'
  BY <1>4, LoginInv
<1>5. ASSUME NEW c \in Connections, Accept(c) \/ Handle(c) \/ HangUp(c)
      PROVE  GateInv'
  BY <1>5, AcceptInv, DecideInv, ProxyInv, EndInv DEF Handle
<1>6. CASE Monitor
  BY <1>6, PollInv, CloseAllInv DEF Monitor
<1>7. CASE Restart \/ Tick
  BY <1>7, RestartInv, TickInv
<1>8. CASE UNCHANGED vars
  <2>1. UNCHANGED <<clock, files, paper, handlers, monitor>>
    BY <1>8 DEF vars
  <2>2. Timely' /\ Bounded' /\ Polling'
    BY <2>1 DEF GateInv, Timely, Bounded, Polling, Live, Joinable, LeaseEnd, files, paper, handlers
  <2>3. monitor' \in [pc : {"wait", "runtime", "copy", "close"},
                      due : 0..(MaxNow + PollInterval), targets : SUBSET Sockets]
    BY <2>1 DEF GateInv, GateTypeOK
  <2>. QED
    BY <2>1, <2>2, <2>3, MonitorFrame
<1>. QED
  BY <1>1, <1>2, <1>3, <1>4, <1>5, <1>6, <1>7, <1>8 DEF Next

-----------------------------------------------------------------------------
(* The results.                                                            *)

\* The invariant holds throughout.
THEOREM Invariance == SafetySpec => []GateInv
BY InitInv, NextInv, PTL DEF SafetySpec

\* The gate's state keeps its types for any number of connections: the lease, the registered
\* sockets, the monitor's wait and the snapshots Paper publishes.
THEOREM GateTypes == SafetySpec => []GateTypeOK
<1>1. GateInv => GateTypeOK
  BY DEF GateInv
<1>. QED
  BY <1>1, Invariance, PTL

\* The sessions are counted and the limit holds, for any number of connections.
THEOREM Slots == SafetySpec => []SessionsCounted
<1>1. GateInv => SessionsCounted
  BY DEF GateInv
<1>. QED
  BY <1>1, Invariance, PTL

\* A connection that carries bytes was decided within a poll interval of the lease's end.
LEMMA CarriedInTime ==
    ASSUME GateInv
    PROVE  \A c \in Connections : Live(c) \/ Joinable(c) => clock <= LeaseEnd + PollInterval
<1>1. LeaseEnd \in Nat /\ clock \in Nat /\ monitor.due \in Nat /\ PollInterval \in Nat
  BY LeaseFacts DEF GateInv
<1>. QED
  BY SMT, <1>1 DEF GateInv, Bounded, Timely

\* The cut-off, for any lease, poll interval and number of connections.
THEOREM CutsOff == SafetySpec => []CutOff
<1>1. GateInv => CutOff
  <2>. SUFFICES ASSUME GateInv, clock > LeaseEnd + PollInterval,
                       NEW c \in Connections, Carrying(c)
                PROVE  FALSE
    BY DEF CutOff
  <2>1. LeaseEnd \in Nat /\ clock \in Nat /\ PollInterval \in Nat
    BY LeaseFacts DEF GateInv
  <2>. QED
    BY SMT, <2>1, CarriedInTime DEF Carrying, Live
<1>. QED
  BY <1>1, Invariance, PTL

\* Only a snapshot captured no later than a poll interval after the end of the lease can be
\* followed by a player it does not count.
THEOREM LateJoins == SafetySpec => []LateJoinsAreBounded
<1>1. GateInv => LateJoinsAreBounded
  <2>. SUFFICES ASSUME GateInv, NEW c \in Connections, NEW s \in {published} \cup writing,
                       login[c] = "ONLINE", s.empty
                PROVE  s.at <= LeaseEnd + PollInterval
    BY DEF LateJoinsAreBounded
  <2>1. ~(s.at > LeaseEnd + PollInterval)
    BY DEF GateInv, Snapshots, SnapshotOK
  <2>2. s.at \in Nat
    BY SMT DEF GateInv, GateTypeOK, Snapshot
  <2>3. LeaseEnd \in Nat /\ PollInterval \in Nat
    BY LeaseFacts DEF GateInv
  <2>. QED
    BY SMT, <2>1, <2>2, <2>3
<1>. QED
  BY <1>1, Invariance, PTL

-----------------------------------------------------------------------------
(* The gate implements the contract of module Admission.                   *)

Bytes == {c \in Connections : Carrying(c)}
Players == {c \in Connections : login[c] = "ONLINE"}

\* A step that touches nothing the contract speaks of is a stutter.
LEMMA Stutters ==
    ASSUME UNCHANGED <<clock, lease, up, writing, published>>,
           Bytes' = Bytes, Players' = Players
    PROVE  UNCHANGED Contract!admission
BY DEF Contract!admission, Bytes, Players

\* A step that only ends connections is End of the contract.
LEMMA Ends ==
    ASSUME UNCHANGED <<clock, lease, up, writing, published, login>>, Bytes' \subseteq Bytes
    PROVE  Contract!End
<1>1. Players' = Players
  BY DEF Players
<1>. QED
  BY <1>1 DEF Contract!End, Bytes, Players

\* The owner's writes.
LEMMA LeaseSteps ==
    ASSUME SetOpen \/ SetClosed \/ LoseState
    PROVE  Contract!SetOpen \/ Contract!SetClosed \/ Contract!LoseState
<1>1. UNCHANGED <<clock, up, writing, published>> /\ UNCHANGED <<login, pc, sockets>>
  BY DEF SetOpen, SetClosed, LoseState, paper, handlers
<1>2. Bytes' = Bytes /\ Players' = Players
  BY <1>1 DEF Bytes, Players, Carrying
<1>3. \A mode, issued, expires :
         lease' = [mode |-> mode, issued |-> issued, expires |-> expires, written |-> clock]
           => Contract!WriteLease(mode, issued, expires)
  BY <1>1, <1>2 DEF Contract!WriteLease, Bytes, Players
<1>. QED
  BY <1>3 DEF SetOpen, SetClosed, LoseState, Contract!SetOpen, Contract!SetClosed, Contract!LoseState


\* The plugin's snapshots and the server's stops.
LEMMA PluginSteps ==
    ASSUME CaptureAndPublish \/ PublishLands \/ OnDisable \/ OnEnable
    PROVE  \/ Contract!CaptureAndPublish \/ Contract!PublishLands
           \/ Contract!OnDisable \/ Contract!OnEnable
<1>1. \A ready : Capture(ready) = Contract!Capture(ready)
  <2>1. EvaluateState(clock) = Contract!EvaluateState(clock)
    BY DEF EvaluateState, Contract!EvaluateState
  <2>2. (\A c \in Connections : login[c] # "ONLINE") <=> {c \in Connections : login[c] = "ONLINE"} = {}
    OBVIOUS
  <2>. QED
    BY <2>1, <2>2 DEF Capture, Contract!Capture
<1>2. CASE CaptureAndPublish
  <2>1. UNCHANGED <<clock, lease, published, up, login, pc, sockets>>
    BY <1>2 DEF CaptureAndPublish, files, handlers
  <2>2. Bytes' = Bytes /\ Players' = Players
    BY <2>1 DEF Bytes, Players, Carrying
  <2>. QED
    BY <1>1, <1>2, <2>1, <2>2 DEF CaptureAndPublish, Contract!CaptureAndPublish, Bytes, Players
<1>3. CASE PublishLands
  <2>1. UNCHANGED <<clock, lease, up, login, pc, sockets>>
    BY <1>3 DEF PublishLands, handlers
  <2>2. Bytes' = Bytes /\ Players' = Players
    BY <2>1 DEF Bytes, Players, Carrying
  <2>. QED
    BY <1>3, <2>1, <2>2 DEF PublishLands, Contract!PublishLands, Bytes, Players
<1>4. CASE OnDisable
  <2>1. \A c \in Connections : Upstream(c) \notin sockets' /\ login'[c] = "NONE"
    BY <1>4, SocketFacts DEF OnDisable
  <2>2. Bytes' = {} /\ Players' = {}
    BY <2>1 DEF Bytes, Players, Carrying
  <2>. QED
    BY <1>1, <1>4, <2>2 DEF OnDisable, Contract!OnDisable, Bytes, Players
<1>5. CASE OnEnable
  <2>1. UNCHANGED <<clock, lease, published, writing, login, pc, sockets>>
    BY <1>5 DEF OnEnable, files, handlers
  <2>2. Bytes' = Bytes /\ Players' = Players
    BY <2>1 DEF Bytes, Players, Carrying
  <2>. QED
    BY <1>5, <2>1, <2>2 DEF OnEnable, Contract!OnEnable, Bytes, Players
<1>. QED
  BY <1>2, <1>3, <1>4, <1>5

\* A login changes nothing, a join happens in time, and nobody leaves while carried.
LEMMA PlayerSteps ==
    ASSUME GateInv, NEW c \in Connections, OnAsyncPlayerPreLogin(c) \/ Join(c) \/ Quit(c)
    PROVE  Contract!Join(c) \/ Contract!Quit(c) \/ UNCHANGED Contract!admission
<1>1. UNCHANGED <<clock, lease, published, up, writing, pc, sockets>>
  BY DEF OnAsyncPlayerPreLogin, Join, Quit, files, handlers
<1>2. Bytes' = Bytes /\ login \in [Connections -> {"NONE", "ALLOWED", "ONLINE"}]
  BY <1>1 DEF Bytes, Carrying, GateInv, GateTypeOK
<1>3. CASE OnAsyncPlayerPreLogin(c)
  <2>1. Players' = Players
    BY <1>2, <1>3 DEF OnAsyncPlayerPreLogin, Players
  <2>. QED
    BY <1>1, <1>2, <2>1, Stutters
<1>4. CASE Join(c)
  <2>1. Players' = Players \cup {c}
    BY <1>2, <1>4 DEF Join, Players
  <2>2. clock <= LeaseEnd + PollInterval
    BY <1>4, CarriedInTime DEF Join, Joinable
  <2>3. Contract!Admitting
    BY <2>2 DEF LeaseEnd, Contract!Admitting, Contract!LeaseEnd
  <2>4. Contract!Join(c)
    BY <1>1, <1>2, <1>4, <2>1, <2>3 DEF Join, Contract!Join, Bytes, Players
  <2>. QED
    BY <2>4
<1>5. CASE Quit(c)
  <2>1. Players' = Players \ {c} /\ c \notin Bytes
    BY <1>2, <1>5 DEF Quit, Players, Bytes, Carrying
  <2>2. Contract!Quit(c)
    BY <1>1, <1>2, <2>1 DEF Contract!Quit, Bytes, Players
  <2>. QED
    BY <2>2
<1>. QED
  BY <1>3, <1>4, <1>5

\* Bytes start to flow when a handler tracks its upstream, and only in time.
LEMMA HandlerSteps ==
    ASSUME GateInv, NEW c \in Connections, Accept(c) \/ Handle(c) \/ HangUp(c)
    PROVE  Contract!Begin(c) \/ Contract!End
<1>1. UNCHANGED <<clock, lease, published, up, writing, login>>
  BY DEF Accept, Handle, Decide, Confirm, Dial, Track, Finish, EndSession, HangUp, files, paper
<1>2. Players' = Players
  BY <1>1 DEF Players
<1>3. pc \in [Connections -> InSession \cup {"new", "done"}]
  BY DEF GateInv, GateTypeOK
<1>4. CASE Track(c)
  <2>1. /\ pc[c] = "track" /\ sockets' = sockets /\ pc' = [pc EXCEPT ![c] = "proxy"]
    BY <1>4 DEF Track
  <2>2. CASE Carrying(c)'
    <3>1. Live(c) /\ up
      BY <2>1, <2>2 DEF Carrying, Live, GateInv, Paired
    <3>2. Bytes' = Bytes \cup {c}
      BY <1>3, <2>1, <2>2 DEF Bytes, Carrying
    <3>3. Contract!Admitting
      BY <3>1, CarriedInTime DEF LeaseEnd, Contract!Admitting, Contract!LeaseEnd
    <3>. QED
      BY <1>1, <1>2, <3>1, <3>2, <3>3 DEF Contract!Begin, Bytes, Players
  <2>3. CASE ~Carrying(c)'
    <3>1. Bytes' \subseteq Bytes
      BY <1>3, <2>1, <2>3 DEF Bytes, Carrying
    <3>. QED
      BY <1>1, <3>1, Ends
  <2>. QED
    BY <2>2, <2>3
<1>5. CASE Finish(c) \/ HangUp(c) \/ EndSession(c)
  <2>1. /\ sockets' \subseteq sockets
        /\ \A d \in Connections : pc'[d] = "proxy" => pc[d] = "proxy"
    BY <1>3, <1>5 DEF Finish, HangUp, EndSession
  <2>2. Bytes' \subseteq Bytes
    BY <2>1 DEF Bytes, Carrying
  <2>. QED
    BY <1>1, <2>2, Ends
<1>6. CASE Accept(c) \/ Decide(c) \/ Confirm(c) \/ Dial(c)
  <2>1. /\ \A d \in Connections : pc'[d] = "proxy" => d # c /\ pc[d] = "proxy"
        /\ sockets' \subseteq sockets \cup {Client(c), Upstream(c)}
    BY <1>3, <1>6 DEF Accept, StartSession, Decide, Confirm, Dial
  <2>2. Bytes' \subseteq Bytes
    BY <2>1, SocketFacts, ZenonT(40) DEF Bytes, Carrying
  <2>. QED
    BY <1>1, <2>2, Ends
<1>. QED
  BY <1>4, <1>5, <1>6 DEF Handle

\* The monitor and a restart only end connections; time waits for the monitor.
LEMMA MonitorSteps ==
    ASSUME GateInv, Monitor \/ Restart \/ Tick
    PROVE  Contract!End \/ Contract!Tick
<1>1. CASE Monitor \/ Restart
  <2>1. UNCHANGED <<clock, lease, published, up, writing, login>>
    BY <1>1 DEF Monitor, Poll, PollRuntime, CloseAllCopy, CloseAll, Restart, files, paper
  <2>2. /\ sockets' \subseteq sockets
        /\ \A d \in Connections : pc'[d] = "proxy" => pc[d] = "proxy"
    BY <1>1 DEF Monitor, Poll, PollRuntime, CloseAllCopy, CloseAll, Restart, handlers
  <2>3. Bytes' \subseteq Bytes
    BY <2>2 DEF Bytes, Carrying
  <2>. QED
    BY <2>1, <2>3, Ends
<1>2. CASE Tick
  <2>1. /\ UNCHANGED <<lease, published, up, writing, login, pc, sockets>>
        /\ clock < MaxNow /\ clock' = clock + 1 /\ ~Due
    BY <1>2 DEF Tick, files, paper, handlers
  <2>2. Bytes' = Bytes /\ Players' = Players
    BY <2>1 DEF Bytes, Players, Carrying
  <2>3. LeaseEnd \in Nat /\ clock \in Nat /\ monitor.due \in Nat /\ PollInterval \in Nat
    BY LeaseFacts DEF GateInv
  <2>4. clock + 1 <= monitor.due
    BY SMT, <2>1, <2>3 DEF Due
  <2>5. clock + 1 > LeaseEnd + PollInterval => Bytes = {}
    <3>. SUFFICES ASSUME NEW c \in Bytes PROVE ~(clock + 1 > LeaseEnd + PollInterval)
      OBVIOUS
    <3>1. monitor.due <= LeaseEnd + PollInterval
      BY DEF Bytes, Carrying, Live, GateInv, Bounded
    <3>. QED
      BY SMT, <2>3, <2>4, <3>1
  <2>6. Contract!Tick
    BY <2>1, <2>2, <2>5 DEF Contract!Tick, Contract!LeaseEnd, LeaseEnd, Bytes, Players
  <2>. QED
    BY <2>6
<1>. QED
  BY <1>1, <1>2

\* The gate, the plugin and the owner implement the contract of player admission, for
\* any number of connections, any lease, poll interval and freshness.
THEOREM Implements == SafetySpec => ImplementsAdmission
<1>1. Init => Contract!AdmissionInit
  <2>. SUFFICES ASSUME Init PROVE Contract!AdmissionInit
    OBVIOUS
  <2>1. {c \in Connections : Carrying(c)} = {} /\ {c \in Connections : login[c] = "ONLINE"} = {}
    BY DEF Init, Carrying
  <2>. QED
    BY <2>1 DEF Init, Contract!AdmissionInit
<1>2. GateInv /\ [Next]_vars => [Contract!AdmissionNext]_(Contract!admission)
  <2>. SUFFICES ASSUME GateInv, [Next]_vars PROVE [Contract!AdmissionNext]_(Contract!admission)
    OBVIOUS
  <2>1. CASE UNCHANGED vars
    <3>1. UNCHANGED <<clock, lease, up, writing, published, login, pc, sockets>>
      BY <2>1 DEF vars, files, paper, handlers
    <3>2. Bytes' = Bytes /\ Players' = Players
      BY <3>1 DEF Bytes, Players, Carrying
    <3>. QED
      BY <3>1, <3>2, Stutters
  <2>2. CASE SetOpen \/ SetClosed \/ LoseState
    BY <2>2, LeaseSteps DEF Contract!AdmissionNext
  <2>3. CASE CaptureAndPublish \/ PublishLands \/ OnDisable \/ OnEnable
    BY <2>3, PluginSteps DEF Contract!AdmissionNext
  <2>4. ASSUME NEW c \in Connections, OnAsyncPlayerPreLogin(c) \/ Join(c) \/ Quit(c)
        PROVE  [Contract!AdmissionNext]_(Contract!admission)
    BY <2>4, PlayerSteps DEF Contract!AdmissionNext
  <2>5. ASSUME NEW c \in Connections, Accept(c) \/ Handle(c) \/ HangUp(c)
        PROVE  [Contract!AdmissionNext]_(Contract!admission)
    BY <2>5, HandlerSteps DEF Contract!AdmissionNext
  <2>6. CASE Monitor \/ Restart \/ Tick
    BY <2>6, MonitorSteps DEF Contract!AdmissionNext
  <2>. QED
    BY <2>1, <2>2, <2>3, <2>4, <2>5, <2>6 DEF Next
<1>. QED
  BY <1>1, <1>2, Invariance, PTL DEF SafetySpec, ImplementsAdmission, Contract!AdmissionSpec
=============================================================================
