--------------------------- MODULE AdmissionGate ---------------------------
(***************************************************************************)
(* Player admission: the owner's lease file (internal/admission/state.go), *)
(* the GARGuard plugin that reads it and publishes a runtime snapshot      *)
(* (plugins/paper-guard), and the TCP gate that proxies a connection to    *)
(* Paper while both say OPEN (internal/admission/gate.go).  The three are  *)
(* separate processes; they share the two files and the wall clock only.   *)
(*                                                                         *)
(* A connection is used once: it is accepted, perhaps proxied, and ends.   *)
(* Time advances when the gate's ticker is not overdue, so a poll is       *)
(* instantaneous on the scale of the clock but not atomic.                 *)
(***************************************************************************)
EXTENDS Integers, FiniteSets

CONSTANTS
    Connections,      \* connections the clients open
    MaxConnections,   \* config.MaxConnections
    MaxOpenLease,     \* the longest lease WriteState grants
    Freshness,        \* runtimeFreshness
    Skew,             \* tolerance for times ahead of the reader's clock
    PollInterval,     \* config.PollInterval
    MaxNow            \* bound on the clock

ASSUME AdmissionAssumption ==
    /\ IsFiniteSet(Connections)
    /\ {MaxConnections, MaxOpenLease, PollInterval} \subseteq Nat \ {0}
    /\ {Freshness, Skew, MaxNow} \subseteq Nat

VARIABLES
    clock,
    lease,            \* the admission state file and the time it was last replaced
    up,               \* Paper is running with GARGuard enabled
    writing,          \* snapshots captured whose asynchronous write has not landed
    published,        \* the runtime snapshot file
    login,            \* what Paper has let each connection do
    pc,               \* where each connection's handler is
    readAt,           \* the time a handler in the middle of EvaluateAccess evaluates it for
    sockets,          \* sockets that are open
    connections,      \* gate.connections
    activeSessions,   \* gate.activeSessions
    monitor           \* the monitor goroutine

files == <<lease, published>>
paper == <<up, writing, login>>
handlers == <<pc, readAt, sockets, connections, activeSessions>>
vars == <<clock, files, paper, handlers, monitor>>

Client(c) == <<c, "client">>
Upstream(c) == <<c, "upstream">>
Sockets == Connections \X {"client", "upstream"}
Mode == {"OPEN", "CLOSED", "UNREADABLE"}
Snapshot == [ready : BOOLEAN, open : BOOLEAN, empty : BOOLEAN, at : 0..MaxNow]
InSession == {"decide", "confirm", "dial", "track", "proxy", "end"}

\* The type of the gate's state, with the counter and the clock within their bounds.
GateTypeOK ==
    /\ clock \in 0..MaxNow
    /\ lease \in [mode : Mode, issued : 0..MaxNow, expires : 0..(MaxNow + MaxOpenLease),
                  written : 0..MaxNow]
    /\ up \in BOOLEAN
    /\ writing \subseteq Snapshot
    /\ Cardinality(writing) <= 1
    /\ published \in Snapshot
    /\ login \in [Connections -> {"NONE", "ALLOWED", "ONLINE"}]
    /\ pc \in [Connections -> InSession \cup {"new", "done"}]
    /\ readAt \in [Connections -> 0..MaxNow]
    /\ sockets \subseteq Sockets
    /\ connections \subseteq Sockets
    /\ activeSessions \in 0..MaxConnections
    /\ monitor \in [pc : {"wait", "runtime", "copy", "close"},
                    due : 0..(MaxNow + PollInterval), targets : SUBSET Sockets]

\* The gate starts with no state file: closed.
Init ==
    /\ clock = 0
    /\ lease = [mode |-> "UNREADABLE", issued |-> 0, expires |-> 0, written |-> 0]
    /\ up = TRUE
    /\ writing = {}
    /\ published = [ready |-> FALSE, open |-> FALSE, empty |-> TRUE, at |-> 0]
    /\ login = [c \in Connections |-> "NONE"]
    /\ pc = [c \in Connections |-> "new"]
    /\ readAt = [c \in Connections |-> 0]
    /\ sockets = {}
    /\ connections = {}
    /\ activeSessions = 0
    /\ monitor = [pc |-> "wait", due |-> 0, targets |-> {}]

-----------------------------------------------------------------------------
(* The lease file.                                                         *)

\* EvaluateState in Go and AdmissionStateReader.parse in Java agree on this.
EvaluateState(t) ==
    /\ lease.mode = "OPEN"
    /\ lease.issued <= t + Skew
    /\ t < lease.expires
    /\ lease.expires > lease.issued
    /\ lease.expires - lease.issued <= MaxOpenLease

\* WriteState renames a complete file over the old one: gar-gate open, and the
\* acceptance probe, which takes the issue time when its command begins; the lease may
\* be over by the time it is written.
SetOpen ==
    /\ \E issued \in 0..clock, l \in 1..MaxOpenLease :
         lease' = [mode |-> "OPEN", issued |-> issued, expires |-> issued + l, written |-> clock]
    /\ UNCHANGED <<clock, published, paper, handlers, monitor>>

\* gar-gate close, and CloseAdmission of the Foundation workflow.
SetClosed ==
    /\ lease' = [mode |-> "CLOSED", issued |-> clock, expires |-> 0, written |-> clock]
    /\ UNCHANGED <<clock, published, paper, handlers, monitor>>

\* The file is removed, or becomes one that readState refuses.
LoseState ==
    /\ lease.mode # "UNREADABLE"
    /\ lease' = [mode |-> "UNREADABLE", issued |-> clock, expires |-> 0, written |-> clock]
    /\ UNCHANGED <<clock, published, paper, handlers, monitor>>

\* No moment from here on is one at which the file on disk allowed admission: the lease
\* runs out, or it was over, or not granted, when the file was written.
LeaseEnd ==
    IF lease.mode = "OPEN" /\ lease.expires > lease.written THEN lease.expires ELSE lease.written

-----------------------------------------------------------------------------
(* GARGuard and the server it runs in.                                     *)

Capture(ready) ==
    [ready |-> ready, open |-> EvaluateState(clock),
     empty |-> \A c \in Connections : login[c] # "ONLINE", at |-> clock]

\* The capture is dropped while an earlier one is still being written.
CaptureAndPublish ==
    /\ up
    /\ writing = {}
    /\ writing' = {Capture(TRUE)}
    /\ UNCHANGED <<clock, files, up, login, handlers, monitor>>

\* The asynchronous write lands, or fails and is logged; it may outlive the plugin.
PublishLands ==
    /\ \E s \in writing : published' \in {s, published}
    /\ writing' = {}
    /\ UNCHANGED <<clock, lease, up, login, handlers, monitor>>

\* onDisable publishes on the main thread; the server then ends every connection.
OnDisable ==
    /\ up
    /\ up' = FALSE
    /\ published' \in {Capture(FALSE), published}
    /\ sockets' = sockets \ (Connections \X {"upstream"})
    /\ login' = [c \in Connections |-> "NONE"]
    /\ UNCHANGED <<clock, lease, writing, pc, readAt, connections, activeSessions, monitor>>

OnEnable ==
    /\ ~up
    /\ up' = TRUE
    /\ UNCHANGED <<clock, files, writing, login, handlers, monitor>>

\* The client's bytes have reached Paper and the lease allows the login.
OnAsyncPlayerPreLogin(c) ==
    /\ up
    /\ pc[c] = "proxy"
    /\ {Client(c), Upstream(c)} \subseteq sockets
    /\ login[c] = "NONE"
    /\ EvaluateState(clock)
    /\ login' = [login EXCEPT ![c] = "ALLOWED"]
    /\ UNCHANGED <<clock, files, up, writing, handlers, monitor>>

\* The join itself happens later, on the main thread, with no second look at the lease.
Join(c) ==
    /\ up
    /\ login[c] = "ALLOWED"
    /\ Upstream(c) \in sockets
    /\ login' = [login EXCEPT ![c] = "ONLINE"]
    /\ UNCHANGED <<clock, files, up, writing, handlers, monitor>>

\* Paper notices that the connection is gone.
Quit(c) ==
    /\ login[c] # "NONE"
    /\ Upstream(c) \notin sockets
    /\ login' = [login EXCEPT ![c] = "NONE"]
    /\ UNCHANGED <<clock, files, up, writing, handlers, monitor>>

-----------------------------------------------------------------------------
(* The gate: one handler per connection.                                   *)

\* The second half of EvaluateAccess, for the time the first half was evaluated at.
RuntimeConfirms(t) ==
    /\ published.ready
    /\ published.at <= t + Skew
    /\ t - published.at <= Freshness
    /\ published.open

\* Variant: the session that fills the last slot is not refused.
StartSessionOverLimit(c) ==
    IF activeSessions > MaxConnections
    THEN /\ pc' = [pc EXCEPT ![c] = "done"]
         /\ UNCHANGED <<sockets, connections, activeSessions>>
    ELSE /\ pc' = [pc EXCEPT ![c] = "decide"]
         /\ activeSessions' = activeSessions + 1
         /\ connections' = connections \cup {Client(c)}
         /\ sockets' = sockets \cup {Client(c)}

\* Variant: the client is not entered in gate.connections.
StartSessionUntracked(c) ==
    IF activeSessions >= MaxConnections
    THEN /\ pc' = [pc EXCEPT ![c] = "done"]
         /\ UNCHANGED <<sockets, connections, activeSessions>>
    ELSE /\ pc' = [pc EXCEPT ![c] = "decide"]
         /\ activeSessions' = activeSessions + 1
         /\ sockets' = sockets \cup {Client(c)}
         /\ UNCHANGED connections

\* accept and startSession: at the limit the client is closed at once.
StartSession(c) ==
    IF activeSessions >= MaxConnections
    THEN /\ pc' = [pc EXCEPT ![c] = "done"]
         /\ UNCHANGED <<sockets, connections, activeSessions>>
    ELSE /\ pc' = [pc EXCEPT ![c] = "decide"]
         /\ activeSessions' = activeSessions + 1
         /\ connections' = connections \cup {Client(c)}
         /\ sockets' = sockets \cup {Client(c)}

Accept(c) ==
    /\ pc[c] = "new"
    /\ StartSession(c)
    /\ UNCHANGED <<clock, files, paper, readAt, monitor>>

Decide(c) ==
    /\ pc[c] = "decide"
    /\ IF EvaluateState(clock)
       THEN /\ pc' = [pc EXCEPT ![c] = "confirm"]
            /\ readAt' = [readAt EXCEPT ![c] = clock]
       ELSE /\ pc' = [pc EXCEPT ![c] = "end"]
            /\ UNCHANGED readAt
    /\ UNCHANGED <<clock, files, paper, sockets, connections, activeSessions, monitor>>

Confirm(c) ==
    /\ pc[c] = "confirm"
    /\ pc' = [pc EXCEPT ![c] = IF RuntimeConfirms(readAt[c]) THEN "dial" ELSE "end"]
    /\ readAt' = [readAt EXCEPT ![c] = 0]
    /\ UNCHANGED <<clock, files, paper, sockets, connections, activeSessions, monitor>>

\* Paper answers, or it refuses or the dial times out.
Dial(c) ==
    /\ pc[c] = "dial"
    /\ \/ /\ up
          /\ sockets' = sockets \cup {Upstream(c)}
          /\ pc' = [pc EXCEPT ![c] = "track"]
       \/ /\ pc' = [pc EXCEPT ![c] = "end"]
          /\ UNCHANGED sockets
    /\ UNCHANGED <<clock, files, paper, readAt, connections, activeSessions, monitor>>

\* Variant: the upstream connection is not entered in gate.connections.
TrackMissing(c) ==
    /\ pc[c] = "track"
    /\ pc' = [pc EXCEPT ![c] = "proxy"]
    /\ UNCHANGED <<clock, files, paper, readAt, sockets, connections, activeSessions, monitor>>

Track(c) ==
    /\ pc[c] = "track"
    /\ connections' = connections \cup {Upstream(c)}
    /\ pc' = [pc EXCEPT ![c] = "proxy"]
    /\ UNCHANGED <<clock, files, paper, readAt, sockets, activeSessions, monitor>>

\* Either peer hangs up, before or while it is proxied.
HangUp(c) ==
    /\ \E s \in {Client(c), Upstream(c)} \cap sockets : sockets' = sockets \ {s}
    /\ UNCHANGED <<clock, files, paper, pc, readAt, connections, activeSessions, monitor>>

\* One copy ends because a socket is closed: both are closed, the upstream is untracked.
Finish(c) ==
    /\ pc[c] = "proxy"
    /\ ~({Client(c), Upstream(c)} \subseteq sockets)
    /\ sockets' = sockets \ {Client(c), Upstream(c)}
    /\ connections' = connections \ {Upstream(c)}
    /\ pc' = [pc EXCEPT ![c] = "end"]
    /\ UNCHANGED <<clock, files, paper, readAt, activeSessions, monitor>>

\* Variant: the slot is given back but the socket stays in gate.connections.
EndSessionLeaks(c) ==
    /\ pc[c] = "end"
    /\ activeSessions' = activeSessions - 1
    /\ sockets' = sockets \ {Client(c)}
    /\ pc' = [pc EXCEPT ![c] = "done"]
    /\ UNCHANGED <<clock, files, paper, readAt, connections, monitor>>

EndSession(c) ==
    /\ pc[c] = "end"
    /\ connections' = connections \ {Client(c)}
    /\ activeSessions' = activeSessions - 1
    /\ sockets' = sockets \ {Client(c)}
    /\ pc' = [pc EXCEPT ![c] = "done"]
    /\ UNCHANGED <<clock, files, paper, readAt, monitor>>

Handle(c) == Decide(c) \/ Confirm(c) \/ Dial(c) \/ Track(c) \/ Finish(c) \/ EndSession(c)

-----------------------------------------------------------------------------
(* The gate: the monitor goroutine.                                        *)

\* The ticker fires; at the bound of the clock it keeps firing.
Due == clock >= monitor.due \/ clock = MaxNow

\* Variant: a file that cannot be read leaves the last decision in force.
PollFailsOpen ==
    /\ monitor.pc = "wait"
    /\ Due
    /\ monitor' = IF lease.mode = "UNREADABLE"
                  THEN [monitor EXCEPT !.due = clock + PollInterval]
                  ELSE [monitor EXCEPT !.pc = IF EvaluateState(clock) THEN "runtime" ELSE "copy"]
    /\ UNCHANGED <<clock, files, paper, handlers>>

Poll ==
    /\ monitor.pc = "wait"
    /\ Due
    /\ monitor' = [monitor EXCEPT !.pc = IF EvaluateState(clock) THEN "runtime" ELSE "copy"]
    /\ UNCHANGED <<clock, files, paper, handlers>>

PollRuntime ==
    /\ monitor.pc = "runtime"
    /\ monitor' = IF RuntimeConfirms(clock)
                  THEN [monitor EXCEPT !.pc = "wait", !.due = clock + PollInterval]
                  ELSE [monitor EXCEPT !.pc = "copy"]
    /\ UNCHANGED <<clock, files, paper, handlers>>

\* closeAll copies the map under the lock ...
CloseAllCopy ==
    /\ monitor.pc = "copy"
    /\ monitor' = [monitor EXCEPT !.pc = "close", !.targets = connections]
    /\ UNCHANGED <<clock, files, paper, handlers>>

\* ... and closes what it copied without it.
CloseAll ==
    /\ monitor.pc = "close"
    /\ sockets' = sockets \ monitor.targets
    /\ monitor' = [monitor EXCEPT !.pc = "wait", !.targets = {}, !.due = clock + PollInterval]
    /\ UNCHANGED <<clock, files, paper, pc, readAt, connections, activeSessions>>

Monitor == Poll \/ PollRuntime \/ CloseAllCopy \/ CloseAll

\* The gate's process ends (a signal, an accept error, a crash) and is started again.
Restart ==
    /\ sockets' = {}
    /\ connections' = {}
    /\ activeSessions' = 0
    /\ pc' = [c \in Connections |-> IF pc[c] \in InSession THEN "done" ELSE pc[c]]
    /\ monitor' = [pc |-> "wait", due |-> clock, targets |-> {}]
    /\ readAt' = [c \in Connections |-> 0]
    /\ UNCHANGED <<clock, files, paper>>

Tick ==
    /\ clock < MaxNow
    /\ monitor.pc = "wait"
    /\ ~Due
    /\ clock' = clock + 1
    /\ UNCHANGED <<files, paper, handlers, monitor>>

Next ==
    \/ SetOpen \/ SetClosed \/ LoseState
    \/ CaptureAndPublish \/ PublishLands \/ OnDisable \/ OnEnable
    \/ \E c \in Connections : OnAsyncPlayerPreLogin(c) \/ Join(c) \/ Quit(c)
    \/ \E c \in Connections : Accept(c) \/ Handle(c) \/ HangUp(c)
    \/ Monitor \/ Restart \/ Tick

\* Time passes and goroutines that can run do run; owners and players need not act.
Fairness ==
    /\ WF_vars(Tick)
    /\ WF_vars(Monitor)
    /\ \A c \in Connections : WF_vars(Handle(c))

SafetySpec == Init /\ [][Next]_vars

Spec == SafetySpec /\ Fairness

-----------------------------------------------------------------------------
(* Properties.                                                             *)

Carrying(c) == pc[c] = "proxy" /\ {Client(c), Upstream(c)} \subseteq sockets

\* gate.activeSessions is the number of handlers between startSession and
\* endSession, and gate.connections holds sockets of those handlers only:
\* whatever ends a handler gives its slot back and leaks no entry.
SessionsCounted ==
    /\ activeSessions = Cardinality({c \in Connections : pc[c] \in InSession})
    /\ \A c \in Connections :
         /\ Client(c) \in connections => pc[c] \in InSession
         /\ Upstream(c) \in connections => pc[c] = "proxy"

\* closeAll misses no traffic: once the lease has been over for more than a
\* poll interval, no connection carries bytes to Paper, whatever a handler
\* decided from an older read of the files before it dialled.
CutOff ==
    clock > LeaseEnd + PollInterval => \A c \in Connections : ~Carrying(c)

\* The time in which a zero-player snapshot can turn out wrong is bounded.  A login that
\* was allowed just before the lease ended may join behind a snapshot without players, and
\* waitMaintenance, which compares no times, accepts that snapshot; but only a snapshot
\* captured no later than a poll interval after the end of the lease, published or still
\* being written, is ever contradicted by a player.
LateJoinsAreBounded ==
    \A c \in Connections, s \in {published} \cup writing :
        login[c] = "ONLINE" /\ s.empty => s.at <= LeaseEnd + PollInterval

\* No session survives the end of the lease: its handler ends and gives the
\* slot back, unless the owner grants a new lease first.
SessionsDrain ==
    \A c \in Connections :
        (pc[c] \in InSession /\ ~EvaluateState(clock))
            ~> (pc[c] = "done" \/ EvaluateState(clock))

\* What the rest of the system sees of the gate.
Contract == INSTANCE Admission WITH
    carrying <- {c \in Connections : Carrying(c)},
    online <- {c \in Connections : login[c] = "ONLINE"}

\* Sockets, handlers, the monitor's copy of the connections and the restarts of
\* the gate add nothing to the contract: bytes start to flow and players join
\* only within a poll interval of the lease, and no time passes beyond it while
\* a connection is still carried.
ImplementsAdmission == Contract!AdmissionSpec
=============================================================================
