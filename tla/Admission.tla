----------------------------- MODULE Admission -----------------------------
(***************************************************************************)
(* What player admission promises to the rest of the system, without the   *)
(* gate's sockets, handlers and monitor: a lease file, the plugin's        *)
(* runtime snapshots, the connections that carry bytes to Paper and the    *)
(* players that are online.  AdmissionGate implements it.                  *)
(***************************************************************************)
EXTENDS Integers

CONSTANTS
    Connections,      \* connections the clients open
    MaxOpenLease,     \* the longest lease WriteState grants
    Skew,             \* tolerance for times ahead of the reader's clock
    PollInterval,     \* config.PollInterval
    MaxNow            \* bound on the clock

VARIABLES
    clock,
    lease,            \* the admission state file and the time it was last replaced
    up,               \* Paper is running with GARGuard enabled
    writing,          \* snapshots captured whose asynchronous write has not landed
    published,        \* the runtime snapshot file
    carrying,         \* connections whose bytes reach Paper
    online            \* connections whose player is in the game

admission == <<clock, lease, up, writing, published, carrying, online>>

AdmissionInit ==
    /\ clock = 0
    /\ lease = [mode |-> "UNREADABLE", issued |-> 0, expires |-> 0, written |-> 0]
    /\ up = TRUE
    /\ writing = {}
    /\ published = [ready |-> FALSE, open |-> FALSE, empty |-> TRUE, at |-> 0]
    /\ carrying = {}
    /\ online = {}

-----------------------------------------------------------------------------
(* The lease file.                                                         *)

EvaluateState(t) ==
    /\ lease.mode = "OPEN"
    /\ lease.issued <= t + Skew
    /\ t < lease.expires
    /\ lease.expires > lease.issued
    /\ lease.expires - lease.issued <= MaxOpenLease

\* The file allows admission at no moment from here on, unless it is written again.
LeaseEnd ==
    IF lease.mode = "OPEN" /\ lease.expires > lease.written THEN lease.expires ELSE lease.written

WriteLease(mode, issued, expires) ==
    /\ lease' = [mode |-> mode, issued |-> issued, expires |-> expires, written |-> clock]
    /\ UNCHANGED <<clock, up, writing, published, carrying, online>>

\* The issue time is the one the command took when it began.
SetOpen ==
    \E issued \in 0..clock, l \in 1..MaxOpenLease : WriteLease("OPEN", issued, issued + l)

SetClosed == WriteLease("CLOSED", clock, 0)

LoseState == lease.mode # "UNREADABLE" /\ WriteLease("UNREADABLE", clock, 0)

-----------------------------------------------------------------------------
(* The plugin and the server it runs in.                                   *)

Capture(ready) ==
    [ready |-> ready, open |-> EvaluateState(clock), empty |-> online = {}, at |-> clock]

CaptureAndPublish ==
    /\ up
    /\ writing = {}
    /\ writing' = {Capture(TRUE)}
    /\ UNCHANGED <<clock, lease, up, published, carrying, online>>

PublishLands ==
    /\ \E s \in writing : published' \in {s, published}
    /\ writing' = {}
    /\ UNCHANGED <<clock, lease, up, carrying, online>>

OnDisable ==
    /\ up
    /\ up' = FALSE
    /\ published' \in {Capture(FALSE), published}
    /\ carrying' = {}
    /\ online' = {}
    /\ UNCHANGED <<clock, lease, writing>>

OnEnable ==
    /\ ~up
    /\ up' = TRUE
    /\ UNCHANGED <<clock, lease, writing, published, carrying, online>>

-----------------------------------------------------------------------------
(* Connections and players.                                                *)

\* The time until which a connection may reach Paper under the current lease.
Admitting == clock <= LeaseEnd + PollInterval

Begin(c) ==
    /\ up
    /\ Admitting
    /\ carrying' = carrying \cup {c}
    /\ UNCHANGED <<clock, lease, up, writing, published, online>>

\* Peers hang up, the gate closes what it tracks, or its process ends.
End ==
    /\ carrying' \in SUBSET carrying
    /\ UNCHANGED <<clock, lease, up, writing, published, online>>

\* A player enters the game only while connections may still be carried.
Join(c) ==
    /\ up
    /\ Admitting
    /\ online' = online \cup {c}
    /\ UNCHANGED <<clock, lease, up, writing, published, carrying>>

\* Nobody leaves while the connection is up; Paper may notice the end late.
Quit(c) ==
    /\ c \notin carrying
    /\ online' = online \ {c}
    /\ UNCHANGED <<clock, lease, up, writing, published, carrying>>

\* No connection is carried past a poll interval after the lease.
Tick ==
    /\ clock < MaxNow
    /\ clock + 1 > LeaseEnd + PollInterval => carrying = {}
    /\ clock' = clock + 1
    /\ UNCHANGED <<lease, up, writing, published, carrying, online>>

AdmissionNext ==
    \/ SetOpen \/ SetClosed \/ LoseState
    \/ CaptureAndPublish \/ PublishLands \/ OnDisable \/ OnEnable
    \/ \E c \in Connections : Begin(c) \/ Join(c) \/ Quit(c)
    \/ End \/ Tick

AdmissionSpec == AdmissionInit /\ [][AdmissionNext]_admission
=============================================================================
