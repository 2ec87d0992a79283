------------------------------ MODULE Proposals ------------------------------
(***************************************************************************)
(* propose_plugin_change, from the bearer credential that garctl issues to *)
(* the frozen intent (cmd/garctl/main.go, internal/mcpserver/auth.go,      *)
(* internal/workflow/service.go, PutIntent in internal/store/store.go).    *)
(* Calls run concurrently; each reads the clock, the target and the        *)
(* intents table at different moments, and an answer may be lost so that   *)
(* the agent retries under the same client_request_id.                     *)
(*                                                                         *)
(* There is one principal and one enrollment, so a key stands for the      *)
(* UNIQUE triple of v01_intents.  Bytes stand for the validated input that *)
(* the registry has a profile for; sessions of the principal differ in     *)
(* their scope digest.                                                     *)
(***************************************************************************)
EXTENDS Integers

CONSTANTS
    Calls,       \* calls the agent makes
    Keys,        \* client_request_id
    Bytes,       \* proposal inputs
    Sessions,    \* sessions the owner issues to the principal
    Ttl,         \* lifetime of a session
    MaxNow,      \* bound on the clock
    MaxBoot,     \* bound on the boots of the target
    MaxEpoch     \* bound on the revocation epoch

ASSUME ProposalsAssumption ==
    /\ {Ttl, MaxNow, MaxEpoch} \subseteq Nat
    /\ MaxBoot \in Nat \ {0}

VARIABLES
    clock,
    config,      \* current_revocation_epoch in the owner's configuration file
    gar,         \* the running process: its epoch and the sessions of its credentials
    sessions,    \* v01_sessions
    issue,       \* the garctl process that issues a session, and the scope it has sealed
    files,       \* --credentials-out and --token-out: whose record, whose bearer
    registry,    \* records the owner has moved to the credential file gar serve loads
    target,      \* the boot the target is in, whether it is observable and on artifact A
    table,       \* v01_intents, by key
    calls

owner == <<sessions, issue, files, registry>>
vars == <<clock, config, gar, owner, target, table, calls>>

NoSession == [issued |-> FALSE, expires |-> 0, epoch |-> 0]
Outputs == {"credentials", "token"}
NoFiles == [f \in Outputs |-> {}]
NoIntent == [by |-> "none"]
NoCall == [pc |-> "new"]

Issuing == {"save", "credentials", "token", "cleanup"}
Scope == [issued : BOOLEAN, expires : 0..(MaxNow + Ttl), epoch : 0..MaxEpoch]
Active == {"authorize", "stamp", "observe", "lookup", "put", "insert", "resolve", "reply"}
Answers == {"INTENT", "CONFLICT", "DENIED", "UNAVAILABLE", "LOST"}
Intent == [by : Calls, bytes : Bytes, session : Sessions, boot : 1..MaxBoot, created : 0..MaxNow]
\* repeat: when the call arrived, its bytes were frozen under its key.
Call == [pc : Active \cup Answers, key : Keys, bytes : Bytes, session : Sessions, repeat : BOOLEAN,
         now : 0..MaxNow, boot : 0..MaxBoot, answer : {NoIntent} \cup Intent]

\* The type of the tables; an intent is frozen with a boot the target was observed in.
ProposalsTypeOK ==
    /\ clock \in 0..MaxNow
    /\ config \in 0..MaxEpoch
    /\ gar \in [epoch : 0..MaxEpoch, credentials : SUBSET Sessions]
    /\ sessions \in [Sessions -> Scope]
    /\ issue \in [Sessions -> [pc : {"new", "done", "collected", "failed"} \cup Issuing, scope : Scope]]
    /\ files \in [Outputs -> SUBSET Sessions]
    /\ registry \subseteq Sessions
    /\ target \in [boot : 1..MaxBoot, ready : BOOLEAN]
    /\ table \in [Keys -> {NoIntent} \cup Intent]
    /\ calls \in [Calls -> {NoCall} \cup Call]

Init ==
    /\ clock = 0
    /\ config = 0
    /\ gar = [epoch |-> 0, credentials |-> {}]
    /\ sessions = [s \in Sessions |-> NoSession]
    /\ issue = [s \in Sessions |-> [pc |-> "new", scope |-> NoSession]]
    /\ files = NoFiles
    /\ registry = {}
    /\ target = [boot |-> 1, ready |-> TRUE]
    /\ table = [k \in Keys |-> NoIntent]
    /\ calls = [c \in Calls |-> NoCall]

-----------------------------------------------------------------------------

\* Variant: the epoch of the session is not compared.
AuthorizedAnyEpoch(s, epoch) ==
    /\ sessions[s].issued
    /\ clock < sessions[s].expires

\* AgentSessionScope.Validate and the epoch check, of ValidateSessions, of the
\* middleware and of authorize.
Authorized(s, epoch) ==
    /\ sessions[s].issued
    /\ clock < sessions[s].expires
    /\ sessions[s].epoch = epoch

\* The call goes on at l, with what it has read by then.
Proceed(c, l, now, boot, answer) ==
    calls' = [calls EXCEPT ![c] =
        [pc |-> l, key |-> @.key, bytes |-> @.bytes, session |-> @.session,
         repeat |-> @.repeat, now |-> now, boot |-> boot, answer |-> answer]]

Goto(c, l) == Proceed(c, l, calls[c].now, calls[c].boot, calls[c].answer)

\* What a call does with the row it found under its key.
Found(c) ==
    LET row == table[calls[c].key]
    IN  IF row.bytes = calls[c].bytes /\ row.session = calls[c].session
        THEN Proceed(c, "reply", calls[c].now, calls[c].boot, row)
        ELSE Goto(c, "CONFLICT")

\* agentIssue: neither output exists; the configuration and the clock are read.
AgentIssue(s) ==
    /\ issue[s].pc = "new"
    /\ files = NoFiles
    /\ issue' = [issue EXCEPT ![s] =
                    [pc |-> "save",
                     scope |-> [issued |-> TRUE, expires |-> clock + Ttl, epoch |-> config]]]
    /\ UNCHANGED <<clock, config, gar, sessions, files, registry, target, table, calls>>

Issued(s, l) == issue' = [issue EXCEPT ![s] = [pc |-> l, scope |-> NoSession]]

SaveSession(s) ==
    /\ issue[s].pc = "save"
    /\ sessions' = [sessions EXCEPT ![s] = issue[s].scope]
    /\ Issued(s, "credentials")
    /\ UNCHANGED <<clock, config, gar, files, registry, target, table, calls>>

\* Variant: the file is removed whenever writing it failed, whoever had created it.
WriteNewFileRemoves(s, file, next) ==
    \/ /\ files[file] = {}
       /\ files' = [files EXCEPT ![file] = {s}]
       /\ Issued(s, next)
    \/ /\ files' = [files EXCEPT ![file] = {}]
       /\ Issued(s, IF file = "token" THEN "cleanup" ELSE "failed")

\* writeNewFile and writeNewTokenFile: O_EXCL creates the file or fails; a write that
\* fails removes it again, a Close that fails leaves it behind.
WriteNewFile(s, file, next) ==
    \/ /\ files[file] = {}
       /\ files' = [files EXCEPT ![file] = {s}]
       /\ Issued(s, next)
    \/ /\ \/ UNCHANGED files
          \/ files[file] = {} /\ files' = [files EXCEPT ![file] = {s}]
       /\ Issued(s, IF file = "token" THEN "cleanup" ELSE "failed")

WriteCredentials(s) ==
    /\ issue[s].pc = "credentials"
    /\ WriteNewFile(s, "credentials", "token")
    /\ UNCHANGED <<clock, config, gar, sessions, registry, target, table, calls>>

WriteToken(s) ==
    /\ issue[s].pc = "token"
    /\ WriteNewFile(s, "token", "done")
    /\ UNCHANGED <<clock, config, gar, sessions, registry, target, table, calls>>

\* Without a token file the credential file goes as well, whosever it is by now.
RemoveCredentials(s) ==
    /\ issue[s].pc = "cleanup"
    /\ files' = [files EXCEPT !["credentials"] = {}]
    /\ Issued(s, "failed")
    /\ UNCHANGED <<clock, config, gar, sessions, registry, target, table, calls>>

\* The process dies, or the store refuses the session.
IssueDies(s) ==
    /\ issue[s].pc \in Issuing
    /\ Issued(s, "failed")
    /\ UNCHANGED <<clock, config, gar, sessions, files, registry, target, table, calls>>

\* After a success the owner adds the record to the served credential file and hands
\* out the token; leftovers of a failure are deleted once nothing is running.
OwnerCollects ==
    /\ files # NoFiles
    /\ \A s \in Sessions : issue[s].pc \notin Issuing
    /\ LET done == {s \in Sessions : issue[s].pc = "done"}
       IN  /\ registry' = registry \cup (done \cap files["credentials"])
           /\ issue' = [s \in Sessions |-> IF s \in done THEN [pc |-> "collected", scope |-> NoSession]
                                                         ELSE issue[s]]
    /\ files' = NoFiles
    /\ UNCHANGED <<clock, config, gar, sessions, target, table, calls>>

\* authorizationMiddleware resolves the credential and lets the request through.
Arrive(c) ==
    /\ calls[c] = NoCall
    /\ \E k \in Keys, b \in Bytes, s \in Sessions :
         /\ s \in gar.credentials
         /\ Authorized(s, gar.epoch)
         /\ calls' = [calls EXCEPT ![c] =
              [pc |-> "authorize", key |-> k, bytes |-> b, session |-> s,
               repeat |-> table[k] # NoIntent /\ table[k].bytes = b,
               now |-> 0, boot |-> 0, answer |-> NoIntent]]
    /\ UNCHANGED <<clock, config, gar, owner, target, table>>

\* propose checks the scope once more, against the clock of that moment ...
Authorize(c) ==
    /\ calls[c].pc = "authorize"
    /\ Goto(c, IF Authorized(calls[c].session, gar.epoch) THEN "stamp" ELSE "DENIED")
    /\ UNCHANGED <<clock, config, gar, owner, target, table>>

\* ... and reads the clock again for the time the intent is created at.
Stamp(c) ==
    /\ calls[c].pc = "stamp"
    /\ Proceed(c, "observe", clock, calls[c].boot, calls[c].answer)
    /\ UNCHANGED <<clock, config, gar, owner, target, table>>

\* Variant: an observation without a boot ID is taken for evidence.
ObserveAnything(c) ==
    /\ calls[c].pc = "observe"
    /\ Proceed(c, "lookup", calls[c].now, IF target.ready THEN target.boot ELSE 0, calls[c].answer)
    /\ UNCHANGED <<clock, config, gar, owner, target, table>>

\* Target.Observe, validateObservation and the profile's A artifact.
Observe(c) ==
    /\ calls[c].pc = "observe"
    /\ IF target.ready
       THEN Proceed(c, "lookup", calls[c].now, target.boot, calls[c].answer)
       ELSE Goto(c, "UNAVAILABLE")
    /\ UNCHANGED <<clock, config, gar, owner, target, table>>

\* Variant: the digest covers the frozen intent and not only the proposal.
LookupIntentDigest(c) ==
    /\ calls[c].pc \in {"lookup", "put"}
    /\ IF table[calls[c].key] = NoIntent
       THEN Goto(c, IF calls[c].pc = "lookup" THEN "put" ELSE "insert")
       ELSE IF table[calls[c].key].boot = calls[c].boot THEN Found(c)
       ELSE Goto(c, "CONFLICT")
    /\ UNCHANGED <<clock, config, gar, owner, target, table>>

\* GetIntentByClientKey, called by propose and once more by PutIntent.
Lookup(c) ==
    /\ calls[c].pc \in {"lookup", "put"}
    /\ IF table[calls[c].key] = NoIntent
       THEN Goto(c, IF calls[c].pc = "lookup" THEN "put" ELSE "insert")
       ELSE Found(c)
    /\ UNCHANGED <<clock, config, gar, owner, target, table>>

\* Variant: the insert replaces the row of a concurrent proposal.
InsertOrReplace(c) ==
    /\ calls[c].pc = "insert"
    /\ LET i == [by |-> c, bytes |-> calls[c].bytes, session |-> calls[c].session,
                 boot |-> calls[c].boot, created |-> calls[c].now]
       IN  /\ table' = [table EXCEPT ![calls[c].key] = i]
           /\ Proceed(c, "reply", calls[c].now, calls[c].boot, i)
    /\ UNCHANGED <<clock, config, gar, owner, target>>

\* The INSERT of PutIntent commits, or the UNIQUE key refuses it.
Insert(c) ==
    /\ calls[c].pc = "insert"
    /\ LET i == [by |-> c, bytes |-> calls[c].bytes, session |-> calls[c].session,
                 boot |-> calls[c].boot, created |-> calls[c].now]
       IN  \/ /\ table[calls[c].key] = NoIntent
              /\ table' = [table EXCEPT ![calls[c].key] = i]
              /\ Proceed(c, "reply", calls[c].now, calls[c].boot, i)
           \/ /\ table[calls[c].key] # NoIntent
              /\ Goto(c, "resolve")
              /\ UNCHANGED table
    /\ UNCHANGED <<clock, config, gar, owner, target>>

\* A refused INSERT is resolved through the same idempotency rule.
Resolve(c) ==
    /\ calls[c].pc = "resolve"
    /\ Found(c)
    /\ UNCHANGED <<clock, config, gar, owner, target, table>>

Reply(c) ==
    /\ calls[c].pc = "reply"
    /\ Goto(c, "INTENT")
    /\ UNCHANGED <<clock, config, gar, owner, target, table>>

\* The client disconnects or a database call fails: what was committed stays.
Lose(c) ==
    /\ calls[c].pc \in Active
    /\ Goto(c, "LOST")
    /\ UNCHANGED <<clock, config, gar, owner, target, table>>

\* gar serve is started again; ValidateSessions must accept every credential.
Restart ==
    /\ \E loaded \in SUBSET registry \ {{}} :
         /\ \A s \in loaded : Authorized(s, config)
         /\ gar' = [epoch |-> config, credentials |-> loaded]
    /\ calls' = [c \in Calls |-> IF calls[c].pc \in Active THEN [calls[c] EXCEPT !.pc = "LOST"]
                                                           ELSE calls[c]]
    /\ UNCHANGED <<clock, config, owner, target, table>>

\* The owner revokes all sessions issued so far; the process learns of it when it restarts.
RaiseEpoch ==
    /\ config < MaxEpoch
    /\ config' = config + 1
    /\ UNCHANGED <<clock, gar, owner, target, table, calls>>

\* The target restarts, becomes unobservable or leaves artifact A, or comes back.
TargetChanges ==
    /\ \/ target.boot < MaxBoot /\ target' = [target EXCEPT !.boot = @ + 1]
       \/ target' = [target EXCEPT !.ready = ~@]
    /\ UNCHANGED <<clock, config, gar, owner, table, calls>>

Tick ==
    /\ clock < MaxNow
    /\ clock' = clock + 1
    /\ UNCHANGED <<config, gar, owner, target, table, calls>>

Next ==
    \/ \E s \in Sessions : \/ AgentIssue(s) \/ SaveSession(s) \/ WriteCredentials(s)
                           \/ WriteToken(s) \/ RemoveCredentials(s) \/ IssueDies(s)
    \/ OwnerCollects
    \/ \E c \in Calls : \/ Arrive(c) \/ Authorize(c) \/ Stamp(c) \/ Observe(c) \/ Lookup(c)
                        \/ Insert(c) \/ Resolve(c) \/ Reply(c) \/ Lose(c)
    \/ Restart \/ RaiseEpoch \/ TargetChanges \/ Tick

Spec == Init /\ [][Next]_vars

-----------------------------------------------------------------------------
(* Properties.                                                             *)

\* A client_request_id names one frozen intent: every call answered with an
\* intent got the row of the table, unchanged since the first answer, and had
\* sent the bytes and the scope it was frozen from, whoever won the insert.
AnswersAgree ==
    \A c \in Calls : calls[c].pc \in {"reply", "INTENT"} =>
        /\ calls[c].answer = table[calls[c].key]
        /\ calls[c].answer.bytes = calls[c].bytes
        /\ calls[c].answer.session = calls[c].session

\* IDEMPOTENCY_CONFLICT is answered only when the table holds a proposal of other bytes or
\* of another scope under the key: what the target was observed to be is frozen in the row
\* but is no part of the digest compared (the observation may still refuse the call before
\* the table is looked at).
ConflictIsReal ==
    \A c \in Calls : calls[c].pc = "CONFLICT" =>
        /\ table[calls[c].key] # NoIntent
        /\ <<table[calls[c].key].bytes, table[calls[c].key].session>>
              # <<calls[c].bytes, calls[c].session>>

\* Once the process runs with a raised revocation epoch, no intent is frozen for a session
\* issued before it, however long the call that proposes it waits after its authorization
\* and whatever credentials the owner left in the file.  (A session that only expires in
\* between still gets its intent.)
RevokedFreezesNothing ==
    [][\A k \in Keys : table[k] = NoIntent /\ table'[k] # NoIntent =>
         sessions[table'[k].session].epoch = gar.epoch]_vars

\* A token that agent issue reported opens what it says: until the owner collects them,
\* the two files stay those of the one session, which is stored, although a second
\* command passed its check of the same names earlier and may fail at any of its writes.
IssuedTokenOpens ==
    \A s \in Sessions : issue[s].pc = "done" =>
        files = [f \in Outputs |-> {s}] /\ sessions[s].issued

\* docs/CAPABILITIES.md: the same principal, enrollment, key and bytes return the frozen
\* intent; changed bytes conflict.  So a call that repeats what is frozen is not refused,
\* neither as a conflict nor because the target is not as it was.
SameBytesReturnTheIntent ==
    \A c \in Calls : calls[c].pc \in {"CONFLICT", "UNAVAILABLE"} => ~calls[c].repeat
=============================================================================
