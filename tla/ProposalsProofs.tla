-------------------------- MODULE ProposalsProofs --------------------------
(***************************************************************************)
(* Proposals and agent issue for any number of calls, keys, inputs and     *)
(* sessions.  A row of the table is written once; what a call carries from *)
(* one step to the next (its session, the boot, the row it answers with)   *)
(* is related to the running process and to the row it came from.          *)
(***************************************************************************)
EXTENDS Proposals, TLAPS

USE Zenon

\* A stored scope that the process at epoch e accepts; it may have expired since.
Current(scope, e) == scope.issued /\ scope.epoch = e

Pending == {"authorize", "stamp", "observe", "lookup", "put", "insert"}

\* A call x of the process at epoch e, for the stored scopes ss and the rows tb.
CallOK(x, ss, tb, e) ==
    /\ x.pc \in Pending => Current(ss[x.session], e)
    /\ x.pc \in {"lookup", "put", "insert"} => x.boot \in 1..MaxBoot
    /\ x.pc \in {"resolve", "reply", "INTENT", "CONFLICT"} => tb[x.key] # NoIntent
    /\ x.pc \in {"reply", "INTENT"} =>
         /\ x.answer = tb[x.key]
         /\ x.answer.bytes = x.bytes
         /\ x.answer.session = x.session
    /\ x.pc = "CONFLICT" =>
         <<tb[x.key].bytes, tb[x.key].session>> # <<x.bytes, x.session>>

\* A scope is stored once.
ScopeOK(i, scope) ==
    /\ i.pc \in {"new", "save"} => ~scope.issued
    /\ i.pc = "save" => i.scope.issued
    /\ i.pc \in {"credentials", "token", "done"} => scope.issued

\* O_EXCL: the command that created a file and still works with it has it alone.
FilesOK(s, l, fs) ==
    /\ l \in {"token", "cleanup", "done"} => fs["credentials"] = {s}
    /\ l = "done" => fs["token"] = {s}

\* The inductive invariant.
ProposalsInv ==
    /\ ProposalsTypeOK
    /\ \A c \in Calls : CallOK(calls[c], sessions, table, gar.epoch)
    /\ \A s \in Sessions : ScopeOK(issue[s], sessions[s])
    /\ \A s \in Sessions : FilesOK(s, issue[s].pc, files)

-----------------------------------------------------------------------------

\* An intent is not the absent one.
LEMMA IntentIsThere == \A i \in Intent : i # NoIntent
  BY SMT DEF Intent, NoIntent

\* A call that has arrived is a record of a call.
LEMMA Arrived ==
    ASSUME ProposalsTypeOK, NEW c \in Calls, calls[c].pc # "new"
    PROVE  calls[c] \in Call
  BY SMT DEF ProposalsTypeOK, NoCall

\* Nothing has been issued or proposed.
LEMMA InitInv == Init => ProposalsInv
<1>. SUFFICES ASSUME Init PROVE ProposalsInv
  OBVIOUS
<1>1. NoSession \in Scope
  BY SMT, ProposalsAssumption DEF NoSession, Scope
<1>2. NoFiles \in [Outputs -> SUBSET Sessions]
  BY DEF NoFiles
<1>3. ProposalsTypeOK
  BY SMT, <1>1, <1>2, ProposalsAssumption DEF Init, ProposalsTypeOK, Issuing
<1>4. \A c \in Calls : CallOK(calls[c], sessions, table, gar.epoch)
  BY DEF Init, CallOK, NoCall, Pending
<1>6. \A s \in Sessions : ScopeOK(issue[s], sessions[s])
  BY DEF Init, ScopeOK, NoSession
<1>7. \A s \in Sessions : FilesOK(s, issue[s].pc, files)
  BY DEF Init, FilesOK
<1>. QED
  BY <1>3, <1>4, <1>6, <1>7 DEF ProposalsInv

-----------------------------------------------------------------------------
(* The calls.                                                              *)

\* A step of one call that leaves the table alone.
LEMMA CallMoves ==
    ASSUME ProposalsInv, NEW c \in Calls, NEW x \in Call, CallOK(x, sessions, table, gar.epoch),
           calls' = [calls EXCEPT ![c] = x],
           UNCHANGED <<clock, config, gar, owner, target, table>>
    PROVE  ProposalsInv'
<1>1. ProposalsTypeOK'
  BY DEF ProposalsInv, ProposalsTypeOK, owner
<1>2. ASSUME NEW d \in Calls PROVE CallOK(calls'[d], sessions', table', gar'.epoch)
  <2>1. calls'[d] = IF d = c THEN x ELSE calls[d]
    BY DEF ProposalsInv, ProposalsTypeOK
  <2>. QED
    BY <2>1 DEF ProposalsInv, owner
<1>. QED
  BY <1>1, <1>2 DEF ProposalsInv, owner

\* Proceed makes a call of a call.
LEMMA ProceedCall ==
    ASSUME ProposalsTypeOK, NEW c \in Calls, calls[c] \in Call,
           NEW l \in Active \cup Answers,
           NEW now \in 0..MaxNow, NEW boot \in 0..MaxBoot, NEW answer \in {NoIntent} \cup Intent,
           Proceed(c, l, now, boot, answer)
    PROVE  \E x \in Call :
             /\ calls' = [calls EXCEPT ![c] = x]
             /\ x = [pc |-> l, key |-> calls[c].key, bytes |-> calls[c].bytes,
                     session |-> calls[c].session, repeat |-> calls[c].repeat,
                     now |-> now, boot |-> boot, answer |-> answer]
  BY DEF Proceed, Call

\* Going on elsewhere with nothing new, where the new place asks for nothing new.
LEMMA GotoInv ==
    ASSUME ProposalsInv, NEW c \in Calls, calls[c].pc # "new",
           NEW l \in Active \cup Answers,
           Goto(c, l), UNCHANGED <<clock, config, gar, owner, target, table>>,
           \/ l \in {"DENIED", "UNAVAILABLE", "LOST"}
           \/ l = "stamp" /\ calls[c].pc = "authorize"
           \/ l \in {"put", "insert"} /\ calls[c].pc \in {"lookup", "put"}
           \/ l = "resolve" /\ table[calls[c].key] # NoIntent
           \/ l = "INTENT" /\ calls[c].pc = "reply"
           \/ /\ l = "CONFLICT" /\ table[calls[c].key] # NoIntent
              /\ <<table[calls[c].key].bytes, table[calls[c].key].session>>
                    # <<calls[c].bytes, calls[c].session>>
    PROVE  ProposalsInv'
<1>1. ProposalsTypeOK /\ calls[c] \in Call
  BY Arrived DEF ProposalsInv
<1>2. /\ calls[c].now \in 0..MaxNow /\ calls[c].boot \in 0..MaxBoot
      /\ calls[c].answer \in {NoIntent} \cup Intent
  BY <1>1 DEF Call
<1>3. PICK x \in Call :
        /\ calls' = [calls EXCEPT ![c] = x]
        /\ x = [pc |-> l, key |-> calls[c].key, bytes |-> calls[c].bytes,
                session |-> calls[c].session, repeat |-> calls[c].repeat,
                  now |-> calls[c].now, boot |-> calls[c].boot,
                answer |-> calls[c].answer]
  BY SMT, <1>1, <1>2, ProceedCall DEF Goto
<1>4. /\ x.pc = l /\ x.key = calls[c].key /\ x.bytes = calls[c].bytes
      /\ x.session = calls[c].session /\ x.now = calls[c].now /\ x.boot = calls[c].boot
      /\ x.answer = calls[c].answer
  BY <1>3
<1>5. CallOK(calls[c], sessions, table, gar.epoch)
  BY DEF ProposalsInv
<1>6. CallOK(x, sessions, table, gar.epoch)
  BY <1>4, <1>5 DEF CallOK, Pending
<1>. QED
  BY <1>3, <1>6, CallMoves

\* What is found under the key decides between the frozen intent and a conflict.
LEMMA FoundInv ==
    ASSUME ProposalsInv, NEW c \in Calls, calls[c].pc # "new", Found(c),
           table[calls[c].key] # NoIntent, UNCHANGED <<clock, config, gar, owner, target, table>>
    PROVE  ProposalsInv'
<1>1. ProposalsTypeOK /\ calls[c] \in Call
  BY Arrived DEF ProposalsInv
<1>. DEFINE row == table[calls[c].key]
<1>2. /\ calls[c].now \in 0..MaxNow /\ calls[c].boot \in 0..MaxBoot
      /\ row \in {NoIntent} \cup Intent
  BY <1>1 DEF Call, ProposalsTypeOK
<1>3. CASE row.bytes = calls[c].bytes /\ row.session = calls[c].session
  <2>1. Proceed(c, "reply", calls[c].now, calls[c].boot, row)
    BY <1>3 DEF Found
  <2>2. PICK x \in Call :
          /\ calls' = [calls EXCEPT ![c] = x]
          /\ x = [pc |-> "reply", key |-> calls[c].key, bytes |-> calls[c].bytes,
                  session |-> calls[c].session, repeat |-> calls[c].repeat,
                  now |-> calls[c].now, boot |-> calls[c].boot,
                  answer |-> row]
    BY SMT, <1>1, <1>2, <2>1, ProceedCall DEF Active
  <2>3. /\ x.pc = "reply" /\ x.key = calls[c].key /\ x.bytes = calls[c].bytes
        /\ x.session = calls[c].session /\ x.answer = row
    BY <2>2
  <2>4. CallOK(x, sessions, table, gar.epoch)
    BY <1>3, <2>3 DEF CallOK, Pending
  <2>. QED
    BY <2>2, <2>4, CallMoves
<1>4. CASE ~(row.bytes = calls[c].bytes /\ row.session = calls[c].session)
  <2>1. Goto(c, "CONFLICT")
    BY <1>4 DEF Found
  <2>2. <<row.bytes, row.session>> # <<calls[c].bytes, calls[c].session>>
    BY <1>4
  <2>. QED
    BY <2>1, <2>2, GotoInv DEF Answers
<1>. QED
  BY <1>3, <1>4

\* The middleware lets a call in whose session has the epoch of the process.
LEMMA ArriveInv == ASSUME ProposalsInv, NEW c \in Calls, Arrive(c) PROVE ProposalsInv'
<1>1. PICK k \in Keys, b \in Bytes, s \in Sessions :
        /\ Authorized(s, gar.epoch)
        /\ calls' = [calls EXCEPT ![c] =
                       [pc |-> "authorize", key |-> k, bytes |-> b, session |-> s,
                        repeat |-> table[k] # NoIntent /\ table[k].bytes = b,
                        now |-> 0, boot |-> 0, answer |-> NoIntent]]
  BY DEF Arrive
<1>. DEFINE r == table[k] # NoIntent /\ table[k].bytes = b
            x == [pc |-> "authorize", key |-> k, bytes |-> b, session |-> s, repeat |-> r,
                  now |-> 0, boot |-> 0, answer |-> NoIntent]
<1>2. r \in BOOLEAN
  OBVIOUS
<1>3. calls' = [calls EXCEPT ![c] = x]
  BY <1>1
<1>. HIDE DEF r
<1>4. x \in Call
  BY SMT, <1>2, ProposalsAssumption DEF Call, Active
<1>5. x.pc = "authorize" /\ x.session = s
  OBVIOUS
<1>. HIDE DEF x
<1>6. Current(sessions[s], gar.epoch)
  BY <1>1 DEF Authorized, Current
<1>7. CallOK(x, sessions, table, gar.epoch)
  BY <1>5, <1>6 DEF CallOK
<1>. QED
  BY <1>3, <1>4, <1>7, CallMoves DEF Arrive

\* The second authorization, and the time of creation, which may be later.
LEMMA AuthorizeInv ==
    ASSUME ProposalsInv, NEW c \in Calls, Authorize(c) \/ Stamp(c)
    PROVE  ProposalsInv'
<1>1. /\ ProposalsTypeOK /\ calls[c].pc \in {"authorize", "stamp"}
      /\ UNCHANGED <<clock, config, gar, owner, target, table>>
  BY DEF ProposalsInv, Authorize, Stamp
<1>2. CASE Authorize(c)
  <2>1. PICK l \in {"stamp", "DENIED"} : Goto(c, l) /\ calls[c].pc = "authorize"
    BY <1>2 DEF Authorize
  <2>. QED
    BY <1>1, <2>1, GotoInv DEF Active, Answers
<1>3. CASE Stamp(c)
  <2>1. Proceed(c, "observe", clock, calls[c].boot, calls[c].answer) /\ calls[c].pc = "stamp"
    BY <1>3 DEF Stamp
  <2>2. calls[c] \in Call
    BY <1>1, Arrived
  <2>3. /\ clock \in 0..MaxNow /\ calls[c].boot \in 0..MaxBoot
        /\ calls[c].answer \in {NoIntent} \cup Intent
    BY <1>1, <2>2 DEF Call, ProposalsTypeOK
  <2>4. PICK x \in Call :
          /\ calls' = [calls EXCEPT ![c] = x]
          /\ x = [pc |-> "observe", key |-> calls[c].key, bytes |-> calls[c].bytes,
                  session |-> calls[c].session, repeat |-> calls[c].repeat, now |-> clock,
                  boot |-> calls[c].boot, answer |-> calls[c].answer]
    BY SMT, <1>1, <2>1, <2>2, <2>3, ProceedCall DEF Active
  <2>5. x.pc = "observe" /\ x.session = calls[c].session
    BY <2>4
  <2>6. Current(sessions[calls[c].session], gar.epoch)
    BY <2>1 DEF ProposalsInv, CallOK, Pending
  <2>7. CallOK(x, sessions, table, gar.epoch)
    BY <2>5, <2>6 DEF CallOK
  <2>. QED
    BY <1>1, <2>4, <2>7, CallMoves
<1>. QED
  BY <1>2, <1>3

\* The observation: the boot is one the target is in.
LEMMA ObserveInv == ASSUME ProposalsInv, NEW c \in Calls, Observe(c) PROVE ProposalsInv'
<1>1. /\ ProposalsTypeOK /\ calls[c].pc = "observe"
      /\ UNCHANGED <<clock, config, gar, owner, target, table>>
  BY DEF ProposalsInv, Observe
<1>2. calls[c] \in Call
  BY <1>1, Arrived
<1>3. CASE target.ready
  <2>1. Proceed(c, "lookup", calls[c].now, target.boot, calls[c].answer)
    BY <1>3 DEF Observe
  <2>2. /\ calls[c].now \in 0..MaxNow /\ target.boot \in 1..MaxBoot
        /\ calls[c].answer \in {NoIntent} \cup Intent
    BY <1>1, <1>2 DEF Call, ProposalsTypeOK
  <2>3. target.boot \in 0..MaxBoot
    BY SMT, <2>2, ProposalsAssumption
  <2>4. PICK x \in Call :
          /\ calls' = [calls EXCEPT ![c] = x]
          /\ x = [pc |-> "lookup", key |-> calls[c].key, bytes |-> calls[c].bytes,
                  session |-> calls[c].session, repeat |-> calls[c].repeat,
                  now |-> calls[c].now, boot |-> target.boot,
                  answer |-> calls[c].answer]
    <3>1. "lookup" \in Active \cup Answers
      BY DEF Active
    <3>. QED
      BY SMT, <1>1, <1>2, <2>1, <2>2, <2>3, <3>1, ProceedCall
  <2>5. /\ x.pc = "lookup" /\ x.session = calls[c].session /\ x.now = calls[c].now
        /\ x.boot = target.boot
    BY <2>4
  <2>6. Current(sessions[calls[c].session], gar.epoch)
    BY <1>1 DEF ProposalsInv, CallOK, Pending
  <2>7. CallOK(x, sessions, table, gar.epoch)
    BY <2>2, <2>5, <2>6 DEF CallOK
  <2>. QED
    BY <1>1, <2>4, <2>7, CallMoves
<1>4. CASE ~target.ready
  <2>1. Goto(c, "UNAVAILABLE") /\ "UNAVAILABLE" \in Answers
    BY <1>4 DEF Observe, Answers
  <2>. QED
    BY <1>1, <2>1, GotoInv
<1>. QED
  BY <1>3, <1>4

\* Lookups, the resolution of a lost race, the reply and the loss of a call.
LEMMA LookupInv ==
    ASSUME ProposalsInv, NEW c \in Calls, Lookup(c) \/ Resolve(c) \/ Reply(c) \/ Lose(c)
    PROVE  ProposalsInv'
<1>1. CASE Lookup(c)
  <2>1. CASE table[calls[c].key] = NoIntent
    <3>1. PICK l \in {"put", "insert"} : Goto(c, l)
      BY <1>1, <2>1 DEF Lookup
    <3>. QED
      BY <1>1, <3>1, GotoInv DEF Lookup, Active
  <2>2. CASE table[calls[c].key] # NoIntent
    BY <1>1, <2>2, FoundInv DEF Lookup
  <2>. QED
    BY <2>1, <2>2
<1>2. CASE Resolve(c)
  <2>1. table[calls[c].key] # NoIntent
    BY <1>2 DEF Resolve, ProposalsInv, CallOK
  <2>. QED
    BY <1>2, <2>1, FoundInv DEF Resolve
<1>3. CASE Reply(c)
  BY <1>3, GotoInv DEF Reply, Answers
<1>4. CASE Lose(c)
  BY <1>4, GotoInv DEF Lose, Active, Answers
<1>. QED
  BY <1>1, <1>2, <1>3, <1>4

\* The insert freezes a row that is never replaced, so the calls that were answered
\* with another row keep it.
LEMMA InsertInv == ASSUME ProposalsInv, NEW c \in Calls, Insert(c) PROVE ProposalsInv'
<1>1. /\ ProposalsTypeOK /\ calls[c].pc = "insert"
      /\ UNCHANGED <<clock, config, gar, owner, target>>
  BY DEF ProposalsInv, Insert
<1>2. calls[c] \in Call
  BY <1>1, Arrived
<1>. DEFINE i == [by |-> c, bytes |-> calls[c].bytes, session |-> calls[c].session,
                  boot |-> calls[c].boot, created |-> calls[c].now]
            k == calls[c].key
<1>3. CASE table[k] = NoIntent
  <2>1. /\ table' = [table EXCEPT ![k] = i]
        /\ Proceed(c, "reply", calls[c].now, calls[c].boot, i)
    BY <1>3 DEF Insert
  <2>2. calls[c].boot \in 1..MaxBoot
    BY <1>1 DEF ProposalsInv, CallOK
  <2>3. i \in Intent
    BY <1>2, <2>2 DEF Call, Intent
  <2>4. /\ calls[c].now \in 0..MaxNow /\ calls[c].boot \in 0..MaxBoot /\ k \in Keys
    BY <1>2 DEF Call
  <2>5. /\ i.bytes = calls[c].bytes /\ i.session = calls[c].session
        /\ i # NoIntent
    BY <2>3, IntentIsThere
  <2>. HIDE DEF i
  <2>6. PICK x \in Call :
          /\ calls' = [calls EXCEPT ![c] = x]
          /\ x = [pc |-> "reply", key |-> k, bytes |-> calls[c].bytes,
                  session |-> calls[c].session, repeat |-> calls[c].repeat,
                  now |-> calls[c].now, boot |-> calls[c].boot,
                  answer |-> i]
    <3>1. "reply" \in Active \cup Answers
      BY DEF Active
    <3>. QED
      BY SMT, <1>1, <1>2, <2>1, <2>3, <2>4, <3>1, ProceedCall
  <2>7. /\ x.pc = "reply" /\ x.key = k /\ x.bytes = calls[c].bytes
        /\ x.session = calls[c].session /\ x.answer = i
    BY <2>6
  <2>8. ProposalsTypeOK'
    BY <1>1, <2>1, <2>3, <2>6 DEF ProposalsTypeOK, owner
  <2>9. table'[k] = i /\ \A j \in Keys : j # k => table'[j] = table[j]
    BY <1>1, <2>1, <2>4 DEF ProposalsTypeOK
  <2>10. ASSUME NEW d \in Calls PROVE CallOK(calls'[d], sessions', table', gar'.epoch)
    <3>1. CASE d = c
      <4>1. calls'[d] = x
        BY <1>1, <2>6, <3>1 DEF ProposalsTypeOK
      <4>. QED
        BY <2>7, <2>5, <2>9, <4>1 DEF CallOK, Pending
    <3>2. CASE d # c
      <4>1. calls'[d] = calls[d] /\ CallOK(calls[d], sessions, table, gar.epoch)
            /\ sessions' = sessions /\ gar' = gar
        BY <1>1, <2>6, <3>2 DEF ProposalsInv, ProposalsTypeOK, owner
      <4>2. CASE calls[d] = NoCall
        BY SMT, <4>1, <4>2 DEF CallOK, NoCall
      <4>3. CASE calls[d].key = k
        <5>1. calls[d].pc \notin {"resolve", "reply", "INTENT", "CONFLICT"}
          BY <1>3, <4>1, <4>3 DEF CallOK
        <5>. QED
          BY <4>1, <5>1 DEF CallOK
      <4>4. CASE calls[d] \in Call /\ calls[d].key # k
        <5>1. table'[calls[d].key] = table[calls[d].key]
          BY <2>9, <4>4 DEF Call
        <5>. QED
          BY <4>1, <5>1 DEF CallOK
      <4>. QED
        BY <1>1, <4>2, <4>3, <4>4 DEF ProposalsTypeOK
    <3>. QED
      BY <3>1, <3>2
  <2>. QED
    BY <1>1, <2>8, <2>10 DEF ProposalsInv, owner
<1>4. CASE table[k] # NoIntent
  BY <1>1, <1>4, GotoInv DEF Insert, Active
<1>. QED
  BY <1>3, <1>4

-----------------------------------------------------------------------------
(* The process, the target and time.                                       *)

\* gar serve starts again: the calls in progress are lost.
LEMMA RestartInv == ASSUME ProposalsInv, Restart PROVE ProposalsInv'
<1>1. PICK loaded \in SUBSET registry : gar' = [epoch |-> config, credentials |-> loaded]
  BY DEF Restart
<1>2. /\ ProposalsTypeOK
      /\ UNCHANGED <<clock, config, owner, target, table>>
      /\ calls' = [c \in Calls |-> IF calls[c].pc \in Active THEN [calls[c] EXCEPT !.pc = "LOST"]
                                                             ELSE calls[c]]
  BY DEF ProposalsInv, Restart
<1>3. ASSUME NEW c \in Calls
      PROVE  calls'[c] \in {NoCall} \cup Call /\ CallOK(calls'[c], sessions, table, gar'.epoch)
  <2>1. CallOK(calls[c], sessions, table, gar.epoch)
    BY DEF ProposalsInv
  <2>2. CASE calls[c].pc \in Active
    <3>1. calls[c] \in Call
      BY <1>2, <2>2, Arrived DEF Active
    <3>2. calls'[c] = [calls[c] EXCEPT !.pc = "LOST"]
      BY <1>2, <2>2
    <3>3. calls'[c] \in Call /\ calls'[c].pc = "LOST"
      BY <3>1, <3>2 DEF Call, Answers
    <3>. QED
      BY <3>3 DEF CallOK, Pending
  <2>3. CASE calls[c].pc \notin Active
    <3>1. calls'[c] = calls[c] /\ calls[c].pc \notin Pending
      BY <1>2, <2>3 DEF Active, Pending
    <3>2. calls[c] \in {NoCall} \cup Call
      BY <1>2 DEF ProposalsTypeOK
    <3>. QED
      BY <2>1, <3>1, <3>2 DEF CallOK
  <2>. QED
    BY <2>2, <2>3
<1>4. gar' \in [epoch : 0..MaxEpoch, credentials : SUBSET Sessions]
  BY <1>1, <1>2 DEF ProposalsTypeOK
<1>5. calls' \in [Calls -> {NoCall} \cup Call]
  BY <1>2, <1>3
<1>6. ProposalsTypeOK'
  BY <1>2, <1>4, <1>5 DEF ProposalsTypeOK, owner
<1>. QED
  BY <1>2, <1>3, <1>6 DEF ProposalsInv, owner

\* The configuration, the target and the clock concern no call that is under way.
LEMMA EnvironmentInv ==
    ASSUME ProposalsInv, RaiseEpoch \/ TargetChanges \/ Tick
    PROVE  ProposalsInv'
<1>1. ProposalsTypeOK /\ UNCHANGED <<gar, owner, table, calls>>
  BY DEF ProposalsInv, RaiseEpoch, TargetChanges, Tick
<1>2. clock' \in 0..MaxNow
  BY SMT, <1>1, ProposalsAssumption DEF RaiseEpoch, TargetChanges, Tick, ProposalsTypeOK
<1>3. config' \in 0..MaxEpoch
  BY SMT, <1>1, ProposalsAssumption DEF RaiseEpoch, TargetChanges, Tick, ProposalsTypeOK
<1>4. target' \in [boot : 1..MaxBoot, ready : BOOLEAN]
  <2>1. CASE TargetChanges
    <3>1. target.boot \in 1..MaxBoot /\ target.ready \in BOOLEAN
      BY <1>1 DEF ProposalsTypeOK
    <3>2. CASE target.boot < MaxBoot /\ target' = [target EXCEPT !.boot = @ + 1]
      <4>1. target.boot + 1 \in 1..MaxBoot
        BY SMT, <3>1, <3>2, ProposalsAssumption
      <4>. QED
        BY <1>1, <3>2, <4>1 DEF ProposalsTypeOK
    <3>3. CASE target' = [target EXCEPT !.ready = ~@]
      BY <1>1, <3>3 DEF ProposalsTypeOK
    <3>. QED
      BY <2>1, <3>2, <3>3 DEF TargetChanges
  <2>2. CASE target' = target
    BY <1>1, <2>2 DEF ProposalsTypeOK
  <2>. QED
    BY <2>1, <2>2 DEF RaiseEpoch, Tick
<1>5. ProposalsTypeOK'
  BY <1>1, <1>2, <1>3, <1>4 DEF ProposalsTypeOK, owner
<1>. QED
  BY <1>1, <1>5 DEF ProposalsInv, owner

-----------------------------------------------------------------------------
(* agent issue.                                                            *)

Place == {"new", "done", "collected", "failed"} \cup Issuing

\* A command moves on and writes or removes files; the stored scopes stay.
LEMMA IssueMoves ==
    ASSUME ProposalsInv, NEW s \in Sessions, NEW p \in [pc : Place, scope : Scope],
           ScopeOK(p, sessions[s]), issue' = [issue EXCEPT ![s] = p],
           files' \in [Outputs -> SUBSET Sessions], FilesOK(s, p.pc, files'),
           \A t \in Sessions \ {s} : FilesOK(t, issue[t].pc, files'),
           UNCHANGED <<clock, config, gar, sessions, registry, target, table, calls>>
    PROVE  ProposalsInv'
<1>1. ProposalsTypeOK
  BY DEF ProposalsInv
<1>2. issue' \in [Sessions -> [pc : Place, scope : Scope]]
  BY <1>1 DEF ProposalsTypeOK, Place
<1>3. ProposalsTypeOK'
  BY <1>1, <1>2 DEF ProposalsTypeOK, Place
<1>4. ASSUME NEW t \in Sessions
      PROVE  ScopeOK(issue'[t], sessions'[t]) /\ FilesOK(t, issue'[t].pc, files')
  <2>1. issue'[t] = IF t = s THEN p ELSE issue[t]
    BY <1>1 DEF ProposalsTypeOK
  <2>. QED
    BY <2>1 DEF ProposalsInv
<1>. QED
  BY <1>3, <1>4 DEF ProposalsInv

\* What an ended or continuing command carries.
LEMMA IssuedFacts ==
    ASSUME ProposalsInv, NEW s \in Sessions, NEW l \in Place, Issued(s, l),
           l \notin {"new", "save"},
           l \in {"credentials", "token", "done"} => sessions[s].issued,
           files' \in [Outputs -> SUBSET Sessions], FilesOK(s, l, files'),
           \A t \in Sessions \ {s} : FilesOK(t, issue[t].pc, files'),
           UNCHANGED <<clock, config, gar, sessions, registry, target, table, calls>>
    PROVE  ProposalsInv'
<1>. DEFINE p == [pc |-> l, scope |-> NoSession]
<1>1. NoSession \in Scope
  BY SMT, ProposalsAssumption DEF NoSession, Scope
<1>2. p \in [pc : Place, scope : Scope] /\ p.pc = l
  BY <1>1
<1>3. issue' = [issue EXCEPT ![s] = p]
  BY DEF Issued
<1>4. ScopeOK(issue[s], sessions[s])
  BY DEF ProposalsInv
<1>. HIDE DEF p
<1>5. ScopeOK(p, sessions[s])
  BY <1>2, <1>4 DEF ScopeOK
<1>. QED
  BY <1>2, <1>3, <1>5, IssueMoves

\* A command takes the clock and the epoch.
LEMMA AgentIssueInv == ASSUME ProposalsInv, NEW s \in Sessions, AgentIssue(s) PROVE ProposalsInv'
<1>1. /\ ProposalsTypeOK /\ issue[s].pc = "new" /\ files' = files
      /\ UNCHANGED <<clock, config, gar, sessions, registry, target, table, calls>>
  BY DEF ProposalsInv, AgentIssue
<1>. DEFINE sc == [issued |-> TRUE, expires |-> clock + Ttl, epoch |-> config]
            p == [pc |-> "save", scope |-> sc]
<1>2. clock + Ttl \in 0..(MaxNow + Ttl)
  BY SMT, <1>1, ProposalsAssumption DEF ProposalsTypeOK
<1>3. sc \in Scope
  BY <1>1, <1>2 DEF ProposalsTypeOK, Scope
<1>4. p \in [pc : Place, scope : Scope]
  BY <1>3 DEF Place, Issuing
<1>5. p.pc = "save" /\ p.scope.issued
  OBVIOUS
<1>6. issue' = [issue EXCEPT ![s] = p]
  BY DEF AgentIssue
<1>. HIDE DEF p
<1>7. ScopeOK(issue[s], sessions[s])
  BY DEF ProposalsInv
<1>8. ScopeOK(p, sessions[s])
  BY <1>1, <1>5, <1>7 DEF ScopeOK
<1>9. /\ files' \in [Outputs -> SUBSET Sessions]
      /\ FilesOK(s, p.pc, files')
      /\ \A t \in Sessions \ {s} : FilesOK(t, issue[t].pc, files')
  BY <1>1, <1>5 DEF ProposalsInv, ProposalsTypeOK, FilesOK
<1>. QED
  BY <1>1, <1>4, <1>6, <1>8, <1>9, IssueMoves

\* The session is stored: no call and no row can refer to it yet.
LEMMA SaveInv == ASSUME ProposalsInv, NEW s \in Sessions, SaveSession(s) PROVE ProposalsInv'
<1>1. /\ ProposalsTypeOK /\ issue[s].pc = "save"
      /\ sessions' = [sessions EXCEPT ![s] = issue[s].scope]
      /\ issue' = [issue EXCEPT ![s] = [pc |-> "credentials", scope |-> NoSession]]
      /\ UNCHANGED <<clock, config, gar, files, registry, target, table, calls>>
  BY DEF ProposalsInv, SaveSession, Issued
<1>2. ~sessions[s].issued /\ issue[s].scope.issued
  BY <1>1 DEF ProposalsInv, ScopeOK
<1>3. NoSession \in Scope /\ issue[s].scope \in Scope
  BY SMT, <1>1, ProposalsAssumption DEF NoSession, Scope, ProposalsTypeOK
<1>. DEFINE p == [pc |-> "credentials", scope |-> NoSession]
<1>4. p \in [pc : Place, scope : Scope] /\ p.pc = "credentials"
  BY <1>3 DEF Place, Issuing
<1>5. issue' = [issue EXCEPT ![s] = p]
  BY <1>1
<1>. HIDE DEF p
<1>6. issue' \in [Sessions -> [pc : Place, scope : Scope]] /\ sessions' \in [Sessions -> Scope]
  BY SMT, <1>1, <1>3, <1>4, <1>5 DEF ProposalsTypeOK, Place
<1>7. ProposalsTypeOK'
  BY <1>1, <1>6 DEF ProposalsTypeOK, Place
<1>8. ASSUME NEW t \in Sessions
      PROVE  /\ issue'[t] = (IF t = s THEN p ELSE issue[t])
             /\ sessions'[t] = (IF t = s THEN issue[s].scope ELSE sessions[t])
  BY <1>1, <1>5 DEF ProposalsTypeOK
<1>9. ASSUME NEW t \in Sessions
      PROVE  ScopeOK(issue'[t], sessions'[t]) /\ FilesOK(t, issue'[t].pc, files')
  <2>1. CASE t = s
    <3>1. issue'[t] = p /\ sessions'[t] = issue[s].scope
      BY <1>8, <2>1
    <3>2. ScopeOK(p, issue[s].scope) /\ FilesOK(t, p.pc, files)
      BY <1>2, <1>4 DEF ScopeOK, FilesOK
    <3>. QED
      BY <1>1, <3>1, <3>2
  <2>2. CASE t # s
    BY <1>1, <1>8, <2>2 DEF ProposalsInv
  <2>. QED
    BY <2>1, <2>2
<1>10. ASSUME NEW t \in Sessions, NEW e, Current(sessions[t], e) PROVE Current(sessions'[t], e)
  BY <1>2, <1>8, <1>10 DEF Current
<1>11. ASSUME NEW c \in Calls PROVE CallOK(calls'[c], sessions', table', gar'.epoch)
  <2>1. /\ CallOK(calls[c], sessions, table, gar.epoch)
        /\ calls' = calls /\ table' = table /\ gar' = gar
    BY <1>1 DEF ProposalsInv
  <2>2. CASE calls[c] = NoCall
    BY SMT, <2>1, <2>2 DEF CallOK, NoCall, Pending
  <2>3. CASE calls[c] \in Call
    <3>1. calls[c].session \in Sessions
      BY <2>3 DEF Call
    <3>2. Current(sessions[calls[c].session], gar.epoch)
            => Current(sessions'[calls[c].session], gar.epoch)
      BY <1>10, <3>1
    <3>. QED
      BY <2>1, <3>2 DEF CallOK
  <2>. QED
    BY <1>1, <2>2, <2>3 DEF ProposalsTypeOK
<1>. QED
  BY <1>7, <1>9, <1>11 DEF ProposalsInv

\* A file that did not exist belongs to nobody who still works with it.
LEMMA CreateFile ==
    ASSUME ProposalsInv, NEW s \in Sessions, NEW file \in Outputs, files[file] = {},
           files' = [files EXCEPT ![file] = {s}]
    PROVE  /\ files' \in [Outputs -> SUBSET Sessions]
           /\ files'[file] = {s}
           /\ \A f \in Outputs \ {file} : files'[f] = files[f]
           /\ \A t \in Sessions : FilesOK(t, issue[t].pc, files')
<1>1. /\ files \in [Outputs -> SUBSET Sessions]
      /\ \A t \in Sessions : FilesOK(t, issue[t].pc, files)
  BY DEF ProposalsInv, ProposalsTypeOK
<1>2. /\ files' \in [Outputs -> SUBSET Sessions] /\ files'[file] = {s}
      /\ \A f \in Outputs \ {file} : files'[f] = files[f]
  BY <1>1
<1>3. ASSUME NEW t \in Sessions PROVE FilesOK(t, issue[t].pc, files')
  <2>1. CASE file = "credentials"
    <3>1. issue[t].pc \notin {"token", "cleanup", "done"}
      BY <1>1, <2>1 DEF FilesOK
    <3>. QED
      BY <3>1 DEF FilesOK
  <2>2. CASE file = "token"
    <3>1. issue[t].pc # "done"
      BY <1>1, <2>2 DEF FilesOK
    <3>2. files'["credentials"] = files["credentials"]
      BY <1>2, <2>2 DEF Outputs
    <3>. QED
      BY <1>1, <3>1, <3>2 DEF FilesOK
  <2>. QED
    BY <2>1, <2>2 DEF Outputs
<1>. QED
  BY <1>2, <1>3

\* The two writes, with every way they may fail.
LEMMA WriteInv ==
    ASSUME ProposalsInv, NEW s \in Sessions, WriteCredentials(s) \/ WriteToken(s)
    PROVE  ProposalsInv'
<1>1. /\ UNCHANGED <<clock, config, gar, sessions, registry, target, table, calls>>
      /\ files \in [Outputs -> SUBSET Sessions]
      /\ \A t \in Sessions : FilesOK(t, issue[t].pc, files)
      /\ ScopeOK(issue[s], sessions[s])
  BY DEF WriteCredentials, WriteToken, ProposalsInv, ProposalsTypeOK
<1>2. CASE WriteCredentials(s)
  <2>1. sessions[s].issued
    BY <1>1, <1>2 DEF WriteCredentials, ScopeOK
  <2>2. CASE files["credentials"] = {} /\ files' = [files EXCEPT !["credentials"] = {s}]
    <3>1. /\ files' \in [Outputs -> SUBSET Sessions] /\ files'["credentials"] = {s}
          /\ \A t \in Sessions : FilesOK(t, issue[t].pc, files')
      BY <2>2, CreateFile DEF Outputs
    <3>2. PICK l \in {"token", "failed"} : Issued(s, l)
      BY <1>2 DEF WriteCredentials, WriteNewFile
    <3>3. l \in Place /\ FilesOK(s, l, files')
      BY <3>1, <3>2 DEF Place, Issuing, FilesOK
    <3>. QED
      BY <1>1, <2>1, <3>1, <3>2, <3>3, IssuedFacts
  <2>3. CASE files' = files /\ Issued(s, "failed")
    <3>1. "failed" \in Place /\ FilesOK(s, "failed", files')
      BY DEF Place, FilesOK
    <3>. QED
      BY <1>1, <2>3, <3>1, IssuedFacts
  <2>. QED
    BY <1>2, <2>2, <2>3 DEF WriteCredentials, WriteNewFile
<1>3. CASE WriteToken(s)
  <2>1. sessions[s].issued /\ files["credentials"] = {s}
    BY <1>1, <1>3 DEF WriteToken, ScopeOK, FilesOK
  <2>2. CASE files["token"] = {} /\ files' = [files EXCEPT !["token"] = {s}]
    <3>1. /\ files' \in [Outputs -> SUBSET Sessions] /\ files'["token"] = {s}
          /\ files'["credentials"] = {s}
          /\ \A t \in Sessions : FilesOK(t, issue[t].pc, files')
      BY <2>1, <2>2, CreateFile DEF Outputs
    <3>2. PICK l \in {"done", "cleanup"} : Issued(s, l)
      BY <1>3 DEF WriteToken, WriteNewFile
    <3>3. l \in Place /\ FilesOK(s, l, files')
      BY <3>1, <3>2 DEF Place, Issuing, FilesOK
    <3>. QED
      BY <1>1, <2>1, <3>1, <3>2, <3>3, IssuedFacts
  <2>3. CASE files' = files /\ Issued(s, "cleanup")
    <3>1. "cleanup" \in Place /\ FilesOK(s, "cleanup", files')
      BY <2>1, <2>3 DEF Place, Issuing, FilesOK
    <3>. QED
      BY <1>1, <2>3, <3>1, IssuedFacts
  <2>. QED
    BY <1>3, <2>2, <2>3 DEF WriteToken, WriteNewFile
<1>. QED
  BY <1>2, <1>3

\* The credential file that a failed command removes is its own.
LEMMA IssueEndsInv ==
    ASSUME ProposalsInv, NEW s \in Sessions, RemoveCredentials(s) \/ IssueDies(s)
    PROVE  ProposalsInv'
<1>1. /\ UNCHANGED <<clock, config, gar, sessions, registry, target, table, calls>>
      /\ Issued(s, "failed")
      /\ files \in [Outputs -> SUBSET Sessions]
      /\ \A t \in Sessions : FilesOK(t, issue[t].pc, files)
  BY DEF RemoveCredentials, IssueDies, ProposalsInv, ProposalsTypeOK
<1>2. "failed" \in Place /\ FilesOK(s, "failed", files')
  BY DEF Place, FilesOK
<1>3. CASE RemoveCredentials(s)
  <2>1. files' = [files EXCEPT !["credentials"] = {}] /\ files["credentials"] = {s}
    BY <1>1, <1>3 DEF RemoveCredentials, FilesOK
  <2>2. files' \in [Outputs -> SUBSET Sessions]
    BY <1>1, <2>1
  <2>3. ASSUME NEW t \in Sessions \ {s} PROVE FilesOK(t, issue[t].pc, files')
    BY <1>1, <2>1 DEF FilesOK
  <2>. QED
    BY <1>1, <1>2, <2>2, <2>3, IssuedFacts
<1>4. CASE files' = files
  BY <1>1, <1>2, <1>4, IssuedFacts
<1>. QED
  BY <1>3, <1>4 DEF IssueDies

\* The owner takes the files of the one command that has reported them.
LEMMA CollectInv == ASSUME ProposalsInv, OwnerCollects PROVE ProposalsInv'
<1>1. /\ ProposalsTypeOK
      /\ UNCHANGED <<clock, config, gar, sessions, target, table, calls>>
      /\ files' = NoFiles
      /\ \A s \in Sessions : issue[s].pc \notin Issuing
      /\ registry' \subseteq Sessions
  BY DEF ProposalsInv, OwnerCollects, ProposalsTypeOK
<1>. DEFINE done == {s \in Sessions : issue[s].pc = "done"}
            p == [pc |-> "collected", scope |-> NoSession]
<1>2. issue' = [s \in Sessions |-> IF s \in done THEN p ELSE issue[s]]
  BY DEF OwnerCollects
<1>3. NoSession \in Scope
  BY SMT, ProposalsAssumption DEF NoSession, Scope
<1>4. p \in [pc : Place, scope : Scope] /\ p.pc = "collected"
  BY <1>3 DEF Place
<1>. HIDE DEF p
<1>5. issue' \in [Sessions -> [pc : Place, scope : Scope]]
  BY <1>1, <1>2, <1>4 DEF ProposalsTypeOK, Place
<1>6. NoFiles \in [Outputs -> SUBSET Sessions]
  BY DEF NoFiles
<1>7. ProposalsTypeOK'
  BY <1>1, <1>5, <1>6 DEF ProposalsTypeOK, Place
<1>8. ASSUME NEW s \in Sessions
      PROVE  ScopeOK(issue'[s], sessions[s]) /\ FilesOK(s, issue'[s].pc, files')
  <2>1. ScopeOK(issue[s], sessions[s])
    BY DEF ProposalsInv
  <2>2. CASE s \in done
    <3>1. issue'[s] = p
      BY <1>2, <2>2
    <3>. QED
      BY <1>4, <2>1, <3>1 DEF ScopeOK, FilesOK
  <2>3. CASE s \notin done
    <3>1. issue'[s] = issue[s] /\ issue[s].pc \notin {"token", "cleanup", "done"}
      BY <1>1, <1>2, <2>3 DEF Issuing
    <3>. QED
      BY <2>1, <3>1 DEF FilesOK
  <2>. QED
    BY <2>2, <2>3
<1>. QED
  BY <1>1, <1>7, <1>8 DEF ProposalsInv

-----------------------------------------------------------------------------
(* The theorems.                                                           *)

\* Every step keeps the invariant.
LEMMA NextInv == ProposalsInv /\ [Next]_vars => ProposalsInv'
<1>. SUFFICES ASSUME ProposalsInv, [Next]_vars PROVE ProposalsInv'
  OBVIOUS
<1>1. CASE \E s \in Sessions : \/ AgentIssue(s) \/ SaveSession(s) \/ WriteCredentials(s)
                               \/ WriteToken(s) \/ RemoveCredentials(s) \/ IssueDies(s)
  BY <1>1, AgentIssueInv, SaveInv, WriteInv, IssueEndsInv
<1>2. CASE \E c \in Calls : \/ Arrive(c) \/ Authorize(c) \/ Stamp(c) \/ Observe(c) \/ Lookup(c)
                            \/ Insert(c) \/ Resolve(c) \/ Reply(c) \/ Lose(c)
  BY <1>2, ArriveInv, AuthorizeInv, ObserveInv, LookupInv, InsertInv
<1>3. CASE OwnerCollects \/ Restart \/ RaiseEpoch \/ TargetChanges \/ Tick
  BY <1>3, CollectInv, RestartInv, EnvironmentInv
<1>4. CASE UNCHANGED vars
  BY <1>4 DEF vars, owner, ProposalsInv, ProposalsTypeOK
<1>. QED
  BY <1>1, <1>2, <1>3, <1>4 DEF Next

\* ProposalsInv holds in every reachable state of calls, sessions and files.
THEOREM ProposalsInvariant == Spec => []ProposalsInv
  BY InitInv, NextInv, PTL DEF Spec

\* The tables have their types, and an intent names a boot the target was observed in.
THEOREM ProposalsTypes == Spec => []ProposalsTypeOK
<1>1. ProposalsInv => ProposalsTypeOK
  BY DEF ProposalsInv
<1>. QED
  BY <1>1, ProposalsInvariant, PTL

\* Every call answered with an intent has the one row of its key, frozen from what the
\* call sent, for any number of racing and repeated calls of ProposePluginChange.
THEOREM ProposalsAgree == Spec => []AnswersAgree
<1>1. ProposalsInv => AnswersAgree
  BY DEF ProposalsInv, CallOK, AnswersAgree
<1>. QED
  BY <1>1, ProposalsInvariant, PTL

\* IDEMPOTENCY_CONFLICT is never answered to a repetition of what was frozen under the same
\* scope.
THEOREM ProposalsConflict == Spec => []ConflictIsReal
<1>1. ProposalsInv => ConflictIsReal
  BY DEF ProposalsInv, CallOK, ConflictIsReal
<1>. QED
  BY <1>1, ProposalsInvariant, PTL

\* PutIntent freezes intents only for sessions of the epoch the process runs with, whatever
\* the owner revokes, expires and restarts while calls are waiting.
THEOREM ProposalsRevoked == Spec => RevokedFreezesNothing
<1>1. ASSUME ProposalsInv, [Next]_vars, NEW k \in Keys, table[k] = NoIntent, table'[k] # NoIntent
      PROVE  sessions[table'[k].session].epoch = gar.epoch
  <2>1. PICK c \in Calls : Insert(c)
    <3>1. table' # table
      BY <1>1
    <3>. QED
      BY <1>1, <3>1
         DEF Next, vars, AgentIssue, SaveSession, WriteCredentials, WriteToken, RemoveCredentials,
             IssueDies, OwnerCollects, Arrive, Authorize, Stamp, Observe, Lookup, Resolve, Reply,
             Lose, Restart, RaiseEpoch, TargetChanges, Tick
  <2>. DEFINE i == [by |-> c, bytes |-> calls[c].bytes, session |-> calls[c].session,
                    boot |-> calls[c].boot, created |-> calls[c].now]
  <2>2. table' = [table EXCEPT ![calls[c].key] = i] /\ i.session = calls[c].session
    BY <1>1, <2>1 DEF Insert
  <2>. HIDE DEF i
  <2>3. table'[k] = i
    BY <1>1, <2>2 DEF ProposalsInv, ProposalsTypeOK
  <2>4. calls[c].pc = "insert" /\ CallOK(calls[c], sessions, table, gar.epoch)
    BY <1>1, <2>1 DEF Insert, ProposalsInv
  <2>. QED
    BY <2>2, <2>3, <2>4 DEF CallOK, Current, Pending
<1>2. ProposalsInv /\ [Next]_vars =>
        [\A k \in Keys : table[k] = NoIntent /\ table'[k] # NoIntent =>
           sessions[table'[k].session].epoch = gar.epoch]_vars
  BY <1>1
<1>. QED
  BY <1>2, ProposalsInvariant, PTL DEF Spec, RevokedFreezesNothing

\* The files of an agent issue that succeeded stay its own, for any number of commands
\* that were given the same names.
THEOREM ProposalsIssued == Spec => []IssuedTokenOpens
<1>1. ASSUME ProposalsInv, NEW s \in Sessions, issue[s].pc = "done"
      PROVE  files = [f \in Outputs |-> {s}] /\ sessions[s].issued
  <2>1. /\ files \in [Outputs -> SUBSET Sessions]
        /\ files["credentials"] = {s} /\ files["token"] = {s}
    BY <1>1 DEF ProposalsInv, ProposalsTypeOK, FilesOK
  <2>2. \A f \in Outputs : files[f] = {s}
    BY <2>1 DEF Outputs
  <2>3. sessions[s].issued
    BY <1>1 DEF ProposalsInv, ScopeOK
  <2>. QED
    BY <2>1, <2>2, <2>3
<1>2. ProposalsInv => IssuedTokenOpens
  BY <1>1 DEF IssuedTokenOpens
<1>. QED
  BY <1>2, ProposalsInvariant, PTL
=============================================================================
