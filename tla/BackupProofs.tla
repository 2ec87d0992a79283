---------------------------- MODULE BackupProofs ----------------------------
(***************************************************************************)
(* Proofs about the backup the coordinator makes: a VALID record stands    *)
(* for an archive read while Paper was stopped, whatever restarts, crashes *)
(* and other processes come between, and G-03 evidence stands for such a   *)
(* record.                                                                 *)
(***************************************************************************)
EXTENDS FoundationProofs

USE Zenon

\* Paper has not run since the first offline check, or it is in a later run.
StillOffline(b) ==
    /\ container.boot >= b
    /\ container.boot = b => container.state = "EXITED"

\* What the location of a coordinator says about the archive.
ArchiveOK(l, i, r) ==
    /\ l \in {"reserve", "write", "open", "read", "finalize", "rename", "verify", "recheck"}
         => StillOffline(expectedBoot[i])
    /\ l = "read" /\ container.boot = expectedBoot[i] => r = container.boot
    /\ l \in {"finalize", "rename", "verify", "recheck"} /\ container.boot = expectedBoot[i]
         => archive[i].offline
    /\ l = "complete" => archive[i].final /\ archive[i].offline
    /\ l \in {"accept", "reread", "publish"} => backups[i] = "VALID"

BackupInv ==
    /\ \A c \in Coordinators : ArchiveOK(pc[c], job[c], readFrom[c])
    /\ ValidBackupIsOffline
    /\ \A i \in Intents : Dsp(i, BackupStep) = "ACKNOWLEDGED" => backups[i] = "VALID"
    /\ \A i \in accepted : backups[i] = "VALID"

FoundationInv == DispatchInv /\ BackupInv

-----------------------------------------------------------------------------
(* The backup invariant.                                                   *)

\* The locations ArchiveOK says something about.
Reading == {"reserve", "write", "open", "read", "finalize", "rename", "verify", "recheck"}
Accepting == {"accept", "reread", "publish"}

\* No record becomes or stops being VALID, and S05 is not acknowledged.
SameBackup ==
    \A j \in Intents :
        /\ backups'[j] = "VALID" <=> backups[j] = "VALID"
        /\ Dsp(j, BackupStep)' = "ACKNOWLEDGED" => Dsp(j, BackupStep) = "ACKNOWLEDGED"

\* The files, the records and Paper's runs stay as they are.
SameFiles == UNCHANGED <<container, expectedBoot, archive, accepted>>

\* A coordinator goes to a location whose claims about the archive hold already.
LEMMA BackupMove ==
    ASSUME DispatchInv, BackupInv, SameBackup, SameFiles, NEW c \in Coordinators, NEW l,
           Moves(c, l),
           \/ l \notin Reading \cup Accepting \cup {"complete"}
           \/ job'[c] = job[c] /\ ArchiveOK(l, job[c], readFrom'[c])
    PROVE  BackupInv'
<1>1. ASSUME NEW d \in Coordinators
      PROVE  ArchiveOK(pc[d], job[d], readFrom[d])'
  <2>1. job[d] \in Intents /\ ArchiveOK(pc[d], job[d], readFrom[d])
    BY DEF DispatchInv, WorkTypeOK, BackupInv
  <2>2. CASE d # c
    <3>1. pc'[d] = pc[d] /\ job'[d] = job[d] /\ readFrom'[d] = readFrom[d]
      BY <2>2 DEF Moves
    <3>. QED
      BY SMT, <2>1, <3>1 DEF ArchiveOK, StillOffline, SameBackup, SameFiles
  <2>3. CASE d = c /\ l \notin Reading \cup Accepting \cup {"complete"}
    BY <2>3 DEF ArchiveOK, Moves, Reading, Accepting
  <2>4. CASE d = c /\ job'[c] = job[c] /\ ArchiveOK(l, job[c], readFrom'[c])
    BY SMT, <2>1, <2>4 DEF ArchiveOK, StillOffline, SameBackup, SameFiles, Moves
  <2>. QED
    BY <2>2, <2>3, <2>4
<1>2. ValidBackupIsOffline'
  BY DEF BackupInv, ValidBackupIsOffline, SameBackup, SameFiles
<1>3. \A i \in Intents : Dsp(i, BackupStep)' = "ACKNOWLEDGED" => backups'[i] = "VALID"
  BY DEF BackupInv, SameBackup
<1>4. \A i \in accepted' : backups'[i] = "VALID"
  BY DEF BackupInv, SameBackup, SameFiles, DispatchInv, WorldTypeOK
<1>. QED
  BY <1>1, <1>2, <1>3, <1>4 DEF BackupInv, Dsp

\* No coordinator gets to a location that makes a claim, while Paper may have started again.
LEMMA BackupStill ==
    ASSUME DispatchInv, BackupInv, SameBackup,
           \A d \in Coordinators :
               \/ pc'[d] = pc[d] /\ job'[d] = job[d] /\ readFrom'[d] = readFrom[d]
               \/ pc'[d] \notin Reading \cup Accepting \cup {"complete"},
           UNCHANGED <<archive, accepted>>, container'.boot \in Nat,
           container'.boot >= container.boot,
           container'.boot = container.boot /\ container.state = "EXITED"
             => container'.state = "EXITED",
           \A d \in Coordinators :
               pc[d] \in Reading => expectedBoot'[job[d]] = expectedBoot[job[d]]
    PROVE  BackupInv'
<1>1. ASSUME NEW d \in Coordinators
      PROVE  ArchiveOK(pc[d], job[d], readFrom[d])'
  <2>1. /\ job[d] \in Intents /\ ArchiveOK(pc[d], job[d], readFrom[d])
        /\ expectedBoot[job[d]] \in Nat /\ container.boot \in Nat
    BY DEF DispatchInv, WorkTypeOK, WorldTypeOK, PaperTypeOK, BackupInv
  <2>3. CASE pc'[d] \notin Reading \cup Accepting \cup {"complete"}
    BY <2>3 DEF ArchiveOK, Reading, Accepting
  <2>2. CASE pc'[d] = pc[d] /\ job'[d] = job[d] /\ readFrom'[d] = readFrom[d]
    <3>1. CASE pc[d] \in Reading
      <4>1. expectedBoot'[job[d]] = expectedBoot[job[d]] /\ StillOffline(expectedBoot[job[d]])
        BY <2>1, <3>1 DEF ArchiveOK, Reading
      <4>2. /\ container'.boot >= expectedBoot[job[d]]
            /\ container'.boot = expectedBoot[job[d]] =>
                 /\ container.boot = expectedBoot[job[d]]
                 /\ container'.state = "EXITED"
        BY SMT, <2>1, <4>1 DEF StillOffline
      <4>. QED
        BY SMT, <2>1, <2>2, <3>1, <4>1, <4>2 DEF ArchiveOK, StillOffline, Reading
    <3>2. CASE pc[d] \notin Reading
      BY <2>1, <2>2, <3>2 DEF ArchiveOK, Reading, SameBackup
    <3>. QED
      BY <3>1, <3>2
  <2>. QED
    BY <2>2, <2>3
<1>2. ValidBackupIsOffline'
  BY DEF BackupInv, ValidBackupIsOffline, SameBackup
<1>3. \A i \in Intents : Dsp(i, BackupStep)' = "ACKNOWLEDGED" => backups'[i] = "VALID"
  BY DEF BackupInv, SameBackup
<1>4. \A i \in accepted' : backups'[i] = "VALID"
  BY DEF BackupInv, SameBackup, DispatchInv, WorldTypeOK
<1>. QED
  BY <1>1, <1>2, <1>3, <1>4 DEF BackupInv, Dsp

\* The engine writes files of an intent that has no VALID record yet, and whose attempt it
\* holds alone.
LEMMA WriterAlone ==
    ASSUME DispatchInv, NEW c \in Coordinators, pc[c] \in Creating \ {"failed"}
    PROVE  /\ step[c] = BackupStep
           /\ backups[job[c]] # "VALID"
           /\ \A d \in Coordinators : d # c /\ pc[d] \in Dispatched => job[d] # job[c]
<1>1. /\ job[c] \in Intents /\ pc[c] \in Dispatched /\ pc[c] \notin Doubtful
      /\ HolderOK(pc[c], job[c], step[c])
  BY DEF DispatchInv, WorkTypeOK, Dispatched, Creating, Doubtful
<1>2. step[c] = BackupStep /\ Dsp(job[c], step[c]) = "DISPATCH_POSSIBLE"
  BY <1>1 DEF HolderOK
<1>3. backups[job[c]] # "VALID"
  BY <1>1, <1>2 DEF DispatchInv, JournalInv, BackupFollowsJournal, Dsp
<1>. QED
  BY <1>1, <1>2, <1>3 DEF DispatchInv, OneHolder

\* The engine changes the files of its intent and the claims of its next location hold.
LEMMA WriterMove ==
    ASSUME DispatchInv, BackupInv, SameBackup, UNCHANGED <<container, expectedBoot, accepted>>,
           NEW c \in Coordinators, pc[c] \in Creating \ {"failed"},
           \A j \in Intents : j # job[c] => archive'[j] = archive[j],
           NEW l, Moves(c, l), ArchiveOK(pc[c], job[c], readFrom[c])'
    PROVE  BackupInv'
<1>1. /\ backups[job[c]] # "VALID"
      /\ \A d \in Coordinators : d # c /\ pc[d] \in Dispatched => job[d] # job[c]
  BY WriterAlone
<1>2. ASSUME NEW d \in Coordinators, d # c
      PROVE  ArchiveOK(pc[d], job[d], readFrom[d])'
  <2>1. /\ job[d] \in Intents /\ ArchiveOK(pc[d], job[d], readFrom[d])
        /\ pc'[d] = pc[d] /\ job'[d] = job[d] /\ readFrom'[d] = readFrom[d]
    BY <1>2 DEF DispatchInv, WorkTypeOK, BackupInv, Moves
  <2>2. CASE pc[d] \in Dispatched
    BY SMT, <1>1, <1>2, <2>1, <2>2 DEF ArchiveOK, StillOffline, SameBackup
  <2>3. CASE pc[d] \notin Dispatched
    BY SMT, <2>1, <2>3 DEF ArchiveOK, SameBackup, Dispatched, Creating
  <2>. QED
    BY <2>2, <2>3
<1>3. ValidBackupIsOffline'
  BY <1>1 DEF BackupInv, ValidBackupIsOffline, SameBackup
<1>4. \A i \in Intents : Dsp(i, BackupStep)' = "ACKNOWLEDGED" => backups'[i] = "VALID"
  BY DEF BackupInv, SameBackup
<1>5. \A i \in accepted' : backups'[i] = "VALID"
  BY DEF BackupInv, SameBackup, DispatchInv, WorldTypeOK
<1>. QED
  BY <1>2, <1>3, <1>4, <1>5 DEF BackupInv, Dsp

\* A journal step that changes neither dispatches nor backup records.
LEMMA SameJournal ==
    ASSUME SameDispatch, UNCHANGED backups
    PROVE  SameBackup
BY EffectSteps DEF SameDispatch, SameBackup

\* Reads, checks and waits.
LEMMA LocalBackup ==
    ASSUME DispatchInv, BackupInv, NEW c \in Coordinators, Local(c)
    PROVE  BackupInv'
<1>1. /\ WorkTypeOK /\ JournalTypeOK /\ WorldTypeOK /\ job[c] \in Intents
      /\ ArchiveOK(pc[c], job[c], readFrom[c])
  BY DEF DispatchInv, JournalInv, WorkTypeOK, BackupInv
<1>2. UNCHANGED <<journalVars, worldVars>>
  BY <1>1, LocalKeeps
<1>3. SameBackup /\ SameFiles
  BY <1>2 DEF SameBackup, SameFiles, Dsp, journalVars, worldVars, paperVars, recordVars
<1>4. ASSUME NEW l \in Location, Goto(c, l),
             \/ l \notin Reading \cup Accepting \cup {"complete"}
             \/ ArchiveOK(l, job[c], readFrom[c])
      PROVE  BackupInv'
  BY <1>1, <1>3, <1>4, GotoMoves, BackupMove DEF Stays
<1>5. CASE Return(c)
  BY <1>1, <1>3, <1>5, ReturnMoves, BackupMove DEF Reading, Accepting
<1>6. CASE Loop(c)
  <2>. DEFINE op == operations[job[c]]
              a == op.attempts[step[c]]
              l == AfterRead(a, step[c], op.status)
  <2>1. CASE Advance(c)
    BY <1>1, <1>3, <2>1, AdvanceMoves, BackupMove DEF Reading, Accepting
  <2>2. CASE /\ pc' = [pc EXCEPT ![c] = l]
             /\ seen' = [seen EXCEPT ![c] = op]
             /\ UNCHANGED <<job, step, readFrom>>
    <3>1. l \in Location /\ l \notin Reading \cup Accepting \cup {"complete"}
      BY DEF AfterRead, AfterPrepare, Location, Reading, Accepting, Dispatched
    <3>2. op \in Operation
      BY <1>1 DEF JournalTypeOK
    <3>. HIDE DEF l, op
    <3>3. Moves(c, l)
      BY <1>1, <2>2, <3>1, <3>2 DEF Moves, WorkTypeOK
    <3>. QED
      BY <1>3, <3>1, <3>3, BackupMove
  <2>. QED
    BY <1>5, <1>6, <2>1, <2>2 DEF Loop
<1>7. CASE Observe(c) \/ WaitMaintenance(c) \/ StopAnswer(c) \/ WaitStopped(c) \/ CreateError(c)
  <2>1. PICK l \in {"mark", "record", "unknown", "stopped", "other", "unattributed", "failed"} :
          Goto(c, l)
    BY <1>7 DEF Observe, WaitMaintenance, StopAnswer, WaitStopped, CreateError
  <2>2. l \in Location /\ l \notin Reading \cup Accepting \cup {"complete"}
    BY DEF Location, Dispatched, Creating, Reading, Accepting
  <2>. QED
    BY <1>4, <2>1, <2>2
<1>8. CASE Check(c)
  <2>1. Goto(c, "reserve") /\ OfflineEvidence(expectedBoot[job[c]])
    BY <1>8 DEF Check, OfflineReady
  <2>2. ArchiveOK("reserve", job[c], readFrom[c])
    <3>1. container.boot = expectedBoot[job[c]] /\ container.state = "EXITED"
          /\ container.boot \in Nat
      BY <1>1, <2>1 DEF OfflineEvidence, WorldTypeOK, PaperTypeOK
    <3>. QED
      BY SMT, <3>1 DEF ArchiveOK, StillOffline
  <2>3. "reserve" \in Location
    BY DEF Location, Dispatched, Creating
  <2>. QED
    BY <1>4, <2>1, <2>2, <2>3
<1>9. CASE Recheck(c)
  <2>1. /\ Goto(c, "complete") /\ OfflineEvidence(expectedBoot[job[c]])
        /\ archive[job[c]].final /\ pc[c] = "recheck"
    BY <1>9 DEF Recheck, OfflineReady
  <2>2. ArchiveOK("complete", job[c], readFrom[c])
    BY <1>1, <2>1 DEF ArchiveOK, OfflineEvidence
  <2>3. "complete" \in Location
    BY DEF Location, Dispatched, Creating
  <2>. QED
    BY <1>4, <2>1, <2>2, <2>3
<1>10. CASE Failed(c)
  <2>1. Return(c) \/ Goto(c, "unknown")
    BY <1>10 DEF Failed
  <2>. QED
    BY <1>4, <1>5, <2>1 DEF Location, Dispatched, Creating, Reading, Accepting
<1>11. CASE AcceptBackup(c) \/ AcceptOperation(c)
  <2>1. PICK l \in {"reread", "publish"} : Goto(c, l) /\ backups[job[c]] = "VALID"
    BY <1>1, <1>11 DEF AcceptBackup, AcceptOperation, ArchiveOK
  <2>2. ArchiveOK(l, job[c], readFrom[c]) /\ l \in Location
    BY <2>1 DEF ArchiveOK, Location
  <2>. QED
    BY <1>4, <2>1, <2>2
<1>12. CASE Refused(c) \/ Crash(c)
  BY <1>5, <1>12 DEF Refused, Crash
<1>. QED
  BY <1>6, <1>7, <1>8, <1>9, <1>10, <1>11, <1>12 DEF Local

\* A backup transition neither makes nor unmakes a VALID record.
LEMMA BackupFacts ==
    ASSUME JournalTypeOK, NEW i \in Intents,
           \/ ReserveBackup(i)
           \/ \E to \in {"WRITING", "FINALIZING", "VERIFYING", "ORPHANED"} :
                TransitionBackupStatus(i, to)
    PROVE  SameBackup
<1>1. backups \in [Intents -> BackupStatus] /\ UNCHANGED operations
  BY DEF JournalTypeOK, ReserveBackup, TransitionBackupStatus
<1>2. PICK to : /\ backups' = [backups EXCEPT ![i] = to]
                /\ backups[i] # "VALID" /\ to # "VALID"
  BY DEF ReserveBackup, CanReserve, TransitionBackupStatus, CanTransitionBackup
<1>. QED
  BY <1>1, <1>2 DEF SameBackup, Dsp

\* The calls that change the status of an operation or of a backup.
LEMMA StatusBackup ==
    ASSUME DispatchInv, BackupInv, NEW c \in Coordinators,
           \/ Claim(c) \/ Execute(c) \/ RecordMarkUnknown(c)
           \/ Reserve(c) \/ AnnounceAs(c, "write", "WRITING", "open")
           \/ AnnounceAs(c, "finalize", "FINALIZING", "rename")
           \/ AnnounceAs(c, "verify", "VERIFYING", "recheck") \/ Inspect(c)
    PROVE  BackupInv'
<1>1. /\ WorkTypeOK /\ JournalTypeOK /\ job[c] \in Intents
      /\ ArchiveOK(pc[c], job[c], readFrom[c])
  BY DEF DispatchInv, JournalInv, WorkTypeOK, BackupInv
<1>2. SameFiles
  BY DEF SameFiles, Claim, Execute, RecordMarkUnknown, Reserve, AnnounceAs, Inspect,
         worldVars, paperVars, recordVars
<1>3. CASE Claim(c) \/ Execute(c) \/ RecordMarkUnknown(c)
  <2>1. PICK to \in {"PREPARING", "EXECUTING"} :
          TransitionOperation(job[c], to) \/ MarkUnknown(job[c])
    BY <1>3 DEF Claim, Execute, RecordMarkUnknown
  <2>2. SameBackup
    <3>1. /\ UNCHANGED <<intents, backups>>
          /\ \A j \in Intents : operations'[j].attempts = operations[j].attempts
      BY <1>1, <2>1, TransitionFacts
    <3>. QED
      BY <3>1 DEF SameBackup, Dsp
  <2>3. PICK l \in {"loop", "observe", "idle"} : Moves(c, l)
    <3>1. Goto(c, "loop") \/ Goto(c, "observe") \/ Return(c)
      BY <1>3 DEF Claim, Execute, RecordMarkUnknown
    <3>. QED
      BY <1>1, <3>1, GotoMoves, ReturnMoves DEF Location
  <2>. QED
    BY <1>2, <2>2, <2>3, BackupMove DEF Reading, Accepting
<1>4. CASE \/ Reserve(c) \/ AnnounceAs(c, "write", "WRITING", "open")
           \/ AnnounceAs(c, "finalize", "FINALIZING", "rename")
           \/ AnnounceAs(c, "verify", "VERIFYING", "recheck")
  <2>1. SameBackup
    <3>1. \/ ReserveBackup(job[c])
          \/ \E to \in {"WRITING", "FINALIZING", "VERIFYING", "ORPHANED"} :
               TransitionBackupStatus(job[c], to)
      BY <1>4 DEF Reserve, AnnounceAs
    <3>. QED
      BY <1>1, <3>1, BackupFacts
  <2>2. PICK l : /\ Goto(c, l)
                 /\ <<pc[c], l>> \in {<<"reserve", "write">>, <<"write", "open">>,
                                      <<"finalize", "rename">>, <<"verify", "recheck">>}
    BY <1>4 DEF Reserve, AnnounceAs
  <2>3. l \in Location /\ ArchiveOK(l, job[c], readFrom[c])
    BY <1>1, <2>2 DEF ArchiveOK, Location, Dispatched, Creating
  <2>4. Moves(c, l) /\ Stays(c) /\ readFrom'[c] = readFrom[c]
    BY <1>1, <2>2, <2>3, GotoMoves
  <2>. QED
    BY <1>2, <2>1, <2>3, <2>4, BackupMove DEF Stays
<1>5. CASE Inspect(c)
  <2>1. SameBackup
    <3>1. CASE UNCHANGED journalVars
      BY <3>1 DEF SameBackup, Dsp, journalVars
    <3>2. CASE TransitionBackupStatus(job[c], "ORPHANED")
      BY <1>1, <3>2, BackupFacts
    <3>. QED
      BY <1>5, <3>1, <3>2 DEF Inspect
  <2>2. CASE Return(c)
    BY <1>1, <1>2, <2>1, <2>2, ReturnMoves, BackupMove DEF Reading, Accepting
  <2>3. CASE Goto(c, "accept") /\ backups[job[c]] = "VALID"
    <3>1. "accept" \in Location /\ ArchiveOK("accept", job[c], readFrom[c])
      BY <2>3 DEF Location, ArchiveOK
    <3>2. Moves(c, "accept") /\ Stays(c) /\ readFrom'[c] = readFrom[c]
      BY <1>1, <2>3, <3>1, GotoMoves
    <3>. QED
      BY <1>2, <2>1, <3>1, <3>2, BackupMove DEF Stays
  <2>. QED
    BY <1>5, <2>2, <2>3 DEF Inspect
<1>. QED
  BY <1>3, <1>4, <1>5

\* Start and the file operations.
LEMMA FileBackup ==
    ASSUME DispatchInv, BackupInv, NEW c \in Coordinators,
           Open(c) \/ Read(c) \/ Rename(c) \/ WriteEvidence(c) \/ (\E i \in Intents : Start(c, i))
    PROVE  BackupInv'
<1>1. /\ WorkTypeOK /\ WorldTypeOK /\ PaperTypeOK /\ job[c] \in Intents
      /\ ArchiveOK(pc[c], job[c], readFrom[c])
      /\ archive[job[c]] \in [partial : BOOLEAN, final : BOOLEAN, offline : BOOLEAN]
      /\ archive \in [Intents -> [partial : BOOLEAN, final : BOOLEAN, offline : BOOLEAN]]
  BY DEF DispatchInv, WorkTypeOK, WorldTypeOK, BackupInv
<1>2. SameBackup /\ UNCHANGED <<container, expectedBoot>>
  BY DEF SameBackup, Dsp, Open, Read, Rename, WriteEvidence, Start, journalVars, worldVars,
         paperVars, recordVars
<1>3. CASE Open(c)
  <2>1. /\ pc[c] = "open"
        /\ readFrom' = [readFrom EXCEPT
                          ![c] = IF container.state = "EXITED" THEN container.boot ELSE 0]
        /\ archive' = [archive EXCEPT ![job[c]].partial = TRUE]
        /\ UNCHANGED <<job, accepted>>
    BY <1>3 DEF Open, recordVars
  <2>2. Moves(c, "read")
    <3>1. container.boot \in Nat /\ "read" \in Location
      BY <1>1 DEF PaperTypeOK, Location, Dispatched, Creating
    <3>. QED
      BY <1>1, <1>3, <3>1 DEF WorkTypeOK, Moves, Open
  <2>3. StillOffline(expectedBoot[job[c]])
    BY <1>1, <2>1 DEF ArchiveOK
  <2>4. container.boot = expectedBoot[job[c]] => readFrom'[c] = container.boot
    BY <1>1, <2>1, <2>3 DEF StillOffline, WorkTypeOK
  <2>5. ArchiveOK(pc[c], job[c], readFrom[c])'
    BY <1>2, <2>1, <2>2, <2>3, <2>4 DEF ArchiveOK, StillOffline, Moves
  <2>6. \A j \in Intents : j # job[c] => archive'[j] = archive[j]
    BY <1>1, <2>1
  <2>7. pc[c] \in Creating \ {"failed"}
    BY <2>1 DEF Creating
  <2>. QED
    BY <1>2, <2>1, <2>2, <2>5, <2>6, <2>7, WriterMove
<1>4. CASE Read(c)
  <2>. DEFINE b == container.state = "EXITED" /\ container.boot = readFrom[c]
  <2>1. /\ pc[c] = "read" /\ Goto(c, "finalize")
        /\ archive' = [archive EXCEPT ![job[c]].offline = b]
        /\ UNCHANGED accepted
    BY <1>4 DEF Read, recordVars
  <2>2. Moves(c, "finalize") /\ Stays(c)
    BY <1>1, <2>1, GotoMoves DEF Location, Dispatched, Creating
  <2>3. /\ StillOffline(expectedBoot[job[c]])
        /\ container.boot = expectedBoot[job[c]] => b
    BY <1>1, <2>1 DEF ArchiveOK, StillOffline
  <2>. HIDE DEF b
  <2>4. archive'[job[c]].offline = b /\ \A j \in Intents : j # job[c] => archive'[j] = archive[j]
    BY <1>1, <2>1
  <2>5. ArchiveOK(pc[c], job[c], readFrom[c])'
    BY <1>2, <2>2, <2>3, <2>4 DEF ArchiveOK, StillOffline, Moves, Stays
  <2>6. pc[c] \in Creating \ {"failed"}
    BY <2>1 DEF Creating
  <2>. QED
    BY <1>2, <2>1, <2>2, <2>4, <2>5, <2>6, WriterMove
<1>5. CASE Rename(c)
  <2>1. /\ pc[c] = "rename" /\ Goto(c, "verify")
        /\ archive' = [archive EXCEPT ![job[c]].partial = FALSE, ![job[c]].final = TRUE]
        /\ UNCHANGED accepted
    BY <1>5 DEF Rename, recordVars
  <2>2. Moves(c, "verify") /\ Stays(c)
    BY <1>1, <2>1, GotoMoves DEF Location, Dispatched, Creating
  <2>3. /\ StillOffline(expectedBoot[job[c]])
        /\ container.boot = expectedBoot[job[c]] => archive[job[c]].offline
    BY <1>1, <2>1 DEF ArchiveOK
  <2>4. \A j \in Intents : j # job[c] => archive'[j] = archive[j]
    BY <1>1, <2>1
  <2>5. archive'[job[c]].offline = archive[job[c]].offline
    <3>1. archive'[job[c]] = [archive[job[c]] EXCEPT !.partial = FALSE, !.final = TRUE]
      BY <1>1, <2>1
    <3>. QED
      BY <1>1, <3>1
  <2>6. ArchiveOK(pc[c], job[c], readFrom[c])'
    BY <1>2, <2>2, <2>3, <2>5 DEF ArchiveOK, StillOffline, Moves, Stays
  <2>7. pc[c] \in Creating \ {"failed"}
    BY <2>1 DEF Creating
  <2>. QED
    BY <1>2, <2>1, <2>2, <2>4, <2>6, <2>7, WriterMove
<1>6. CASE WriteEvidence(c)
  <2>1. /\ accepted' = {job[c]} /\ backups[job[c]] = "VALID" /\ UNCHANGED archive
        /\ Moves(c, "idle")
    BY <1>1, <1>6, ReturnMoves DEF WriteEvidence, ArchiveOK
  <2>2. ASSUME NEW d \in Coordinators
        PROVE  ArchiveOK(pc[d], job[d], readFrom[d])'
    <3>1. job[d] \in Intents /\ ArchiveOK(pc[d], job[d], readFrom[d])
      BY DEF DispatchInv, WorkTypeOK, BackupInv
    <3>2. CASE d = c
      BY <2>1, <3>2 DEF ArchiveOK, Moves
    <3>3. CASE d # c
      BY SMT, <1>2, <2>1, <3>1, <3>3 DEF ArchiveOK, StillOffline, SameBackup, Moves
    <3>. QED
      BY <3>2, <3>3
  <2>3. ValidBackupIsOffline'
    BY <1>2, <2>1 DEF BackupInv, ValidBackupIsOffline, SameBackup
  <2>4. \A i \in Intents : Dsp(i, BackupStep)' = "ACKNOWLEDGED" => backups'[i] = "VALID"
    BY <1>2 DEF BackupInv, SameBackup
  <2>5. \A i \in accepted' : backups'[i] = "VALID"
    BY <1>1, <1>2, <2>1 DEF SameBackup
  <2>. QED
    BY <2>2, <2>3, <2>4, <2>5 DEF BackupInv, Dsp
<1>7. CASE \E i \in Intents : Start(c, i)
  <2>1. PICK i \in Intents : Start(c, i)
    BY <1>7
  <2>2. PICK l \in {"claim", "loop"} : pc' = [pc EXCEPT ![c] = l]
    BY <2>1 DEF Start
  <2>3. l \in Location
    BY DEF Location
  <2>4. Moves(c, l)
    BY SMT, <1>1, <2>1, <2>2, <2>3 DEF WorkTypeOK, Moves, Start
  <2>5. SameFiles
    BY <2>1 DEF Start, SameFiles, worldVars, paperVars, recordVars
  <2>. QED
    BY <1>2, <2>4, <2>5, BackupMove DEF Reading, Accepting
<1>. QED
  BY <1>3, <1>4, <1>5, <1>6, <1>7

\* Closing admission and requesting the stop.
LEMMA IssueBackup ==
    ASSUME DispatchInv, BackupInv, NEW c \in Coordinators,
           CloseAdmission(c) \/ DispatchGracefulStop(c)
    PROVE  BackupInv'
<1>1. WorkTypeOK /\ PaperTypeOK
  BY DEF DispatchInv, WorldTypeOK
<1>2. SameBackup /\ UNCHANGED <<expectedBoot, archive, accepted>>
  BY DEF SameBackup, Dsp, CloseAdmission, DispatchGracefulStop, journalVars, recordVars
<1>3. PICK l \in {"maintenance", "stopping", "unknown"} : Moves(c, l)
  <2>1. PICK l \in {"maintenance", "stopping", "unknown"} : Goto(c, l)
    BY DEF CloseAdmission, DispatchGracefulStop
  <2>. QED
    BY <1>1, <2>1, GotoMoves DEF Location, Dispatched
<1>4. /\ container'.boot = container.boot /\ container.boot \in Nat
      /\ container.state = "EXITED" => container'.state = "EXITED"
  BY <1>1 DEF CloseAdmission, DispatchGracefulStop, PaperTypeOK, Alive
<1>5. \A d \in Coordinators :
        \/ pc'[d] = pc[d] /\ job'[d] = job[d] /\ readFrom'[d] = readFrom[d]
        \/ pc'[d] \notin Reading \cup Accepting \cup {"complete"}
  BY <1>3 DEF Moves, Reading, Accepting
<1>. QED
  BY SMT, <1>2, <1>4, <1>5, BackupStill

\* The calls on the attempt; only CompleteBackup acknowledges S05.
LEMMA AttemptBackup ==
    ASSUME DispatchInv, BackupInv, NEW c \in Coordinators,
           \/ Prepare(c) \/ Mark(c) \/ Complete(c) \/ RecordExpected(c)
           \/ RecordOther(c) \/ RecordUnattributed(c) \/ RecordUnknown(c)
    PROVE  BackupInv'
<1>1. /\ WorkTypeOK /\ JournalTypeOK /\ job[c] \in Intents /\ step[c] \in Step
      /\ HolderOK(pc[c], job[c], step[c])
      /\ ArchiveOK(pc[c], job[c], readFrom[c])
  BY DEF DispatchInv, JournalInv, WorkTypeOK, BackupInv
<1>2. SameFiles
  BY DEF SameFiles, Prepare, Mark, Complete, RecordExpected, RecordOther, RecordUnattributed,
         RecordUnknown, worldVars, paperVars, recordVars
<1>3. CASE Prepare(c) \/ Mark(c)
  <2>1. SameBackup
    <3>1. PICK i \in Intents, n \in Step : i = job[c] /\ n = step[c]
      BY <1>1
    <3>2. PrepareStep(i, n) \/ MarkDispatchPossible(i, n)
      BY <1>3, <3>1 DEF Prepare, Mark
    <3>3. /\ DispatchOnly(i, n) /\ Dsp(i, n)' # "ACKNOWLEDGED"
          /\ UNCHANGED backups
      BY <1>1, <3>2, PrepareFacts, MarkFacts DEF PrepareStep, MarkDispatchPossible
    <3>. QED
      BY <3>3, EffectSteps DEF SameBackup, DispatchOnly
  <2>2. PICK l \in {"execute", "mark", "observe", "check", "effect", "record"} : Moves(c, l)
    <3>1. PICK l \in {"execute", "mark", "observe", "check", "effect", "record"} : Goto(c, l)
      BY <1>3 DEF Prepare, Mark, AfterPrepare
    <3>. QED
      BY <1>1, <3>1, GotoMoves DEF Location, Dispatched, Creating
  <2>. QED
    BY <1>2, <2>1, <2>2, BackupMove DEF Reading, Accepting
<1>4. CASE RecordExpected(c) \/ RecordOther(c) \/ RecordUnattributed(c) \/ RecordUnknown(c)
  <2>1. SameBackup
    <3>1. PICK i \in Intents, n \in Step : i = job[c] /\ n = step[c]
      BY <1>1
    <3>2. PICK e, a : /\ RecordStepObservation(i, n, e, a)
                      /\ a = "CORRELATED" => n # BackupStep
      BY SMT, <1>1, <1>4, <3>1
         DEF RecordExpected, RecordOther, RecordUnattributed, RecordUnknown, HolderOK, Simple
    <3>3. /\ DispatchOnly(i, n) /\ UNCHANGED backups
          /\ Dsp(i, n)' = IF a = "CORRELATED" THEN "ACKNOWLEDGED" ELSE Dsp(i, n)
      BY SMT, <1>1, <3>2, RecordFacts
    <3>. QED
      BY SMT, <3>2, <3>3, EffectSteps DEF SameBackup, DispatchOnly
  <2>2. PICK l \in {"loop", "inspect", "idle", "markUnknown"} : Moves(c, l)
    <3>1. Advance(c) \/ Return(c) \/ Goto(c, "markUnknown")
      BY <1>4 DEF RecordExpected, RecordOther, RecordUnattributed, RecordUnknown
    <3>2. "markUnknown" \in Location
      BY DEF Location, Dispatched
    <3>. QED
      BY <1>1, <3>1, <3>2, GotoMoves, ReturnMoves, AdvanceMoves
  <2>. QED
    BY <1>2, <2>1, <2>2, BackupMove DEF Reading, Accepting
<1>5. CASE Complete(c)
  <2>1. pc[c] = "complete" /\ CompleteBackup(job[c])
    BY <1>5 DEF Complete
  <2>2. PICK i \in Intents : i = job[c]
    BY <1>1
  <2>3. /\ DispatchOnly(i, BackupStep)
        /\ backups' = [backups EXCEPT ![i] = "VALID"]
        /\ backups \in [Intents -> BackupStatus]
    BY <1>1, <2>1, <2>2, CompleteFacts DEF JournalTypeOK
  <2>4. archive[i].final /\ archive[i].offline
    BY <1>1, <2>1, <2>2 DEF ArchiveOK
  <2>5. PICK l \in {"loop", "inspect", "failed"} : Moves(c, l)
    <3>1. Advance(c) \/ Goto(c, "failed")
      BY <1>5 DEF Complete
    <3>2. "failed" \in Location
      BY DEF Location, Dispatched, Creating
    <3>. QED
      BY <1>1, <3>1, <3>2, GotoMoves, AdvanceMoves
  <2>6. ASSUME NEW d \in Coordinators
        PROVE  ArchiveOK(pc[d], job[d], readFrom[d])'
    <3>1. job[d] \in Intents /\ ArchiveOK(pc[d], job[d], readFrom[d])
      BY DEF DispatchInv, WorkTypeOK, BackupInv
    <3>2. CASE d = c
      BY <2>5, <3>2 DEF ArchiveOK, Moves
    <3>3. CASE d # c
      BY <1>2, <2>3, <2>5, <3>1, <3>3 DEF ArchiveOK, StillOffline, SameFiles, Moves
    <3>. QED
      BY <3>2, <3>3
  <2>7. ValidBackupIsOffline'
    BY <1>2, <2>3, <2>4 DEF BackupInv, ValidBackupIsOffline, SameFiles
  <2>8. \A j \in Intents : Dsp(j, BackupStep)' = "ACKNOWLEDGED" => backups'[j] = "VALID"
    BY <2>3, EffectSteps DEF BackupInv, DispatchOnly
  <2>9. \A j \in accepted' : backups'[j] = "VALID"
    BY <1>2, <2>3 DEF BackupInv, SameFiles, DispatchInv, WorldTypeOK
  <2>. QED
    BY <2>6, <2>7, <2>8, <2>9 DEF BackupInv, Dsp
<1>. QED
  BY <1>3, <1>4, <1>5

\* The environment: a restart of Paper, and the boot a new proposal freezes.
LEMMA EnvironmentBackup ==
    ASSUME DispatchInv, BackupInv, Environment
    PROVE  BackupInv'
<1>1. /\ JournalInv /\ JournalTypeOK /\ WorkTypeOK /\ WorldTypeOK /\ PaperTypeOK
      /\ container.boot \in Nat
  BY DEF DispatchInv, JournalInv, WorldTypeOK, PaperTypeOK
<1>2. ASSUME NEW i \in Intents, Propose(i)
      PROVE  BackupInv'
  <2>1. SameBackup
    BY <1>2 DEF Propose, PutIntent, SameBackup, Dsp
  <2>2. ASSUME NEW d \in Coordinators, pc[d] \in Reading
        PROVE  job[d] # i
    <3>1. pc[d] \in Dispatched /\ job[d] \in Intents /\ step[d] \in Step
      BY <1>1, <2>2 DEF Reading, Dispatched, Creating, WorkTypeOK
    <3>2. Dsp(job[d], step[d]) \in Dispatch
      BY <3>1 DEF DispatchInv, HolderOK
    <3>3. operations[job[d]].status # "NONE"
      BY <1>1, <3>1, <3>2 DEF JournalInv, StepsInOrder, Present, Dsp, Dispatch
    <3>4. intents[job[d]].status \in {"CONSUMED", "REVOKED"}
      BY <1>1, <3>1, <3>3 DEF JournalInv, DecisionsAgree
    <3>. QED
      BY <1>2, <3>4 DEF Propose, PutIntent
  <2>3. \A d \in Coordinators :
          pc[d] \in Reading => expectedBoot'[job[d]] = expectedBoot[job[d]]
    BY <1>1, <1>2, <2>2 DEF Propose, WorldTypeOK, WorkTypeOK
  <2>4. UNCHANGED <<container, archive, accepted, pc, job, readFrom>>
    BY <1>2 DEF Propose, paperVars, workVars
  <2>. QED
    BY SMT, <1>1, <2>1, <2>3, <2>4, BackupStill
<1>3. CASE (\E i \in Intents : Decide(i)) \/ (Tick /\ UNCHANGED <<worldVars, workVars>>)
  <2>1. SameBackup
    <3>1. CASE \E i \in Intents : Decide(i)
      BY <1>1, <3>1, DecideFacts, SameJournal DEF Decide
    <3>2. CASE Tick
      BY <3>2 DEF Tick, SameBackup, Dsp
    <3>. QED
      BY <1>3, <3>1, <3>2
  <2>2. UNCHANGED <<container, archive, accepted, expectedBoot, pc, job, readFrom>>
    BY <1>3 DEF Decide, worldVars, paperVars, recordVars, workVars
  <2>. QED
    BY SMT, <1>1, <2>1, <2>2, BackupStill
<1>4. CASE PaperNext /\ UNCHANGED <<journalVars, recordVars, archive, traceVars, workVars>>
  <2>1. SameBackup /\ UNCHANGED <<archive, accepted, expectedBoot, pc, job, readFrom>>
    BY <1>4 DEF SameBackup, Dsp, journalVars, recordVars, workVars
  <2>2. /\ container'.boot \in Nat
        /\ container'.boot >= container.boot
        /\ container'.boot = container.boot /\ container.state = "EXITED"
             => container'.state = "EXITED"
    BY <1>1, <1>4, PaperFacts DEF PaperTypeOK
  <2>. QED
    BY <2>1, <2>2, BackupStill
<1>. QED
  BY <1>2, <1>3, <1>4 DEF Environment

-----------------------------------------------------------------------------
(* Theorems.                                                               *)

\* Nothing is archived at the start.
LEMMA BackupInit == Init => BackupInv
<1>. SUFFICES ASSUME Init PROVE BackupInv
  OBVIOUS
<1>1. \A c \in Coordinators : ArchiveOK(pc[c], job[c], readFrom[c])
  BY DEF Init, ArchiveOK
<1>2. \A i \in Intents : Dsp(i, BackupStep) = "NONE" /\ backups[i] = "NONE"
  BY EffectSteps DEF Init, JournalInit, NoOperation, NoAttempt, Dsp
<1>3. accepted = {}
  BY DEF Init
<1>. QED
  BY <1>1, <1>2, <1>3 DEF BackupInv, ValidBackupIsOffline

\* Every step keeps the backup invariant.
LEMMA BackupNext ==
    ASSUME DispatchInv, BackupInv, [Next]_vars
    PROVE  BackupInv'
<1>1. ASSUME NEW c \in Coordinators, Coordinate(c) \/ Crash(c) \/ (\E i \in Intents : Start(c, i))
      PROVE  BackupInv'
  <2>1. CASE Local(c)
    BY <2>1, LocalBackup
  <2>2. CASE \/ Claim(c) \/ Execute(c) \/ RecordMarkUnknown(c)
             \/ Reserve(c) \/ AnnounceAs(c, "write", "WRITING", "open")
             \/ AnnounceAs(c, "finalize", "FINALIZING", "rename")
             \/ AnnounceAs(c, "verify", "VERIFYING", "recheck") \/ Inspect(c)
    BY <2>2, StatusBackup
  <2>3. CASE \/ Open(c) \/ Read(c) \/ Rename(c) \/ WriteEvidence(c)
             \/ (\E i \in Intents : Start(c, i))
    BY <2>3, FileBackup
  <2>4. CASE CloseAdmission(c) \/ DispatchGracefulStop(c)
    BY <2>4, IssueBackup
  <2>5. CASE \/ Prepare(c) \/ Mark(c) \/ Complete(c) \/ RecordExpected(c)
             \/ RecordOther(c) \/ RecordUnattributed(c) \/ RecordUnknown(c)
    BY <2>5, AttemptBackup
  <2>. QED
    BY <1>1, <2>1, <2>2, <2>3, <2>4, <2>5 DEF Coordinate, Create, Local
<1>2. CASE UNCHANGED vars
  <2>1. /\ SameBackup
        /\ UNCHANGED <<container, archive, accepted, expectedBoot, pc, job, readFrom>>
    BY <1>2 DEF vars, SameBackup, Dsp, journalVars, paperVars, recordVars, workVars
  <2>2. container.boot \in Nat
    BY DEF DispatchInv, WorldTypeOK, PaperTypeOK
  <2>. QED
    BY SMT, <2>1, <2>2, BackupStill
<1>. QED
  BY <1>1, <1>2, EnvironmentBackup DEF Next

\* The dispatch and the backup invariant hold in every reachable state.
THEOREM FoundationInvariant == Spec => []FoundationInv
<1>1. Init => BackupInv
  BY BackupInit
<1>2. DispatchInv /\ BackupInv /\ [Next]_vars => BackupInv'
  BY BackupNext
<1>. QED
  BY <1>1, <1>2, DispatchInvariant, PTL DEF Spec, FoundationInv

\* A VALID backup was read while Paper was stopped, however often Paper is restarted.
THEOREM FoundationValidBackupIsOffline == Spec => []ValidBackupIsOffline
<1>1. FoundationInv => ValidBackupIsOffline
  BY DEF FoundationInv, BackupInv
<1>. QED
  BY <1>1, FoundationInvariant, PTL

\* S05 is acknowledged as expected only together with a VALID record.
THEOREM FoundationDoneBackupIsValid == Spec => []DoneBackupIsValid
<1>1. FoundationInv => DoneBackupIsValid
  BY DEF FoundationInv, BackupInv, DoneBackupIsValid, Done, Dsp
<1>. QED
  BY <1>1, FoundationInvariant, PTL

\* G-03 evidence stands for a VALID offline archive, one close, one stop, one backup and an
\* operation that still owns its target.
THEOREM FoundationAcceptance == Spec => []AcceptanceIsEarned
<1>1. FoundationInv => AcceptanceIsEarned
  <2>. SUFFICES ASSUME FoundationInv, NEW i \in accepted
                PROVE  /\ backups[i] = "VALID" /\ archive[i].offline
                       /\ \A n \in EffectStep : effects[i][n] = 1
                       /\ Owns(i)
    BY DEF AcceptanceIsEarned
  <2>1. i \in Intents /\ backups[i] = "VALID" /\ JournalInv /\ LedgerOK(i)
    BY DEF FoundationInv, DispatchInv, BackupInv, WorldTypeOK
  <2>2. archive[i].offline
    BY <2>1 DEF FoundationInv, BackupInv, ValidBackupIsOffline
  <2>3. Dsp(i, BackupStep) = "ACKNOWLEDGED"
    BY <2>1 DEF JournalInv, BackupFollowsJournal, Dsp
  <2>4. \A n \in EffectStep : effects[i][n] = 1
    <3>1. BackupStep \in EffectStep /\ BackupStep \in Step
      BY EffectSteps DEF EffectStep
    <3>2. effects[i][BackupStep] = 1
      BY <2>1, <2>3, <3>1 DEF LedgerOK
    <3>3. \A n \in EffectStep : n < BackupStep => effects[i][n] = 1
      BY <2>1, <2>3, <3>1, LedgerOrder DEF Dispatch
    <3>4. \A n \in EffectStep : n = BackupStep \/ n < BackupStep
      BY SMT, EffectSteps DEF Step, BackupStep
    <3>. QED
      BY <3>2, <3>3, <3>4
  <2>5. Owns(i)
    <3>1. Present(operations[i].attempts[BackupStep]) /\ BackupStep \in Step
      BY <2>3, EffectSteps DEF Dsp, Present
    <3>2. operations[i].status # "NONE" /\ Begun(i)
      BY <2>1, <3>1 DEF JournalInv, StepsInOrder, Begun
    <3>. QED
      BY <2>1, <3>2 DEF JournalInv, DecisionsAgree, Owns
  <2>. QED
    BY <2>1, <2>2, <2>4, <2>5
<1>. QED
  BY <1>1, FoundationInvariant, PTL
=============================================================================
