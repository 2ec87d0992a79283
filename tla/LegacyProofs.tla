---------------------------- MODULE LegacyProofs ----------------------------
(***************************************************************************)
(* Proofs about the concept runner for any number of runs, approvals,      *)
(* restarts of the worker and deaths of the process.  The argument: a run  *)
(* is APPROVED, or on its way there, only while one of the approvals       *)
(* granted to it has led to no restart; every restart handed over spends   *)
(* one, and leaves the run RUNNING.  While the process has not died, a run *)
(* asks at most once.                                                      *)
(***************************************************************************)
EXTENDS LegacyRunner, FiniteSetTheorems, TLAPS

USE Zenon

\* The approvals of a run that were granted.
Granted(s) == {k \in DOMAIN s : s[k].status = "APPROVED"}

\* The position of the restart in the plan.
RestartStep == 3

\* The status of the run x while its coroutine is at l.
Holds(x, l) ==
    /\ l = "planning" => x.status = "CREATED"
    /\ l \in {"advance", "requesting", "exec"} => x.status = "RUNNING"
    /\ l = "observing" => x.status = "APPROVED"
    /\ l \in Decision => x.status = "WAITING_APPROVAL"

\* What the location l of the coroutine says about the run x.
Located(x, l) ==
    /\ Holds(x, l)
    /\ l = "requesting" => x.step = RestartStep
    /\ x.status \in {"WAITING_APPROVAL", "APPROVED"} => x.step = RestartStep

\* The restarts handed over are covered, with one approval to spare where one is due.
Covered(x, s, l, n) ==
    /\ n <= Cardinality(Granted(s))
    /\ x.status \in {"APPROVED", "STALE"} \/ l = "APPROVED" => n < Cardinality(Granted(s))

\* The run has not come to ask for approval.
Unasked(x, l) ==
    \/ x.status \in {"NONE", "CREATED", "PLANNED"}
    \/ /\ x.status = "RUNNING"
       /\ l # "requesting"
       /\ x.step < RestartStep \/ (x.step = RestartStep /\ l # "exec")

\* The only approval of the run, with status st, and no restart yet.
Only(s, n, st) == Len(s) = 1 /\ s[1].status = st /\ n = 0

\* What holds while the process has not died.
Uninterrupted(x, s, l, n) ==
    /\ Unasked(x, l) => s = <<>> /\ n = 0
    /\ l = "requesting" \/ (x.status = "WAITING_APPROVAL" /\ l = "idle") => Only(s, n, "PENDING")
    /\ l \in Decision => Only(s, n, l)
    /\ x.status = "APPROVED" => Only(s, n, "APPROVED")
    /\ x.status = "REJECTED" => n = 0

RunOK(x, s, l, n, c) ==
    /\ Located(x, l)
    /\ Covered(x, s, l, n)
    /\ c = 0 => Uninterrupted(x, s, l, n)

\* The inductive invariant.
LegacyInv ==
    /\ RunnerTypeOK
    /\ \A r \in Runs : RunOK(run[r], approvals[r], pc[r], dispatched[r], crashes)

-----------------------------------------------------------------------------
(* The plan, the granted approvals and the records.                        *)

\* The plan has four actions, and the third is the restart.
LEMMA PlanFacts ==
    /\ Len(Plan) = 4
    /\ \A s \in 1..4 : Plan[s] = "restart" <=> s = RestartStep
BY SMT DEF Plan, RestartStep

\* The approvals of a run are a finite sequence, and so are the granted ones.
LEMMA GrantedFacts ==
    ASSUME NEW s \in Seq(Approval)
    PROVE  /\ IsFiniteSet(Granted(s))
           /\ Cardinality(Granted(s)) \in Nat
           /\ Cardinality(Granted(s)) <= Len(s)
<1>1. Len(s) \in Nat /\ DOMAIN s = 1..Len(s)
  BY SMT
<1>2. IsFiniteSet(1..Len(s)) /\ Cardinality(1..Len(s)) = Len(s)
  BY SMTT(30), <1>1, FS_Interval
<1>3. Granted(s) \subseteq 1..Len(s)
  BY <1>1 DEF Granted
<1>. QED
  BY <1>2, <1>3, FS_Subset, FS_CardinalityType

\* A new approval is PENDING, so that it grants nothing.
LEMMA AppendFacts ==
    ASSUME NEW s \in Seq(Approval), NEW a \in Approval, a.status = "PENDING"
    PROVE  /\ Append(s, a) \in Seq(Approval)
           /\ Len(Append(s, a)) = Len(s) + 1
           /\ Append(s, a)[Len(s) + 1] = a
           /\ Granted(Append(s, a)) = Granted(s)
<1>1. /\ Append(s, a) \in Seq(Approval)
      /\ Len(s) \in Nat /\ Len(Append(s, a)) = Len(s) + 1
      /\ Append(s, a)[Len(s) + 1] = a
      /\ \A k \in 1..Len(s) : Append(s, a)[k] = s[k]
      /\ DOMAIN s = 1..Len(s) /\ DOMAIN Append(s, a) = 1..(Len(s) + 1)
  BY SMT
<1>. QED
  BY SMT, <1>1 DEF Granted

\* The approvals s once approval k is decided.
Decided(s, k, d) == [s EXCEPT ![k].status = d]

\* A decision about a PENDING approval grants one more approval, or none.
LEMMA DecisionFacts ==
    ASSUME NEW s \in Seq(Approval), NEW k \in DOMAIN s, NEW d \in Decision,
           s[k].status = "PENDING"
    PROVE  /\ Decided(s, k, d) \in Seq(Approval)
           /\ Len(Decided(s, k, d)) = Len(s)
           /\ Decided(s, k, d)[k].status = d
           /\ Cardinality(Granted(Decided(s, k, d))) =
                Cardinality(Granted(s)) + (IF d = "APPROVED" THEN 1 ELSE 0)
<1>. DEFINE t == Decided(s, k, d)
<1>1. /\ Len(s) \in Nat /\ DOMAIN s = 1..Len(s) /\ DOMAIN t = 1..Len(s)
      /\ s[k] \in Approval
  BY SMT DEF Decided
<1>2. t[k] \in Approval /\ t[k].status = d
  BY <1>1 DEF Approval, Decided
<1>3. \A m \in 1..Len(s) : m # k => t[m] = s[m]
  BY <1>1 DEF Decided
<1>4. t \in Seq(Approval) /\ Len(t) = Len(s)
  BY SMT, <1>1, <1>2, <1>3 DEF Decided
<1>. HIDE DEF t
<1>5. CASE d = "APPROVED"
  <2>1. Granted(t) = Granted(s) \cup {k} /\ k \notin Granted(s)
    BY <1>1, <1>2, <1>3, <1>5 DEF Granted
  <2>2. IsFiniteSet(Granted(s)) /\ Cardinality(Granted(s)) \in Nat
    BY GrantedFacts
  <2>3. Cardinality(Granted(s) \cup {k}) = Cardinality(Granted(s)) + 1
    BY <2>1, <2>2, FS_AddElement
  <2>. QED
    BY <1>2, <1>4, <1>5, <2>1, <2>3 DEF t
<1>6. CASE d # "APPROVED"
  <2>1. Granted(t) = Granted(s)
    BY <1>1, <1>2, <1>3, <1>6 DEF Granted
  <2>2. Cardinality(Granted(s)) \in Nat
    BY GrantedFacts
  <2>. QED
    BY SMT, <1>2, <1>4, <1>6, <2>1, <2>2 DEF t
<1>. QED
  BY <1>5, <1>6

\* Saving a status changes nothing else of a run.
LEMMA SaveFacts ==
    ASSUME NEW x \in RunRecord, NEW st \in RunStatus
    PROVE  LET y == [x EXCEPT !.status = st]
           IN  y \in RunRecord /\ y.status = st /\ y.step = x.step
BY DEF RunRecord

\* The run x once the executor has answered, and the fields it changes.
Ended(x, n, st, ob, ev) == [x EXCEPT !.step = n, !.status = st, !.seen = ob, !.evidence = ev]

LEMMA AnswerFacts ==
    ASSUME NEW x \in RunRecord, NEW n \in 1..5, NEW st \in RunStatus,
           NEW ob \in Observed, NEW ev \in BOOLEAN
    PROVE  /\ Ended(x, n, st, ob, ev) \in RunRecord
           /\ Ended(x, n, st, ob, ev).step = n
           /\ Ended(x, n, st, ob, ev).status = st
<1>. DEFINE a == [x EXCEPT !.step = n]
            b == [a EXCEPT !.status = st]
            c == [b EXCEPT !.seen = ob]
            y == [c EXCEPT !.evidence = ev]
<1>1. a \in RunRecord /\ a.step = n
  BY SMT, PlanFacts DEF RunRecord
<1>. HIDE DEF a
<1>2. b \in RunRecord /\ b.step = n /\ b.status = st
  BY <1>1 DEF RunRecord
<1>. HIDE DEF b
<1>3. c \in RunRecord /\ c.step = n /\ c.status = st
  BY <1>2 DEF RunRecord
<1>. HIDE DEF c
<1>4. y \in RunRecord /\ y.step = n /\ y.status = st
  BY <1>3 DEF RunRecord
<1>. QED
  BY <1>4 DEF a, b, c, Ended

-----------------------------------------------------------------------------
(* Steps of a coroutine.                                                   *)

\* What the invariant says about one run.
LEMMA RunFacts ==
    ASSUME LegacyInv, NEW r \in Runs
    PROVE  /\ run[r] \in RunRecord /\ approvals[r] \in Seq(Approval) /\ pc[r] \in Location
           /\ dispatched[r] \in Nat
           /\ Len(approvals[r]) <= MaxApprovals
           /\ run[r].status \in RunStatus /\ run[r].step \in 1..5
           /\ run[r].step = 5 => run[r].status = "COMPLETED"
           /\ Cardinality(Granted(approvals[r])) \in Nat
           /\ RunOK(run[r], approvals[r], pc[r], dispatched[r], crashes)
<1>1. /\ run[r] \in RunRecord /\ approvals[r] \in Seq(Approval) /\ pc[r] \in Location
      /\ dispatched[r] \in 0..MaxApprovals
      /\ Len(approvals[r]) <= MaxApprovals
      /\ run[r].step > Len(Plan) => run[r].status = "COMPLETED"
      /\ RunOK(run[r], approvals[r], pc[r], dispatched[r], crashes)
  BY DEF LegacyInv, RunnerTypeOK
<1>2. run[r].status \in RunStatus /\ run[r].step \in 1..5
  BY SMT, <1>1, PlanFacts DEF RunRecord
<1>. QED
  BY SMT, <1>1, <1>2, PlanFacts, GrantedFacts, LegacyAssumption

\* A step of run r that leaves it as x, s, l and n.
LEMMA RunStep ==
    ASSUME LegacyInv, NEW r \in Runs,
           NEW x \in RunRecord, run' = [run EXCEPT ![r] = x],
           x.step > 4 => x.status = "COMPLETED",
           NEW s \in Seq(Approval), approvals' = [approvals EXCEPT ![r] = s],
           Len(s) <= MaxApprovals,
           NEW l \in Location, pc' = [pc EXCEPT ![r] = l],
           NEW n \in Nat, dispatched' = [dispatched EXCEPT ![r] = n],
           looping' \in [Runs -> BOOLEAN],
           request' \in [Runs -> {"none", "sent", "landed"}], abandoned' \in Nat,
           UNCHANGED <<now, crashes, service>>,
           RunOK(x, s, l, n, crashes)
    PROVE  LegacyInv'
<1>1. n \in 0..MaxApprovals
  BY SMT, GrantedFacts, LegacyAssumption DEF RunOK, Covered
<1>2. /\ run' \in [Runs -> RunRecord] /\ approvals' \in [Runs -> Seq(Approval)]
      /\ pc' \in [Runs -> Location] /\ dispatched' \in [Runs -> 0..MaxApprovals]
  BY <1>1 DEF LegacyInv, RunnerTypeOK
<1>3. /\ run'[r] = x /\ approvals'[r] = s /\ pc'[r] = l /\ dispatched'[r] = n
      /\ \A d \in Runs : d # r => /\ run'[d] = run[d] /\ approvals'[d] = approvals[d]
                                  /\ pc'[d] = pc[d] /\ dispatched'[d] = dispatched[d]
  BY DEF LegacyInv, RunnerTypeOK
<1>4. ASSUME NEW d \in Runs
      PROVE  /\ run'[d].step > Len(Plan) => run'[d].status = "COMPLETED"
             /\ Len(approvals'[d]) <= MaxApprovals
  <2>1. CASE d = r
    BY <1>3, <2>1, PlanFacts
  <2>2. CASE d # r
    <3>1. /\ run[d].step > Len(Plan) => run[d].status = "COMPLETED"
          /\ Len(approvals[d]) <= MaxApprovals
      BY DEF LegacyInv, RunnerTypeOK
    <3>2. run'[d] = run[d] /\ approvals'[d] = approvals[d]
      BY <1>3, <2>2
    <3>. QED
      BY <3>1, <3>2
  <2>. QED
    BY <2>1, <2>2
<1>5. \A d \in Runs : RunOK(run'[d], approvals'[d], pc'[d], dispatched'[d], crashes')
  BY <1>3 DEF LegacyInv
<1>6. now' \in 0..MaxNow /\ crashes' \in 0..MaxCrashes /\ service' \in Observed
  BY DEF LegacyInv, RunnerTypeOK
<1>7. \A d \in Runs : Holds(run'[d], pc'[d])
  BY <1>5 DEF RunOK, Located
<1>. QED
  BY <1>2, <1>4, <1>5, <1>6, <1>7 DEF LegacyInv, RunnerTypeOK, Holds

\* Requests that lose their caller are so many more on their way.
LEMMA AbandonFacts ==
    ASSUME LegacyInv, NEW gone \in SUBSET Runs, Abandon(gone)
    PROVE  request' \in [Runs -> {"none", "sent", "landed"}] /\ abandoned' \in Nat
<1>1. request \in [Runs -> {"none", "sent", "landed"}] /\ abandoned \in Nat
  BY DEF LegacyInv, RunnerTypeOK
<1>2. {r \in gone : request[r] = "sent"} \in SUBSET Runs
  OBVIOUS
<1>3. Cardinality({r \in gone : request[r] = "sent"}) \in Nat
  BY <1>2, FS_Subset, FS_CardinalityType, LegacyAssumption
<1>4. abandoned' \in Nat
  BY SMT, <1>1, <1>3 DEF Abandon
<1>. QED
  BY <1>1, <1>4 DEF Abandon

\* A step that saves a status and goes to another location.
LEMMA SaveStep ==
    ASSUME LegacyInv, NEW r \in Runs, NEW st \in RunStatus, NEW l \in Location,
           Save(r, st) \/ (st = run[r].status /\ UNCHANGED run),
           Goto(r, l), UNCHANGED <<now, crashes, service, approvals, dispatched>>,
           looping' \in [Runs -> BOOLEAN],
           request' \in [Runs -> {"none", "sent", "landed"}], abandoned' \in Nat,
           run[r].step # 5,
           \A y \in RunRecord : y.status = st /\ y.step = run[r].step =>
               RunOK(y, approvals[r], l, dispatched[r], crashes)
    PROVE  LegacyInv'
<1>. DEFINE y == [run[r] EXCEPT !.status = st]
<1>1. /\ run[r] \in RunRecord /\ approvals[r] \in Seq(Approval) /\ dispatched[r] \in Nat
      /\ Len(approvals[r]) <= MaxApprovals /\ run[r].step \in 1..5
  BY RunFacts
<1>2. y \in RunRecord /\ y.status = st /\ y.step = run[r].step
  BY <1>1, SaveFacts
<1>3. run' = [run EXCEPT ![r] = y]
  BY DEF Save, LegacyInv, RunnerTypeOK, RunRecord
<1>4. /\ approvals' = [approvals EXCEPT ![r] = approvals[r]]
      /\ dispatched' = [dispatched EXCEPT ![r] = dispatched[r]]
      /\ pc' = [pc EXCEPT ![r] = l]
  BY DEF LegacyInv, RunnerTypeOK, Goto
<1>5. RunOK(y, approvals[r], l, dispatched[r], crashes)
  BY <1>2
<1>6. y.step > 4 => y.status = "COMPLETED"
  BY SMT, <1>1, <1>2
<1>. HIDE DEF y
<1>. QED
  BY <1>1, <1>2, <1>3, <1>4, <1>5, <1>6, RunStep

\* What each location and status allows next, for a run y that differs from x in its status.
LEMMA Saves ==
    ASSUME NEW x \in RunRecord, NEW s \in Seq(Approval), NEW l \in Location, NEW n \in Nat,
           NEW c, RunOK(x, s, l, n, c), Cardinality(Granted(s)) \in Nat,
           NEW y \in RunRecord, y.step = x.step
    PROVE  /\ l = "planning" /\ y.status = "PLANNED" => RunOK(y, s, "idle", n, c)
           /\ l = "idle" /\ x.status \in {"PLANNED", "RUNNING"} /\ y.status = "RUNNING"
                => RunOK(y, s, "advance", n, c)
           /\ y.status \in {"EXPIRED", "FAILED"} => RunOK(y, s, "idle", n, c)
           /\ l = "requesting" /\ y.status = "WAITING_APPROVAL" => RunOK(y, s, "idle", n, c)
           /\ l \in Decision \ {"EXPIRED"} /\ y.status = l => RunOK(y, s, "idle", n, c)
           /\ x.status = "APPROVED" /\ l = "idle" /\ y.status = "APPROVED"
                => RunOK(y, s, "observing", n, c)
           /\ l = "observing" /\ y.status = "STALE" => RunOK(y, s, "idle", n, c)
<1>. USE DEF RunOK, Located, Holds, Covered, Uninterrupted, Unasked, Only, Decision
<1>1. ASSUME l = "planning", y.status = "PLANNED" PROVE RunOK(y, s, "idle", n, c)
  BY <1>1
<1>2. ASSUME l = "idle", x.status \in {"PLANNED", "RUNNING"}, y.status = "RUNNING"
      PROVE  RunOK(y, s, "advance", n, c)
  BY <1>2
<1>3. ASSUME y.status \in {"EXPIRED", "FAILED"} PROVE RunOK(y, s, "idle", n, c)
  BY <1>3
<1>4. ASSUME l = "requesting", y.status = "WAITING_APPROVAL" PROVE RunOK(y, s, "idle", n, c)
  BY <1>4
<1>5. ASSUME l \in Decision \ {"EXPIRED"}, y.status = l PROVE RunOK(y, s, "idle", n, c)
  BY <1>5
<1>6. ASSUME x.status = "APPROVED", l = "idle", y.status = "APPROVED"
      PROVE  RunOK(y, s, "observing", n, c)
  BY <1>6
<1>7. ASSUME l = "observing", y.status = "STALE" PROVE RunOK(y, s, "idle", n, c)
  BY <1>7
<1>. HIDE DEF RunOK
<1>. QED
  BY <1>1, <1>2, <1>3, <1>4, <1>5, <1>6, <1>7

\* The steps that save a status.
LEMMA SavesInv ==
    ASSUME LegacyInv, NEW r \in Runs,
           \/ PlanRun(r) \/ Step(r) \/ Deny(r) \/ Wait(r) \/ Fail(r) \/ Settle(r)
           \/ Resume(r) \/ Refuse(r)
    PROVE  LegacyInv'
<1>1. /\ run[r] \in RunRecord /\ approvals[r] \in Seq(Approval) /\ pc[r] \in Location
      /\ dispatched[r] \in Nat /\ run[r].step \in 1..5
      /\ run[r].step = 5 => run[r].status = "COMPLETED"
      /\ RunOK(run[r], approvals[r], pc[r], dispatched[r], crashes)
      /\ Cardinality(Granted(approvals[r])) \in Nat
  BY RunFacts
<1>2. looping \in [Runs -> BOOLEAN] /\ pc \in [Runs -> Location]
  BY DEF LegacyInv, RunnerTypeOK
<1>3. Located(run[r], pc[r])
  BY <1>1 DEF RunOK
<1>4. {"idle", "advance", "observing"} \subseteq Location /\
      {"PLANNED", "RUNNING", "EXPIRED", "FAILED", "WAITING_APPROVAL", "APPROVED", "REJECTED",
       "STALE"} \subseteq RunStatus
  BY DEF Location, RunStatus
<1>. DEFINE OK(st, l) == \A y \in RunRecord : y.status = st /\ y.step = run[r].step =>
                            RunOK(y, approvals[r], l, dispatched[r], crashes)
<1>5. ASSUME NEW st \in RunStatus, NEW l \in {"idle", "advance", "observing"}, OK(st, l),
             Save(r, st) \/ (st = run[r].status /\ UNCHANGED run),
             Goto(r, l) \/ (l = pc[r] /\ UNCHANGED pc),
             Answer(r) \/ UNCHANGED looping \/ looping' = [looping EXCEPT ![r] = TRUE],
             run[r].step # 5,
             UNCHANGED <<sandbox, request>> \/ (Abandon({r}) /\ UNCHANGED service),
             UNCHANGED <<now, crashes, approvals, dispatched>>
      PROVE  LegacyInv'
  <2>1. l \in Location /\ looping' \in [Runs -> BOOLEAN] /\ Goto(r, l)
    BY <1>2, <1>4, <1>5 DEF Answer, Goto
  <2>2. /\ request' \in [Runs -> {"none", "sent", "landed"}] /\ abandoned' \in Nat
        /\ service' = service
    BY <1>5, AbandonFacts DEF sandbox, LegacyInv, RunnerTypeOK
  <2>. QED
    BY <1>5, <2>1, <2>2, SaveStep
<1>6. CASE PlanRun(r)
  <2>1. OK("PLANNED", "idle")
    BY <1>1, <1>6, Saves DEF PlanRun
  <2>2. run[r].step # 5
    BY <1>1, <1>3, <1>6 DEF PlanRun, Located, Holds
  <2>. QED
    BY <1>4, <1>5, <1>6, <2>1, <2>2 DEF PlanRun, Answer
<1>7. CASE Step(r)
  <2>1. OK("EXPIRED", "idle") /\ OK("RUNNING", "advance")
    BY <1>1, <1>7, Saves DEF Step
  <2>2. run[r].step # 5
    BY <1>1, <1>7 DEF Step
  <2>. QED
    BY <1>4, <1>5, <1>7, <2>1, <2>2 DEF Step
<1>8. CASE Deny(r) \/ Fail(r)
  <2>1. OK("FAILED", "idle")
    BY <1>1, Saves
  <2>2. run[r].step # 5
    BY <1>1, <1>3, <1>8 DEF Deny, Fail, Located, Holds
  <2>. QED
    BY <1>4, <1>5, <1>8, <2>1, <2>2 DEF Deny, Fail, Answer
<1>9. CASE Wait(r)
  <2>1. OK("WAITING_APPROVAL", "idle")
    BY <1>1, <1>9, Saves DEF Wait
  <2>2. run[r].step # 5
    BY <1>1, <1>3, <1>9 DEF Wait, Located, Holds
  <2>. QED
    BY <1>4, <1>5, <1>9, <2>1, <2>2 DEF Wait, Answer
<1>10. CASE Settle(r)
  <2>. DEFINE st == IF pc[r] = "EXPIRED" THEN "FAILED" ELSE pc[r]
  <2>1. OK(st, "idle") /\ st \in RunStatus
    BY <1>1, <1>4, <1>10, Saves DEF Settle, Decision
  <2>2. run[r].step # 5
    BY <1>1, <1>3, <1>10 DEF Settle, Located, Holds
  <2>. QED
    BY <1>4, <1>5, <1>10, <2>1, <2>2 DEF Settle, Answer
<1>11. CASE Resume(r)
  <2>1. OK("EXPIRED", "idle") /\ OK("FAILED", "idle") /\ OK(run[r].status, "observing")
    BY <1>1, <1>11, Saves DEF Resume
  <2>2. run[r].step # 5
    BY <1>1, <1>11 DEF Resume
  <2>3. run[r].status \in RunStatus
    BY <1>4, <1>11 DEF Resume
  <2>. QED
    BY <1>4, <1>5, <1>11, <2>1, <2>2, <2>3 DEF Resume
<1>12. CASE Refuse(r)
  <2>1. OK("FAILED", "idle") /\ OK("STALE", "idle")
    BY <1>1, <1>12, Saves DEF Refuse
  <2>2. run[r].step # 5
    BY <1>1, <1>3, <1>12 DEF Refuse, Located, Holds
  <2>3. PICK st \in {"FAILED", "STALE"} : Save(r, st)
    BY <1>12 DEF Refuse
  <2>4. OK(st, "idle") /\ st \in RunStatus
    BY <2>1, <2>3 DEF RunStatus
  <2>. QED
    BY <1>4, <1>5, <1>12, <2>2, <2>3, <2>4 DEF Refuse, Answer
<1>. QED
  BY <1>6, <1>7, <1>8, <1>9, <1>10, <1>11, <1>12

\* The steps that change more of the run, or the approvals.
LEMMA CreateInv == ASSUME LegacyInv, NEW r \in Runs, CreateRun(r) PROVE LegacyInv'
<1>. DEFINE e == now + RunTtl
            x == [run[r] EXCEPT !.status = "CREATED", !.expires = e]
<1>1. /\ run[r] \in RunRecord /\ approvals[r] \in Seq(Approval) /\ pc[r] \in Location
      /\ dispatched[r] \in Nat /\ run[r].step \in 1..5
      /\ Len(approvals[r]) <= MaxApprovals
      /\ run[r].step = 5 => run[r].status = "COMPLETED"
      /\ RunOK(run[r], approvals[r], pc[r], dispatched[r], crashes)
  BY RunFacts
<1>2. e \in 0..(MaxNow + RunTtl)
  BY SMT, LegacyAssumption DEF LegacyInv, RunnerTypeOK
<1>. HIDE DEF e
<1>3. x \in RunRecord /\ x.status = "CREATED" /\ x.step = run[r].step
  BY <1>1, <1>2 DEF RunRecord, RunStatus
<1>4. run' = [run EXCEPT ![r] = x] /\ run[r].status = "NONE"
  BY DEF CreateRun, e
<1>. HIDE DEF x
<1>5. RunOK(x, approvals[r], "planning", dispatched[r], crashes)
  BY <1>1, <1>3, <1>4 DEF RunOK, Located, Holds, Covered, Uninterrupted, Unasked, Only, Decision
<1>6. /\ approvals' = [approvals EXCEPT ![r] = approvals[r]]
      /\ dispatched' = [dispatched EXCEPT ![r] = dispatched[r]]
      /\ pc' = [pc EXCEPT ![r] = "planning"] /\ "planning" \in Location
      /\ looping' \in [Runs -> BOOLEAN]
      /\ request' \in [Runs -> {"none", "sent", "landed"}] /\ abandoned' \in Nat
      /\ UNCHANGED <<now, crashes, service>>
  BY DEF CreateRun, sandbox, LegacyInv, RunnerTypeOK, Goto, Location
<1>7. x.step > 4 => x.status = "COMPLETED"
  BY SMT, <1>1, <1>3, <1>4
<1>. QED
  BY <1>1, <1>3, <1>4, <1>5, <1>6, <1>7, RunStep

\* A run that is in the middle of _advance or _execute has a pending action.
LEMMA PendingFacts ==
    ASSUME LegacyInv, NEW r \in Runs, pc[r] \in {"advance", "exec", "observing"}
    PROVE  /\ run[r].step \in 1..4
           /\ Pending(r) = "restart" <=> run[r].step = RestartStep
<1>1. /\ run[r].step \in 1..5
      /\ run[r].step = 5 => run[r].status = "COMPLETED"
      /\ Located(run[r], pc[r])
  BY RunFacts DEF RunOK
<1>2. run[r].step \in 1..4
  BY SMT, <1>1 DEF Located, Holds
<1>. QED
  BY <1>2, PlanFacts DEF Pending

LEMMA SkipInv == ASSUME LegacyInv, NEW r \in Runs, Skip(r) PROVE LegacyInv'
<1>. DEFINE x == [run[r] EXCEPT !.step = @ + 1]
<1>1. /\ run[r] \in RunRecord /\ approvals[r] \in Seq(Approval) /\ pc[r] = "advance"
      /\ dispatched[r] \in Nat /\ Len(approvals[r]) <= MaxApprovals
      /\ run[r].step = RestartStep
      /\ RunOK(run[r], approvals[r], pc[r], dispatched[r], crashes)
  BY RunFacts, PendingFacts DEF Skip, Skips
<1>2. x \in RunRecord /\ x.status = run[r].status /\ x.step = 4
  BY SMT, <1>1, PlanFacts DEF RunRecord, RestartStep
<1>3. run' = [run EXCEPT ![r] = x]
  BY DEF Skip, sandbox, LegacyInv, RunnerTypeOK, RunRecord
<1>. HIDE DEF x
<1>4. RunOK(x, approvals[r], "idle", dispatched[r], crashes)
  BY <1>1, <1>2
     DEF RunOK, Located, Holds, Covered, Uninterrupted, Unasked, Only, Decision, RestartStep
<1>5. /\ approvals' = [approvals EXCEPT ![r] = approvals[r]]
      /\ dispatched' = [dispatched EXCEPT ![r] = dispatched[r]]
      /\ pc' = [pc EXCEPT ![r] = "idle"] /\ "idle" \in Location
      /\ looping' \in [Runs -> BOOLEAN]
      /\ request' \in [Runs -> {"none", "sent", "landed"}] /\ abandoned' \in Nat
      /\ UNCHANGED <<now, crashes, service>>
  BY DEF Skip, sandbox, LegacyInv, RunnerTypeOK, Answer, Goto, Location
<1>6. x.step > 4 => x.status = "COMPLETED"
  BY SMT, <1>2
<1>. QED
  BY <1>1, <1>2, <1>3, <1>4, <1>5, <1>6, RunStep

LEMMA RequestInv == ASSUME LegacyInv, NEW r \in Runs, RequestApproval(r) PROVE LegacyInv'
<1>. DEFINE e == IF now + ApprovalTtl > run[r].expires THEN run[r].expires
                                                       ELSE now + ApprovalTtl
            a == [status |-> "PENDING", expires |-> e]
            s == Append(approvals[r], a)
<1>1. /\ run[r] \in RunRecord /\ approvals[r] \in Seq(Approval) /\ pc[r] = "advance"
      /\ dispatched[r] \in Nat /\ Len(approvals[r]) < MaxApprovals
      /\ run[r].step = RestartStep
      /\ RunOK(run[r], approvals[r], pc[r], dispatched[r], crashes)
  BY RunFacts, PendingFacts DEF RequestApproval, NeedsApproval
<1>2. e \in 0..(MaxNow + ApprovalTtl)
  <2>1. now \in 0..MaxNow /\ run[r].expires \in 0..(MaxNow + RunTtl)
    BY <1>1 DEF LegacyInv, RunnerTypeOK, RunRecord
  <2>. QED
    BY SMT, <2>1, LegacyAssumption
<1>3. approvals' = [approvals EXCEPT ![r] = s]
  BY DEF RequestApproval, sandbox, LegacyInv, RunnerTypeOK
<1>. HIDE DEF e
<1>4. a \in Approval /\ a.status = "PENDING"
  BY <1>2 DEF Approval
<1>. HIDE DEF a
<1>5. /\ s \in Seq(Approval) /\ Len(s) = Len(approvals[r]) + 1
      /\ s[Len(approvals[r]) + 1].status = "PENDING"
      /\ Granted(s) = Granted(approvals[r])
  BY <1>1, <1>4, AppendFacts
<1>. HIDE DEF s
<1>6. RunOK(run[r], s, "requesting", dispatched[r], crashes)
  BY SMT, <1>1, <1>5
     DEF RunOK, Located, Holds, Covered, Uninterrupted, Unasked, Only, Decision, RestartStep
<1>7. /\ run' = [run EXCEPT ![r] = run[r]]
      /\ dispatched' = [dispatched EXCEPT ![r] = dispatched[r]]
      /\ pc' = [pc EXCEPT ![r] = "requesting"] /\ "requesting" \in Location
      /\ looping' \in [Runs -> BOOLEAN]
      /\ request' \in [Runs -> {"none", "sent", "landed"}] /\ abandoned' \in Nat
      /\ UNCHANGED <<now, crashes, service>>
  BY DEF RequestApproval, sandbox, LegacyInv, RunnerTypeOK, Goto, Location
<1>8. Len(s) <= MaxApprovals /\ (run[r].step > 4 => run[r].status = "COMPLETED")
  BY SMT, <1>1, <1>5, LegacyAssumption DEF RestartStep
<1>. QED
  BY <1>1, <1>3, <1>5, <1>6, <1>7, <1>8, RunStep

\* A restart is handed to the executor by the revalidation only.
LEMMA ExecuteInv == ASSUME LegacyInv, NEW r \in Runs, Execute(r) PROVE LegacyInv'
<1>1. /\ run[r] \in RunRecord /\ approvals[r] \in Seq(Approval) /\ pc[r] = "advance"
      /\ dispatched[r] \in Nat /\ Len(approvals[r]) <= MaxApprovals
      /\ run[r].step \in 1..4 /\ run[r].step # RestartStep /\ Pending(r) # "restart"
      /\ RunOK(run[r], approvals[r], pc[r], dispatched[r], crashes)
  BY RunFacts, PendingFacts DEF Execute, NeedsApproval
<1>2. RunOK(run[r], approvals[r], "exec", dispatched[r], crashes)
  BY <1>1 DEF RunOK, Located, Holds, Covered, Uninterrupted, Unasked, Only, Decision, RestartStep
<1>3. /\ run' = [run EXCEPT ![r] = run[r]]
      /\ approvals' = [approvals EXCEPT ![r] = approvals[r]]
      /\ dispatched' = [dispatched EXCEPT ![r] = dispatched[r]]
      /\ pc' = [pc EXCEPT ![r] = "exec"] /\ "exec" \in Location
      /\ looping' \in [Runs -> BOOLEAN]
      /\ request' \in [Runs -> {"none", "sent", "landed"}] /\ abandoned' \in Nat
      /\ UNCHANGED <<now, crashes, service>>
  BY <1>1 DEF Execute, Dispatch, sandbox, LegacyInv, RunnerTypeOK, Goto, Location
<1>4. run[r].step > 4 => run[r].status = "COMPLETED"
  BY SMT, <1>1
<1>. QED
  BY <1>1, <1>2, <1>3, <1>4, RunStep

\* The answer completes the run after its last action, and only then.
LEMMA SucceedInv == ASSUME LegacyInv, NEW r \in Runs, Succeed(r) PROVE LegacyInv'
<1>1. /\ run[r] \in RunRecord /\ approvals[r] \in Seq(Approval) /\ pc[r] = "exec"
      /\ dispatched[r] \in Nat /\ Len(approvals[r]) <= MaxApprovals
      /\ run[r].step \in 1..4
      /\ RunOK(run[r], approvals[r], pc[r], dispatched[r], crashes)
  BY RunFacts, PendingFacts DEF Succeed
<1>2. run[r].status = "RUNNING" /\ service \in Observed
  BY <1>1 DEF RunOK, Located, Holds, LegacyInv, RunnerTypeOK
<1>3. PICK bad \in BOOLEAN :
        run' = [run EXCEPT ![r].step = run[r].step + 1,
                           ![r].status = IF run[r].step = Len(Plan) THEN "COMPLETED" ELSE @,
                           ![r].seen = IF Pending(r) = "diagnose" THEN service ELSE @,
                           ![r].evidence = IF Pending(r) = "logs" THEN bad ELSE @]
  BY DEF Succeed
<1>. DEFINE n == run[r].step + 1
            st == IF run[r].step = Len(Plan) THEN "COMPLETED" ELSE run[r].status
            ob == IF Pending(r) = "diagnose" THEN service ELSE run[r].seen
            ev == IF Pending(r) = "logs" THEN bad ELSE run[r].evidence
            x == Ended(run[r], n, st, ob, ev)
<1>4. run' = [run EXCEPT ![r] = x]
  BY <1>3 DEF Ended
<1>5. /\ n \in 2..5 /\ n = run[r].step + 1 /\ ob \in Observed /\ ev \in BOOLEAN
      /\ st = IF run[r].step = 4 THEN "COMPLETED" ELSE "RUNNING"
  BY SMT, <1>1, <1>2, <1>3, PlanFacts DEF RunRecord
<1>. HIDE DEF n, st, ob, ev
<1>6. x \in RunRecord /\ x.step = n /\ x.status = st
  <2>1. /\ run[r] \in RunRecord /\ n \in 1..5 /\ st \in RunStatus
        /\ ob \in Observed /\ ev \in BOOLEAN
    BY SMT, <1>1, <1>5 DEF RunStatus
  <2>. QED
    BY SMTT(30), <2>1, AnswerFacts
<1>. HIDE DEF x
<1>7. PICK l \in {"idle", "advance"} :
          /\ l = "advance" => run[r].step < 4
          /\ pc' = [pc EXCEPT ![r] = l]
          /\ looping' \in [Runs -> BOOLEAN]
  <2>1. looping \in [Runs -> BOOLEAN]
    BY DEF LegacyInv, RunnerTypeOK
  <2>2. \/ run[r].step < 4 /\ pc' = [pc EXCEPT ![r] = "advance"] /\ UNCHANGED looping
        \/ pc' = [pc EXCEPT ![r] = "idle"] /\ looping' = [looping EXCEPT ![r] = FALSE]
    BY PlanFacts DEF Succeed, Answer, Goto
  <2>. QED
    BY <2>1, <2>2
<1>8. RunOK(x, approvals[r], l, dispatched[r], crashes)
  BY SMT, <1>1, <1>2, <1>5, <1>6, <1>7
     DEF RunOK, Located, Holds, Covered, Uninterrupted, Unasked, Only, Decision, RestartStep
<1>9. /\ approvals' = [approvals EXCEPT ![r] = approvals[r]]
      /\ dispatched' = [dispatched EXCEPT ![r] = dispatched[r]]
      /\ l \in Location
      /\ request' \in [Runs -> {"none", "sent", "landed"}] /\ abandoned' \in Nat
      /\ UNCHANGED <<now, crashes, service>>
  BY <1>7 DEF Succeed, sandbox, LegacyInv, RunnerTypeOK, Location
<1>10. x.step > 4 => x.status = "COMPLETED"
  BY SMT, <1>1, <1>5, <1>6
<1>. QED
  BY <1>1, <1>4, <1>6, <1>7, <1>8, <1>9, <1>10, RunStep

\* approve and reject decide a PENDING approval of a run that waits.
LEMMA DecideInv ==
    ASSUME LegacyInv, NEW r \in Runs, NEW k \in DOMAIN approvals[r], Decide(r, k)
    PROVE  LegacyInv'
<1>1. /\ run[r] \in RunRecord /\ approvals[r] \in Seq(Approval) /\ pc[r] = "idle"
      /\ dispatched[r] \in Nat /\ Len(approvals[r]) <= MaxApprovals
      /\ run[r].step \in 1..5
      /\ approvals[r][k].status = "PENDING" /\ run[r].status = "WAITING_APPROVAL"
      /\ Cardinality(Granted(approvals[r])) \in Nat
      /\ RunOK(run[r], approvals[r], pc[r], dispatched[r], crashes)
  BY RunFacts DEF Decide, CanDecide
<1>2. PICK d \in Decision : /\ approvals' = [approvals EXCEPT ![r][k].status = d]
                            /\ pc' = [pc EXCEPT ![r] = d]
  BY DEF Decide, Goto, Decision
<1>. DEFINE s == Decided(approvals[r], k, d)
<1>3. approvals' = [approvals EXCEPT ![r] = s]
  BY <1>2 DEF Decided
<1>4. /\ s \in Seq(Approval) /\ Len(s) = Len(approvals[r]) /\ s[k].status = d
      /\ Cardinality(Granted(s)) =
            Cardinality(Granted(approvals[r])) + (IF d = "APPROVED" THEN 1 ELSE 0)
  <2>1. approvals[r] \in Seq(Approval) /\ approvals[r][k].status = "PENDING" /\ d \in Decision
    BY <1>1, <1>2
  <2>. QED
    BY <2>1, DecisionFacts
<1>5. k \in 1..Len(approvals[r])
  BY SMT, <1>1
<1>. HIDE DEF s
<1>6. Located(run[r], d)
  BY <1>1 DEF RunOK, Located, Holds, Decision
<1>7. Covered(run[r], s, d, dispatched[r])
  BY SMT, <1>1, <1>4 DEF RunOK, Covered
<1>8. ASSUME crashes = 0 PROVE Uninterrupted(run[r], s, d, dispatched[r])
  <2>1. Only(approvals[r], dispatched[r], "PENDING")
    BY <1>1, <1>8 DEF RunOK, Uninterrupted
  <2>2. Only(s, dispatched[r], d)
    BY SMT, <1>4, <1>5, <2>1 DEF Only
  <2>. QED
    BY <1>1, <2>2 DEF Uninterrupted, Unasked, Decision
<1>9. /\ run' = [run EXCEPT ![r] = run[r]]
      /\ dispatched' = [dispatched EXCEPT ![r] = dispatched[r]]
      /\ d \in Location
      /\ looping' \in [Runs -> BOOLEAN]
      /\ request' \in [Runs -> {"none", "sent", "landed"}] /\ abandoned' \in Nat
      /\ UNCHANGED <<now, crashes, service>>
  BY DEF Decide, sandbox, LegacyInv, RunnerTypeOK, Location
<1>10. run[r].step > 4 => run[r].status = "COMPLETED"
  BY SMT, <1>1 DEF RunOK, Located, Holds, RestartStep
<1>11. RunOK(run[r], s, d, dispatched[r], crashes)
  BY <1>6, <1>7, <1>8 DEF RunOK
<1>12. Len(s) <= MaxApprovals
  BY <1>1, <1>4
<1>. QED
  BY <1>1, <1>2, <1>3, <1>4, <1>9, <1>10, <1>11, <1>12, RunStep

\* The revalidated restart spends the approval to spare.
LEMMA RevalidatedInv == ASSUME LegacyInv, NEW r \in Runs, Revalidated(r) PROVE LegacyInv'
<1>. DEFINE x == [run[r] EXCEPT !.status = "RUNNING"]
            n == dispatched[r] + 1
<1>1. /\ run[r] \in RunRecord /\ approvals[r] \in Seq(Approval) /\ pc[r] = "observing"
      /\ dispatched[r] \in Nat /\ Len(approvals[r]) <= MaxApprovals
      /\ Cardinality(Granted(approvals[r])) \in Nat
      /\ RunOK(run[r], approvals[r], pc[r], dispatched[r], crashes)
  BY RunFacts DEF Revalidated
<1>2. run[r].status = "APPROVED" /\ run[r].step = RestartStep
  BY <1>1 DEF RunOK, Located, Holds
<1>3. Pending(r) = "restart"
  BY <1>1, <1>2, PendingFacts
<1>4. x \in RunRecord /\ x.status = "RUNNING" /\ x.step = RestartStep
  BY <1>1, <1>2, SaveFacts DEF RunStatus
<1>5. run' = [run EXCEPT ![r] = x]
  BY DEF Revalidated, Save
<1>. HIDE DEF x
<1>6. RunOK(x, approvals[r], "exec", n, crashes)
  BY SMT, <1>1, <1>2, <1>4
     DEF RunOK, Located, Holds, Covered, Uninterrupted, Unasked, Only, Decision, RestartStep
<1>7. /\ approvals' = [approvals EXCEPT ![r] = approvals[r]]
      /\ dispatched' = [dispatched EXCEPT ![r] = n]
      /\ pc' = [pc EXCEPT ![r] = "exec"] /\ "exec" \in Location
      /\ looping' \in [Runs -> BOOLEAN]
      /\ request' \in [Runs -> {"none", "sent", "landed"}] /\ abandoned' \in Nat
      /\ UNCHANGED <<now, crashes, service>>
  BY <1>3 DEF Revalidated, Dispatch, sandbox, LegacyInv, RunnerTypeOK, Goto, Location
<1>8. n \in Nat /\ (x.step > 4 => x.status = "COMPLETED")
  BY SMT, <1>1, <1>4 DEF RestartStep
<1>. QED
  BY <1>1, <1>4, <1>5, <1>6, <1>7, <1>8, RunStep

-----------------------------------------------------------------------------
(* Steps of the sandbox, the owner, the clock and the process.             *)

\* The sandbox and the clock change nothing the invariant says of a run.
LEMMA OutsideInv ==
    ASSUME LegacyInv, (\E r \in Runs : Restart(r)) \/ RestartLate \/ Reset \/ Tick
    PROVE  LegacyInv'
<1>1. UNCHANGED <<crashes, run, approvals, pc, looping, dispatched>>
  BY DEF Restart, RestartLate, Reset, Tick
<1>2. now' \in 0..MaxNow
  <2>1. now \in 0..MaxNow
    BY DEF LegacyInv, RunnerTypeOK
  <2>2. UNCHANGED now \/ (now < MaxNow /\ now' = now + 1)
    BY DEF Restart, RestartLate, Reset, Tick
  <2>. QED
    BY SMT, <2>1, <2>2, LegacyAssumption
<1>3. service' \in Observed
  <2>1. ASSUME NEW h \in BOOLEAN, Replace(h) PROVE service' \in Observed
    BY SMT, <2>1, LegacyAssumption DEF Replace, Observed, LegacyInv, RunnerTypeOK
  <2>2. UNCHANGED service \/ Replace(TRUE) \/ Replace(FALSE)
    BY DEF Restart, RestartLate, Reset, Tick, sandbox
  <2>. QED
    BY <2>1, <2>2 DEF LegacyInv, RunnerTypeOK
<1>4. request' \in [Runs -> {"none", "sent", "landed"}]
  BY DEF Restart, RestartLate, Reset, Tick, LegacyInv, RunnerTypeOK
<1>5. abandoned' \in Nat
  <2>1. abandoned \in Nat
    BY DEF LegacyInv, RunnerTypeOK
  <2>2. UNCHANGED abandoned \/ (abandoned > 0 /\ abandoned' = abandoned - 1)
    BY DEF Restart, RestartLate, Reset, Tick, sandbox
  <2>. QED
    BY SMT, <2>1, <2>2
<1>. QED
  BY <1>1, <1>2, <1>3, <1>4, <1>5 DEF LegacyInv, RunnerTypeOK

\* The process dies: every lock is free, and the tables keep what was saved.
LEMMA CrashInv == ASSUME LegacyInv, Crash PROVE LegacyInv'
<1>1. crashes' \in 0..MaxCrashes /\ crashes' # 0
  BY SMT, LegacyAssumption DEF Crash, LegacyInv, RunnerTypeOK
<1>2. /\ pc' \in [Runs -> Location] /\ looping' \in [Runs -> BOOLEAN]
      /\ \A r \in Runs : pc'[r] = "idle"
      /\ UNCHANGED <<now, service, run, approvals, dispatched>>
      /\ request' \in [Runs -> {"none", "sent", "landed"}] /\ abandoned' \in Nat
  BY AbandonFacts DEF Crash, Location
<1>3. ASSUME NEW r \in Runs PROVE RunOK(run[r], approvals[r], "idle", dispatched[r], crashes')
  <2>1. RunOK(run[r], approvals[r], pc[r], dispatched[r], crashes)
    BY DEF LegacyInv
  <2>. QED
    BY <1>1, <2>1 DEF RunOK, Located, Holds, Covered, Decision
<1>. QED
  BY <1>1, <1>2, <1>3 DEF LegacyInv, RunnerTypeOK, Decision

-----------------------------------------------------------------------------
(* Theorems.                                                               *)

LEMMA InitInv == Init => LegacyInv
<1>. SUFFICES ASSUME Init PROVE LegacyInv
  OBVIOUS
<1>1. Granted(<<>>) = {}
  BY SMT DEF Granted
<1>2. Cardinality(Granted(<<>>)) = 0
  BY <1>1, FS_EmptySet
<1>3. /\ now \in 0..MaxNow /\ crashes \in 0..MaxCrashes /\ service \in Observed
      /\ looping \in [Runs -> BOOLEAN] /\ request \in [Runs -> {"none", "sent", "landed"}]
      /\ abandoned \in Nat
      /\ pc \in [Runs -> Location] /\ dispatched \in [Runs -> 0..MaxApprovals]
      /\ approvals \in [Runs -> Seq(Approval)]
  BY SMT, LegacyAssumption DEF Init, Observed, Location
<1>4. run \in [Runs -> RunRecord]
  BY SMT, LegacyAssumption, PlanFacts DEF Init, RunRecord, RunStatus, Observed
<1>5. ASSUME NEW r \in Runs
      PROVE  /\ run[r].status = "NONE" /\ run[r].step = 1 /\ approvals[r] = <<>>
             /\ pc[r] = "idle" /\ dispatched[r] = 0
  BY DEF Init
<1>6. ASSUME NEW r \in Runs
      PROVE  /\ run[r].step > Len(Plan) => run[r].status = "COMPLETED"
             /\ Len(approvals[r]) <= MaxApprovals
  BY SMT, <1>5, PlanFacts, LegacyAssumption
<1>7. ASSUME NEW r \in Runs
      PROVE  RunOK(run[r], approvals[r], pc[r], dispatched[r], crashes)
  BY SMT, <1>2, <1>5 DEF RunOK, Located, Holds, Covered, Uninterrupted, Unasked, Only, Decision
<1>. QED
  BY <1>3, <1>4, <1>5, <1>6, <1>7 DEF LegacyInv, RunnerTypeOK, Decision

LEMMA NextInv == LegacyInv /\ [Next]_vars => LegacyInv'
<1>. SUFFICES ASSUME LegacyInv, [Next]_vars PROVE LegacyInv'
  OBVIOUS
<1>1. ASSUME NEW r \in Runs, CreateRun(r) \/ Step(r) \/ Resume(r) \/ Coroutine(r)
      PROVE  LegacyInv'
  BY <1>1, CreateInv, SavesInv, SkipInv, RequestInv, ExecuteInv, SucceedInv, RevalidatedInv
     DEF Coroutine
<1>2. ASSUME NEW r \in Runs, NEW k \in DOMAIN approvals[r], Decide(r, k) PROVE LegacyInv'
  BY <1>2, DecideInv
<1>3. CASE UNCHANGED vars
  BY <1>3 DEF vars, sandbox, LegacyInv, RunnerTypeOK
<1>. QED
  BY <1>1, <1>2, <1>3, OutsideInv, CrashInv DEF Next

\* The invariant holds in every state the runner reaches.
THEOREM LegacyInvariant == Spec => []LegacyInv
BY InitInv, NextInv, PTL DEF Spec

\* The tables and the coroutines have their types, and a run that is not
\* COMPLETED has a pending action: _advance and _execute never find none.
THEOREM RunnerTypes == Spec => []RunnerTypeOK
<1>1. LegacyInv => RunnerTypeOK
  BY DEF LegacyInv
<1>. QED
  BY <1>1, LegacyInvariant, PTL

\* Of any number of runs none ever hands more restarts to the executor than
\* approvals were granted to it, however often the process dies between two saves.
THEOREM RunnerRestartsAuthorized == Spec => []RestartsAreAuthorized
<1>1. LegacyInv => RestartsAreAuthorized
  BY DEF LegacyInv, RunOK, Covered, Granted, RestartsAreAuthorized
<1>. QED
  BY <1>1, LegacyInvariant, PTL

\* A run that _resume_after_approval left STALE keeps an approval that led to no
\* restart: what went stale was not carried out.
THEOREM RunnerStale == Spec => []StaleDispatchesNothing
<1>1. LegacyInv => StaleDispatchesNothing
  BY DEF LegacyInv, RunOK, Covered, Granted, StaleDispatchesNothing
<1>. QED
  BY <1>1, LegacyInvariant, PTL

\* While the process lives the two tables agree whenever the lock of a run is
\* free: what waits can be decided, what is APPROVED resumed, what is REJECTED
\* was never dispatched.
THEOREM RunnerTablesAgree == Spec => []TablesAgree
<1>1. LegacyInv => TablesAgree
  <2>. SUFFICES ASSUME LegacyInv, crashes = 0, NEW r \in Runs, pc[r] = "idle"
                PROVE  /\ run[r].status = "WAITING_APPROVAL" => Latest(r).status = "PENDING"
                       /\ run[r].status = "APPROVED" => Latest(r).status = "APPROVED"
                       /\ run[r].status = "REJECTED" => dispatched[r] = 0
    BY DEF TablesAgree
  <2>1. Uninterrupted(run[r], approvals[r], pc[r], dispatched[r])
    BY DEF LegacyInv, RunOK
  <2>. QED
    BY <2>1 DEF Uninterrupted, Only, Latest
<1>. QED
  BY <1>1, LegacyInvariant, PTL
=============================================================================
