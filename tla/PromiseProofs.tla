------------------------- MODULE PromiseProofs -------------------------
(***************************************************************************)
(* What IncidentService promises to the client, the operator and the       *)
(* channel: the lifecycle of every incident, whatever happens; and, where  *)
(* the code does not recover from some of the trouble, what holds without  *)
(* that trouble, which each theorem names as its assumption.               *)
(***************************************************************************)
EXTENDS LedgerProofs, FiniteSetTheorems

-----------------------------------------------------------------------------
(* The service implements the lifecycle it promises: every step that moves *)
(* a status, answers a client or posts is an action of IncidentLifecycle,  *)
(* and every other step is invisible there.                                *)

Published == {i \in Incidents : \E k \in RunIds : slack[i][k] > 0}

LEMMA Invisible ==
  ASSUME UNCHANGED <<status, accepted, slack>>
  PROVE  UNCHANGED Lifecycle!lifecycleVars
  BY DEF Lifecycle!lifecycleVars

LEMMA StatusMoves ==
  ASSUME NEW i \in Incidents, NEW from, NEW to, status[i] \in from,
         SetStatus(i, to), UNCHANGED <<accepted, slack>>
  PROVE  /\ Lifecycle!Move(i, from, to)
         /\ UNCHANGED <<accepted, {j \in Incidents : \E k \in RunIds : slack[j][k] > 0}>>
  BY DEF SetStatus, Lifecycle!Move

LEMMA RequestRefines ==
  ASSUME Request
  PROVE  [Lifecycle!LifecycleNext]_(Lifecycle!lifecycleVars)
<1>1. ASSUME NEW i \in Incidents, Duplicate(i)  PROVE Lifecycle!LifecycleNext
  <2>1. Lifecycle!Accept(i)
    BY <1>1 DEF Duplicate, Lifecycle!Accept, storeVars, fileVars
  <2> QED
    BY <2>1 DEF Lifecycle!LifecycleNext
<1>2. ASSUME UNCHANGED <<status, accepted, slack>>
      PROVE  [Lifecycle!LifecycleNext]_(Lifecycle!lifecycleVars)
  BY <1>2, Invisible
<1> QED
  BY <1>1, <1>2 DEF Request, VerifyResolution, Deliver, Review, storeVars, fileVars

LEMMA InvestigateRefines ==
  ASSUME Typed, HandsInv, NEW p \in Procs, InvestigateStep(p)
  PROVE  [Lifecycle!LifecycleNext]_(Lifecycle!lifecycleVars)
<1>0. WorksAlone(p) /\ Standing(p)
  BY InvestigatesAlone DEF HandsInv
<1> PICK i \in Incidents : i = job[p]
  BY <1>0 DEF WorksAlone, Typed, Equipped
<1>1. CASE Mark(p)
  <2>1. Lifecycle!Investigate(i)
    <3>1. status[i] \in Lifecycle!Unsettled \cup {"pending_review"}
      BY <1>0, <1>1 DEF Mark, Goto, Standing, Lifecycle!Unsettled
    <3> QED
      BY <1>1, <3>1, StatusMoves DEF Mark, Lifecycle!Investigate, fileVars
  <2> QED
    BY <2>1 DEF Lifecycle!LifecycleNext
<1>2. CASE Pend(p)
  <2>1. Lifecycle!Propose(i)
    <3>1. status[i] \in {"running"}
      BY <1>0, <1>2 DEF Pend, Standing, RunPC
    <3> QED
      BY <1>2, <3>1, StatusMoves DEF Pend, Lifecycle!Propose, fileVars
  <2> QED
    BY <2>1 DEF Lifecycle!LifecycleNext
<1>3. CASE FailStatus(p)
  <2>1. Lifecycle!Fail(i)
    <3>1. status[i] \in Lifecycle!Unsettled \cup {"pending_review"}
      BY <1>0, <1>3 DEF FailStatus, Goto, Standing, FailPC, Lifecycle!Unsettled
    <3> QED
      BY <1>3, <3>1, StatusMoves DEF FailStatus, Lifecycle!Fail, fileVars
  <2> QED
    BY <2>1 DEF Lifecycle!LifecycleNext
<1>4. ASSUME ~Mark(p), ~Pend(p), ~FailStatus(p)
      PROVE  UNCHANGED <<status, accepted, slack>>
  BY <1>4
     DEF InvestigateStep, Loop, LoopRaises, SignalsRaise, RecordRun, RecordDiagnosis,
         RecordEvidence, RecordOutcome, RunRaises, FailRun, FailEvent, PersistRaises,
         Settle, Raise, storeVars, fileVars
<1> QED
  BY <1>1, <1>2, <1>3, <1>4, Invisible

LEMMA IngressRefines ==
  ASSUME Typed, HandsInv, LedgerInv, NEW h \in Handlers, IngressStep(h)
  PROVE  [Lifecycle!LifecycleNext]_(Lifecycle!lifecycleVars)
<1>0. h \in Procs /\ WorksAlone(h) /\ Standing(h)
  BY IngressAlone DEF HandsInv, Procs
<1> PICK i \in Incidents : i = job[h]
  BY <1>0 DEF WorksAlone, Typed, Equipped
<1>1. CASE ClaimId(h)
  <2>1. Lifecycle!Claim(i)
    <3>1. status[i] \in {"absent"}
      BY <1>0, <1>1 DEF ClaimId, Standing
    <3> QED
      BY <1>1, <3>1, StatusMoves DEF ClaimId, Lifecycle!Claim, fileVars
  <2> QED
    BY <2>1 DEF Lifecycle!LifecycleNext
<1>2. CASE Unclaim(h) \/ RollbackDelete(h)
  <2>1. Lifecycle!Withdraw(i)
    <3>1. pc[h] \in {"unclaim", "rollback_delete"}
      BY <1>2 DEF Unclaim, RollbackDelete
    <3>2. status[i] \in {"queued"} /\ i \notin accepted
      BY <1>0, <3>1 DEF Standing, Claiming, LedgerInv, Owes, Blank
    <3> QED
      BY <1>2, <3>2, StatusMoves
         DEF Unclaim, RollbackDelete, DeleteRow, Lifecycle!Withdraw, fileVars
  <2> QED
    BY <2>1 DEF Lifecycle!LifecycleNext
<1>3. CASE Enqueue(h)
  <2>1. Lifecycle!Accept(i)
    <3>1. status[i] # "absent"
      BY <1>0, <1>3 DEF Enqueue, Standing, Claiming
    <3> QED
      BY <1>3, <3>1 DEF Enqueue, Lifecycle!Accept, storeVars, fileVars
  <2> QED
    BY <2>1 DEF Lifecycle!LifecycleNext
<1>4. CASE \/ TakeSnapshot(h) \/ SnapshotFails(h) \/ LogReceived(h)
           \/ Shed(h) \/ RollbackDiscard(h)
  BY <1>4, Invisible
     DEF TakeSnapshot, SnapshotFails, LogReceived, Shed, RollbackDiscard, storeVars,
         fileVars
<1> QED
  BY <1>1, <1>2, <1>3, <1>4 DEF IngressStep

LEMMA ReviewRefines ==
  ASSUME Typed, HandsInv, LedgerInv, NEW h \in Handlers, ReviewStep(h)
  PROVE  [Lifecycle!LifecycleNext]_(Lifecycle!lifecycleVars)
<1>0. h \in Procs /\ WorksAlone(h) /\ Standing(h)
  BY ReviewsAlone DEF HandsInv, Procs
<1> PICK i \in Incidents : i = job[h]
  BY <1>0 DEF WorksAlone, Typed, Equipped
<1>1. Owes(h, i, rid[h]) /\ (Reviewing(h) => status[i] = "pending_review")
  BY <1>0 DEF LedgerInv, Standing
<1>2. CASE RejectStatus(h)
  <2>1. Lifecycle!CloseRejected(i)
    <3>1. status[i] \in {"pending_review"}
      BY <1>1, <1>2 DEF RejectStatus, Goto, Reviewing
    <3> QED
      BY <1>2, <3>1, StatusMoves DEF RejectStatus, Lifecycle!CloseRejected, fileVars
  <2> QED
    BY <2>1 DEF Lifecycle!LifecycleNext
<1>3. CASE PostSlack(h) \/ PostSlackTimesOut(h)
  <2>1. pc[h] = "slack" /\ rid[h] \in RunIds
    BY <1>1, <1>3 DEF PostSlack, PostSlackTimesOut, Goto, Owes, Reviewing
  <2>2. Published' = Published \cup {i}
    <3>1. /\ slack' = [slack EXCEPT ![i][rid[h]] = @ + 1]
          /\ slack \in [Incidents -> [RunIds -> Nat]]
      BY <1>3 DEF PostSlack, PostSlackTimesOut, ChannelReceives, Typed, TypeOK
    <3>2. \A j \in Incidents, k \in RunIds :
            j # i \/ k # rid[h] => slack'[j][k] = slack[j][k]
      BY ONLY <3>1
    <3>3. slack[i][rid[h]] \in Nat /\ slack'[i][rid[h]] = slack[i][rid[h]] + 1
      BY ONLY <2>1, <3>1, i \in Incidents
    <3>4. slack'[i][rid[h]] > 0
      BY ONLY <3>3
    <3>5. ASSUME NEW j \in Incidents, j # i
          PROVE  (\E k \in RunIds : slack'[j][k] > 0) <=> \E k \in RunIds : slack[j][k] > 0
      BY ONLY <3>2, <3>5
    <3> QED
      BY ONLY <2>1, <3>4, <3>5, i \in Incidents DEF Published
  <2>3. Lifecycle!Publish(i)
    BY <1>1, <1>3, <2>1, <2>2
       DEF PostSlack, PostSlackTimesOut, Lifecycle!Publish, Published, Reviewing,
           storeVars
  <2> QED
    BY <2>3 DEF Lifecycle!LifecycleNext
<1>4. CASE PostStatus(h)
  <2>1. Lifecycle!ClosePosted(i)
    <3>1. /\ status[i] \in {"pending_review"}
          /\ \E k \in RunIds : slack[i][k] > 0
      BY <1>1, <1>4 DEF PostStatus, Goto, Reviewing, Owes
    <3> QED
      BY <1>4, <3>1, StatusMoves DEF PostStatus, Lifecycle!ClosePosted, fileVars
  <2> QED
    BY <2>1 DEF Lifecycle!LifecycleNext
<1>5. CASE \/ SetReview(h) \/ RejectEvent(h) \/ SteerEvent(h) \/ SteerBegin(h)
           \/ WriteHtml(h) \/ PostEvent(h) \/ Reap(h)
  BY <1>5, Invisible
     DEF SetReview, RejectEvent, SteerEvent, SteerBegin, WriteHtml, PostEvent, Reap,
         storeVars, fileVars
<1> QED
  BY <1>2, <1>3, <1>4, <1>5 DEF ReviewStep

(* Recovery proposes what ran: what was never begun has nothing to         *)
(* propose.                                                                *)
LEMMA LifespanRefines ==
  ASSUME LedgerInv, Boot \/ RecoveryStep \/ Crash
  PROVE  [Lifecycle!LifecycleNext]_(Lifecycle!lifecycleVars)
<1>1. ASSUME NEW i \in Incidents, Reconcile(i)  PROVE Lifecycle!LifecycleNext
  <2>1. Lifecycle!Propose(i)
    <3>1. status[i] \in {"running"}
      BY <1>1 DEF Reconcile, Pending, LedgerInv, Ledger
    <3> QED
      BY <1>1, <3>1, StatusMoves DEF Reconcile, Lifecycle!Propose, fileVars
  <2> QED
    BY <2>1 DEF Lifecycle!LifecycleNext
<1>2. CASE Boot \/ Recover \/ BootRaises \/ Crash
  BY <1>2, Invisible DEF Boot, Recover, EnqueueAll, BootRaises, Crash, storeVars, fileVars
<1> QED
  BY <1>1, <1>2 DEF RecoveryStep

(* The service, with its threads, queue, transactions, crashes and         *)
(* restarts, implements the lifecycle of IncidentLifecycle.                *)
THEOREM ServiceImplementsLifecycle == Spec => ImplementsLifecycle
<1>1. Init => Lifecycle!LifecycleInit
  BY DEF Init, Lifecycle!LifecycleInit
<1>2. Typed /\ HandsInv /\ LedgerInv /\ [Next]_vars =>
        [Lifecycle!LifecycleNext]_(Lifecycle!lifecycleVars)
  <2> SUFFICES ASSUME Typed, HandsInv, LedgerInv, [Next]_vars
               PROVE  [Lifecycle!LifecycleNext]_(Lifecycle!lifecycleVars)
    OBVIOUS
  <2>1. CASE Request
    BY <2>1, RequestRefines
  <2>2. ASSUME NEW w \in Workers, Take(w) \/ Load(w)
        PROVE  [Lifecycle!LifecycleNext]_(Lifecycle!lifecycleVars)
    BY <2>2, Invisible DEF Take, Load, storeVars, fileVars
  <2>3. CASE \/ \E w \in Workers : WorkerStep(w)
             \/ \E h \in Handlers : HandlerStep(h)
    BY <2>2, <2>3, InvestigateRefines, IngressRefines, ReviewRefines
       DEF WorkerStep, HandlerStep, Procs
  <2>4. CASE Boot \/ RecoveryStep \/ Crash
    BY <2>4, LifespanRefines
  <2>5. CASE UNCHANGED vars
    BY <2>5, Invisible DEF vars, storeVars, fileVars
  <2> QED
    BY <2>1, <2>3, <2>4, <2>5 DEF Next
<1> QED
  BY <1>1, <1>2, AlwaysTyped, AlwaysInOneHand, AlwaysInTheLedger, PTL
     DEF Spec, ImplementsLifecycle, Lifecycle!LifecycleSpec

-----------------------------------------------------------------------------
(* Without a fault and without a crash.                                    *)

(* What the review of a run reads, and what the audit log owes about it.   *)
Complete(i) ==
  \E k \in RunIds :
    /\ IsLatest(i, k) /\ runs[i][k].outcome \in Completed
    /\ k = attempts[i]
    /\ diagnoses[i][k].verified # "none" /\ diagnoses[i][k].decision = "none"
    /\ runs[i][k].outcome = "diagnosed" => k \in evidence[i]
    /\ [kind |-> runs[i][k].outcome, run |-> k] \in events[i]

Unsent(i) == \A k \in RunIds : slack[i][k] = 0

SentOnce(i) ==
  \A k \in RunIds :
    slack[i][k] <= 1 /\ \A l \in RunIds : slack[i][k] > 0 /\ slack[i][l] > 0 => k = l

(* An incident that no process holds.                                      *)
AtRest(i) ==
  /\ i \in snapshots <=> status[i] \in {"queued", "running", "pending_review"}
  /\ status[i] = "pending_review" => Complete(i)
  /\ status[i] = "posted" => SentOnce(i)
  /\ status[i] # "posted" => Unsent(i)

(* What a run has written so far.                                          *)
Carries(p, i, k) ==
  /\ pc[p] \in {"record_diagnosis", "record_evidence", "record_outcome", "pend"} =>
       runs[i][k].outcome = draft[p].outcome
  /\ pc[p] \in {"record_evidence", "record_outcome", "pend"} =>
       diagnoses[i][k].verified # "none" /\ diagnoses[i][k].decision = "none"
  /\ pc[p] \in {"record_outcome", "pend"} /\ draft[p].outcome = "diagnosed" =>
       k \in evidence[i]
  /\ pc[p] = "pend" => [kind |-> draft[p].outcome, run |-> k] \in events[i]

(* An incident that a process works on.                                    *)
InWork(p, i, k) ==
  /\ pc[p] # "unclaim"
  /\ i \in snapshots <=> pc[p] \notin {"insert", "snapshot"}
  /\ pc[p] = "settle" =>
       status[i] = "failed" \/ (status[i] = "pending_review" /\ Complete(i))
  /\ pc[p] \in {"post_event", "post_status"} \/ status[i] = "posted" => SentOnce(i)
  /\ pc[p] \notin {"post_event", "post_status"} /\ status[i] # "posted" => Unsent(i)
  /\ Carries(p, i, k)

CalmInv ==
  /\ \A i \in Incidents : (\A p \in Procs : job[p] # i) => AtRest(i)
  /\ \A p \in Procs : pc[p] # "idle" => InWork(p, job[p], rid[p])
  /\ phase # "up" => \A i \in Incidents : status[i] = "absent"

(* An operation that never raises does not.                                *)
LEMMA NoFault ==
  ASSUME Typed, MaxFaults = 0
  PROVE  ~Fault
  BY DEF Typed, TypeOK, Fault

(* A step of a process disturbs no other incident.                         *)
LEMMA AloneKeepsCalm ==
  ASSUME Typed, HandsInv, CalmInv, NEW p \in Procs, WorksAlone(p),
         NEW i \in Incidents, i = job[p], NEW k, k = rid'[p],
         \/ pc'[p] = "idle" /\ AtRest(i)'
         \/ pc'[p] # "idle" /\ InWork(p, i, k)'
  PROVE  CalmInv'
<1>1. ASSUME NEW j \in Incidents, \A q \in Procs : job'[q] # j  PROVE AtRest(j)'
  <2>1. CASE j = i
    BY <1>1, <2>1 DEF WorksAlone
  <2>2. CASE j # i
    <3>1. \A q \in Procs : job[q] # j
      BY <1>1, <2>2 DEF WorksAlone, StandsBy
    <3>2. AtRest(j) /\ Untouched(j)
      BY <2>2, <3>1 DEF CalmInv, WorksAlone
    <3> QED
      BY ONLY <3>2
         DEF Untouched, AtRest, Complete, Unsent, SentOnce, IsLatest, Listed
  <2> QED
    BY <2>1, <2>2
<1>2. ASSUME NEW q \in Procs, pc'[q] # "idle"  PROVE InWork(q, job[q], rid[q])'
  <2>1. CASE q = p
    <3>1. job'[p] = i /\ rid'[p] = k /\ InWork(p, i, k)'
      BY <1>2, <2>1 DEF WorksAlone
    <3> QED
      BY ONLY <2>1, <3>1 DEF InWork, Carries
  <2>2. CASE q # p
    <3>1. StandsBy(q) /\ InWork(q, job[q], rid[q])
      BY <1>2, <2>2 DEF WorksAlone, StandsBy, CalmInv
    <3>2. job[q] \in Incidents /\ job[q] # job[p]
      BY <1>2, <2>2, <3>1, ConstantsAssumption DEF StandsBy, Typed, Equipped, HandsInv, Sole
    <3>3. Untouched(job[q])
      BY <3>2 DEF WorksAlone
    <3> QED
      BY ONLY <3>1, <3>3
         DEF StandsBy, Untouched, InWork, Carries, Complete, Unsent, SentOnce, IsLatest,
             Listed
  <2> QED
    BY <2>1, <2>2
<1>3. phase' = "up"
  BY DEF WorksAlone, HandsInv, QuietUnlessUp
<1> QED
  BY <1>1, <1>2, <1>3 DEF CalmInv

(* The last write of a run completes it: it is the latest run, and all its *)
(* rows are there.                                                         *)
LEMMA PendCompletes ==
  ASSUME Typed, RowInv, NEW p \in Procs, pc[p] = "pend", NEW i \in Incidents, i = job[p],
         Carries(p, i, rid[p]),
         UNCHANGED <<runs, diagnoses, evidence, events, attempts>>
  PROVE  Complete(i)'
<1>1. PICK k \in RunIds : k = rid[p]
  BY DEF Typed, Equipped, RunPC
<1>2. RowsInOrder(i) /\ k = attempts[i]
  BY <1>1 DEF RowInv, WritesOnce, Writing, RunPC
<1>3. /\ runs[i][k].outcome = draft[p].outcome
      /\ diagnoses[i][k].verified # "none" /\ diagnoses[i][k].decision = "none"
      /\ draft[p].outcome = "diagnosed" => k \in evidence[i]
      /\ [kind |-> draft[p].outcome, run |-> k] \in events[i]
  BY <1>1 DEF Carries
<1>4. runs[i][k].outcome \in Completed
  BY <1>2, <1>3 DEF RowsInOrder
<1>5. IsLatest(i, k)
  <2>1. k \in Listed(i)
    BY <1>4 DEF Listed, Completed
  <2>2. ASSUME NEW l \in Listed(i)  PROVE l <= k
    <3>1. l \in RunIds /\ ~(l > attempts[i])
      BY <1>2, <2>2 DEF Listed, RowsInOrder, NoRows
    <3> QED
      BY <1>2, <3>1, ConstantsAssumption DEF RunIds
  <2> QED
    BY <2>1, <2>2 DEF IsLatest
<1>6. Complete(i)
  BY ONLY <1>2, <1>3, <1>4, <1>5 DEF Complete
<1> QED
  BY ONLY <1>6, UNCHANGED <<runs, diagnoses, evidence, events, attempts>>
     DEF Complete, IsLatest, Listed

(* A complete run stays so while the audit log grows.                      *)
LEMMA StaysComplete ==
  ASSUME NEW i, Complete(i), UNCHANGED <<runs, diagnoses, evidence, attempts>>,
         events[i] \subseteq events'[i]
  PROVE  Complete(i)'
  BY DEF Complete, IsLatest, Listed

LEMMA InvestigateKeepsCalm ==
  ASSUME MaxFaults = 0, Typed, HandsInv, RowInv, CalmInv, NEW p \in Procs,
         InvestigateStep(p)
  PROVE  CalmInv'
<1>0. /\ WorksAlone(p) /\ Standing(p) /\ ~Fault
      /\ pc \in [Procs -> PC] /\ status \in [Incidents -> Statuses]
      /\ runs \in [Incidents -> [RunIds -> RunRow]]
      /\ diagnoses \in [Incidents -> [RunIds -> Diagnosis]]
      /\ evidence \in [Incidents -> SUBSET RunIds]
      /\ events \in [Incidents -> SUBSET Event]
  BY InvestigatesAlone, NoFault DEF HandsInv, Typed, TypeOK
<1> PICK i \in Incidents : i = job[p]
  BY <1>0 DEF WorksAlone, Typed, Equipped
<1>1. PICK k : k = rid[p]
  OBVIOUS
<1>2. pc[p] \in RunPC \cup FailPC \cup {"settle"}
  <2>1. ~Raise(p) /\ ~RunRaises(p) /\ ~PersistRaises(p)
    BY <1>0 DEF Raise, RunRaises, PersistRaises
  <2> QED
    BY <2>1
       DEF InvestigateStep, Mark, Loop, LoopRaises, SignalsRaise, RecordRun, RecordDiagnosis,
           RecordEvidence, RecordOutcome, Pend, FailRun, FailEvent, FailStatus, Settle,
           Goto, RunPC, FailPC
<1>3. /\ InWork(p, i, k) /\ i \in snapshots /\ status[i] # "posted" /\ Unsent(i)
  <2>1. InWork(p, i, k)
    BY <1>0, <1>1 DEF WorksAlone, CalmInv
  <2>2. status[i] # "posted"
    BY <1>0, <1>2 DEF Standing, RunPC, FailPC
  <2> QED
    BY ONLY <1>2, <2>1, <2>2 DEF InWork, RunPC, FailPC
<1>a. ASSUME NEW step \in RunPC \cup FailPC, pc' = [pc EXCEPT ![p] = step],
             UNCHANGED <<rid, snapshots, slack>>, status'[i] # "posted",
             Carries(p, i, k)'
      PROVE  CalmInv'
  <2>1. pc'[p] = step
    BY <1>0, <1>a
  <2>2. InWork(p, i, k)'
    BY ONLY <1>3, <1>a, <2>1 DEF InWork, Unsent, RunPC, FailPC
  <2>3. k = rid'[p] /\ pc'[p] # "idle"
    BY ONLY <1>1, <1>a, <2>1 DEF RunPC, FailPC
  <2> QED
    BY <1>0, <2>2, <2>3, AloneKeepsCalm
<1>b. ASSUME NEW step \in {"mark", "loop", "record_run"} \cup FailPC,
             pc' = [pc EXCEPT ![p] = step],
             UNCHANGED <<rid, snapshots, slack>>, status'[i] # "posted"
      PROVE  CalmInv'
  <2>1. Carries(p, i, k)'
    BY <1>0, <1>b DEF Carries, FailPC
  <2> QED
    BY <1>a, <1>b, <2>1 DEF RunPC
<1>c. ASSUME Finish(p), AtRest(i)'  PROVE CalmInv'
  <2>1. PICK l : l = rid'[p]
    OBVIOUS
  <2>2. pc'[p] = "idle"
    BY <1>0, <1>c DEF Finish
  <2> QED
    BY <1>0, <1>c, <2>1, <2>2, AloneKeepsCalm
<1> USE DEF storeVars, fileVars
<1>4. CASE Mark(p)
  BY <1>0, <1>3, <1>4, <1>b DEF Mark, Goto, SetStatus
<1>5. CASE Loop(p) \/ LoopRaises(p) \/ SignalsRaise(p)
  BY <1>3, <1>5, <1>b DEF Loop, LoopRaises, SignalsRaise, Goto, FailPC
<1>6. CASE RecordRun(p)
  <2>1. k \in RunIds /\ pc[p] = "record_run"
    BY <1>1, <1>6 DEF RecordRun, Goto, Typed, Equipped, RunPC
  <2>2. runs'[i][k].outcome = draft'[p].outcome /\ pc'[p] = "record_diagnosis"
    BY <1>0, <1>1, <1>6, <2>1 DEF RecordRun, Goto
  <2>3. Carries(p, i, k)'
    BY ONLY <2>2 DEF Carries
  <2> QED
    BY <1>3, <1>6, <1>a, <2>3 DEF RecordRun, Goto, RunPC
<1>7. CASE RecordDiagnosis(p)
  <2>1. k \in RunIds /\ pc[p] = "record_diagnosis"
    BY <1>1, <1>7 DEF RecordDiagnosis, Goto, Typed, Equipped, RunPC
  <2>2. /\ diagnoses'[i][k].verified # "none" /\ diagnoses'[i][k].decision = "none"
        /\ pc'[p] = "record_evidence" /\ UNCHANGED <<runs, draft>>
    BY <1>0, <1>1, <1>7, <2>1 DEF RecordDiagnosis, Goto
  <2>3. Carries(p, i, k)'
    BY ONLY <1>3, <2>1, <2>2 DEF InWork, Carries
  <2> QED
    BY <1>3, <1>7, <1>a, <2>3 DEF RecordDiagnosis, Goto, RunPC
<1>8. CASE RecordEvidence(p)
  <2>1. /\ draft'[p].outcome = "diagnosed" => k \in evidence'[i]
        /\ pc[p] = "record_evidence" /\ pc'[p] = "record_outcome"
        /\ UNCHANGED <<runs, diagnoses, draft>>
    BY <1>0, <1>1, <1>8 DEF RecordEvidence, Goto
  <2>2. Carries(p, i, k)'
    BY ONLY <1>3, <2>1 DEF InWork, Carries
  <2> QED
    BY <1>3, <1>8, <1>a, <2>2 DEF RecordEvidence, Goto, RunPC
<1>9. CASE RecordOutcome(p)
  <2>1. /\ [kind |-> draft'[p].outcome, run |-> k] \in events'[i]
        /\ pc[p] = "record_outcome" /\ pc'[p] = "pend"
        /\ UNCHANGED <<runs, diagnoses, draft, evidence>>
    BY <1>0, <1>1, <1>9 DEF RecordOutcome, Goto, Log
  <2>2. Carries(p, i, k)'
    BY ONLY <1>3, <2>1 DEF InWork, Carries
  <2> QED
    BY <1>3, <1>9, <1>a, <2>2 DEF RecordOutcome, Goto, RunPC
<1>10. CASE Pend(p)
  <2>1. Complete(i)'
    <3>1. pc[p] = "pend" /\ UNCHANGED <<runs, diagnoses, evidence, events, attempts>>
      BY <1>10 DEF Pend
    <3> QED
      BY <1>1, <1>3, <3>1, PendCompletes DEF InWork
  <2>2. /\ status'[i] = "pending_review" /\ UNCHANGED <<snapshots, slack>>
    BY <1>0, <1>10 DEF Pend, SetStatus
  <2>3. CASE p \in Workers
    <3>1. AtRest(i)'
      BY ONLY <1>3, <2>1, <2>2 DEF AtRest, Unsent
    <3> QED
      BY <1>10, <1>c, <2>3, <3>1 DEF Pend
  <2>4. CASE p \notin Workers
    <3>1. pc'[p] = "settle" /\ rid'[p] = k
      BY <1>0, <1>1, <1>10, <2>4 DEF Pend, Working
    <3>2. InWork(p, i, k)'
      BY ONLY <1>3, <2>1, <2>2, <3>1 DEF InWork, Carries, Unsent
    <3> QED
      BY <1>0, <3>1, <3>2, AloneKeepsCalm
  <2> QED
    BY <2>3, <2>4
<1>11. CASE FailRun(p) \/ FailEvent(p)
  BY <1>3, <1>11, <1>b DEF FailRun, FailEvent, Goto, FailPC
<1>12. CASE FailStatus(p)
  <2>1. /\ pc'[p] = "settle" /\ rid'[p] = k /\ status'[i] = "failed"
        /\ UNCHANGED <<snapshots, slack>>
    BY <1>0, <1>1, <1>12 DEF FailStatus, Goto, SetStatus
  <2>2. InWork(p, i, k)'
    BY ONLY <1>3, <2>1 DEF InWork, Carries, Unsent
  <2> QED
    BY <1>0, <2>1, <2>2, AloneKeepsCalm
<1>13. CASE Settle(p)
  <2>1. /\ pc[p] = "settle" /\ Finish(p)
        /\ UNCHANGED <<status, runs, diagnoses, evidence, events, attempts, slack>>
    BY <1>13 DEF Settle
  <2>2. CASE status[i] = "failed"
    <3>1. snapshots' = snapshots \ {i}
      BY <1>0, <1>13, <2>2 DEF Settle, Discard
    <3>2. AtRest(i)'
      BY ONLY <1>3, <2>1, <2>2, <3>1 DEF AtRest, Unsent
    <3> QED
      BY <1>c, <2>1, <3>2
  <2>3. CASE status[i] # "failed"
    <3>1. UNCHANGED snapshots /\ status[i] = "pending_review" /\ Complete(i)
      BY <1>3, <1>13, <2>1, <2>3 DEF Settle, InWork
    <3>2. Complete(i)'
      BY <2>1, <3>1, StaysComplete
    <3>3. AtRest(i)'
      BY ONLY <1>3, <2>1, <3>1, <3>2 DEF AtRest, Unsent
    <3> QED
      BY <1>c, <2>1, <3>3
  <2> QED
    BY <2>2, <2>3
<1>14. ~Raise(p) /\ ~RunRaises(p) /\ ~PersistRaises(p)
  BY <1>0 DEF Raise, RunRaises, PersistRaises
<1> QED
  BY ONLY InvestigateStep(p), <1>4, <1>5, <1>6, <1>7, <1>8, <1>9, <1>10, <1>11, <1>12,
          <1>13, <1>14
     DEF InvestigateStep

LEMMA IngressKeepsCalm ==
  ASSUME MaxFaults = 0, Typed, HandsInv, CalmInv, NEW h \in Handlers, IngressStep(h)
  PROVE  CalmInv'
<1>0. /\ h \in Procs /\ WorksAlone(h) /\ Standing(h) /\ ~Fault
      /\ pc \in [Procs -> PC] /\ status \in [Incidents -> Statuses]
  BY IngressAlone, NoFault DEF HandsInv, Typed, TypeOK, Procs
<1> PICK i \in Incidents : i = job[h]
  BY <1>0 DEF WorksAlone, Typed, Equipped
<1>1. InWork(h, i, rid[h])
  BY <1>0 DEF WorksAlone, CalmInv
<1>2. PICK k : k = rid'[h]
  OBVIOUS
<1>3. status[i] # "posted" /\ Unsent(i) /\ UNCHANGED slack
  <2>1. pc[h] \in IngressPC /\ UNCHANGED slack
    BY DEF IngressStep, ClaimId, TakeSnapshot, SnapshotFails, Unclaim, LogReceived,
           Enqueue, Shed, RollbackDelete, RollbackDiscard, Goto, IngressPC, fileVars
  <2>2. status[i] # "posted"
    BY ONLY <1>0, <2>1, i = job[h] DEF Standing, Claiming, IngressPC
  <2> QED
    BY ONLY <1>1, <2>1, <2>2 DEF InWork, IngressPC
<1>a. ASSUME NEW step, pc' = [pc EXCEPT ![h] = step],
             step \in {"snapshot", "received", "enqueue", "rollback_delete",
                       "rollback_discard"},
             i \in snapshots' <=> step # "snapshot", status'[i] # "posted"
      PROVE  CalmInv'
  <2>1. pc'[h] = step
    BY <1>0, <1>a
  <2>2. InWork(h, i, k)'
    BY ONLY <1>3, <1>a, <2>1 DEF InWork, Carries, Unsent
  <2> QED
    BY <1>0, <1>2, <1>a, <2>1, <2>2, AloneKeepsCalm
<1>b. ASSUME Finish(h), AtRest(i)'  PROVE CalmInv'
  <2>1. pc'[h] = "idle"
    BY <1>0, <1>b DEF Finish
  <2> QED
    BY <1>0, <1>2, <1>b, <2>1, AloneKeepsCalm
<1> USE DEF storeVars, fileVars
<1>4. CASE ClaimId(h)
  <2>1. pc[h] = "insert" /\ status[i] = "absent"
    BY <1>0, <1>4 DEF ClaimId, Standing
  <2> QED
    BY <1>0, <1>1, <1>4, <1>a, <2>1 DEF ClaimId, SetStatus, Working, InWork
<1>5. CASE TakeSnapshot(h)
  BY <1>3, <1>5, <1>a DEF TakeSnapshot, Working
<1>6. CASE SnapshotFails(h)
  BY <1>0, <1>1, <1>6 DEF SnapshotFails, InWork
<1>7. CASE Unclaim(h)
  BY <1>1, <1>7 DEF Unclaim, InWork
<1>8. CASE LogReceived(h)
  BY <1>1, <1>3, <1>8, <1>a DEF LogReceived, Goto, InWork
<1>9. CASE Enqueue(h)
  <2>1. /\ pc[h] = "enqueue" /\ Finish(h)
        /\ UNCHANGED <<status, snapshots, slack>>
    BY <1>9 DEF Enqueue
  <2>2. status[i] = "queued"
    BY <1>0, <2>1 DEF Standing, Claiming
  <2>3. AtRest(i)'
    BY ONLY <1>1, <1>3, <2>1, <2>2 DEF InWork, AtRest, Unsent
  <2> QED
    BY <1>b, <2>1, <2>3
<1>10. CASE Shed(h)
  BY <1>1, <1>3, <1>10, <1>a DEF Shed, Working, InWork
<1>11. CASE RollbackDelete(h)
  BY <1>0, <1>1, <1>11, <1>a DEF RollbackDelete, DeleteRow, SetStatus, Working, InWork
<1>12. CASE RollbackDiscard(h)
  <2>1. /\ pc[h] = "rollback_discard" /\ Finish(h)
        /\ UNCHANGED <<status, slack>> /\ snapshots' = snapshots \ {i}
    BY <1>0, <1>12 DEF RollbackDiscard, Discard
  <2>2. status[i] = "absent"
    BY <1>0, <2>1 DEF Standing
  <2>3. AtRest(i)'
    BY ONLY <1>3, <2>1, <2>2 DEF AtRest, Unsent
  <2> QED
    BY <1>b, <2>1, <2>3
<1> QED
  BY ONLY IngressStep(h), <1>4, <1>5, <1>6, <1>7, <1>8, <1>9, <1>10, <1>11, <1>12
     DEF IngressStep

LEMMA ReviewKeepsCalm ==
  ASSUME MaxFaults = 0, Typed, HandsInv, CalmInv, NEW h \in Handlers, ReviewStep(h)
  PROVE  CalmInv'
<1>0. /\ h \in Procs /\ WorksAlone(h) /\ Standing(h) /\ ~Fault
      /\ pc \in [Procs -> PC] /\ status \in [Incidents -> Statuses]
  BY ReviewsAlone, NoFault DEF HandsInv, Typed, TypeOK, Procs
<1> PICK i \in Incidents : i = job[h]
  BY <1>0 DEF WorksAlone, Typed, Equipped
<1>1. InWork(h, i, rid[h]) /\ (Reviewing(h) => status[i] = "pending_review")
  BY <1>0 DEF WorksAlone, CalmInv, Standing
<1>2. PICK k : k = rid'[h]
  OBVIOUS
<1>3. pc[h] \in ReviewPC /\ i \in snapshots
  <2>1. pc[h] \in ReviewPC
    BY DEF ReviewStep, SetReview, RejectEvent, RejectStatus, SteerEvent, SteerBegin,
           WriteHtml, PostSlack, PostSlackTimesOut, PostEvent, PostStatus, Reap, Goto,
           ReviewPC
  <2> QED
    BY ONLY <1>1, <2>1 DEF InWork, ReviewPC, Decisions
<1>a. ASSUME NEW step, pc' = [pc EXCEPT ![h] = step],
             step \in {"reject_event", "reject_status", "steer_event", "begin", "mark",
                       "html", "slack", "reap"},
             Reviewing(h), pc[h] \notin {"post_event", "post_status"},
             status'[i] # "posted", UNCHANGED <<snapshots, slack>>
      PROVE  CalmInv'
  <2>1. pc'[h] = step
    BY <1>0, <1>a
  <2>2. InWork(h, i, k)'
    BY ONLY <1>1, <1>3, <1>a, <2>1 DEF InWork, Carries, Unsent
  <2> QED
    BY <1>0, <1>2, <1>a, <2>1, <2>2, AloneKeepsCalm
<1>b. ASSUME NEW step \in {"post_event", "post_status", "reap"},
             pc' = [pc EXCEPT ![h] = step],
             step = "reap" => status'[i] = "posted",
             UNCHANGED snapshots, SentOnce(i)'
      PROVE  CalmInv'
  <2>1. pc'[h] = step
    BY <1>0, <1>b
  <2>2. InWork(h, i, k)'
    BY ONLY <1>3, <1>b, <2>1 DEF InWork, Carries
  <2> QED
    BY <1>0, <1>2, <1>b, <2>1, <2>2, AloneKeepsCalm
<1> USE DEF storeVars, fileVars
<1>4. CASE SetReview(h)
  <2>1. /\ \E step \in {"html", "reject_event", "steer_event"} : Working(h, step)
        /\ pc[h] \in Decisions /\ UNCHANGED <<status, snapshots, slack>>
    BY <1>4 DEF SetReview, Decisions
  <2> QED
    BY <1>1, <1>a, <2>1 DEF Working, Reviewing, Decisions
<1>5. CASE RejectEvent(h) \/ SteerEvent(h) \/ WriteHtml(h) \/ SteerBegin(h)
  BY <1>1, <1>5, <1>a
     DEF RejectEvent, SteerEvent, WriteHtml, SteerBegin, Begin, Goto, Reviewing
<1>6. CASE RejectStatus(h)
  BY <1>0, <1>6, <1>a DEF RejectStatus, Goto, SetStatus, Reviewing
<1>7. CASE PostSlack(h)
  <2>1. /\ slack' = [slack EXCEPT ![i][rid[h]] = @ + 1] /\ pc[h] = "slack"
        /\ slack \in [Incidents -> [RunIds -> Nat]]
    BY <1>7 DEF PostSlack, ChannelReceives, Goto, Typed, TypeOK
  <2>2. Unsent(i)
    BY ONLY <1>1, <2>1 DEF InWork, Reviewing
  <2>3. \A l \in RunIds : /\ slack[i][l] = 0
                          /\ l # rid[h] => slack'[i][l] = slack[i][l]
                          /\ l = rid[h] => slack'[i][l] = slack[i][l] + 1
    BY ONLY <2>1, <2>2, i \in Incidents DEF Unsent
  <2>4. \A l \in RunIds : slack'[i][l] = IF l = rid[h] THEN 1 ELSE 0
    BY ONLY <2>3
  <2>5. SentOnce(i)'
    BY ONLY <2>4 DEF SentOnce
  <2> QED
    BY <1>7, <1>b, <2>5 DEF PostSlack, Goto
<1>8. CASE PostSlackTimesOut(h)
  BY <1>0, <1>8 DEF PostSlackTimesOut
<1>9. CASE PostEvent(h) \/ PostStatus(h)
  <2>1. UNCHANGED <<snapshots, slack>> /\ pc[h] \in {"post_event", "post_status"}
    BY <1>9 DEF PostEvent, PostStatus, Goto
  <2>2. SentOnce(i)'
    BY ONLY <1>1, <2>1 DEF InWork, SentOnce
  <2> QED
    BY <1>0, <1>9, <1>b, <2>1, <2>2 DEF PostEvent, PostStatus, Goto, SetStatus
<1>10. CASE Reap(h)
  <2>1. /\ pc[h] = "reap" /\ Finish(h) /\ pc'[h] = "idle"
        /\ UNCHANGED <<status, slack>> /\ snapshots' = snapshots \ {i}
    BY <1>0, <1>10 DEF Reap, Discard, Finish
  <2>2. status[i] \in {"posted", "rejected"}
    BY <1>0, <2>1 DEF Standing
  <2>3. AtRest(i)'
    BY ONLY <1>1, <2>1, <2>2 DEF InWork, AtRest, Unsent, SentOnce
  <2> QED
    BY <1>0, <1>2, <2>1, <2>3, AloneKeepsCalm
<1> QED
  BY ONLY ReviewStep(h), <1>4, <1>5, <1>6, <1>7, <1>8, <1>9, <1>10 DEF ReviewStep

LEMMA LoadKeepsCalm ==
  ASSUME Typed, HandsInv, CalmInv, NEW w \in Workers, Load(w)
  PROVE  CalmInv'
<1>0. w \in Procs /\ WorksAlone(w) /\ Standing(w)
  BY LoadsAlone DEF HandsInv, Procs
<1> PICK i \in Incidents : i = job[w]
  BY <1>0 DEF WorksAlone, Typed, Equipped
<1>1. PICK k : k = rid'[w]
  OBVIOUS
<1>2. InWork(w, i, rid[w]) /\ pc[w] = "load" /\ status[i] \in {"queued", "running"}
  BY <1>0 DEF WorksAlone, CalmInv, Load, Standing, Pending
<1>3. pc'[w] = "mark" /\ UNCHANGED <<status, snapshots, slack>>
  BY <1>0, <1>2 DEF Load, Begin, storeVars, fileVars, Typed, TypeOK
<1>4. InWork(w, i, k)'
  BY ONLY <1>2, <1>3 DEF InWork, Carries, Unsent
<1> QED
  BY <1>0, <1>1, <1>3, <1>4, AloneKeepsCalm

(* Nothing but the audit log changes, and that only grows.                 *)
LEMMA WatchingKeepsCalm ==
  ASSUME Typed, CalmInv,
         UNCHANGED <<status, runs, diagnoses, evidence, attempts, snapshots, slack>>,
         UNCHANGED <<pc, job, rid, draft>>,
         \A j \in Incidents : events[j] \subseteq events'[j],
         phase' # "up" => \A i \in Incidents : status[i] = "absent"
  PROVE  CalmInv'
<1>1. ASSUME NEW j \in Incidents, \A q \in Procs : job'[q] # j  PROVE AtRest(j)'
  <2>1. AtRest(j)
    BY <1>1 DEF CalmInv
  <2>2. Complete(j) => Complete(j)'
    BY StaysComplete
  <2> QED
    BY ONLY <2>1, <2>2, UNCHANGED <<status, runs, diagnoses, evidence, attempts, snapshots, slack>>
       DEF AtRest, Unsent, SentOnce
<1>2. ASSUME NEW q \in Procs, pc'[q] # "idle"  PROVE InWork(q, job[q], rid[q])'
  <2>1. PICK j \in Incidents : j = job[q]
    BY <1>2 DEF Typed, Equipped
  <2>2. InWork(q, j, rid[q]) /\ events[j] \subseteq events'[j]
    BY <1>2, <2>1 DEF CalmInv
  <2>3. Complete(j) => Complete(j)'
    BY <2>2, StaysComplete
  <2>4. InWork(q, j, rid[q])'
    BY ONLY <2>2, <2>3, UNCHANGED <<status, runs, diagnoses, evidence, attempts, snapshots, slack>>,
            UNCHANGED <<pc, job, rid, draft>>
       DEF InWork, Carries, Unsent, SentOnce
  <2> QED
    BY ONLY <2>1, <2>4, UNCHANGED <<pc, job, rid, draft>> DEF InWork
<1> QED
  BY <1>1, <1>2 DEF CalmInv

(* A process takes up an incident as it finds it.                          *)
LEMMA TakingUpKeepsCalm ==
  ASSUME Typed, HandsInv, CalmInv, NEW p \in Procs, NEW i \in Incidents,
         \A q \in Procs : q # p => StandsBy(q), \A q \in Procs : job[q] # i,
         job'[p] = i, pc'[p] \in {"insert", "load"} \cup Decisions, pc[p] = "idle",
         pc'[p] = "insert" => status[i] = "absent",
         pc'[p] # "insert" => status[i] \in {"queued", "running", "pending_review"},
         phase' = "up",
         UNCHANGED <<status, runs, diagnoses, evidence, events, attempts, snapshots, slack>>
  PROVE  CalmInv'
<1>1. job[p] = NoIncident
  BY DEF HandsInv, Suited
<1>2. ASSUME NEW j \in Incidents, \A q \in Procs : job'[q] # j  PROVE AtRest(j)'
  <2>1. \A q \in Procs : job[q] # j
    BY <1>1, <1>2, ConstantsAssumption DEF StandsBy
  <2>2. AtRest(j)
    BY <2>1 DEF CalmInv
  <2> QED
    BY ONLY <2>2, UNCHANGED <<status, runs, diagnoses, evidence, events, attempts,
                              snapshots, slack>>
       DEF AtRest, Complete, Unsent, SentOnce, IsLatest, Listed
<1>3. ASSUME NEW q \in Procs, pc'[q] # "idle"  PROVE InWork(q, job[q], rid[q])'
  <2>1. CASE q = p
    <3>1. AtRest(i)
      BY DEF CalmInv
    <3>2. InWork(p, i, rid[p])'
      BY ONLY <3>1, pc'[p] \in {"insert", "load"} \cup Decisions,
              pc'[p] = "insert" => status[i] = "absent",
              pc'[p] # "insert" => status[i] \in {"queued", "running", "pending_review"},
              UNCHANGED <<status, runs, diagnoses, evidence, events, attempts,
                          snapshots, slack>>
         DEF AtRest, InWork, Carries, Unsent, Decisions
    <3> QED
      BY ONLY <2>1, <3>2, job'[p] = i DEF InWork
  <2>2. CASE q # p
    <3>1. StandsBy(q) /\ InWork(q, job[q], rid[q])
      BY <1>3, <2>2 DEF StandsBy, CalmInv
    <3> QED
      BY ONLY <3>1, UNCHANGED <<status, runs, diagnoses, evidence, events, attempts,
                                snapshots, slack>>
         DEF StandsBy, InWork, Carries, Complete, Unsent, SentOnce, IsLatest, Listed
  <2> QED
    BY <2>1, <2>2
<1> QED
  BY <1>2, <1>3 DEF CalmInv

(* A client or an operator takes up an incident at rest.                   *)
LEMMA RequestKeepsCalm ==
  ASSUME Typed, HandsInv, CalmInv, Request
  PROVE  CalmInv'
<1>0. /\ pc \in [Procs -> PC] /\ job \in [Procs -> Incidents \cup {NoIncident}]
      /\ rid \in [Procs -> 0..MaxRuns] /\ events \in [Incidents -> SUBSET Event]
  BY DEF Typed, TypeOK
<1> USE DEF storeVars, fileVars, procVars
<1>1. ASSUME NEW i \in Incidents, Duplicate(i) \/ VerifyResolution(i)  PROVE CalmInv'
  <2>1. \A j \in Incidents : events[j] \subseteq events'[j]
    BY <1>0, <1>1 DEF Duplicate, VerifyResolution, Log
  <2>2. /\ phase' = "up"
        /\ UNCHANGED <<status, runs, diagnoses, evidence, attempts, snapshots, slack>>
        /\ UNCHANGED <<pc, job, rid, draft>>
    BY <1>1 DEF Duplicate, VerifyResolution
  <2> QED
    BY <2>1, <2>2, WatchingKeepsCalm
<1>2. ASSUME NEW i \in Incidents, NEW h \in Handlers,
             Deliver(h, i) \/ \E d \in Decisions : Review(h, i, d)
      PROVE  CalmInv'
  <2>1. /\ h \in Procs /\ job'[h] = i /\ pc[h] = "idle"
        /\ pc'[h] \in {"insert"} \cup Decisions
        /\ pc'[h] = "insert" => status[i] = "absent"
        /\ pc'[h] # "insert" => status[i] = "pending_review"
    BY <1>0, <1>2 DEF Deliver, Review, Goto, Procs, Decisions
  <2>2. /\ LockFree(i) /\ phase' = "up"
        /\ UNCHANGED <<status, runs, diagnoses, evidence, events, attempts, snapshots,
                       slack>>
    BY <1>2 DEF Deliver, Review
  <2>3. ASSUME NEW q \in Procs, q # h  PROVE StandsBy(q)
    BY <1>0, <1>2, <2>3 DEF Deliver, Review, Goto, StandsBy
  <2>4. \A q \in Procs : job[q] # i
    BY <2>1, <2>2, FreeMeansUnheld
  <2> QED
    BY <2>1, <2>2, <2>3, <2>4, TakingUpKeepsCalm
<1> QED
  BY <1>1, <1>2 DEF Request

LEMMA TakeKeepsCalm ==
  ASSUME Typed, HandsInv, CalmInv, NEW w \in Workers, Take(w)
  PROVE  CalmInv'
<1>1. PICK i \in Incidents : i = Head(queue)
  BY TailTyped DEF Take, Typed, TypeOK
<1>2. /\ 1 \in DOMAIN queue /\ queue[1] = i
  BY <1>1, TailPlaces DEF Take, Typed, TypeOK
<1>3. /\ w \in Procs /\ \A q \in Procs : job[q] # i
      /\ status[i] \in {"queued", "running"}
  BY <1>2 DEF HandsInv, Sole, Pending, Procs
<1>4. /\ job'[w] = i /\ pc'[w] = "load" /\ pc[w] = "idle" /\ phase' = "up"
      /\ UNCHANGED <<status, runs, diagnoses, evidence, events, attempts, snapshots,
                     slack>>
  BY <1>1, <1>3 DEF Take, Goto, Typed, TypeOK, storeVars, fileVars
<1>5. ASSUME NEW q \in Procs, q # w  PROVE StandsBy(q)
  BY <1>5 DEF Take, Goto, Typed, TypeOK, StandsBy
<1> QED
  BY <1>3, <1>4, <1>5, TakingUpKeepsCalm

(* Nothing is there to recover when nothing ever went wrong.               *)
LEMMA LifespanKeepsCalm ==
  ASSUME MaxFaults = 0, MaxCrashes = 0, Typed, CalmInv, Boot \/ RecoveryStep \/ Crash
  PROVE  CalmInv'
<1>1. ~Fault /\ ~Crash
  BY NoFault DEF Crash, Typed, TypeOK
<1>2. ASSUME NEW i \in Incidents, Reconcile(i)  PROVE FALSE
  BY <1>2 DEF Reconcile, Pending, CalmInv
<1>3. Boot \/ Recover
  BY <1>1, <1>2 DEF RecoveryStep, BootRaises
<1>4. /\ UNCHANGED <<status, runs, diagnoses, evidence, events, attempts, snapshots,
                     slack>>
      /\ UNCHANGED <<pc, job, rid, draft>>
      /\ phase' # "up" => phase # "up"
  BY <1>3 DEF Boot, Recover, EnqueueAll, storeVars, fileVars, procVars
<1> QED
  BY <1>4, WatchingKeepsCalm DEF CalmInv

(* Nothing is delivered yet.                                               *)
LEMMA InitCalm == Init => CalmInv
  BY ConstantsAssumption DEF Init, CalmInv, AtRest, Unsent

LEMMA CalmStep ==
  ASSUME MaxFaults = 0, MaxCrashes = 0
  PROVE  Typed /\ HandsInv /\ RowInv /\ CalmInv /\ [Next]_vars => CalmInv'
<1> SUFFICES ASSUME Typed, HandsInv, RowInv, CalmInv, [Next]_vars  PROVE CalmInv'
  OBVIOUS
<1>1. CASE Request
  BY <1>1, RequestKeepsCalm
<1>2. ASSUME NEW w \in Workers, WorkerStep(w)  PROVE CalmInv'
  BY <1>2, TakeKeepsCalm, LoadKeepsCalm, InvestigateKeepsCalm DEF WorkerStep, Procs
<1>3. ASSUME NEW h \in Handlers, HandlerStep(h)  PROVE CalmInv'
  BY <1>3, IngressKeepsCalm, ReviewKeepsCalm, InvestigateKeepsCalm
     DEF HandlerStep, Procs
<1>4. CASE Boot \/ RecoveryStep \/ Crash
  BY <1>4, LifespanKeepsCalm
<1>5. CASE UNCHANGED vars
  BY <1>5, WatchingKeepsCalm DEF vars, storeVars, fileVars, procVars, CalmInv
<1> QED
  BY <1>1, <1>2, <1>3, <1>4, <1>5 DEF Next

THEOREM AlwaysCalm ==
  ASSUME MaxFaults = 0, MaxCrashes = 0
  PROVE  Spec => []CalmInv
<1>1. Typed /\ HandsInv /\ RowInv /\ CalmInv /\ [Next]_vars => CalmInv'
  BY CalmStep
<1> QED
  BY <1>1, InitCalm, AlwaysTyped, AlwaysInOneHand, RowsAreInOrder, PTL DEF Spec

(* Without a fault and without a crash, an incident under review offers a  *)
(* finished run with everything the review reads and the audit log owes.   *)
THEOREM ReviewsAreComplete ==
  ASSUME MaxFaults = 0, MaxCrashes = 0
  PROVE  Spec => []ReviewIsComplete
<1>1. HandsInv /\ CalmInv => ReviewIsComplete
  <2> SUFFICES ASSUME HandsInv, CalmInv, NEW i \in Incidents,
                      status[i] = "pending_review", LockFree(i)
               PROVE  Complete(i)
    BY DEF ReviewIsComplete, Complete
  <2>1. \A q \in Procs : job[q] # i
    BY FreeMeansUnheld
  <2> QED
    BY <2>1 DEF CalmInv, AtRest
<1>2. Spec => []CalmInv
  BY AlwaysCalm
<1> QED
  BY <1>1, <1>2, AlwaysInOneHand, PTL

(* Without a fault and without a crash, the snapshot is there from the     *)
(* claim to the close and not a moment longer.                             *)
THEOREM SnapshotsLastWhileOpen ==
  ASSUME MaxFaults = 0, MaxCrashes = 0
  PROVE  Spec => []SnapshotWhileOpen
<1>1. CalmInv => SnapshotWhileOpen
  BY DEF CalmInv, AtRest, SnapshotWhileOpen
<1>2. Spec => []CalmInv
  BY AlwaysCalm
<1> QED
  BY <1>1, <1>2, PTL

(* An incident is posted about once at most, and not when it is rejected,  *)
(* whether it is at rest or worked on.                                     *)
LEMMA PostsAreFew ==
  ASSUME Typed, HandsInv, CalmInv, NEW i \in Incidents
  PROVE  SentOnce(i) /\ (status[i] = "rejected" => Unsent(i))
<1>1. Unsent(i) => SentOnce(i)
  BY DEF Unsent, SentOnce
<1>2. CASE \A q \in Procs : job[q] # i
  <2>1. AtRest(i)
    BY <1>2 DEF CalmInv
  <2> QED
    BY ONLY <1>1, <2>1 DEF AtRest
<1>3. ASSUME NEW q \in Procs, job[q] = i
      PROVE  SentOnce(i) /\ (status[i] = "rejected" => Unsent(i))
  <2>1. pc[q] # "idle" /\ Standing(q)
    BY <1>3, ConstantsAssumption DEF HandsInv, Suited
  <2>2. InWork(q, i, rid[q])
    BY <1>3, <2>1 DEF CalmInv
  <2> QED
    BY ONLY <1>1, <1>3, <2>1, <2>2 DEF InWork, Standing, Reviewing
<1> QED
  BY <1>2, <1>3

(* Without a fault and without a crash, the channel receives one message   *)
(* about an incident at most.                                              *)
THEOREM PostsAreSingle ==
  ASSUME MaxFaults = 0, MaxCrashes = 0
  PROVE  Spec => []PostedOnce
<1>1. Typed /\ HandsInv /\ CalmInv => PostedOnce
  BY PostsAreFew DEF PostedOnce, SentOnce
<1>2. Spec => []CalmInv
  BY AlwaysCalm
<1> QED
  BY <1>1, <1>2, AlwaysTyped, AlwaysInOneHand, PTL

(* Without a fault and without a crash, the channel receives no message    *)
(* about an incident that was rejected.                                    *)
THEOREM RejectionsAreSilent ==
  ASSUME MaxFaults = 0, MaxCrashes = 0
  PROVE  Spec => []RejectedPostsNothing
<1>1. Typed /\ HandsInv /\ CalmInv => RejectedPostsNothing
  BY PostsAreFew DEF RejectedPostsNothing, Unsent
<1>2. Spec => []CalmInv
  BY AlwaysCalm
<1> QED
  BY <1>1, <1>2, AlwaysTyped, AlwaysInOneHand, PTL

(* Without a fault and without a crash, an id that was given back can be   *)
(* claimed again: no snapshot directory is left that its claim would fail  *)
(* on.                                                                     *)
THEOREM RetriesAreClean ==
  ASSUME MaxFaults = 0, MaxCrashes = 0
  PROVE  Spec => []CleanRetry
<1>1. HandsInv /\ CalmInv => CleanRetry
  <2> SUFFICES ASSUME HandsInv, CalmInv, NEW i \in Incidents, status[i] = "absent",
                      LockFree(i)
               PROVE  i \notin snapshots
    BY DEF CleanRetry
  <2>1. \A q \in Procs : job[q] # i
    BY FreeMeansUnheld
  <2>2. AtRest(i)
    BY <2>1 DEF CalmInv
  <2> QED
    BY <2>2 DEF AtRest
<1>2. Spec => []CalmInv
  BY AlwaysCalm
<1> QED
  BY <1>1, <1>2, AlwaysInOneHand, PTL

-----------------------------------------------------------------------------
(* Without a fault, a crash orphans nothing if the queue holds every       *)
(* incident; without a crash the size of the queue does not matter.        *)

RoomForAll == IsFiniteSet(Incidents) /\ Cardinality(Incidents) <= QueueMax

(* An investigation that ended has settled its incident.                   *)
Settled(p) == pc[p] = "settle" => status[job[p]] \in {"failed", "pending_review"}

Cared(i) ==
  phase = "up" /\ Pending(i) =>
    (\E a \in DOMAIN queue : queue[a] = i) \/ \E p \in Procs : job[p] = i

CareInv == (\A p \in Procs : Settled(p)) /\ \A i \in Incidents : Cared(i)

(* A service that starts has nothing to recover.                           *)
StartsEmpty == phase # "up" => \A i \in Incidents : status[i] = "absent"

(* A process lets go of its incident when it is settled or queued.         *)
LEMMA AloneKeepsCare ==
  ASSUME Typed, HandsInv, CareInv, NEW p \in Procs, WorksAlone(p),
         NEW i \in Incidents, i = job[p],
         pc'[p] = "settle" => status'[i] \in {"failed", "pending_review"},
         pc'[p] = "idle" => status'[i] \notin {"queued", "running"} \/ Enqueue(p),
         UNCHANGED queue \/ Enqueue(p)
  PROVE  CareInv'
<1>1. ASSUME NEW q \in Procs  PROVE Settled(q)'
  <2>1. CASE q = p
    BY <2>1 DEF WorksAlone, Settled
  <2>2. CASE q # p
    <3>1. /\ StandsBy(q) /\ Settled(q)
          /\ pc[q] = "settle" => job[q] \in Incidents /\ job[q] # job[p]
      BY <2>2, ConstantsAssumption
         DEF WorksAlone, CareInv, Typed, Equipped, HandsInv, Sole
    <3>2. pc[q] = "settle" => Untouched(job[q])
      BY <3>1 DEF WorksAlone
    <3> QED
      BY ONLY <3>1, <3>2 DEF StandsBy, Untouched, Settled
  <2> QED
    BY <2>1, <2>2
<1>2. \A a \in DOMAIN queue : a \in DOMAIN queue' /\ queue'[a] = queue[a]
  <2>1. CASE Enqueue(p)
    BY <2>1 DEF Enqueue, Typed, TypeOK
  <2> QED
    BY <2>1
<1>3. ASSUME NEW j \in Incidents, j # i  PROVE Cared(j)'
  <2>1. Cared(j) /\ status'[j] = status[j] /\ phase' = phase
    BY <1>3 DEF CareInv, WorksAlone, Untouched
  <2>2. ASSUME NEW q \in Procs, job[q] = j  PROVE job'[q] = j
    BY <1>3, <2>2 DEF WorksAlone, StandsBy
  <2> QED
    BY ONLY <1>2, <2>1, <2>2 DEF Cared, Pending
<1>4. Cared(i)'
  <2>1. CASE pc'[p] # "idle"
    <3>1. job'[p] = i
      BY <2>1 DEF WorksAlone
    <3> QED
      BY ONLY <3>1, p \in Procs DEF Cared
  <2>2. CASE Enqueue(p)
    <3>1. \E a \in DOMAIN queue' : queue'[a] = i
      <4>1. /\ queue' = Append(queue, i) /\ queue \in Seq(Incidents)
        BY <2>2 DEF Enqueue, Typed, TypeOK
      <4>2. Len(queue) + 1 \in DOMAIN queue' /\ queue'[Len(queue) + 1] = i
        BY ONLY <4>1, i \in Incidents
      <4> QED
        BY <4>2
    <3> QED
      BY ONLY <3>1 DEF Cared
  <2>3. CASE status'[i] \notin {"queued", "running"}
    BY ONLY <2>3 DEF Cared, Pending
  <2> QED
    BY <2>1, <2>2, <2>3
<1> QED
  BY <1>1, <1>3, <1>4 DEF CareInv

LEMMA InvestigateKeepsCare ==
  ASSUME MaxFaults = 0, Typed, HandsInv, CareInv, NEW p \in Procs, InvestigateStep(p)
  PROVE  CareInv'
<1>0. /\ WorksAlone(p) /\ UNCHANGED queue /\ Settled(p) /\ ~Fault
      /\ pc \in [Procs -> PC] /\ status \in [Incidents -> Statuses]
  BY InvestigatesAlone, NoFault DEF CareInv, Typed, TypeOK
<1> PICK i \in Incidents : i = job[p]
  BY <1>0 DEF WorksAlone, Typed, Equipped
<1>1. SUFFICES pc'[p] \in {"idle", "settle"} => status'[i] \in {"failed", "pending_review"}
  BY <1>0, AloneKeepsCare
<1>2. CASE Pend(p)
  BY <1>0, <1>2 DEF Pend, SetStatus
<1>3. CASE FailStatus(p)
  BY <1>0, <1>3 DEF FailStatus, SetStatus
<1>4. CASE Settle(p)
  BY <1>0, <1>4 DEF Settle, Settled, storeVars
<1>5. CASE \/ Mark(p) \/ Loop(p) \/ LoopRaises(p) \/ SignalsRaise(p)
           \/ RecordRun(p) \/ RecordDiagnosis(p) \/ RecordEvidence(p) \/ RecordOutcome(p)
           \/ FailRun(p) \/ FailEvent(p)
  BY <1>0, <1>5
     DEF Mark, Loop, LoopRaises, SignalsRaise, RecordRun, RecordDiagnosis, RecordEvidence,
         RecordOutcome, FailRun, FailEvent, Goto
<1>6. ~Raise(p) /\ ~RunRaises(p) /\ ~PersistRaises(p)
  BY <1>0 DEF Raise, RunRaises, PersistRaises
<1> QED
  BY ONLY InvestigateStep(p), <1>2, <1>3, <1>4, <1>5, <1>6 DEF InvestigateStep

LEMMA HandlerKeepsCare ==
  ASSUME MaxFaults = 0, Typed, HandsInv, CareInv, NEW h \in Handlers,
         IngressStep(h) \/ ReviewStep(h)
  PROVE  CareInv'
<1>0. /\ h \in Procs /\ WorksAlone(h) /\ (UNCHANGED queue \/ Enqueue(h)) /\ Standing(h)
      /\ ~Fault /\ pc \in [Procs -> PC] /\ status \in [Incidents -> Statuses]
  BY IngressAlone, ReviewsAlone, NoFault DEF HandsInv, Typed, TypeOK, Procs
<1> PICK i \in Incidents : i = job[h]
  BY <1>0 DEF WorksAlone, Typed, Equipped
<1>1. SUFFICES /\ pc'[h] # "settle"
               /\ pc'[h] = "idle" =>
                    status'[i] \in {"absent", "posted", "rejected"} \/ Enqueue(h)
  BY <1>0, AloneKeepsCare
<1>2. CASE ClaimId(h)
  BY <1>0, <1>2 DEF ClaimId, Standing, Working
<1>3. CASE \/ TakeSnapshot(h) \/ SnapshotFails(h) \/ LogReceived(h) \/ Shed(h)
           \/ RollbackDelete(h)
  BY <1>0, <1>3
     DEF TakeSnapshot, SnapshotFails, LogReceived, Shed, RollbackDelete, Working, Goto
<1>4. CASE Unclaim(h)
  BY <1>0, <1>4 DEF Unclaim, DeleteRow, SetStatus, Finish
<1>5. CASE Enqueue(h)
  BY <1>0, <1>5 DEF Enqueue, Finish
<1>6. CASE RollbackDiscard(h) \/ Reap(h)
  BY <1>0, <1>6 DEF RollbackDiscard, Reap, Standing, Finish, storeVars
<1>7. CASE \/ SetReview(h) \/ RejectEvent(h) \/ RejectStatus(h) \/ SteerEvent(h)
           \/ SteerBegin(h) \/ WriteHtml(h) \/ PostSlack(h) \/ PostEvent(h)
           \/ PostStatus(h)
  <2>1. \/ SetReview(h) /\ \E step \in {"html", "reject_event", "steer_event"} : Working(h, step)
        \/ ~SetReview(h)
    BY DEF SetReview, Decisions
  <2> QED
    BY <1>0, <1>7, <2>1
       DEF RejectEvent, RejectStatus, SteerEvent, SteerBegin, WriteHtml, PostSlack,
           PostEvent, PostStatus, Working, Goto, Begin
<1>8. ~PostSlackTimesOut(h)
  BY <1>0 DEF PostSlackTimesOut
<1> QED
  BY <1>2, <1>3, <1>4, <1>5, <1>6, <1>7, <1>8 DEF IngressStep, ReviewStep

LEMMA WorkerKeepsCare ==
  ASSUME Typed, HandsInv, CareInv, NEW w \in Workers, Take(w) \/ Load(w)
  PROVE  CareInv'
<1>0. w \in Procs /\ pc \in [Procs -> PC] /\ job \in [Procs -> Incidents \cup {NoIncident}]
  BY DEF Procs, Typed, TypeOK
<1>1. CASE Load(w)
  <2>1. WorksAlone(w) /\ UNCHANGED queue
    BY <1>1, LoadsAlone
  <2>2. PICK i \in Incidents : i = job[w]
    BY <1>0, <2>1 DEF WorksAlone, Typed, Equipped
  <2>3. /\ pc'[w] = "mark" \/ (pc'[w] = "idle" /\ status[i] = "absent")
        /\ UNCHANGED status
    BY <1>0, <1>1, <2>2 DEF Load, Begin, Finish, storeVars
  <2> QED
    BY <1>0, <2>1, <2>2, <2>3, AloneKeepsCare
<1>2. CASE Take(w)
  <2>1. /\ UNCHANGED <<status, phase>> /\ queue # <<>> /\ queue' = Tail(queue)
        /\ pc'[w] = "load" /\ job'[w] = Head(queue) /\ job[w] = NoIncident
        /\ \A q \in Procs : q # w => StandsBy(q)
    BY <1>0, <1>2 DEF Take, Goto, StandsBy, Typed, TypeOK, storeVars, HandsInv, Suited
  <2>2. \A a \in DOMAIN queue : \/ queue[a] = Head(queue)
                                \/ \E b \in DOMAIN Tail(queue) : Tail(queue)[b] = queue[a]
    <3>1. queue \in Seq(Incidents) /\ queue # <<>>
      BY <2>1 DEF Typed, TypeOK
    <3>2. ASSUME NEW a \in DOMAIN queue, a # 1
          PROVE  a - 1 \in DOMAIN Tail(queue) /\ Tail(queue)[a - 1] = queue[a]
      BY ONLY <3>1, <3>2
    <3>3. Head(queue) = queue[1]
      BY ONLY <3>1
    <3> QED
      BY <3>2, <3>3
  <2>3. ASSUME NEW q \in Procs  PROVE Settled(q)'
    BY <1>0, <2>1 DEF CareInv, Settled, StandsBy
  <2>4. ASSUME NEW j \in Incidents  PROVE Cared(j)'
    <3>1. Cared(j)
      BY DEF CareInv
    <3>2. \A q \in Procs : job[q] = j => job'[q] = j
      BY <2>1, ConstantsAssumption DEF StandsBy
    <3> QED
      BY ONLY <1>0, <2>1, <2>2, <3>1, <3>2 DEF Cared, Pending
  <2> QED
    BY <2>3, <2>4 DEF CareInv
<1> QED
  BY <1>1, <1>2

(* Recovery finds room for every incident that waits.                      *)
LEMMA RecoveryFindsRoom ==
  ASSUME RoomForAll, Recover, NEW i \in Incidents, Pending(i)
  PROVE  \E a \in DOMAIN queue' : queue'[a] = i
<1>1. PICK n \in 0..QueueMax :
        \E s \in [1..n -> {j \in Incidents : Pending(j)}] :
          /\ \A a, b \in 1..n : s[a] = s[b] => a = b
          /\ n < QueueMax =>
               \A j \in {l \in Incidents : Pending(l)} : \E a \in 1..n : s[a] = j
          /\ queue' = s
  BY DEF Recover, EnqueueAll
<1> PICK s \in [1..n -> {j \in Incidents : Pending(j)}] :
          /\ \A a, b \in 1..n : s[a] = s[b] => a = b
          /\ n < QueueMax =>
               \A j \in {l \in Incidents : Pending(l)} : \E a \in 1..n : s[a] = j
          /\ queue' = s
  BY <1>1
<1>2. CASE n < QueueMax
  BY <1>2
<1>3. CASE n = QueueMax
  <2>1. s \in Injection(1..n, Incidents)
    BY DEF Injection, IsInjective
  <2>2. n \in Nat /\ Cardinality(1..n) = n
    <3>1. n \in Int /\ 1 \in Int /\ n \in Nat /\ n >= 1
      BY <1>3, ConstantsAssumption
    <3> QED
      BY <3>1, FS_Interval
  <2>3. Cardinality(1..n) = Cardinality(Incidents)
    <3>1. Cardinality(1..n) <= Cardinality(Incidents)
      BY <2>1, FS_Injection DEF RoomForAll
    <3>2. Cardinality(Incidents) \in Nat
      BY FS_CardinalityType DEF RoomForAll
    <3> QED
      BY <1>3, <2>2, <3>1, <3>2, ConstantsAssumption DEF RoomForAll
  <2>4. s \in Surjection(1..n, Incidents)
    BY <2>1, <2>3, FS_Injection DEF RoomForAll
  <2> QED
    BY <2>4 DEF Surjection
<1> QED
  BY <1>2, <1>3, ConstantsAssumption

LEMMA CareStep ==
  ASSUME MaxFaults = 0
  PROVE  Typed /\ HandsInv /\ CareInv /\ (RoomForAll \/ StartsEmpty) /\ [Next]_vars
           => CareInv'
<1> SUFFICES ASSUME Typed, HandsInv, CareInv, RoomForAll \/ StartsEmpty, [Next]_vars
             PROVE  CareInv'
  OBVIOUS
<1>1. CASE Request
  <2>1. UNCHANGED <<status, queue, phase>>
    BY <1>1 DEF Request, Duplicate, VerifyResolution, Deliver, Review, storeVars
  <2>2. ASSUME NEW q \in Procs
        PROVE  \/ pc'[q] = pc[q] /\ job'[q] = job[q]
               \/ job[q] = NoIncident /\ pc'[q] # "settle"
    <3>1. pc[q] = "idle" => job[q] = NoIncident
      BY DEF HandsInv, Suited
    <3> QED
      BY <1>1, <3>1
         DEF Request, Duplicate, VerifyResolution, Deliver, Review, Goto, procVars,
             Typed, TypeOK, Decisions
  <2>3. ASSUME NEW q \in Procs  PROVE Settled(q)'
    BY <2>1, <2>2 DEF CareInv, Settled
  <2>4. ASSUME NEW j \in Incidents  PROVE Cared(j)'
    <3>1. Cared(j) /\ \A q \in Procs : job[q] = j => job'[q] = j
      BY <2>2, ConstantsAssumption DEF CareInv
    <3> QED
      BY ONLY <2>1, <3>1 DEF Cared, Pending
  <2> QED
    BY <2>3, <2>4 DEF CareInv
<1>2. ASSUME NEW w \in Workers, WorkerStep(w)  PROVE CareInv'
  BY <1>2, WorkerKeepsCare, InvestigateKeepsCare DEF WorkerStep, Procs
<1>3. ASSUME NEW h \in Handlers, HandlerStep(h)  PROVE CareInv'
  BY <1>3, HandlerKeepsCare, InvestigateKeepsCare DEF HandlerStep, Procs
<1>4. CASE Boot \/ RecoveryStep \/ Crash
  <2>1. ASSUME NEW q \in Procs  PROVE pc'[q] = "idle"
    BY <1>4
       DEF Boot, RecoveryStep, Reconcile, Recover, EnqueueAll, BootRaises, Crash,
           procVars, HandsInv, QuietUnlessUp
  <2>2. ASSUME NEW j \in Incidents  PROVE Cared(j)'
    <3>1. CASE phase' # "up"
      BY <3>1 DEF Cared
    <3>2. CASE Recover
      <4>1. UNCHANGED status /\ phase = "recovering"
        BY <3>2 DEF Recover, EnqueueAll, storeVars
      <4>2. CASE RoomForAll
        BY <3>2, <4>1, <4>2, RecoveryFindsRoom DEF Cared, Pending
      <4>3. CASE StartsEmpty
        BY <4>1, <4>3 DEF StartsEmpty, Cared, Pending
      <4> QED
        BY <4>2, <4>3
    <3> QED
      BY <1>4, <3>1, <3>2 DEF Boot, RecoveryStep, Reconcile, BootRaises, Crash
  <2> QED
    BY <2>1, <2>2 DEF CareInv, Settled
<1>5. CASE UNCHANGED vars
  <2>1. UNCHANGED <<status, queue, phase, pc, job>>
    BY <1>5 DEF vars, storeVars, procVars
  <2> QED
    BY ONLY CareInv, <2>1 DEF CareInv, Settled, Cared, Pending
<1> QED
  BY <1>1, <1>2, <1>3, <1>4, <1>5 DEF Next

(* Without a fault an incident that waits for an investigation has         *)
(* somebody to run it while the service is up, whatever crashed before, if *)
(* the queue has room for every incident; and for any queue if nothing has *)
(* crashed.                                                                *)
THEOREM NothingIsOrphaned ==
  ASSUME MaxFaults = 0, MaxCrashes = 0 \/ RoomForAll
  PROVE  Spec => []NoOrphan
<1>1. Init => CareInv
  BY DEF Init, CareInv, Settled, Cared
<1>2. Typed /\ HandsInv /\ CareInv /\ (RoomForAll \/ StartsEmpty) /\ [Next]_vars => CareInv'
  BY CareStep
<1>3. CareInv => NoOrphan
  BY DEF CareInv, Cared, NoOrphan
<1>4. CASE RoomForAll
  <2>1. Typed /\ HandsInv /\ CareInv /\ [Next]_vars => CareInv'
    BY <1>2, <1>4
  <2> QED
    BY <1>1, <1>3, <2>1, AlwaysTyped, AlwaysInOneHand, PTL DEF Spec
<1>5. CASE MaxCrashes = 0
  <2>1. Spec => []CalmInv
    BY <1>5, AlwaysCalm
  <2>2. CalmInv => StartsEmpty
    BY DEF CalmInv, StartsEmpty
  <2> QED
    BY <1>1, <1>2, <1>3, <2>1, <2>2, AlwaysTyped, AlwaysInOneHand, PTL DEF Spec
<1> QED
  BY <1>4, <1>5

-----------------------------------------------------------------------------
(* A diagnosis the loop produced outlives its investigation.               *)

InTable(i, k) == diagnoses[i][k].verified # "none"
InTheRow(i, k) == runs[i][k].outcome = "failed"
InTheLog(i, k) == [kind |-> "failed", run |-> k] \in events[i]

(* What a process that has a diagnosis has left of it so far: a run that   *)
(* fails without a row of the diagnosis has written no row at all, as when *)
(* its signals could not be read, or got where it is by a fault; one that  *)
(* has left it nowhere in the end met a second fault.                      *)
Kept(p, i, k) ==
  draft[p] # NoDraft =>
    /\ pc[p] \in Recording \cup FailPC \cup {"pend", "settle"}
    /\ pc[p] \in {"record_evidence", "record_outcome", "pend"} => InTable(i, k)
    /\ pc[p] = "fail_run" =>
         InTable(i, k) \/ runs[i][k].outcome = "none" \/ faults >= 1
    /\ pc[p] = "fail_event" => InTable(i, k) \/ InTheRow(i, k) \/ faults >= 1
    /\ pc[p] \in {"fail_status", "settle"} =>
         InTable(i, k) \/ InTheRow(i, k) \/ InTheLog(i, k) \/ faults >= 2

KeptInv == \A p \in Procs : Kept(p, job[p], rid[p])

(* What another process does takes nothing away.                           *)
LEMMA AloneKeepsDrafts ==
  ASSUME Typed, HandsInv, KeptInv, NEW p \in Procs, WorksAlone(p),
         faults' \in Nat, faults' >= faults, Kept(p, job[p], rid[p])'
  PROVE  KeptInv'
<1> SUFFICES ASSUME NEW q \in Procs, q # p  PROVE Kept(q, job[q], rid[q])'
  BY DEF KeptInv
<1>1. StandsBy(q) /\ Kept(q, job[q], rid[q])
  BY DEF WorksAlone, KeptInv
<1>2. CASE draft[q] = NoDraft
  BY <1>1, <1>2 DEF Kept, StandsBy
<1>3. CASE draft[q] # NoDraft
  <2>1. pc[q] # "idle"
    BY ONLY <1>1, <1>3 DEF Kept, Recording, FailPC
  <2>2. job[q] \in Incidents /\ job[q] # job[p]
    BY <2>1, ConstantsAssumption DEF Typed, Equipped, HandsInv, Sole
  <2>3. Untouched(job[q]) /\ faults \in Nat
    BY <2>2 DEF WorksAlone, Typed, TypeOK
  <2> QED
    BY ONLY <1>1, <2>3, faults' \in Nat, faults' >= faults
       DEF Kept, InTable, InTheRow, InTheLog, StandsBy, Untouched
<1> QED
  BY <1>2, <1>3

(* A process that has no diagnosis and gets none loses none.               *)
LEMMA WithoutDraft ==
  ASSUME Typed, HandsInv, KeptInv, NEW p \in Procs, WorksAlone(p),
         pc[p] \notin Recording \cup FailPC \cup {"pend", "settle"},
         draft'[p] \in {draft[p], NoDraft}, faults' \in Nat, faults' >= faults
  PROVE  draft[p] = NoDraft /\ KeptInv'
<1>1. draft[p] = NoDraft
  BY DEF KeptInv, Kept
<1>2. Kept(p, job[p], rid[p])'
  BY <1>1 DEF Kept
<1> QED
  BY <1>1, <1>2, AloneKeepsDrafts

(* Faults are counted, never forgotten.                                    *)
LEMMA FaultsGrow ==
  ASSUME Typed, Next
  PROVE  faults' \in Nat /\ faults' >= faults
<1> SUFFICES faults' = faults \/ faults' = faults + 1
  BY ConstantsAssumption DEF Typed, TypeOK
<1>1. ASSUME NEW p \in Procs, InvestigateStep(p)  PROVE UNCHANGED boundVars \/ Fault
  BY <1>1
     DEF InvestigateStep, Mark, Loop, LoopRaises, SignalsRaise, RecordRun, RecordDiagnosis,
         RecordEvidence, RecordOutcome, Pend, RunRaises, FailRun, FailEvent,
         FailStatus, PersistRaises, Settle, Raise, Discard
<1>2. ASSUME NEW h \in Handlers, IngressStep(h)  PROVE UNCHANGED boundVars \/ Fault
  BY <1>2
     DEF IngressStep, ClaimId, TakeSnapshot, SnapshotFails, Unclaim, LogReceived,
         Enqueue, Shed, RollbackDelete, RollbackDiscard, Discard
<1>3. ASSUME NEW h \in Handlers, ReviewStep(h)  PROVE UNCHANGED boundVars \/ Fault
  BY <1>3
     DEF ReviewStep, SetReview, RejectEvent, RejectStatus, SteerEvent, SteerBegin,
         WriteHtml, PostSlack, PostSlackTimesOut, PostEvent, PostStatus, Reap, Discard
<1>4. ASSUME NEW w \in Workers, Take(w) \/ Load(w)  PROVE UNCHANGED boundVars
  BY <1>4 DEF Take, Load
<1>5. Request => UNCHANGED boundVars
  BY DEF Request, Duplicate, VerifyResolution, Deliver, Review
<1>6. Boot \/ RecoveryStep \/ Crash => UNCHANGED boundVars \/ Fault \/ UNCHANGED faults
  BY DEF Boot, RecoveryStep, Reconcile, Recover, EnqueueAll, BootRaises, Crash
<1>7. (UNCHANGED boundVars \/ Fault \/ UNCHANGED faults)
        => faults' = faults \/ faults' = faults + 1
  BY DEF boundVars, Fault
<1> QED
  BY <1>1, <1>2, <1>3, <1>4, <1>5, <1>6, <1>7 DEF Next, WorkerStep, HandlerStep, Procs

(* An investigation records what it found before it ends, or records that  *)
(* it failed.                                                              *)
LEMMA InvestigateKeepsDrafts ==
  ASSUME Typed, HandsInv, RowInv, KeptInv, NEW p \in Procs, InvestigateStep(p),
         faults' \in Nat, faults' >= faults
  PROVE  KeptInv'
<1>0. /\ WorksAlone(p) /\ Kept(p, job[p], rid[p]) /\ faults \in Nat
      /\ pc \in [Procs -> PC] /\ draft \in [Procs -> Draft]
      /\ diagnoses \in [Incidents -> [RunIds -> Diagnosis]]
      /\ events \in [Incidents -> SUBSET Event] /\ rid[p] \in 0..MaxRuns
      /\ runs \in [Incidents -> [RunIds -> RunRow]]
  BY InvestigatesAlone DEF KeptInv, Typed, TypeOK
<1> PICK i \in Incidents : i = job[p]
  BY <1>0 DEF WorksAlone, Typed, Equipped
<1> PICK k : k = rid[p]
  OBVIOUS
<1>1. SUFFICES \/ draft'[p] = NoDraft
               \/ job'[p] = i /\ rid'[p] = k /\ Kept(p, i, k)'
  BY <1>0, AloneKeepsDrafts DEF Kept
<1>2. CASE Mark(p) \/ LoopRaises(p)
  <2>1. draft'[p] = NoDraft
    BY <1>0, <1>2 DEF Mark, LoopRaises, Goto, Kept, Recording, FailPC
  <2> QED
    BY <2>1
<1>3. CASE Loop(p) \/ RecordRun(p)
  BY <1>0, <1>3 DEF Loop, RecordRun, Goto, Kept, Recording, FailPC
<1>4. CASE RecordDiagnosis(p)
  <2>1. /\ pc'[p] = "record_evidence" /\ UNCHANGED <<job, rid>> /\ k \in RunIds
    BY <1>0, <1>4 DEF RecordDiagnosis, Goto, Typed, Equipped, RunPC
  <2>2. diagnoses'[i][k].verified \in {"yes", "no"}
    BY <1>0, <1>4, <2>1 DEF RecordDiagnosis
  <2> QED
    BY ONLY <2>1, <2>2, i = job[p], k = rid[p] DEF Kept, InTable, Recording, FailPC
<1>5. CASE RecordEvidence(p) \/ RecordOutcome(p) \/ FailStatus(p)
  BY <1>0, <1>5
     DEF RecordEvidence, RecordOutcome, FailStatus, Goto, Kept, InTable, InTheRow, InTheLog,
         Recording, FailPC, Log
<1>6. CASE Pend(p)
  BY <1>0, <1>6 DEF Pend, Finish, Working, Kept, InTable, Recording, FailPC
<1>7. CASE RunRaises(p)
  BY <1>0, <1>7 DEF RunRaises, Fault, Working, Kept, FailPC, Recording
<1>8. CASE FailRun(p)
  <2>1. /\ pc[p] = "fail_run" /\ pc'[p] = "fail_event" /\ k \in RunIds
        /\ UNCHANGED <<job, rid, draft, diagnoses, faults>>
    BY <1>0, <1>8 DEF FailRun, Goto, Typed, Equipped, FailPC, boundVars
  <2>2. runs[i][k].outcome = "none" => runs'[i][k].outcome = "failed"
    BY <1>0, <1>8, <2>1 DEF FailRun
  <2> QED
    BY ONLY <1>0, <2>1, <2>2, i = job[p], k = rid[p]
       DEF Kept, InTable, InTheRow, FailPC, Recording
<1>9. CASE FailEvent(p)
  BY <1>0, <1>9 DEF FailEvent, Log, Goto, Kept, InTheLog, FailPC, Recording
<1>10. CASE PersistRaises(p)
  <2>1. /\ pc[p] = "fail_run" /\ Working(p, "fail_event")
        \/ /\ pc[p] = "fail_event" /\ Working(p, "fail_status")
        \/ /\ pc[p] = "fail_status" /\ Working(p, "settle")
    BY <1>10 DEF PersistRaises, FailPC
  <2>2. faults' = faults + 1 /\ UNCHANGED <<runs, diagnoses, events>>
    BY <1>10 DEF PersistRaises, Fault, storeVars
  <2>3. UNCHANGED <<job, rid, draft>>
    BY <2>1 DEF Working
  <2> QED
    BY <1>0, <2>1, <2>2, <2>3
       DEF Working, Kept, InTable, InTheRow, InTheLog, FailPC, Recording
<1>11. CASE Settle(p) \/ Raise(p)
  BY <1>0, <1>11 DEF Settle, Raise, Finish
<1>12. CASE SignalsRaise(p)
  <2>1. pc'[p] = "fail_run" /\ UNCHANGED <<job, rid, runs>> /\ pc[p] = "loop"
    BY <1>0, <1>12 DEF SignalsRaise, Goto, storeVars
  <2>2. runs[i][k].outcome = "none"
    BY <2>1 DEF RowInv, WritesOnce, NoRows
  <2> QED
    BY ONLY <2>1, <2>2, i = job[p], k = rid[p] DEF Kept, FailPC, Recording
<1> QED
  BY ONLY InvestigateStep(p), <1>2, <1>3, <1>4, <1>5, <1>6, <1>7, <1>8, <1>9, <1>10,
          <1>11, <1>12
     DEF InvestigateStep

(* Only an investigation has a diagnosis to lose.                          *)
LEMMA OthersKeepDrafts ==
  ASSUME Typed, HandsInv, KeptInv, Next
  PROVE  \/ \E p \in Procs : InvestigateStep(p)
         \/ KeptInv' /\ \A q \in Procs : draft[q] # NoDraft =>
                           draft'[q] = draft[q] \/ phase' = "down"
<1> SUFFICES ASSUME \A p \in Procs : ~InvestigateStep(p)
             PROVE  KeptInv' /\ \A q \in Procs : draft[q] # NoDraft =>
                                 draft'[q] = draft[q] \/ phase' = "down"
  OBVIOUS
<1>0. /\ pc \in [Procs -> PC] /\ draft \in [Procs -> Draft]
      /\ faults' \in Nat /\ faults' >= faults
  BY FaultsGrow DEF Typed, TypeOK
<1> USE DEF storeVars, fileVars, procVars
<1>1. ASSUME NEW p \in Procs, WorksAlone(p), draft[p] = NoDraft, KeptInv'
      PROVE  KeptInv' /\ \A q \in Procs : draft[q] # NoDraft => draft'[q] = draft[q]
  BY <1>1 DEF WorksAlone, StandsBy
<1>2. ASSUME NEW w \in Workers, Load(w)
      PROVE  WorksAlone(w) /\ draft[w] = NoDraft /\ KeptInv'
  <2>1. /\ w \in Procs /\ pc[w] = "load" /\ draft'[w] \in {draft[w], NoDraft}
        /\ WorksAlone(w)
    BY <1>0, <1>2, LoadsAlone DEF Load, Finish, Begin, Procs
  <2>2. pc[w] \notin Recording \cup FailPC \cup {"pend", "settle"}
    BY ONLY <2>1 DEF Recording, FailPC
  <2> QED
    BY <1>0, <2>1, <2>2, WithoutDraft
<1>3. ASSUME NEW h \in Handlers, IngressStep(h)
      PROVE  WorksAlone(h) /\ draft[h] = NoDraft /\ KeptInv'
  <2>1. h \in Procs /\ WorksAlone(h)
    BY <1>3, IngressAlone DEF Procs
  <2>2. pc[h] \in IngressPC /\ draft'[h] \in {draft[h], NoDraft}
    BY <1>0, <1>3, <2>1
       DEF IngressStep, ClaimId, TakeSnapshot, SnapshotFails, Unclaim, LogReceived,
           Enqueue, Shed, RollbackDelete, RollbackDiscard, Finish, Working, Goto,
           IngressPC
  <2>3. pc[h] \notin Recording \cup FailPC \cup {"pend", "settle"}
    BY ONLY <2>2 DEF Recording, FailPC, IngressPC
  <2> QED
    BY <1>0, <2>1, <2>2, <2>3, WithoutDraft
<1>4. ASSUME NEW h \in Handlers, ReviewStep(h)
      PROVE  WorksAlone(h) /\ draft[h] = NoDraft /\ KeptInv'
  <2>1. h \in Procs /\ WorksAlone(h)
    BY <1>4, ReviewsAlone DEF Procs
  <2>2. pc[h] \in ReviewPC /\ draft'[h] \in {draft[h], NoDraft}
    BY <1>0, <1>4, <2>1
       DEF ReviewStep, SetReview, RejectEvent, RejectStatus, SteerEvent, SteerBegin,
           WriteHtml, PostSlack, PostSlackTimesOut, PostEvent, PostStatus, Reap,
           Finish, Working, Goto, Begin, ReviewPC
  <2>3. pc[h] \notin Recording \cup FailPC \cup {"pend", "settle"}
    BY ONLY <2>2 DEF Recording, FailPC, ReviewPC, Decisions
  <2> QED
    BY <1>0, <2>1, <2>2, <2>3, WithoutDraft
<1>5. ASSUME UNCHANGED <<runs, diagnoses, draft>>,
             \A i \in Incidents : events[i] \subseteq events'[i],
             \A q \in Procs : pc[q] # "idle" =>
               pc'[q] = pc[q] /\ job'[q] = job[q] /\ rid'[q] = rid[q]
      PROVE  KeptInv' /\ \A q \in Procs : draft'[q] = draft[q]
  <2> SUFFICES ASSUME NEW q \in Procs  PROVE Kept(q, job[q], rid[q])'
    BY <1>5 DEF KeptInv
  <2>1. CASE draft[q] = NoDraft
    BY <1>5, <2>1 DEF Kept
  <2>2. CASE draft[q] # NoDraft
    <3>1. Kept(q, job[q], rid[q]) /\ faults \in Nat
      BY DEF KeptInv, Typed, TypeOK
    <3>2. pc[q] # "idle"
      BY ONLY <2>2, <3>1 DEF Kept, Recording, FailPC
    <3>3. job[q] \in Incidents
      BY <3>2 DEF Typed, Equipped
    <3> QED
      BY ONLY <1>0, <1>5, <3>1, <3>2, <3>3 DEF Kept, InTable, InTheRow, InTheLog
  <2> QED
    BY <2>1, <2>2
<1>6. CASE Request
  <2>1. /\ UNCHANGED <<runs, diagnoses, draft>>
        /\ \A q \in Procs : pc[q] # "idle" =>
             pc'[q] = pc[q] /\ job'[q] = job[q] /\ rid'[q] = rid[q]
    BY <1>0, <1>6
       DEF Request, Duplicate, VerifyResolution, Deliver, Review, Goto, Typed, TypeOK
  <2>2. \A i \in Incidents : events[i] \subseteq events'[i]
    <3>1. ASSUME NEW i \in Incidents, NEW kind, Log(i, kind, 0)
          PROVE  \A j \in Incidents : events[j] \subseteq events'[j]
      BY <3>1 DEF Log, Typed, TypeOK
    <3> QED
      BY <1>6, <3>1 DEF Request, Duplicate, VerifyResolution, Deliver, Review
  <2> QED
    BY <1>5, <2>1, <2>2
<1>7. ASSUME NEW w \in Workers, Take(w)
      PROVE  KeptInv' /\ \A q \in Procs : draft'[q] = draft[q]
  <2>1. /\ UNCHANGED <<runs, diagnoses, events, draft>>
        /\ \A q \in Procs : pc[q] # "idle" =>
             pc'[q] = pc[q] /\ job'[q] = job[q] /\ rid'[q] = rid[q]
    BY <1>0, <1>7 DEF Take, Goto, Typed, TypeOK
  <2> QED
    BY <1>5, <2>1
<1>8. CASE Boot \/ RecoveryStep
  <2>1. UNCHANGED <<runs, diagnoses, events, pc, job, rid, draft>>
    BY <1>8 DEF Boot, RecoveryStep, Reconcile, Recover, EnqueueAll, BootRaises
  <2> QED
    BY <1>5, <2>1
<1>9. CASE Crash
  BY <1>9 DEF Crash, KeptInv, Kept
<1> QED
  BY <1>1, <1>2, <1>3, <1>4, <1>6, <1>7, <1>8, <1>9
     DEF Next, WorkerStep, HandlerStep, Procs

LEMMA KeptStep == Typed /\ HandsInv /\ RowInv /\ KeptInv /\ [Next]_vars => KeptInv'
<1>1. ASSUME Typed, HandsInv, RowInv, KeptInv, Next  PROVE KeptInv'
  BY <1>1, OthersKeepDrafts, InvestigateKeepsDrafts, FaultsGrow
<1>2. ASSUME KeptInv, UNCHANGED vars  PROVE KeptInv'
  BY <1>2
     DEF KeptInv, Kept, InTable, InTheRow, InTheLog, vars, storeVars, procVars, boundVars
<1> QED
  BY <1>1, <1>2

THEOREM AlwaysKept == Spec => []KeptInv
<1>1. Init => KeptInv
  BY DEF Init, KeptInv, Kept
<1> QED
  BY <1>1, KeptStep, AlwaysTyped, AlwaysInOneHand, RowsAreInOrder, PTL DEF Spec

(* With one fault at most, what an investigation found is in the diagnoses *)
(* table, or in its run's 'failed' row or 'failed' event, when the         *)
(* investigation ends, unless the process is gone; also when the run       *)
(* failed over a signal file that no fault accounts for.                   *)
THEOREM NoDiagnosisIsLost ==
  ASSUME MaxFaults <= 1
  PROVE  Spec => DiagnosisSurvives
<1>1. ASSUME Typed, HandsInv, KeptInv, Next, NEW p \in Procs,
             draft[p] # NoDraft, draft'[p] = NoDraft, phase' # "down"
      PROVE  \/ InTable(job[p], rid[p]) \/ InTheRow(job[p], rid[p])
             \/ InTheLog(job[p], rid[p])
  <2>1. PICK q \in Procs : InvestigateStep(q)
    BY <1>1, OthersKeepDrafts
  <2>2. q = p
    BY <1>1, <2>1, InvestigatesAlone DEF WorksAlone, StandsBy
  <2>3. Kept(p, job[p], rid[p]) /\ draft \in [Procs -> Draft] /\ faults <= 1
        /\ faults \in Nat
    BY <1>1, ConstantsAssumption DEF KeptInv, Typed, TypeOK
  <2>4. CASE Pend(p)
    BY <1>1, <2>3, <2>4 DEF Pend, Kept
  <2>5. CASE Settle(p) \/ Raise(p)
    <3>1. pc[p] = "settle"
      BY <1>1, <2>3, <2>5 DEF Settle, Raise, Kept, Recording, FailPC, Decisions
    <3> QED
      BY ONLY <1>1, <2>3, <3>1 DEF Kept
  <2>6. ~Mark(p) /\ ~Loop(p) /\ ~LoopRaises(p) /\ ~SignalsRaise(p)
    BY <1>1, <2>3 DEF Mark, Loop, LoopRaises, SignalsRaise, Goto, Kept, Recording, FailPC
  <2>7. CASE \/ RecordRun(p) \/ RecordDiagnosis(p) \/ RecordEvidence(p)
             \/ RecordOutcome(p) \/ RunRaises(p) \/ FailRun(p) \/ FailEvent(p)
             \/ FailStatus(p) \/ PersistRaises(p)
    <3>1. UNCHANGED draft
      BY <2>7
         DEF RecordRun, RecordDiagnosis, RecordEvidence, RecordOutcome, RunRaises,
             FailRun, FailEvent, FailStatus, PersistRaises, Working
    <3> QED
      BY <1>1, <3>1
  <2> QED
    BY <2>1, <2>2, <2>4, <2>5, <2>6, <2>7 DEF InvestigateStep
<1>2. Typed /\ HandsInv /\ KeptInv /\ [Next]_vars =>
        [\A p \in Procs :
           draft[p] # NoDraft /\ draft'[p] = NoDraft /\ phase' # "down" =>
             \/ diagnoses[job[p]][rid[p]].verified # "none"
             \/ runs[job[p]][rid[p]].outcome = "failed"
             \/ [kind |-> "failed", run |-> rid[p]] \in events[job[p]]]_vars
  BY <1>1 DEF InTable, InTheRow, InTheLog
<1> QED
  BY AlwaysTyped, AlwaysInOneHand, AlwaysKept, <1>2, PTL DEF Spec, DiagnosisSurvives
=============================================================================
