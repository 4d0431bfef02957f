------------------------- MODULE LedgerProofs -------------------------
(***************************************************************************)
(* What IncidentService writes down and publishes about an incident, for   *)
(* every value of the constants and under any fault and any crash.         *)
(*                                                                         *)
(* An incident is in one pair of hands (IncidentServiceProofs), so what is *)
(* true of its rows, its file and its channel when a process reads them is *)
(* still true when the process acts, several transactions later.           *)
(***************************************************************************)
EXTENDS IncidentServiceProofs

-----------------------------------------------------------------------------
(* The rows of the runs.                                                   *)

Writing(p)    == pc[p] \in RunPC \cup FailPC
Publishing(p) == pc[p] \in {"approve", "html", "slack"}

NoRows(i, k) == runs[i][k].outcome = "none" /\ diagnoses[i][k].verified = "none"

Sound(i, k) == /\ runs[i][k].outcome \in Completed
               /\ ~runs[i][k].fabricated
               /\ diagnoses[i][k].verified = "yes"

(* A run's row comes before its diagnosis, neither is there before the run *)
(* is numbered, and what was published is sound.                           *)
RowsInOrder(i) ==
  \A k \in RunIds :
    /\ k > attempts[i] => NoRows(i, k)
    /\ diagnoses[i][k].verified # "none" => runs[i][k].outcome \in Completed
    /\ slack[i][k] > 0 \/ html[i] = k => Sound(i, k)

(* An investigation writes at the last run numbered, and there only once;  *)
(* what a review is about to publish may be published.                     *)
WritesOnce(p) ==
  /\ Writing(p) => rid[p] = attempts[job[p]]
  /\ pc[p] \in {"mark", "loop", "record_run"} => NoRows(job[p], rid[p])
  /\ pc[p] = "record_diagnosis" =>
       /\ runs[job[p]][rid[p]].outcome \in Completed
       /\ diagnoses[job[p]][rid[p]].verified = "none"
  /\ Publishing(p) => Sound(job[p], rid[p])

RowInv == /\ \A i \in Incidents : RowsInOrder(i)
          /\ \A p \in Procs : WritesOnce(p)

(* Nobody else's rows change in a step of a process at work.               *)
LEMMA AloneKeepsRows ==
  ASSUME Typed, HandsInv, RowInv, NEW p \in Procs, WorksAlone(p),
         NEW i \in Incidents, i = job[p], RowsInOrder(i)', WritesOnce(p)'
  PROVE  RowInv'
<1>1. ASSUME NEW j \in Incidents, j # i  PROVE RowsInOrder(j)'
  <2>1. RowsInOrder(j) /\ Untouched(j)
    BY <1>1 DEF RowInv, WorksAlone
  <2> QED
    BY ONLY <2>1 DEF Untouched, RowsInOrder, NoRows, Sound
<1>2. ASSUME NEW q \in Procs, q # p  PROVE WritesOnce(q)'
  <2>1. StandsBy(q) /\ WritesOnce(q)
    BY <1>2 DEF WorksAlone, RowInv
  <2>2. pc[q] # "idle" => Untouched(job[q])
    <3>1. ASSUME pc[q] # "idle"  PROVE job[q] \in Incidents /\ job[q] # job[p]
      BY <1>2, <3>1, ConstantsAssumption DEF Typed, Equipped, HandsInv, Sole
    <3> QED
      BY <3>1 DEF WorksAlone
  <2> QED
    BY ONLY <2>1, <2>2
       DEF StandsBy, Untouched, WritesOnce, Writing, Publishing, NoRows, Sound, RunPC,
           FailPC
<1> QED
  BY <1>1, <1>2 DEF RowInv

(* A step that writes no row and publishes nothing, by a process that goes *)
(* on with its run or ends it.                                             *)
LEMMA QuietKeepsRows ==
  ASSUME Typed, HandsInv, RowInv, NEW p \in Procs, WorksAlone(p),
         UNCHANGED <<runs, diagnoses, html, slack, attempts>>,
         \/ pc'[p] \notin RunPC \cup FailPC \cup {"approve", "html", "slack"}
         \/ /\ Writing(p) /\ rid'[p] = rid[p]
            /\ pc'[p] \in (RunPC \cup FailPC) \ {"mark", "record_diagnosis"}
            /\ pc'[p] \in {"loop", "record_run"} => pc[p] \in {"mark", "loop"}
  PROVE  RowInv'
<1>1. PICK i \in Incidents : i = job[p]
  BY DEF WorksAlone, Typed, Equipped
<1>2. RowsInOrder(i)'
  BY DEF RowInv, RowsInOrder, NoRows, Sound
<1>3. WritesOnce(p)'
  <2>1. WritesOnce(p) /\ (pc'[p] # "idle" => job'[p] = job[p])
    BY DEF RowInv, WorksAlone
  <2>2. CASE pc'[p] \notin RunPC \cup FailPC \cup {"approve", "html", "slack"}
    BY ONLY <2>2 DEF WritesOnce, Writing, Publishing, RunPC
  <2>3. CASE /\ Writing(p) /\ rid'[p] = rid[p]
             /\ pc'[p] \in (RunPC \cup FailPC) \ {"mark", "record_diagnosis"}
             /\ pc'[p] \in {"loop", "record_run"} => pc[p] \in {"mark", "loop"}
    BY ONLY <2>1, <2>3, UNCHANGED <<runs, diagnoses, html, slack, attempts>>
       DEF WritesOnce, Writing, Publishing, NoRows, Sound, RunPC, FailPC
  <2> QED
    BY <2>2, <2>3
<1> QED
  BY <1>1, <1>2, <1>3, AloneKeepsRows

(* A new investigation takes a run id that was never given out.            *)
LEMMA BeginKeepsRows ==
  ASSUME Typed, HandsInv, RowInv, NEW p \in Procs, WorksAlone(p), Begin(p),
         UNCHANGED <<runs, diagnoses, html, slack>>
  PROVE  RowInv'
<1>1. PICK i \in Incidents : i = job[p]
  BY DEF WorksAlone, Typed, Equipped
<1>2. /\ attempts[i] \in Nat /\ attempts[i] + 1 \in RunIds
      /\ \A k \in RunIds : k > attempts[i] + 1 => k > attempts[i]
      /\ attempts[i] + 1 > attempts[i]
  BY <1>1, ConstantsAssumption DEF Typed, TypeOK, Begin, RunIds
<1>3. /\ attempts'[i] = attempts[i] + 1 /\ rid'[p] = attempts[i] + 1
      /\ pc'[p] = "mark" /\ job'[p] = i
  BY <1>1 DEF Begin, Typed, TypeOK
<1>4. RowsInOrder(i) /\ UNCHANGED <<runs, diagnoses, html, slack>>
  BY DEF RowInv
<1>5. RowsInOrder(i)'
  BY ONLY <1>2, <1>3, <1>4 DEF RowsInOrder, NoRows, Sound
<1>6. WritesOnce(p)'
  BY ONLY <1>2, <1>3, <1>4 DEF WritesOnce, RowsInOrder, NoRows, Writing, Publishing
<1> QED
  BY <1>1, <1>5, <1>6, AloneKeepsRows

(* A run's row, then the row of its diagnosis, or that it failed: each is  *)
(* written at a run where nothing was published.                           *)
LEMMA RecordRunKeepsRows ==
  ASSUME Typed, HandsInv, RowInv, NEW p \in Procs, WorksAlone(p), RecordRun(p)
  PROVE  RowInv'
<1>1. PICK i \in Incidents : i = job[p]
  BY DEF WorksAlone, Typed, Equipped
<1>2. PICK k \in RunIds : k = rid[p]
  BY DEF RecordRun, Goto, Typed, Equipped, RunPC
<1>3. /\ RowsInOrder(i) /\ NoRows(i, k) /\ k = attempts[i]
      /\ draft[p].outcome \in Completed
  BY <1>1, <1>2
     DEF RowInv, WritesOnce, RecordRun, Goto, Writing, RunPC, Typed, Equipped, Recording
<1>4. /\ runs'[i][k].outcome \in Completed
      /\ \A l \in RunIds : l # k => runs'[i][l] = runs[i][l]
      /\ UNCHANGED <<diagnoses, html, slack, attempts, job, rid>>
      /\ pc'[p] = "record_diagnosis"
  BY <1>1, <1>2, <1>3 DEF RecordRun, Goto, Typed, TypeOK, fileVars
<1>5. RowsInOrder(i)'
  <2>1. ~(k > attempts[i])
    BY <1>3 DEF RunIds
  <2> QED
    BY ONLY <1>3, <1>4, <2>1, k \in RunIds DEF RowsInOrder, NoRows, Sound
<1>6. WritesOnce(p)'
  BY ONLY <1>1, <1>2, <1>3, <1>4 DEF WritesOnce, NoRows, Writing, Publishing
<1> QED
  BY <1>1, <1>5, <1>6, AloneKeepsRows

LEMMA RecordDiagnosisKeepsRows ==
  ASSUME Typed, HandsInv, RowInv, NEW p \in Procs, WorksAlone(p), RecordDiagnosis(p)
  PROVE  RowInv'
<1>1. PICK i \in Incidents : i = job[p]
  BY DEF WorksAlone, Typed, Equipped
<1>2. PICK k \in RunIds : k = rid[p]
  BY DEF RecordDiagnosis, Goto, Typed, Equipped, RunPC
<1>3. /\ RowsInOrder(i) /\ k = attempts[i]
      /\ runs[i][k].outcome \in Completed /\ diagnoses[i][k].verified = "none"
  BY <1>1, <1>2 DEF RowInv, WritesOnce, RecordDiagnosis, Goto, Writing, RunPC
<1>4. /\ \A l \in RunIds : l # k => diagnoses'[i][l] = diagnoses[i][l]
      /\ UNCHANGED <<runs, html, slack, attempts, job, rid>>
      /\ pc'[p] = "record_evidence"
  BY <1>1, <1>2, <1>3 DEF RecordDiagnosis, Goto, Typed, TypeOK, fileVars
<1>5. RowsInOrder(i)'
  <2>1. ~(k > attempts[i])
    BY <1>3 DEF RunIds
  <2> QED
    BY ONLY <1>3, <1>4, <2>1, k \in RunIds DEF RowsInOrder, NoRows, Sound
<1>6. WritesOnce(p)'
  BY ONLY <1>1, <1>2, <1>3, <1>4
     DEF WritesOnce, Writing, Publishing
<1> QED
  BY <1>1, <1>5, <1>6, AloneKeepsRows

LEMMA FailRunKeepsRows ==
  ASSUME Typed, HandsInv, RowInv, NEW p \in Procs, WorksAlone(p), FailRun(p)
  PROVE  RowInv'
<1>1. PICK i \in Incidents : i = job[p]
  BY DEF WorksAlone, Typed, Equipped
<1>2. PICK k \in RunIds : k = rid[p]
  BY DEF FailRun, Goto, Typed, Equipped, FailPC
<1>3. RowsInOrder(i) /\ k = attempts[i]
  BY <1>1, <1>2 DEF RowInv, WritesOnce, FailRun, Goto, Writing, FailPC
<1>4. /\ \A l \in RunIds : l # k => runs'[i][l] = runs[i][l]
      /\ runs[i][k].outcome # "none" => runs'[i][k] = runs[i][k]
      /\ UNCHANGED <<diagnoses, html, slack, attempts, job, rid>>
      /\ pc'[p] = "fail_event"
  BY <1>1, <1>2, <1>3 DEF FailRun, Goto, Typed, TypeOK, fileVars
<1>5. RowsInOrder(i)'
  <2>1. ~(k > attempts[i])
    BY <1>3 DEF RunIds
  <2>2. \A l \in RunIds : runs[i][l].outcome \in Completed => runs'[i][l] = runs[i][l]
    BY ONLY <1>4 DEF Completed
  <2> QED
    BY ONLY <1>3, <1>4, <2>1, <2>2, k \in RunIds DEF RowsInOrder, NoRows, Sound
<1>6. WritesOnce(p)'
  BY ONLY <1>1, <1>2, <1>3, <1>4 DEF WritesOnce, Writing, Publishing
<1> QED
  BY <1>1, <1>5, <1>6, AloneKeepsRows

(* Recording the decision leaves the verdict alone.                        *)
LEMMA SetReviewKeepsRows ==
  ASSUME Typed, HandsInv, RowInv, NEW h \in Procs, WorksAlone(h), SetReview(h)
  PROVE  RowInv'
<1>1. PICK i \in Incidents : i = job[h]
  BY DEF WorksAlone, Typed, Equipped
<1>2. PICK k \in RunIds : k = rid[h]
  BY DEF SetReview, Typed, Equipped, ReviewPC, Decisions
<1>3. RowsInOrder(i) /\ WritesOnce(h) /\ pc[h] \in Decisions
  BY <1>1, <1>2 DEF RowInv, SetReview
<1>4. /\ \A l \in RunIds : diagnoses'[i][l].verified = diagnoses[i][l].verified
      /\ UNCHANGED <<runs, html, slack, attempts, job, rid>>
  <2>1. diagnoses \in [Incidents -> [RunIds -> Diagnosis]]
    BY DEF Typed, TypeOK
  <2>2. UNCHANGED <<runs, html, slack, attempts, job, rid>>
    BY DEF SetReview, Working, fileVars
  <2>3. \A l \in RunIds : diagnoses'[i][l].verified = diagnoses[i][l].verified
    BY <1>1, <1>2, <2>1 DEF SetReview, Diagnosis
  <2> QED
    BY <2>2, <2>3
<1>5. pc'[h] \in {"reject_event", "steer_event"} \/ (pc'[h] = "html" /\ pc[h] = "approve")
  BY <1>3 DEF SetReview, Working, Decisions, Typed, TypeOK
<1>6. RowsInOrder(i)'
  BY ONLY <1>3, <1>4 DEF RowsInOrder, NoRows, Sound
<1>7. WritesOnce(h)'
  BY ONLY <1>1, <1>2, <1>3, <1>4, <1>5
     DEF WritesOnce, Writing, Publishing, Sound, RunPC, FailPC
<1> QED
  BY <1>1, <1>6, <1>7, AloneKeepsRows

(* Publishing publishes what is sound.                                     *)
LEMMA PublishKeepsRows ==
  ASSUME Typed, HandsInv, RowInv, NEW h \in Procs, WorksAlone(h),
         WriteHtml(h) \/ PostSlack(h) \/ PostSlackTimesOut(h)
  PROVE  RowInv'
<1>1. PICK i \in Incidents : i = job[h]
  BY DEF WorksAlone, Typed, Equipped
<1>2. PICK k \in RunIds : k = rid[h]
  BY DEF WriteHtml, PostSlack, PostSlackTimesOut, Goto, Typed, Equipped, ReviewPC
<1>3. RowsInOrder(i) /\ Sound(i, k)
  BY <1>1, <1>2
     DEF RowInv, WritesOnce, Publishing, WriteHtml, PostSlack, PostSlackTimesOut, Goto
<1>4. /\ \A l \in RunIds : l # k => slack'[i][l] = slack[i][l] /\ (html'[i] = l => html[i] = l)
      /\ UNCHANGED <<runs, diagnoses, attempts>>
      /\ \/ pc'[h] = "slack" /\ UNCHANGED <<job, rid>>
         \/ pc'[h] \in {"idle", "post_event"}
  BY <1>1, <1>2
     DEF WriteHtml, PostSlack, PostSlackTimesOut, Goto, Finish, ChannelReceives, Typed,
         TypeOK, storeVars, fileVars
<1>5. RowsInOrder(i)'
  BY ONLY <1>3, <1>4, k \in RunIds DEF RowsInOrder, NoRows, Sound
<1>6. WritesOnce(h)'
  BY ONLY <1>1, <1>2, <1>3, <1>4
     DEF WritesOnce, Writing, Publishing, Sound, RunPC, FailPC
<1> QED
  BY <1>1, <1>5, <1>6, AloneKeepsRows

(* The ingress writes no row of a run.                                     *)
LEMMA IngressKeepsRows ==
  ASSUME Typed, HandsInv, RowInv, NEW h \in Handlers, IngressStep(h)
  PROVE  RowInv'
<1>0. h \in Procs /\ WorksAlone(h) /\ pc \in [Procs -> PC]
  BY IngressAlone DEF Procs, Typed, TypeOK
<1>1. UNCHANGED <<runs, diagnoses, html, slack, attempts>>
  BY DEF IngressStep, ClaimId, TakeSnapshot, SnapshotFails, Unclaim, LogReceived,
         Enqueue, Shed, RollbackDelete, RollbackDiscard, DeleteRow, storeVars, fileVars
<1>2. pc'[h] \in {"idle", "snapshot", "unclaim", "received", "enqueue",
                  "rollback_delete", "rollback_discard"}
  BY <1>0
     DEF IngressStep, ClaimId, TakeSnapshot, SnapshotFails, Unclaim, LogReceived,
         Enqueue, Shed, RollbackDelete, RollbackDiscard, Goto, Working, Finish
<1> QED
  BY <1>0, <1>1, <1>2, QuietKeepsRows DEF RunPC, FailPC

(* An investigation writes its rows and leaves all others alone.           *)
LEMMA InvestigateKeepsRows ==
  ASSUME Typed, HandsInv, RowInv, NEW p \in Procs, InvestigateStep(p)
  PROVE  RowInv'
<1>0. WorksAlone(p) /\ pc \in [Procs -> PC]
  BY InvestigatesAlone DEF Typed, TypeOK
<1>a. ASSUME Finish(p), UNCHANGED <<runs, diagnoses, html, slack, attempts>>
      PROVE  RowInv'
  BY <1>0, <1>a, QuietKeepsRows DEF Finish, RunPC, FailPC
<1>b. ASSUME NEW step \in (RunPC \cup FailPC \cup {"settle"}) \ {"mark", "record_diagnosis"},
             pc' = [pc EXCEPT ![p] = step], UNCHANGED rid, Writing(p),
             step \in {"loop", "record_run"} => pc[p] \in {"mark", "loop"},
             UNCHANGED <<runs, diagnoses, html, slack, attempts>>
      PROVE  RowInv'
  BY <1>0, <1>b, QuietKeepsRows DEF RunPC, FailPC
<1> USE DEF storeVars, fileVars, Writing, RunPC, FailPC
<1>1. CASE Mark(p)
  BY ONLY <1>b, <1>1 DEF Mark, Goto
<1>2. CASE Loop(p)
  BY ONLY <1>b, <1>2 DEF Loop, Goto
<1>3. CASE LoopRaises(p) \/ SignalsRaise(p)
  BY ONLY <1>b, <1>3 DEF LoopRaises, SignalsRaise, Goto
<1>4. CASE RecordRun(p)
  BY <1>0, <1>4, RecordRunKeepsRows
<1>5. CASE RecordDiagnosis(p)
  BY <1>0, <1>5, RecordDiagnosisKeepsRows
<1>6. CASE RecordEvidence(p)
  BY ONLY <1>b, <1>6 DEF RecordEvidence, Goto
<1>7. CASE RecordOutcome(p)
  BY ONLY <1>b, <1>7 DEF RecordOutcome, Goto
<1>8. CASE Pend(p)
  BY ONLY <1>a, <1>b, <1>8 DEF Pend, Working
<1>9. CASE RunRaises(p)
  BY ONLY <1>b, <1>9 DEF RunRaises, Working
<1>10. CASE FailRun(p)
  BY <1>0, <1>10, FailRunKeepsRows
<1>11. CASE FailEvent(p)
  BY ONLY <1>b, <1>11 DEF FailEvent, Goto
<1>12. CASE FailStatus(p)
  BY ONLY <1>b, <1>12 DEF FailStatus, Goto
<1>13. CASE PersistRaises(p)
  <2>1. /\ \E step \in {"fail_event", "fail_status", "settle"} : Working(p, step)
        /\ UNCHANGED <<runs, diagnoses, html, slack, attempts>> /\ pc[p] \in FailPC
    BY <1>13 DEF PersistRaises
  <2> QED
    BY ONLY <1>b, <2>1 DEF Working
<1>14. CASE Settle(p)
  BY ONLY <1>a, <1>14 DEF Settle
<1>15. CASE Raise(p)
  BY ONLY <1>a, <1>15 DEF Raise
<1> QED
  BY ONLY InvestigateStep(p), <1>1, <1>2, <1>3, <1>4, <1>5, <1>6, <1>7, <1>8, <1>9,
          <1>10, <1>11, <1>12, <1>13, <1>14, <1>15
     DEF InvestigateStep

(* A review writes a decision, publishes, and steers with a run id of its  *)
(* own.                                                                    *)
LEMMA ReviewStepKeepsRows ==
  ASSUME Typed, HandsInv, RowInv, NEW h \in Handlers, ReviewStep(h)
  PROVE  RowInv'
<1>0. h \in Procs /\ WorksAlone(h) /\ pc \in [Procs -> PC]
  BY ReviewsAlone DEF Procs, Typed, TypeOK
<1>1. CASE SetReview(h)
  BY <1>0, <1>1, SetReviewKeepsRows
<1>2. CASE WriteHtml(h) \/ PostSlack(h) \/ PostSlackTimesOut(h)
  BY <1>0, <1>2, PublishKeepsRows
<1>3. CASE SteerBegin(h)
  BY <1>0, <1>3, BeginKeepsRows DEF SteerBegin, storeVars, fileVars
<1>4. CASE RejectEvent(h) \/ RejectStatus(h) \/ SteerEvent(h) \/ PostEvent(h)
             \/ PostStatus(h) \/ Reap(h)
  <2>1. UNCHANGED <<runs, diagnoses, html, slack, attempts>>
    BY <1>4
       DEF RejectEvent, RejectStatus, SteerEvent, PostEvent, PostStatus, Reap,
           storeVars, fileVars
  <2>2. pc'[h] \in {"idle", "reject_status", "reap", "begin", "post_status"}
    BY <1>0, <1>4
       DEF RejectEvent, RejectStatus, SteerEvent, PostEvent, PostStatus, Reap, Goto,
           Finish
  <2> QED
    BY <1>0, <2>1, <2>2, QuietKeepsRows DEF RunPC, FailPC
<1> QED
  BY ONLY ReviewStep(h), <1>1, <1>2, <1>3, <1>4 DEF ReviewStep

(* A worker takes up an incident with a run id of its own.                 *)
LEMMA LoadKeepsRows ==
  ASSUME Typed, HandsInv, RowInv, NEW w \in Workers, Load(w)
  PROVE  RowInv'
<1>0. w \in Procs /\ WorksAlone(w) /\ pc \in [Procs -> PC]
  BY LoadsAlone DEF Procs, Typed, TypeOK
<1>1. CASE Finish(w) /\ UNCHANGED attempts
  BY <1>0, <1>1, QuietKeepsRows DEF Load, Finish, storeVars, fileVars, RunPC, FailPC
<1>2. CASE Begin(w)
  BY <1>0, <1>2, BeginKeepsRows DEF Load, storeVars, fileVars
<1> QED
  BY <1>1, <1>2 DEF Load

(* Whoever takes up an incident has no run yet, and the gate only starts   *)
(* to publish what it checked.                                             *)
TakesUp(q) ==
  \/ pc'[q] \notin RunPC \cup FailPC \cup {"approve", "html", "slack"}
  \/ StandsBy(q)
  \/ pc'[q] = "approve" /\ Sound(job[q], rid[q])'

LEMMA TakeUpKeepsRows ==
  ASSUME RowInv, UNCHANGED <<runs, diagnoses, html, slack, attempts>>,
         \A q \in Procs : TakesUp(q)
  PROVE  RowInv'
<1>1. \A i \in Incidents : RowsInOrder(i)'
  BY DEF RowInv, RowsInOrder, NoRows, Sound
<1>2. ASSUME NEW q \in Procs  PROVE WritesOnce(q)'
  <2>1. WritesOnce(q)
    BY DEF RowInv
  <2> QED
    BY <2>1
       DEF TakesUp, StandsBy, WritesOnce, Writing, Publishing, NoRows, Sound, RunPC,
           FailPC
<1> QED
  BY <1>1, <1>2 DEF RowInv

LEMMA RequestKeepsRows ==
  ASSUME Typed, HandsInv, RowInv, Request
  PROVE  RowInv'
<1>0. pc \in [Procs -> PC] /\ job \in [Procs -> Incidents \cup {NoIncident}]
      /\ rid \in [Procs -> 0..MaxRuns]
  BY DEF Typed, TypeOK
<1>1. ASSUME NEW i \in Incidents, Duplicate(i) \/ VerifyResolution(i)  PROVE RowInv'
  BY <1>1, TakeUpKeepsRows
     DEF Duplicate, VerifyResolution, storeVars, fileVars, procVars, TakesUp, StandsBy
<1>2. ASSUME NEW i \in Incidents, NEW h \in Handlers, Deliver(h, i)  PROVE RowInv'
  <2>1. \A q \in Procs : pc'[q] = "insert" \/ StandsBy(q)
    BY <1>0, <1>2 DEF Deliver, Goto, Procs, StandsBy
  <2> QED
    BY <1>2, <2>1, TakeUpKeepsRows
       DEF Deliver, storeVars, fileVars, TakesUp, RunPC, FailPC
<1>3. ASSUME NEW i \in Incidents, NEW h \in Handlers, NEW d \in Decisions,
             Review(h, i, d)
      PROVE  RowInv'
  <2>1. PICK k \in RunIds : /\ d = "approve" => Postable(i, k)
                            /\ rid' = [rid EXCEPT ![h] = k]
    BY <1>3 DEF Review
  <2>2. /\ pc' = [pc EXCEPT ![h] = d] /\ job' = [job EXCEPT ![h] = i]
        /\ draft' = draft /\ UNCHANGED <<runs, diagnoses, html, slack, attempts>>
    BY <1>3 DEF Review, Goto, storeVars, fileVars
  <2>3. ASSUME d = "approve"  PROVE Sound(i, k)
    <3>1. ~runs[i][k].fabricated /\ diagnoses[i][k].verified = "yes"
      BY ONLY <2>1, <2>3 DEF Postable
    <3> QED
      BY <3>1 DEF Sound, RowInv, RowsInOrder
  <2>4. \A q \in Procs : q # h => StandsBy(q)
    BY <1>0, <2>1, <2>2 DEF StandsBy
  <2>5. h \in Procs /\ pc'[h] = d /\ job'[h] = i /\ rid'[h] = k
    BY <1>0, <2>1, <2>2 DEF Procs
  <2>6. ASSUME NEW q \in Procs
        PROVE  TakesUp(q)
    <3>1. CASE q = h /\ d = "approve"
      BY <2>2, <2>3, <2>5, <3>1 DEF TakesUp, Sound
    <3>2. CASE q = h /\ d # "approve"
      BY <2>5, <3>2 DEF TakesUp, Decisions, RunPC, FailPC
    <3> QED
      BY <2>4, <3>1, <3>2 DEF TakesUp
  <2> QED
    BY <2>2, <2>6, TakeUpKeepsRows
<1> QED
  BY <1>1, <1>2, <1>3 DEF Request

LEMMA TakeKeepsRows ==
  ASSUME Typed, RowInv, NEW w \in Workers, Take(w)
  PROVE  RowInv'
<1>1. \A q \in Procs : pc'[q] = "load" \/ StandsBy(q)
  BY DEF Take, Goto, Procs, StandsBy, Typed, TypeOK
<1> QED
  BY <1>1, TakeUpKeepsRows DEF Take, storeVars, fileVars, TakesUp, RunPC, FailPC

(* Crash, start and recovery write no row of a run.                        *)
LEMMA LifespanKeepsRows ==
  ASSUME RowInv, Boot \/ RecoveryStep \/ Crash
  PROVE  RowInv'
<1>1. UNCHANGED <<runs, diagnoses, html, slack, attempts>>
  BY DEF Boot, RecoveryStep, Reconcile, Recover, EnqueueAll, BootRaises, Crash,
         storeVars, fileVars
<1>2. ASSUME NEW q \in Procs  PROVE pc'[q] = "idle" \/ StandsBy(q)
  BY DEF Boot, RecoveryStep, Reconcile, Recover, EnqueueAll, BootRaises, Crash,
         procVars, StandsBy
<1> QED
  BY <1>1, <1>2, TakeUpKeepsRows DEF TakesUp, RunPC, FailPC

(* Nothing is written and nothing is published at the start.               *)
LEMMA InitRows == Init => RowInv
  BY ConstantsAssumption
     DEF Init, RowInv, RowsInOrder, WritesOnce, NoRows, NoRun, NoDiagnosis, Writing,
         Publishing, RunPC, FailPC, RunIds

LEMMA RowsStep == Typed /\ HandsInv /\ RowInv /\ [Next]_vars => RowInv'
<1> SUFFICES ASSUME Typed, HandsInv, RowInv, [Next]_vars  PROVE RowInv'
  OBVIOUS
<1>1. CASE Request
  BY <1>1, RequestKeepsRows
<1>2. ASSUME NEW w \in Workers, WorkerStep(w)  PROVE RowInv'
  BY <1>2, TakeKeepsRows, LoadKeepsRows, InvestigateKeepsRows DEF WorkerStep, Procs
<1>3. ASSUME NEW h \in Handlers, HandlerStep(h)  PROVE RowInv'
  BY <1>3, IngressKeepsRows, ReviewStepKeepsRows, InvestigateKeepsRows
     DEF HandlerStep, Procs
<1>4. CASE Boot \/ RecoveryStep \/ Crash
  BY <1>4, LifespanKeepsRows
<1>5. CASE UNCHANGED vars
  BY <1>5, TakeUpKeepsRows DEF vars, storeVars, fileVars, procVars, TakesUp, StandsBy
<1> QED
  BY <1>1, <1>2, <1>3, <1>4, <1>5 DEF Next

THEOREM RowsAreInOrder == Spec => []RowInv
  BY InitRows, RowsStep, AlwaysTyped, AlwaysInOneHand, PTL DEF Spec

(* Whatever reached the channel or the postmortem file is a finished,      *)
(* verified diagnosis with no fabricated citation.                         *)
THEOREM PublishesFailClosed == Spec => []FailClosed
<1>1. RowInv => FailClosed
  BY DEF RowInv, RowsInOrder, Sound, FailClosed
<1> QED
  BY RowsAreInOrder, <1>1, PTL

-----------------------------------------------------------------------------
(* The status, the audit log, the file and the channel.                    *)

(* The run the postmortem shows was approved, posted and logged, and no    *)
(* run began after it.                                                     *)
Backed(i) ==
  /\ html[i] # 0 /\ IsLatest(i, html[i]) /\ slack[i][html[i]] > 0
  /\ diagnoses[i][html[i]].decision = "approve"
  /\ [kind |-> "posted", run |-> html[i]] \in events[i]

Blank(i) == Listed(i) = {} /\ html[i] = 0 /\ i \notin accepted

(* What an incident's status says of the rest of the store.                *)
Ledger(i) ==
  /\ status[i] = "absent" => Blank(i) /\ events[i] = {}
  /\ status[i] = "queued" => ~RunCompleted(i)
  /\ status[i] = "posted" => Backed(i)
  /\ status[i] = "rejected" =>
       \E k \in RunIds : IsLatest(i, k) /\ [kind |-> "rejected", run |-> k] \in events[i]

(* What a process has seen or done that its next steps rest on.            *)
Owes(p, i, k) ==
  /\ Claiming(p) => Blank(i)
  /\ p \in Workers /\ pc[p] \in {"load", "mark", "loop", "record_run"} => ~RunCompleted(i)
  /\ Reviewing(p) => k \in RunIds /\ IsLatest(i, k)
  /\ pc[p] \in {"html", "slack", "post_event", "post_status"} =>
       diagnoses[i][k].decision = "approve"
  /\ pc[p] \in {"slack", "post_event", "post_status"} => html[i] = k
  /\ pc[p] \in {"post_event", "post_status"} => slack[i][k] > 0
  /\ pc[p] = "post_status" => [kind |-> "posted", run |-> k] \in events[i]
  /\ pc[p] = "reject_status" => [kind |-> "rejected", run |-> k] \in events[i]

LedgerInv ==
  /\ \A i \in Incidents : Ledger(i)
  /\ \A p \in Procs : Owes(p, job[p], rid[p])
  /\ \A a \in DOMAIN queue : ~RunCompleted(queue[a])

(* A process at work leaves alone what the others rest on.                 *)
LEMMA AloneKeepsLedger ==
  ASSUME Typed, HandsInv, LedgerInv, NEW p \in Procs, WorksAlone(p),
         NEW i \in Incidents, i = job[p], NEW k, k = rid'[p],
         Ledger(i)', pc'[p] = "idle" \/ Owes(p, i, k)',
         UNCHANGED queue \/ (Enqueue(p) /\ ~RunCompleted(i)')
  PROVE  LedgerInv'
<1>1. ASSUME NEW j \in Incidents, j # i  PROVE Ledger(j)'
  <2>1. Ledger(j) /\ Untouched(j)
    BY <1>1 DEF LedgerInv, WorksAlone
  <2> QED
    BY ONLY <2>1
       DEF Untouched, Ledger, Blank, Backed, Listed, IsLatest, RunCompleted
<1>2. ASSUME NEW q \in Procs, q # p  PROVE Owes(q, job[q], rid[q])'
  <2>1. StandsBy(q) /\ Owes(q, job[q], rid[q])
    BY <1>2 DEF WorksAlone, LedgerInv
  <2>2. CASE pc[q] = "idle"
    BY <2>1, <2>2 DEF StandsBy, Owes, Claiming, Reviewing
  <2>3. CASE pc[q] # "idle"
    <3>1. job[q] \in Incidents /\ job[q] # job[p]
      BY <1>2, <2>3, ConstantsAssumption DEF Typed, Equipped, HandsInv, Sole
    <3>2. Untouched(job[q])
      BY <3>1 DEF WorksAlone
    <3> QED
      BY ONLY <2>1, <3>2
         DEF StandsBy, Untouched, Owes, Claiming, Reviewing, Blank, Listed, IsLatest,
             RunCompleted
  <2> QED
    BY <2>2, <2>3
<1>3. Owes(p, job[p], rid[p])'
  <2>1. CASE pc'[p] = "idle"
    BY <2>1 DEF Owes, Claiming, Reviewing
  <2>2. CASE pc'[p] # "idle"
    <3>1. job'[p] = i /\ rid'[p] = k /\ Owes(p, i, k)'
      BY <2>2 DEF WorksAlone
    <3> QED
      BY ONLY <3>1 DEF Owes
  <2> QED
    BY <2>1, <2>2
<1>4. ASSUME NEW j, \E b \in DOMAIN queue : j = queue[b]  PROVE ~RunCompleted(j)'
  <2>1. j \in Incidents /\ j # job[p] /\ ~RunCompleted(j)
    BY <1>4, QueueHolds DEF HandsInv, Sole, LedgerInv
  <2>2. Untouched(j)
    BY <2>1 DEF WorksAlone
  <2> QED
    BY ONLY <2>1, <2>2 DEF Untouched, RunCompleted
<1>5. \A a \in DOMAIN queue' : ~RunCompleted(queue[a])'
  <2>1. CASE UNCHANGED queue
    BY <1>4, <2>1 DEF RunCompleted
  <2>2. CASE Enqueue(p) /\ ~RunCompleted(i)'
    <3>1. \A a \in DOMAIN queue' : (\E b \in DOMAIN queue : queue'[a] = queue[b]) \/ queue'[a] = i
      BY <2>2, AppendPlaces DEF Enqueue, Typed, TypeOK
    <3> QED
      BY <1>4, <2>2, <3>1 DEF RunCompleted
  <2> QED
    BY <2>1, <2>2
<1> QED
  BY <1>1, <1>2, <1>3, <1>5 DEF LedgerInv

(* What an incident owes while it is open is only that it has not been     *)
(* diagnosed before its first investigation.                               *)
LEMMA OpenOwesLittle ==
  ASSUME NEW i \in Incidents,
         status'[i] \in {"queued", "running", "pending_review", "failed"},
         status'[i] = "queued" => ~RunCompleted(i)'
  PROVE  Ledger(i)'
  BY DEF Ledger

(* Nothing the ledger is about changes.                                    *)
LEMMA SameLedger ==
  ASSUME LedgerInv, NEW i \in Incidents,
         UNCHANGED <<status, runs, diagnoses, events, html, slack, accepted>>
  PROVE  Ledger(i)' /\ (RunCompleted(i)' <=> RunCompleted(i))
<1>1. Ledger(i)
  BY DEF LedgerInv
<1> QED
  BY <1>1 DEF Ledger, Blank, Backed, Listed, IsLatest, RunCompleted

LEMMA InvestigateKeepsLedger ==
  ASSUME Typed, HandsInv, LedgerInv, NEW p \in Procs, InvestigateStep(p)
  PROVE  LedgerInv'
<1>0. /\ WorksAlone(p) /\ UNCHANGED queue /\ Suited(p) /\ Standing(p)
      /\ pc \in [Procs -> PC] /\ status \in [Incidents -> Statuses]
      /\ runs \in [Incidents -> [RunIds -> RunRow]]
  BY InvestigatesAlone DEF HandsInv, Typed, TypeOK
<1> PICK i \in Incidents : i = job[p]
  BY <1>0 DEF WorksAlone, Typed, Equipped
<1>1. Ledger(i) /\ Owes(p, i, rid[p])
  BY DEF LedgerInv
<1>2. SUFFICES /\ Ledger(i)'
               /\ \/ pc'[p] = "idle"
                  \/ /\ pc'[p] \in (RunPC \cup FailPC \cup {"settle"}) \ {"mark"}
                     /\ p \in Workers /\ pc'[p] \in {"loop", "record_run"} =>
                          ~RunCompleted(i)'
  <2>1. ASSUME NEW k, pc'[p] \in (RunPC \cup FailPC \cup {"settle"}) \ {"mark"},
               p \in Workers /\ pc'[p] \in {"loop", "record_run"} => ~RunCompleted(i)'
        PROVE  Owes(p, i, k)'
    BY ONLY <2>1 DEF Owes, Claiming, Reviewing, RunPC, FailPC
  <2>2. PICK k : k = rid'[p]
    OBVIOUS
  <2>3. pc'[p] = "idle" \/ Owes(p, i, k)'
    BY <2>1
  <2> QED
    BY <1>0, <2>2, <2>3, AloneKeepsLedger
<1>a. ASSUME Finish(p) PROVE pc'[p] = "idle"
  BY <1>0, <1>a DEF Finish
<1>b. ASSUME NEW step \in (RunPC \cup FailPC \cup {"settle"}) \ {"mark"},
             pc' = [pc EXCEPT ![p] = step],
             step \in {"loop", "record_run"} => pc[p] \in {"mark", "loop"} /\ UNCHANGED runs
      PROVE  /\ pc'[p] \in (RunPC \cup FailPC \cup {"settle"}) \ {"mark"}
             /\ p \in Workers /\ pc'[p] \in {"loop", "record_run"} => ~RunCompleted(i)'
  <2>1. pc'[p] = step
    BY <1>0, <1>b
  <2> QED
    BY ONLY <1>1, <1>b, <2>1 DEF Owes, RunCompleted
<1> USE DEF storeVars, fileVars, RunPC, FailPC
<1>3. CASE Mark(p)
  <2>1. status'[i] = "running"
    BY <1>0, <1>3 DEF Mark, SetStatus
  <2> QED
    BY <1>b, <1>3, <2>1, OpenOwesLittle DEF Mark, Goto
<1>4. CASE Loop(p)
  BY <1>b, <1>4, SameLedger DEF Loop, Goto
<1>5. CASE LoopRaises(p) \/ SignalsRaise(p)
  BY <1>b, <1>5, SameLedger DEF LoopRaises, SignalsRaise, Goto
<1>6. CASE RecordRun(p) \/ RecordDiagnosis(p) \/ RecordEvidence(p) \/ RecordOutcome(p)
  <2>1. status'[i] = "running"
    BY <1>0, <1>6
       DEF RecordRun, RecordDiagnosis, RecordEvidence, RecordOutcome, Goto, Standing
  <2> QED
    BY <1>b, <1>6, <2>1, OpenOwesLittle
       DEF RecordRun, RecordDiagnosis, RecordEvidence, RecordOutcome, Goto
<1>7. CASE Pend(p)
  <2>1. status'[i] = "pending_review"
    BY <1>0, <1>7 DEF Pend, SetStatus
  <2> QED
    BY <1>a, <1>b, <1>7, <2>1, OpenOwesLittle DEF Pend, Working
<1>8. CASE RunRaises(p)
  BY <1>b, <1>8, SameLedger DEF RunRaises, Working
<1>9. CASE FailRun(p)
  <2>1. /\ status'[i] \in {"queued", "running", "pending_review"}
        /\ status'[i] = "queued" => ~RunCompleted(i)
    BY <1>0, <1>1, <1>9 DEF FailRun, Goto, Standing, Ledger
  <2>2. ~RunCompleted(i) => ~RunCompleted(i)'
    <3>1. \A k \in RunIds : runs'[i][k].outcome \in Completed =>
                               runs[i][k].outcome \in Completed
      BY <1>0, <1>9 DEF FailRun, Completed
    <3> QED
      BY ONLY <3>1 DEF RunCompleted
  <2> QED
    BY <1>b, <1>9, <2>1, <2>2, OpenOwesLittle DEF FailRun, Goto
<1>10. CASE FailEvent(p)
  <2>1. /\ status'[i] \in {"queued", "running", "pending_review"}
        /\ status'[i] = "queued" => ~RunCompleted(i)
    BY <1>0, <1>1, <1>10 DEF FailEvent, Goto, Standing, Ledger
  <2>2. ~RunCompleted(i) => ~RunCompleted(i)'
    BY <1>10 DEF FailEvent, RunCompleted
  <2> QED
    BY <1>b, <1>10, <2>1, <2>2, OpenOwesLittle DEF FailEvent, Goto
<1>11. CASE FailStatus(p)
  <2>1. status'[i] = "failed"
    BY <1>0, <1>11 DEF FailStatus, SetStatus
  <2> QED
    BY <1>b, <1>11, <2>1, OpenOwesLittle DEF FailStatus, Goto
<1>12. CASE PersistRaises(p)
  <2>1. /\ \E step \in {"fail_event", "fail_status", "settle"} : Working(p, step)
        /\ UNCHANGED <<storeVars, fileVars, accepted>>
    BY <1>12 DEF PersistRaises
  <2> QED
    BY <1>b, <2>1, SameLedger DEF Working
<1>13. CASE Settle(p)
  BY <1>a, <1>13, SameLedger DEF Settle
<1>14. CASE Raise(p)
  BY <1>a, <1>14, SameLedger DEF Raise
<1> QED
  BY ONLY InvestigateStep(p), <1>3, <1>4, <1>5, <1>6, <1>7, <1>8, <1>9, <1>10, <1>11,
          <1>12, <1>13, <1>14
     DEF InvestigateStep

(* The ingress claims an id that has nothing, and gives it back as it was. *)
LEMMA IngressKeepsLedger ==
  ASSUME Typed, HandsInv, LedgerInv, NEW h \in Handlers, IngressStep(h)
  PROVE  LedgerInv'
<1>0. /\ h \in Procs /\ h \notin Workers
      /\ WorksAlone(h) /\ (UNCHANGED queue \/ Enqueue(h)) /\ Standing(h)
      /\ pc \in [Procs -> PC] /\ status \in [Incidents -> Statuses]
      /\ events \in [Incidents -> SUBSET Event]
  BY IngressAlone, ConstantsAssumption DEF HandsInv, Typed, TypeOK, Procs
<1> PICK i \in Incidents : i = job[h]
  BY <1>0 DEF WorksAlone, Typed, Equipped
<1> PICK k : k = rid'[h]
  OBVIOUS
<1>1. Ledger(i) /\ Owes(h, i, rid[h])
  BY <1>0 DEF LedgerInv
<1>2. Blank(i)
  BY ONLY <1>0, <1>1, IngressStep(h), i = job[h]
     DEF IngressStep, ClaimId, TakeSnapshot, SnapshotFails, Unclaim, LogReceived,
         Enqueue, Shed, RollbackDelete, RollbackDiscard, Goto, Standing, Claiming,
         Owes, Ledger
<1>3. UNCHANGED <<runs, html>>
  BY DEF IngressStep, ClaimId, TakeSnapshot, SnapshotFails, Unclaim, LogReceived,
         Enqueue, Shed, RollbackDelete, RollbackDiscard, DeleteRow, storeVars, fileVars
<1>4. Listed(i) = {} /\ html[i] = 0 /\ Listed(i)' = {} /\ html'[i] = 0
  BY ONLY <1>2, <1>3 DEF Blank, Listed
<1>5. ~RunCompleted(i)'
  BY ONLY <1>4 DEF Listed, RunCompleted, Completed
<1>6. ASSUME Claiming(h)' => i \notin accepted',
             pc'[h] \in {"idle", "snapshot", "unclaim", "received", "enqueue",
                         "rollback_delete", "rollback_discard"}
      PROVE  Owes(h, i, k)'
  BY ONLY <1>0, <1>4, <1>6 DEF Owes, Claiming, Reviewing, Blank
<1>7. pc'[h] \in {"idle", "snapshot", "unclaim", "received", "enqueue",
                  "rollback_delete", "rollback_discard"}
  BY <1>0
     DEF IngressStep, ClaimId, TakeSnapshot, SnapshotFails, Unclaim, LogReceived,
         Enqueue, Shed, RollbackDelete, RollbackDiscard, Goto, Working, Finish
<1>8. SUFFICES Ledger(i)' /\ (pc'[h] = "idle" \/ i \notin accepted')
  BY <1>0, <1>5, <1>6, <1>7, AloneKeepsLedger
<1>9. i \notin accepted
  BY <1>2 DEF Blank
<1>a. ASSUME Finish(h)  PROVE pc'[h] = "idle"
  BY <1>0, <1>a DEF Finish
<1> USE DEF storeVars, fileVars
<1>10. CASE ClaimId(h)
  <2>1. CASE status[i] = "absent"
    <3>1. status'[i] = "queued" /\ UNCHANGED accepted
      BY <1>0, <1>10, <2>1 DEF ClaimId, SetStatus
    <3> QED
      BY <1>5, <1>9, <3>1, OpenOwesLittle
  <2>2. CASE status[i] # "absent"
    <3>1. pc[h] = "insert"
      BY <1>10 DEF ClaimId
    <3> QED
      BY <1>0, <2>2, <3>1 DEF Standing
  <2> QED
    BY <2>1, <2>2
<1>11. CASE TakeSnapshot(h) \/ SnapshotFails(h) \/ Shed(h) \/ RollbackDiscard(h)
  BY <1>9, <1>11, SameLedger DEF TakeSnapshot, SnapshotFails, Shed, RollbackDiscard
<1>12. CASE Unclaim(h) \/ RollbackDelete(h)
  <2>1. status'[i] = "absent" /\ events'[i] = {} /\ UNCHANGED accepted
    BY <1>0, <1>12 DEF Unclaim, RollbackDelete, DeleteRow, SetStatus
  <2> QED
    BY ONLY <1>4, <1>9, <2>1 DEF Ledger, Blank
<1>13. CASE LogReceived(h) \/ Enqueue(h)
  <2>1. status'[i] = "queued"
    BY <1>0, <1>13 DEF LogReceived, Enqueue, Goto, Standing, Claiming
  <2> QED
    BY <1>5, <1>9, <1>a, <1>13, <2>1, OpenOwesLittle DEF LogReceived, Enqueue
<1> QED
  BY ONLY IngressStep(h), <1>10, <1>11, <1>12, <1>13 DEF IngressStep

(* A review closes an incident with everything its close rests on.         *)
LEMMA ReviewKeepsLedger ==
  ASSUME Typed, HandsInv, RowInv, LedgerInv, NEW h \in Handlers, ReviewStep(h)
  PROVE  LedgerInv'
<1>0. /\ h \in Procs /\ h \notin Workers
      /\ WorksAlone(h) /\ UNCHANGED queue /\ Standing(h)
      /\ pc \in [Procs -> PC] /\ status \in [Incidents -> Statuses]
      /\ events \in [Incidents -> SUBSET Event]
      /\ diagnoses \in [Incidents -> [RunIds -> Diagnosis]]
  BY ReviewsAlone, ConstantsAssumption DEF HandsInv, Typed, TypeOK, Procs
<1> PICK i \in Incidents : i = job[h]
  BY <1>0 DEF WorksAlone, Typed, Equipped
<1> PICK k : k = rid'[h]
  OBVIOUS
<1>1. Ledger(i) /\ Owes(h, i, rid[h]) /\ WritesOnce(h)
  BY <1>0 DEF LedgerInv, RowInv
<1>2. SUFFICES Ledger(i)' /\ (pc'[h] = "idle" \/ Owes(h, i, k)')
  BY <1>0, AloneKeepsLedger
<1>a. ASSUME Finish(h)  PROVE pc'[h] = "idle"
  BY <1>0, <1>a DEF Finish
<1>b. ASSUME Reviewing(h), UNCHANGED status  PROVE Ledger(i)'
  <2>1. status'[i] = "pending_review"
    BY <1>0, <1>b DEF Standing
  <2> QED
    BY <2>1, OpenOwesLittle
<1> USE DEF storeVars, fileVars
<1>4. CASE SetReview(h)
  <2>1. /\ pc'[h] \in {"reject_event", "steer_event"}
           \/ (pc'[h] = "html" /\ pc[h] = "approve")
        /\ Reviewing(h) /\ UNCHANGED <<runs, status>> /\ k = rid[h]
    BY <1>0, <1>4 DEF SetReview, Working, Decisions, Reviewing
  <2>2. k \in RunIds /\ IsLatest(i, k)
    BY <1>1, <2>1 DEF Owes
  <2>3. ASSUME pc[h] = "approve"  PROVE diagnoses'[i][k].decision = "approve"
    <3>1. diagnoses[i][k].verified = "yes"
      BY <1>1, <2>1, <2>3 DEF WritesOnce, Publishing, Sound
    <3> QED
      BY <1>0, <1>4, <2>1, <2>2, <2>3, <3>1 DEF SetReview, Diagnosis
  <2>4. IsLatest(i, k)'
    BY ONLY <2>1, <2>2 DEF IsLatest, Listed
  <2>5. Owes(h, i, k)'
    BY ONLY <1>0, <2>1, <2>2, <2>3, <2>4 DEF Owes, Claiming, Reviewing
  <2> QED
    BY <1>b, <2>1, <2>5
<1>5. CASE RejectEvent(h)
  <2>1. /\ pc'[h] = "reject_status" /\ Reviewing(h) /\ UNCHANGED <<runs, status>>
        /\ k = rid[h] /\ [kind |-> "rejected", run |-> k] \in events'[i]
    BY <1>0, <1>5 DEF RejectEvent, Goto, Reviewing, Log
  <2>2. Owes(h, i, k)'
    BY ONLY <1>0, <1>1, <2>1 DEF Owes, Claiming, Reviewing, IsLatest, Listed
  <2> QED
    BY <1>b, <2>1, <2>2
<1>6. CASE RejectStatus(h)
  <2>1. /\ pc'[h] = "reap" /\ pc[h] = "reject_status" /\ UNCHANGED <<runs, events>>
        /\ status'[i] = "rejected"
    BY <1>0, <1>6 DEF RejectStatus, Goto, SetStatus
  <2>2. /\ rid[h] \in RunIds /\ IsLatest(i, rid[h])
        /\ [kind |-> "rejected", run |-> rid[h]] \in events[i]
    BY ONLY <1>1, <2>1 DEF Owes, Reviewing
  <2>3. Ledger(i)'
    BY ONLY <2>1, <2>2 DEF Ledger, IsLatest, Listed
  <2>4. Owes(h, i, k)'
    BY ONLY <1>0, <2>1 DEF Owes, Claiming, Reviewing
  <2> QED
    BY <2>3, <2>4
<1>7. CASE SteerEvent(h)
  <2>1. pc'[h] = "begin" /\ Reviewing(h) /\ UNCHANGED <<runs, status>> /\ k = rid[h]
    BY <1>0, <1>7 DEF SteerEvent, Goto, Reviewing
  <2>2. Owes(h, i, k)'
    BY ONLY <1>0, <1>1, <2>1 DEF Owes, Claiming, Reviewing, IsLatest, Listed
  <2> QED
    BY <1>b, <2>1, <2>2
<1>8. CASE SteerBegin(h)
  <2>1. pc'[h] = "mark" /\ Reviewing(h) /\ UNCHANGED status
    BY <1>0, <1>8 DEF SteerBegin, Begin, Reviewing
  <2>2. Owes(h, i, k)'
    BY ONLY <1>0, <2>1 DEF Owes, Claiming, Reviewing
  <2> QED
    BY <1>b, <2>1, <2>2
<1>9. CASE WriteHtml(h)
  <2>1. /\ pc'[h] = "slack" /\ pc[h] = "html" /\ k = rid[h]
        /\ UNCHANGED <<runs, status, diagnoses>> /\ html'[i] = k
    BY <1>0, <1>9 DEF WriteHtml, Goto, Typed, TypeOK
  <2>2. Owes(h, i, k)'
    BY ONLY <1>0, <1>1, <2>1 DEF Owes, Claiming, Reviewing, IsLatest, Listed
  <2> QED
    BY <1>b, <2>1, <2>2 DEF Reviewing
<1>10. CASE PostSlack(h)
  <2>1. /\ pc'[h] = "post_event" /\ pc[h] = "slack" /\ k = rid[h]
        /\ UNCHANGED <<runs, status, diagnoses, html>>
    BY <1>0, <1>10 DEF PostSlack, Goto
  <2>2. k \in RunIds
    BY ONLY <1>1, <2>1 DEF Owes, Reviewing
  <2>3. slack'[i][k] > 0
    <3>1. slack[i][k] \in Nat /\ slack'[i][k] = slack[i][k] + 1
      BY <1>10, <2>1, <2>2 DEF PostSlack, ChannelReceives, Typed, TypeOK
    <3> QED
      BY <3>1
  <2>4. Owes(h, i, k)'
    BY ONLY <1>0, <1>1, <2>1, <2>3 DEF Owes, Claiming, Reviewing, IsLatest, Listed
  <2> QED
    BY <1>b, <2>1, <2>4 DEF Reviewing
<1>11. CASE PostSlackTimesOut(h)
  BY <1>a, <1>b, <1>11 DEF PostSlackTimesOut, Reviewing
<1>12. CASE PostEvent(h)
  <2>1. /\ pc'[h] = "post_status" /\ pc[h] = "post_event" /\ k = rid[h]
        /\ UNCHANGED <<runs, status, diagnoses, html, slack>>
        /\ [kind |-> "posted", run |-> k] \in events'[i]
    BY <1>0, <1>12 DEF PostEvent, Goto, Log
  <2>2. Owes(h, i, k)'
    BY ONLY <1>0, <1>1, <2>1 DEF Owes, Claiming, Reviewing, IsLatest, Listed
  <2> QED
    BY <1>b, <2>1, <2>2 DEF Reviewing
<1>13. CASE PostStatus(h)
  <2>1. /\ pc'[h] = "reap" /\ pc[h] = "post_status" /\ status'[i] = "posted"
        /\ UNCHANGED <<runs, diagnoses, html, slack, events>>
    BY <1>0, <1>13 DEF PostStatus, Goto, SetStatus
  <2>2. rid[h] \in RunIds /\ rid[h] # 0
    BY ONLY <1>1, <2>1, ConstantsAssumption DEF Owes, Reviewing, RunIds
  <2>3. Backed(i)
    BY ONLY <1>1, <2>1, <2>2 DEF Owes, Reviewing, Backed
  <2>4. Ledger(i)'
    BY ONLY <2>1, <2>3 DEF Ledger, Backed, IsLatest, Listed
  <2>5. Owes(h, i, k)'
    BY ONLY <1>0, <2>1 DEF Owes, Claiming, Reviewing
  <2> QED
    BY <2>4, <2>5
<1>14. CASE Reap(h)
  BY <1>a, <1>14, SameLedger DEF Reap
<1> QED
  BY ONLY ReviewStep(h), <1>4, <1>5, <1>6, <1>7, <1>8, <1>9, <1>10, <1>11, <1>12,
          <1>13, <1>14
     DEF ReviewStep

(* The worker finds the incident as the queue held it.                     *)
LEMMA LoadKeepsLedger ==
  ASSUME Typed, HandsInv, LedgerInv, NEW w \in Workers, Load(w)
  PROVE  LedgerInv'
<1>0. w \in Procs /\ WorksAlone(w) /\ UNCHANGED queue /\ pc \in [Procs -> PC]
  BY LoadsAlone DEF Procs, Typed, TypeOK
<1> PICK i \in Incidents : i = job[w]
  BY <1>0 DEF WorksAlone, Typed, Equipped
<1> PICK k : k = rid'[w]
  OBVIOUS
<1>1. Owes(w, i, rid[w]) /\ pc[w] = "load"
  BY <1>0 DEF LedgerInv, Load
<1>2. Ledger(i)' /\ (RunCompleted(i)' <=> RunCompleted(i))
  BY SameLedger DEF Load, storeVars, fileVars
<1>3. pc'[w] = "idle" \/ Owes(w, i, k)'
  <2>1. CASE Finish(w)
    BY <1>0, <2>1 DEF Finish
  <2>2. CASE Begin(w)
    <3>1. pc'[w] = "mark" /\ ~RunCompleted(i)'
      BY <1>0, <1>1, <1>2, <2>2 DEF Begin, Owes
    <3> QED
      BY ONLY <3>1 DEF Owes, Claiming, Reviewing
  <2> QED
    BY <2>1, <2>2 DEF Load
<1> QED
  BY <1>0, <1>2, <1>3, AloneKeepsLedger

(* A process that waits can still rest on what it has seen and done: the   *)
(* audit log only grows under it, and nobody is told of what it may still  *)
(* give back.                                                              *)
LEMMA WaitsOnItsWord ==
  ASSUME LedgerInv, NEW q \in Procs, StandsBy(q), NEW i, i = job[q],
         UNCHANGED <<runs, diagnoses, html, slack>>,
         pc[q] = "idle" \/ events[i] \subseteq events'[i],
         Claiming(q) /\ i \in accepted' => i \in accepted
  PROVE  Owes(q, job[q], rid[q])'
<1>1. Owes(q, i, rid[q])
  BY DEF LedgerInv
<1>2. job'[q] = i /\ rid'[q] = rid[q] /\ pc'[q] = pc[q]
  BY DEF StandsBy
<1>3. PICK k : k = rid[q]
  OBVIOUS
<1>4. Owes(q, i, k)'
  BY ONLY <1>1, <1>2, <1>3, UNCHANGED <<runs, diagnoses, html, slack>>,
          pc[q] = "idle" \/ events[i] \subseteq events'[i],
          Claiming(q) /\ i \in accepted' => i \in accepted
     DEF Owes, Claiming, Reviewing, Blank, Listed, IsLatest, RunCompleted
<1> QED
  BY ONLY <1>2, <1>3, <1>4 DEF Owes

LEMMA TakeKeepsLedger ==
  ASSUME Typed, HandsInv, LedgerInv, NEW w \in Workers, Take(w)
  PROVE  LedgerInv'
<1>0. /\ w \in Procs /\ pc'[w] = "load" /\ job'[w] = Head(queue)
      /\ \A q \in Procs : q # w => StandsBy(q)
      /\ UNCHANGED <<status, runs, diagnoses, events, html, slack, accepted>>
  BY DEF Take, Goto, Procs, StandsBy, Typed, TypeOK, storeVars, fileVars
<1>1. /\ 1 \in DOMAIN queue /\ Head(queue) = queue[1]
      /\ \A a \in DOMAIN queue' : a + 1 \in DOMAIN queue /\ queue'[a] = queue[a + 1]
  BY TailPlaces DEF Take, Typed, TypeOK
<1>2. \A j : RunCompleted(j)' <=> RunCompleted(j)
  <2> TAKE j
  <2> QED
    BY ONLY <1>0 DEF RunCompleted
<1>3. ASSUME NEW i \in Incidents  PROVE Ledger(i)'
  BY ONLY <1>0, LedgerInv, SameLedger
<1>4. ASSUME NEW q \in Procs, q # w  PROVE Owes(q, job[q], rid[q])'
  <2>1. PICK i : i = job[q]
    OBVIOUS
  <2> QED
    BY <1>0, <1>4, <2>1, WaitsOnItsWord
<1>5. Owes(w, job[w], rid[w])'
  <2>1. PICK i : i = queue[1]
    OBVIOUS
  <2>2. ~RunCompleted(i)' /\ job'[w] = i
    BY <1>0, <1>1, <1>2, <2>1 DEF LedgerInv
  <2> QED
    BY ONLY <1>0, <2>2 DEF Owes, Claiming, Reviewing
<1>6. ASSUME NEW a \in DOMAIN queue'  PROVE ~RunCompleted(queue[a])'
  <2>1. PICK j : j = queue'[a]
    OBVIOUS
  <2>2. ~RunCompleted(j)
    BY <1>1, <2>1 DEF LedgerInv
  <2> QED
    BY <1>2, <2>1, <2>2 DEF RunCompleted
<1> QED
  BY <1>3, <1>4, <1>5, <1>6 DEF LedgerInv

(* A request answers for an incident it finds, or takes up one that nobody *)
(* holds.                                                                  *)
LEMMA RequestKeepsLedger ==
  ASSUME Typed, HandsInv, LedgerInv, Request
  PROVE  LedgerInv'
<1>0. /\ pc \in [Procs -> PC] /\ job \in [Procs -> Incidents \cup {NoIncident}]
      /\ rid \in [Procs -> 0..MaxRuns]
      /\ UNCHANGED <<queue, runs, diagnoses, html, slack>>
      /\ \A i \in Incidents : Ledger(i)
  BY DEF Typed, TypeOK, Request, Duplicate, VerifyResolution, Deliver, Review,
         storeVars, fileVars, LedgerInv
<1>1. \A a \in DOMAIN queue' : ~RunCompleted(queue[a])'
  <2>1. \A a \in DOMAIN queue : ~RunCompleted(queue[a])
    BY DEF LedgerInv
  <2> QED
    BY ONLY <1>0, <2>1 DEF RunCompleted
<1>2. ASSUME NEW i \in Incidents, Duplicate(i)  PROVE LedgerInv'
  <2>1. /\ UNCHANGED <<status, events, pc, job, rid, draft>>
        /\ accepted' = accepted \cup {i} /\ status[i] # "absent"
    BY <1>2 DEF Duplicate, storeVars, procVars
  <2>2. ASSUME NEW j \in Incidents  PROVE Ledger(j)'
    BY ONLY <1>0, <2>1, <2>2
       DEF Ledger, Blank, Backed, Listed, IsLatest, RunCompleted
  <2>3. ASSUME NEW q \in Procs  PROVE Owes(q, job[q], rid[q])'
    <3>1. Claiming(q) => job[q] # i
      <4>1. Claiming(q) => q \in Handlers
        BY DEF HandsInv, Suited, Claiming, RunPC, FailPC, Procs
      <4> QED
        BY <1>2, <4>1 DEF Duplicate, LockFree
    <3>2. PICK j : j = job[q]
      OBVIOUS
    <3>3. Claiming(q) /\ j \in accepted' => j \in accepted
      BY ONLY <2>1, <3>1, <3>2
    <3>4. StandsBy(q) /\ events[j] \subseteq events'[j]
      BY ONLY <2>1 DEF StandsBy
    <3> QED
      BY <1>0, <3>2, <3>3, <3>4, WaitsOnItsWord
  <2> QED
    BY <1>1, <2>2, <2>3 DEF LedgerInv
<1>3. ASSUME NEW i \in Incidents, VerifyResolution(i)  PROVE LedgerInv'
  <2>1. /\ UNCHANGED <<status, pc, job, rid, draft, accepted>> /\ Listed(i) # {}
        /\ events \in [Incidents -> SUBSET Event]
        /\ \A j \in Incidents : events[j] \subseteq events'[j]
        /\ \A j \in Incidents : j # i => events'[j] = events[j]
    BY <1>3 DEF VerifyResolution, Log, procVars, Typed, TypeOK
  <2>2. ASSUME NEW j \in Incidents  PROVE Ledger(j)'
    <3>1. Ledger(j) /\ (status[j] = "absent" => events'[j] = events[j])
      BY <1>0, <2>1 DEF Ledger, Blank
    <3>2. events[j] \subseteq events'[j]
      BY <2>1
    <3> QED
      BY ONLY <1>0, <2>1, <3>1, <3>2
         DEF Ledger, Blank, Backed, Listed, IsLatest, RunCompleted
  <2>3. ASSUME NEW q \in Procs  PROVE Owes(q, job[q], rid[q])'
    <3>1. PICK j : j = job[q]
      OBVIOUS
    <3>2. StandsBy(q) /\ (pc[q] = "idle" \/ events[j] \subseteq events'[j])
      BY <2>1, <3>1 DEF StandsBy, Typed, Equipped
    <3> QED
      BY <1>0, <2>1, <3>1, <3>2, WaitsOnItsWord
  <2> QED
    BY <1>1, <2>2, <2>3 DEF LedgerInv
<1>4. ASSUME NEW h \in Handlers, h \in Procs,
             \A q \in Procs : q # h => StandsBy(q),
             UNCHANGED <<status, events, accepted>>, Owes(h, job[h], rid[h])'
      PROVE  LedgerInv'
  <2>1. ASSUME NEW j \in Incidents  PROVE Ledger(j)'
    BY ONLY <1>0, <1>4, LedgerInv, SameLedger
  <2>2. ASSUME NEW q \in Procs, q # h  PROVE Owes(q, job[q], rid[q])'
    <3>1. PICK j : j = job[q]
      OBVIOUS
    <3> QED
      BY <1>0, <1>4, <2>2, <3>1, WaitsOnItsWord
  <2> QED
    BY <1>1, <1>4, <2>1, <2>2 DEF LedgerInv
<1>5. ASSUME NEW i \in Incidents, NEW h \in Handlers, Deliver(h, i)  PROVE LedgerInv'
  <2>1. h \in Procs /\ pc'[h] = "insert" /\ \A q \in Procs : q # h => StandsBy(q)
    BY <1>0, <1>5 DEF Deliver, Goto, Procs, StandsBy
  <2>2. Owes(h, job[h], rid[h])'
    BY ONLY <2>1 DEF Owes, Claiming, Reviewing
  <2> QED
    BY <1>4, <1>5, <2>1, <2>2 DEF Deliver, storeVars
<1>6. ASSUME NEW i \in Incidents, NEW h \in Handlers, NEW d \in Decisions,
             Review(h, i, d)
      PROVE  LedgerInv'
  <2>1. PICK k \in RunIds : IsLatest(i, k) /\ rid' = [rid EXCEPT ![h] = k]
    BY <1>6 DEF Review
  <2>2. /\ pc' = [pc EXCEPT ![h] = d] /\ job' = [job EXCEPT ![h] = i]
        /\ draft' = draft /\ UNCHANGED <<status, events, accepted>>
    BY <1>6 DEF Review, Goto, storeVars
  <2>3. h \in Procs /\ pc'[h] = d /\ job'[h] = i /\ rid'[h] = k
    BY <1>0, <2>1, <2>2 DEF Procs
  <2>4. ASSUME NEW q \in Procs, q # h  PROVE StandsBy(q)
    BY <1>0, <2>1, <2>2, <2>4 DEF StandsBy
  <2>5. Owes(h, i, k)'
    BY ONLY <1>0, <2>1, <2>3, d \in Decisions
       DEF Owes, Claiming, Reviewing, Decisions, IsLatest, Listed
  <2>6. Owes(h, job[h], rid[h])'
    BY ONLY <2>3, <2>5 DEF Owes
  <2> QED
    BY <1>4, <2>2, <2>3, <2>4, <2>6
<1> QED
  BY <1>2, <1>3, <1>5, <1>6 DEF Request

(* Crash, start and recovery add nothing to the ledger, and recovery       *)
(* queues only what was never diagnosed.                                   *)
LEMMA LifespanKeepsLedger ==
  ASSUME Typed, HandsInv, LedgerInv, Boot \/ RecoveryStep \/ Crash
  PROVE  LedgerInv'
<1>0. /\ UNCHANGED <<runs, diagnoses, events, html, slack, accepted>>
      /\ \A i \in Incidents : Ledger(i)
      /\ \A a \in DOMAIN queue : ~RunCompleted(queue[a])
  BY DEF Boot, RecoveryStep, Reconcile, Recover, EnqueueAll, BootRaises, Crash,
         storeVars, fileVars, LedgerInv
<1>1. ASSUME NEW q \in Procs  PROVE Owes(q, job[q], rid[q])'
  <2>1. CASE pc'[q] = "idle"
    BY <2>1 DEF Owes, Claiming, Reviewing
  <2>2. CASE StandsBy(q)
    <3>1. PICK j : j = job[q]
      OBVIOUS
    <3> QED
      BY <1>0, <2>2, <3>1, WaitsOnItsWord
  <2>3. pc'[q] = "idle" \/ StandsBy(q)
    BY DEF Boot, RecoveryStep, Reconcile, Recover, EnqueueAll, BootRaises, Crash,
           procVars, StandsBy
  <2> QED
    BY <2>1, <2>2, <2>3
<1>2. ASSUME NEW i \in Incidents  PROVE Ledger(i)'
  <2>1. CASE UNCHANGED status
    BY ONLY <1>0, <2>1, LedgerInv, SameLedger
  <2>2. ASSUME NEW j \in Incidents, Reconcile(j)  PROVE Ledger(i)'
    <3>1. /\ i = j => status'[i] = "pending_review"
          /\ i # j => status'[i] = status[i]
      BY <2>2 DEF Reconcile, SetStatus, Typed, TypeOK
    <3> QED
      BY ONLY <1>0, <3>1, i \in Incidents, j \in Incidents
         DEF Ledger, Blank, Backed, Listed, IsLatest, RunCompleted
  <2>3. UNCHANGED status \/ \E j \in Incidents : Reconcile(j)
    BY DEF Boot, RecoveryStep, Recover, EnqueueAll, BootRaises, Crash, storeVars
  <2> QED
    BY <2>1, <2>2, <2>3
<1>3. ASSUME NEW a \in DOMAIN queue'  PROVE ~RunCompleted(queue[a])'
  <2>1. PICK j : j = queue'[a]
    OBVIOUS
  <2>2. ~RunCompleted(j)
    <3>1. CASE UNCHANGED queue
      BY <1>0, <2>1, <3>1
    <3>2. CASE Crash
      BY <3>2 DEF Crash
    <3>3. CASE Recover
      <4>1. /\ \A i \in Incidents : ~(Pending(i) /\ RunCompleted(i))
            /\ \E n \in 0..QueueMax : queue' \in [1..n -> {i \in Incidents : Pending(i)}]
        BY <3>3 DEF Recover, AllReconciled, EnqueueAll
      <4> QED
        BY <2>1, <4>1
    <3>4. UNCHANGED queue \/ Crash \/ Recover
      BY DEF Boot, RecoveryStep, Reconcile, BootRaises
    <3> QED
      BY <3>1, <3>2, <3>3, <3>4
  <2> QED
    BY ONLY <1>0, <2>1, <2>2 DEF RunCompleted
<1> QED
  BY <1>1, <1>2, <1>3 DEF LedgerInv

(* Nothing is known of any incident at the start.                          *)
LEMMA InitLedger == Init => LedgerInv
  BY DEF Init, LedgerInv, Ledger, Blank, Owes, Claiming, Reviewing, Listed, NoRun

LEMMA LedgerStep == Typed /\ HandsInv /\ RowInv /\ LedgerInv /\ [Next]_vars => LedgerInv'
<1> SUFFICES ASSUME Typed, HandsInv, RowInv, LedgerInv, [Next]_vars  PROVE LedgerInv'
  OBVIOUS
<1>1. CASE Request
  BY <1>1, RequestKeepsLedger
<1>2. ASSUME NEW w \in Workers, WorkerStep(w)  PROVE LedgerInv'
  BY <1>2, TakeKeepsLedger, LoadKeepsLedger, InvestigateKeepsLedger
     DEF WorkerStep, Procs
<1>3. ASSUME NEW h \in Handlers, HandlerStep(h)  PROVE LedgerInv'
  BY <1>3, IngressKeepsLedger, ReviewKeepsLedger, InvestigateKeepsLedger
     DEF HandlerStep, Procs
<1>4. CASE Boot \/ RecoveryStep \/ Crash
  BY <1>4, LifespanKeepsLedger
<1>5. CASE UNCHANGED vars
  <2>1. UNCHANGED <<status, runs, diagnoses, events, html, slack, accepted, queue,
                    pc, job, rid>>
    BY <1>5 DEF vars, storeVars, fileVars, procVars
  <2> QED
    BY ONLY LedgerInv, <2>1
       DEF LedgerInv, Ledger, Blank, Backed, Owes, Claiming, Reviewing, Listed,
           IsLatest, RunCompleted
<1> QED
  BY <1>1, <1>2, <1>3, <1>4, <1>5 DEF Next

THEOREM AlwaysInTheLedger == Spec => []LedgerInv
  BY InitLedger, LedgerStep, AlwaysTyped, AlwaysInOneHand, RowsAreInOrder, PTL DEF Spec

-----------------------------------------------------------------------------
(* What the ledger says.                                                   *)

(* A client that was told its incident is accepted keeps its incident.     *)
THEOREM AcceptedStays == Spec => []AcceptedIsKept
<1>1. Typed /\ LedgerInv => AcceptedIsKept
  BY DEF Typed, TypeOK, LedgerInv, Ledger, Blank, AcceptedIsKept
<1> QED
  BY AlwaysTyped, AlwaysInTheLedger, <1>1, PTL

(* An id without a row has nothing anywhere else: no run, no event, no     *)
(* file, no place in the queue and nobody who investigates it.             *)
THEOREM NothingIsLeftBehind == Spec => []AbsentIsClean
<1>1. HandsInv /\ LedgerInv => AbsentIsClean
  <2> SUFFICES ASSUME HandsInv, LedgerInv, NEW i \in Incidents, status[i] = "absent"
               PROVE  /\ Listed(i) = {} /\ events[i] = {} /\ html[i] = 0
                      /\ \A a \in DOMAIN queue : queue[a] # i
                      /\ \A p \in Procs : job[p] = i => ~Investigating(p)
    BY DEF AbsentIsClean
  <2>1. Listed(i) = {} /\ events[i] = {} /\ html[i] = 0
    BY DEF LedgerInv, Ledger, Blank
  <2>2. \A a \in DOMAIN queue : queue[a] # i
    BY DEF HandsInv, Pending
  <2>3. \A p \in Procs : job[p] = i => ~Investigating(p)
    BY DEF HandsInv, Standing, Investigating, Reviewing, Pending, RunPC, FailPC
  <2> QED
    BY <2>1, <2>2, <2>3
<1> QED
  BY AlwaysInOneHand, AlwaysInTheLedger, <1>1, PTL

(* A worker never investigates an incident that already has a completed    *)
(* run, whatever crashed between the run and its 'pending_review'.         *)
THEOREM NothingRunsTwice == Spec => []NoDuplicateRun
<1>1. LedgerInv => NoDuplicateRun
  BY DEF LedgerInv, Owes, NoDuplicateRun, Procs
<1> QED
  BY AlwaysInTheLedger, <1>1, PTL

(* A closed incident is backed by the audit log, the file and the channel. *)
THEOREM ClosesAreBacked == Spec => []ClosedIsBacked
<1>1. LedgerInv => ClosedIsBacked
  BY DEF LedgerInv, Ledger, Backed, IsLatest, ClosedIsBacked
<1> QED
  BY AlwaysInTheLedger, <1>1, PTL

(* The steps that remove a snapshot are the end of a rollback, of a review *)
(* and of a failed investigation.                                          *)
LEMMA WhoReaps ==
  ASSUME Typed, Next, NEW i \in Incidents, i \in snapshots \ snapshots'
  PROVE  \E p \in Procs : /\ job[p] = i
                          /\ pc[p] \in {"settle", "reap", "rollback_discard"}
<1> USE DEF storeVars, fileVars, procVars
<1>1. CASE Request
  BY <1>1 DEF Request, Duplicate, VerifyResolution, Deliver, Review
<1>2. ASSUME NEW p \in Procs, InvestigateStep(p)
      PROVE  job[p] = i /\ pc[p] = "settle"
  <2>1. WorksAlone(p)
    BY <1>2, InvestigatesAlone
  <2>2. Settle(p) \/ UNCHANGED snapshots
    BY <1>2
       DEF InvestigateStep, Mark, Loop, LoopRaises, SignalsRaise, RecordRun, RecordDiagnosis,
           RecordEvidence, RecordOutcome, Pend, RunRaises, FailRun, FailEvent,
           FailStatus, PersistRaises, Raise
  <2> QED
    BY <2>1, <2>2 DEF WorksAlone, Untouched, Settle
<1>3. ASSUME NEW w \in Workers, Take(w) \/ Load(w)  PROVE FALSE
  BY <1>3 DEF Take, Load
<1>4. ASSUME NEW h \in Handlers, IngressStep(h)
      PROVE  job[h] = i /\ pc[h] = "rollback_discard"
  <2>1. WorksAlone(h)
    BY <1>4, IngressAlone
  <2>2. RollbackDiscard(h) \/ snapshots \subseteq snapshots'
    BY <1>4
       DEF IngressStep, ClaimId, TakeSnapshot, SnapshotFails, Unclaim, LogReceived,
           Enqueue, Shed, RollbackDelete
  <2> QED
    BY <2>1, <2>2 DEF WorksAlone, Untouched, RollbackDiscard
<1>5. ASSUME NEW h \in Handlers, ReviewStep(h)
      PROVE  job[h] = i /\ pc[h] = "reap"
  <2>1. WorksAlone(h)
    BY <1>5, ReviewsAlone
  <2>2. Reap(h) \/ UNCHANGED snapshots
    BY <1>5
       DEF ReviewStep, SetReview, RejectEvent, RejectStatus, SteerEvent, SteerBegin,
           WriteHtml, PostSlack, PostSlackTimesOut, PostEvent, PostStatus
  <2> QED
    BY <2>1, <2>2 DEF WorksAlone, Untouched, Reap
<1>6. CASE Boot \/ RecoveryStep \/ Crash
  BY <1>6
     DEF Boot, RecoveryStep, Reconcile, Recover, EnqueueAll, BootRaises, Crash
<1> QED
  BY <1>1, <1>2, <1>3, <1>4, <1>5, <1>6 DEF Next, WorkerStep, HandlerStep, Procs

(* The snapshot a run reads is never removed under it: nobody else holds   *)
(* the incident.                                                           *)
THEOREM ReadsWhatIsThere == Spec => NoReapUnderRun
<1>1. Typed /\ HandsInv /\ [Next]_vars =>
        [\A i \in Incidents : i \in snapshots \ snapshots' =>
           ~ \E p \in Procs :
               job[p] = i /\ pc[p] \in {"load", "begin", "mark", "loop"}]_vars
  <2> SUFFICES ASSUME Typed, HandsInv, Next, NEW i \in Incidents,
                      i \in snapshots \ snapshots', NEW p \in Procs, job[p] = i
               PROVE  pc[p] \notin {"load", "begin", "mark", "loop"}
    OBVIOUS
  <2>1. PICK q \in Procs : /\ job[q] = i
                           /\ pc[q] \in {"settle", "reap", "rollback_discard"}
    BY WhoReaps
  <2>2. p = q
    BY <2>1, ConstantsAssumption DEF HandsInv, Sole
  <2> QED
    BY <2>1, <2>2
<1> QED
  BY AlwaysTyped, AlwaysInOneHand, <1>1, PTL DEF Spec, NoReapUnderRun

(* Only a request that publishes reaches the channel.                      *)
LEMMA WhoPosts ==
  ASSUME Typed, Next, NEW i \in Incidents, NEW k \in RunIds,
         slack'[i][k] # slack[i][k]
  PROVE  \E h \in Procs : job[h] = i /\ rid[h] = k /\ pc[h] = "slack"
<1> USE DEF storeVars, fileVars, procVars
<1>1. ASSUME NEW h \in Handlers, PostSlack(h) \/ PostSlackTimesOut(h)
      PROVE  job[h] = i /\ rid[h] = k /\ pc[h] = "slack"
  <2>1. /\ slack' = [slack EXCEPT ![job[h]][rid[h]] = @ + 1] /\ pc[h] = "slack"
        /\ slack \in [Incidents -> [RunIds -> Nat]]
    BY <1>1 DEF PostSlack, PostSlackTimesOut, ChannelReceives, Goto, Typed, TypeOK
  <2>2. job[h] = i
    BY ONLY <2>1, slack'[i][k] # slack[i][k], i \in Incidents
  <2>3. rid[h] = k
    BY ONLY <2>1, <2>2, slack'[i][k] # slack[i][k], i \in Incidents, k \in RunIds
  <2> QED
    BY <2>1, <2>2, <2>3
<1>2. ASSUME UNCHANGED slack  PROVE FALSE
  BY <1>2
<1>3. Request => UNCHANGED slack
  BY DEF Request, Duplicate, VerifyResolution, Deliver, Review
<1>4. ASSUME NEW p \in Procs, InvestigateStep(p)  PROVE UNCHANGED slack
  BY <1>4
     DEF InvestigateStep, Mark, Loop, LoopRaises, SignalsRaise, RecordRun, RecordDiagnosis,
         RecordEvidence, RecordOutcome, Pend, RunRaises, FailRun, FailEvent,
         FailStatus, PersistRaises, Settle, Raise
<1>5. ASSUME NEW w \in Workers, Take(w) \/ Load(w)  PROVE UNCHANGED slack
  BY <1>5 DEF Take, Load
<1>6. ASSUME NEW h \in Handlers, IngressStep(h)  PROVE UNCHANGED slack
  BY <1>6
     DEF IngressStep, ClaimId, TakeSnapshot, SnapshotFails, Unclaim, LogReceived,
         Enqueue, Shed, RollbackDelete, RollbackDiscard
<1>7. ASSUME NEW h \in Handlers, ReviewStep(h)
      PROVE  PostSlack(h) \/ PostSlackTimesOut(h) \/ UNCHANGED slack
  BY <1>7
     DEF ReviewStep, SetReview, RejectEvent, RejectStatus, SteerEvent, SteerBegin,
         WriteHtml, PostEvent, PostStatus, Reap
<1>8. Boot \/ RecoveryStep \/ Crash => UNCHANGED slack
  BY DEF Boot, RecoveryStep, Reconcile, Recover, EnqueueAll, BootRaises, Crash
<1> QED
  BY <1>1, <1>2, <1>3, <1>4, <1>5, <1>6, <1>7, <1>8
     DEF Next, WorkerStep, HandlerStep, Procs

(* The run chosen under the guards of the review is still the latest, and  *)
(* the incident still under review, when it is published.                  *)
THEOREM NothingStaleIsPublished == Spec => PublishesLatest
<1>1. Typed /\ HandsInv /\ LedgerInv /\ [Next]_vars =>
        [\A i \in Incidents, k \in RunIds : slack'[i][k] # slack[i][k] =>
           status[i] = "pending_review" /\ IsLatest(i, k)]_vars
  <2> SUFFICES ASSUME Typed, HandsInv, LedgerInv, Next, NEW i \in Incidents,
                      NEW k \in RunIds, slack'[i][k] # slack[i][k]
               PROVE  status[i] = "pending_review" /\ IsLatest(i, k)
    OBVIOUS
  <2>1. PICK h \in Procs : job[h] = i /\ rid[h] = k /\ pc[h] = "slack"
    BY WhoPosts
  <2>2. Standing(h) /\ Owes(h, i, k)
    BY <2>1 DEF HandsInv, LedgerInv
  <2> QED
    BY ONLY <2>1, <2>2 DEF Standing, Owes, Reviewing
<1> QED
  BY AlwaysTyped, AlwaysInOneHand, AlwaysInTheLedger, <1>1, PTL DEF Spec, PublishesLatest
=============================================================================
