----------------------- MODULE IncidentServiceProofs -----------------------
(***************************************************************************)
(* Proofs about IncidentService for any number of incidents, workers and   *)
(* requests, any length of the queue and any number of runs, faults and    *)
(* crashes.                                                                *)
(***************************************************************************)
EXTENDS IncidentProperties, TLAPS

-----------------------------------------------------------------------------
(* Type correctness.  The types alone are not inductive: a process writes  *)
(* at the incident, the run and with the draft it holds, so it must hold   *)
(* them whenever its next step needs them.                                 *)

Recording == {"record_run", "record_diagnosis", "record_evidence", "record_outcome"}

Equipped ==
  \A p \in Procs :
    /\ pc[p] # "idle" => job[p] \in Incidents
    /\ pc[p] \in RunPC \cup FailPC \cup ReviewPC => rid[p] \in RunIds
    /\ pc[p] \in Recording => draft[p].outcome \in Completed

Typed == TypeOK /\ Equipped

(* The empty rows and the empty draft are values of their tables.          *)
LEMMA DefaultsTyped ==
  NoRun \in RunRow /\ NoDiagnosis \in Diagnosis /\ NoDraft \in Draft
  BY DEF NoRun, NoDiagnosis, NoDraft, RunRow, Diagnosis, Draft

(* The queue grows by one.                                                 *)
LEMMA AppendTyped ==
  ASSUME NEW S, NEW s \in Seq(S), NEW e \in S
  PROVE  Append(s, e) \in Seq(S) /\ Len(Append(s, e)) = Len(s) + 1
  OBVIOUS

(* The queue shrinks by one.                                               *)
LEMMA TailTyped ==
  ASSUME NEW S, NEW s \in Seq(S), s # <<>>
  PROVE  Head(s) \in S /\ Tail(s) \in Seq(S) /\ Len(Tail(s)) = Len(s) - 1
  OBVIOUS

(* A process that finishes lets go of everything.                          *)
LEMMA FinishTyped ==
  ASSUME Typed, NEW p \in Procs, Finish(p)
  PROVE  /\ pc' \in [Procs -> PC]
         /\ job' \in [Procs -> Incidents \cup {NoIncident}]
         /\ rid' \in [Procs -> 0..MaxRuns]
         /\ draft' \in [Procs -> Draft]
         /\ Equipped'
<1> USE DEF Finish, Typed, TypeOK, RunIds
<1>1. pc' \in [Procs -> PC]
  BY DEF PC
<1>2. draft' \in [Procs -> Draft]
  BY DefaultsTyped
<1>3. Equipped'
  <2> SUFFICES ASSUME NEW q \in Procs, pc'[q] # "idle"
               PROVE  q # p /\ pc'[q] = pc[q] /\ job'[q] = job[q]
                        /\ rid'[q] = rid[q] /\ draft'[q] = draft[q]
    BY DEF Equipped, RunPC, FailPC, ReviewPC, Recording, Decisions
  <2> QED
    OBVIOUS
<1> QED
  BY <1>1, <1>2, <1>3, ConstantsAssumption

(* A process that begins an investigation holds the run it numbers.        *)
LEMMA BeginTyped ==
  ASSUME Typed, NEW p \in Procs, job[p] \in Incidents, Begin(p)
  PROVE  /\ pc' \in [Procs -> PC]
         /\ job' \in [Procs -> Incidents \cup {NoIncident}]
         /\ rid' \in [Procs -> 0..MaxRuns]
         /\ draft' \in [Procs -> Draft]
         /\ attempts' \in [Incidents -> 0..MaxRuns]
         /\ Equipped'
<1> USE DEF Begin, Typed, TypeOK
<1>1. attempts[job[p]] \in Nat /\ attempts[job[p]] + 1 \in RunIds
  BY ConstantsAssumption DEF RunIds
<1>2. /\ rid' \in [Procs -> 0..MaxRuns]
      /\ attempts' \in [Incidents -> 0..MaxRuns]
  BY <1>1 DEF RunIds
<1>3. pc' \in [Procs -> PC] /\ pc'[p] = "mark" /\ rid'[p] \in RunIds
  BY <1>1 DEF PC, RunPC
<1>4. \A q \in Procs : q # p => pc'[q] = pc[q] /\ rid'[q] = rid[q]
  OBVIOUS
<1>5. Equipped'
  BY <1>3, <1>4 DEF Equipped, Recording
<1> QED
  BY <1>2, <1>3, <1>5

(* The audit log only takes events.                                        *)
LEMMA LogTyped ==
  ASSUME TypeOK, NEW i \in Incidents, NEW kind \in EventKinds, NEW k \in 0..MaxRuns,
         Log(i, kind, k)
  PROVE  events' \in [Incidents -> SUBSET Event]
<1>1. [kind |-> kind, run |-> k] \in Event
  BY DEF Event
<1> QED
  BY <1>1 DEF TypeOK, Log

(* Faults are counted up to their bound.                                   *)
LEMMA FaultTyped ==
  ASSUME TypeOK, Fault
  PROVE  faults' \in 0..MaxFaults /\ crashes' \in 0..MaxCrashes
  BY ConstantsAssumption DEF TypeOK, Fault

(* A snapshot is removed, or removing it raises.                           *)
LEMMA DiscardTyped ==
  ASSUME TypeOK, NEW i \in Incidents, Discard(i)
  PROVE  /\ snapshots' \in SUBSET Incidents
         /\ faults' \in 0..MaxFaults /\ crashes' \in 0..MaxCrashes
<1>1. CASE Fault /\ UNCHANGED snapshots
  BY <1>1, FaultTyped DEF TypeOK
<1>2. CASE snapshots' = snapshots \ {i} /\ UNCHANGED boundVars
  BY <1>2 DEF TypeOK, boundVars
<1> QED
  BY <1>1, <1>2 DEF Discard

(* The channel counts what it receives.                                    *)
LEMMA ChannelTyped ==
  ASSUME TypeOK, NEW h \in Procs, job[h] \in Incidents, rid[h] \in RunIds,
         ChannelReceives(h)
  PROVE  slack' \in [Incidents -> [RunIds -> Nat]]
  BY DEF TypeOK, ChannelReceives

(* The service starts with empty tables and idle processes.                *)
LEMMA InitTyped == Init => Typed
  BY DefaultsTyped, ConstantsAssumption
     DEF Init, Typed, TypeOK, Equipped, PC, RunPC, FailPC, ReviewPC, Recording,
         RunIds,
         Statuses, Decisions

(* What a client or an operator starts.                                    *)
LEMMA RequestTyped ==
  ASSUME Typed, Request
  PROVE  Typed'
<1> USE DefaultsTyped, ConstantsAssumption
    DEF Typed, TypeOK, Equipped, storeVars, fileVars, procVars, boundVars, Procs,
        RunIds,
        PC, IngressPC, RunPC, FailPC, ReviewPC, Recording, Decisions
<1>1. ASSUME NEW i \in Incidents, Duplicate(i)  PROVE Typed'
  BY <1>1 DEF Duplicate
<1>2. ASSUME NEW i \in Incidents, VerifyResolution(i)  PROVE Typed'
  <2>1. events' \in [Incidents -> SUBSET Event]
    BY <1>2, LogTyped DEF VerifyResolution, EventKinds
  <2> QED
    BY <1>2, <2>1 DEF VerifyResolution
<1>3. ASSUME NEW h \in Handlers, NEW i \in Incidents, Deliver(h, i)  PROVE Typed'
  BY <1>3 DEF Deliver, Goto
<1>4. ASSUME NEW h \in Handlers, NEW i \in Incidents, NEW d \in Decisions,
             Review(h, i, d)
      PROVE  Typed'
  <2> PICK k \in RunIds : rid' = [rid EXCEPT ![h] = k]
    BY <1>4 DEF Review
  <2> QED
    BY <1>4 DEF Review, Goto
<1> QED
  BY ONLY Typed, Request, <1>1, <1>2, <1>3, <1>4 DEF Request

(* What the ingress does under the incident's lock.                        *)
LEMMA IngressTyped ==
  ASSUME Typed, NEW h \in Handlers, IngressStep(h)
  PROVE  Typed'
<1> USE DefaultsTyped, ConstantsAssumption
    DEF Typed, TypeOK, Equipped, storeVars, fileVars, procVars, boundVars, Procs,
        RunIds,
        PC, IngressPC, RunPC, FailPC, ReviewPC, Recording, Decisions
<1>1. CASE ClaimId(h)
  <2>1. job[h] \in Incidents
    BY <1>1 DEF ClaimId
  <2>2. CASE status[job[h]] = "absent"
    <3>1. /\ SetStatus(job[h], "queued")
          /\ Working(h, "snapshot")
          /\ UNCHANGED accepted
      BY ONLY <1>1, <2>2 DEF ClaimId
    <3>2. status' \in [Incidents -> Statuses]
      BY <2>1, <3>1 DEF SetStatus, Statuses
    <3>3. Equipped'
      BY <2>1, <3>1 DEF Working
    <3> QED
      BY <1>1, <2>2, <3>1, <3>2, <3>3 DEF ClaimId, Working
  <2>3. CASE status[job[h]] # "absent"
    <3>1. accepted' \in SUBSET Incidents
      BY <1>1, <2>1, <2>3 DEF ClaimId
    <3> QED
      BY <1>1, <2>3, <3>1, FinishTyped DEF ClaimId
  <2> QED
    BY <2>2, <2>3
<1>2. CASE TakeSnapshot(h)
  BY <1>2 DEF TakeSnapshot, Working
<1>3. CASE SnapshotFails(h)
  <2>1. faults' \in 0..MaxFaults /\ crashes' \in 0..MaxCrashes
    BY <1>3 DEF SnapshotFails, Fault
  <2> QED
    BY <1>3, <2>1 DEF SnapshotFails, Working
<1>4. CASE Unclaim(h)
  <2>1. /\ status' \in [Incidents -> Statuses]
        /\ events' \in [Incidents -> SUBSET Event]
    BY <1>4 DEF Unclaim, DeleteRow, SetStatus, Statuses
  <2> QED
    BY <1>4, <2>1, FinishTyped DEF Unclaim, DeleteRow
<1>5. CASE LogReceived(h)
  <2>1. job[h] \in Incidents /\ "received" \in EventKinds /\ 0 \in 0..MaxRuns
    BY <1>5 DEF LogReceived, Goto, EventKinds
  <2>2. events' \in [Incidents -> SUBSET Event]
    BY <1>5, <2>1, LogTyped DEF LogReceived
  <2> QED
    BY <1>5, <2>2 DEF LogReceived, Goto
<1>6. CASE Enqueue(h)
  <2>1. queue' \in Seq(Incidents) /\ Len(queue') <= QueueMax
    BY <1>6, AppendTyped DEF Enqueue
  <2> QED
    BY <1>6, <2>1, FinishTyped DEF Enqueue
<1>7. CASE Shed(h)
  BY <1>7 DEF Shed, Working
<1>8. CASE RollbackDelete(h)
  BY <1>8 DEF RollbackDelete, DeleteRow, Working, SetStatus, Statuses
<1>9. CASE RollbackDiscard(h)
  <2>1. /\ snapshots' \in SUBSET Incidents
        /\ faults' \in 0..MaxFaults
        /\ crashes' \in 0..MaxCrashes
    BY <1>9, DiscardTyped DEF RollbackDiscard
  <2> QED
    BY <1>9, <2>1, FinishTyped DEF RollbackDiscard
<1> QED
  BY ONLY Typed, IngressStep(h), <1>1, <1>2, <1>3, <1>4, <1>5, <1>6, <1>7, <1>8,
          <1>9
     DEF IngressStep

(* What an investigation does, in a worker or a request.                   *)
LEMMA InvestigateTyped ==
  ASSUME Typed, NEW p \in Procs, InvestigateStep(p)
  PROVE  Typed'
<1> USE DefaultsTyped, ConstantsAssumption
    DEF Typed, TypeOK, Equipped, storeVars, fileVars, procVars, boundVars, Procs,
        RunIds,
        PC, IngressPC, RunPC, FailPC, ReviewPC, Recording, Decisions
<1>1. CASE Mark(p)
  BY <1>1 DEF Mark, Goto, SetStatus, Statuses
<1>2. CASE Loop(p)
  <2>1. PICK d \in Draft : d.outcome # "none" /\ draft' = [draft EXCEPT ![p] = d]
    BY <1>2 DEF Loop
  <2>2. d.outcome \in Completed
    BY <2>1 DEF Draft
  <2> QED
    BY <1>2, <2>1, <2>2 DEF Loop, Goto
<1>3. CASE LoopRaises(p) \/ SignalsRaise(p)
  <2>1. CASE LoopRaises(p)
    BY <2>1 DEF LoopRaises, Goto
  <2>2. CASE SignalsRaise(p)
    <3>1. PICK outcome \in Completed :
            draft' = [draft EXCEPT ![p] = [outcome |-> outcome, fabricated |-> FALSE,
                                           verified |-> FALSE]]
      BY <2>2 DEF SignalsRaise
    <3>2. draft' \in [Procs -> Draft]
      BY <3>1 DEF Draft
    <3> QED
      BY <2>2, <3>1, <3>2 DEF SignalsRaise, Goto
  <2> QED
    BY <1>3, <2>1, <2>2
<1>4. CASE RecordRun(p)
  BY <1>4 DEF RecordRun, Goto, RunRow, Draft
<1>5. CASE RecordDiagnosis(p)
  BY <1>5 DEF RecordDiagnosis, Goto, Diagnosis
<1>6. CASE RecordEvidence(p)
  BY <1>6 DEF RecordEvidence, Goto
<1>7. CASE RecordOutcome(p)
  BY <1>7, LogTyped DEF RecordOutcome, Goto, Completed, EventKinds
<1>8. CASE Pend(p)
  <2>1. status' \in [Incidents -> Statuses]
    BY <1>8 DEF Pend, SetStatus, Statuses
  <2>2. CASE p \in Workers
    BY <1>8, <2>1, <2>2, FinishTyped DEF Pend
  <2>3. CASE p \notin Workers
    <3>1. Working(p, "settle")
      BY ONLY <1>8, <2>3 DEF Pend
    <3>2. Equipped'
      BY <1>8, <3>1 DEF Pend, Working
    <3> QED
      BY <1>8, <2>1, <3>1, <3>2 DEF Pend, Working
  <2> QED
    BY <2>2, <2>3
<1>9. CASE RunRaises(p)
  <2>1. faults' \in 0..MaxFaults /\ crashes' \in 0..MaxCrashes
    BY <1>9, FaultTyped DEF RunRaises
  <2>2. Equipped'
    BY <1>9 DEF RunRaises, Working
  <2> QED
    BY <1>9, <2>1, <2>2 DEF RunRaises, Working
<1>10. CASE FailRun(p)
  <2>1. [outcome |-> "failed", fabricated |-> FALSE] \in RunRow
    BY DEF RunRow
  <2>2. runs' \in [Incidents -> [RunIds -> RunRow]]
    BY <1>10, <2>1 DEF FailRun, Goto
  <2> QED
    BY <1>10, <2>2 DEF FailRun, Goto
<1>11. CASE FailEvent(p)
  BY <1>11, LogTyped DEF FailEvent, Goto, EventKinds
<1>12. CASE FailStatus(p)
  BY <1>12 DEF FailStatus, Goto, SetStatus, Statuses
<1>13. CASE PersistRaises(p)
  <2>1. faults' \in 0..MaxFaults /\ crashes' \in 0..MaxCrashes
    BY <1>13 DEF PersistRaises, Fault
  <2>2. \E step \in {"fail_event", "fail_status", "settle"} : Working(p, step)
    BY <1>13 DEF PersistRaises
  <2> QED
    BY <1>13, <2>1, <2>2 DEF PersistRaises, Working
<1>14. CASE Settle(p)
  <2>1. /\ snapshots' \in SUBSET Incidents
        /\ faults' \in 0..MaxFaults
        /\ crashes' \in 0..MaxCrashes
    BY <1>14, DiscardTyped DEF Settle
  <2> QED
    BY <1>14, <2>1, FinishTyped DEF Settle
<1>15. CASE Raise(p)
  <2>1. faults' \in 0..MaxFaults /\ crashes' \in 0..MaxCrashes
    BY <1>15, FaultTyped DEF Raise
  <2> QED
    BY <1>15, <2>1, FinishTyped DEF Raise
<1> QED
  BY ONLY Typed, InvestigateStep(p), <1>1, <1>2, <1>3, <1>4, <1>5, <1>6, <1>7,
          <1>8, <1>9, <1>10, <1>11, <1>12, <1>13, <1>14, <1>15
     DEF InvestigateStep

(* What a worker does besides.                                             *)
LEMMA WorkerTyped ==
  ASSUME Typed, NEW w \in Workers, Take(w) \/ Load(w)
  PROVE  Typed'
<1> USE DefaultsTyped, ConstantsAssumption
    DEF Typed, TypeOK, Equipped, storeVars, fileVars, procVars, boundVars, Procs,
        RunIds,
        PC, IngressPC, RunPC, FailPC, ReviewPC, Recording, Decisions
<1>1. CASE Take(w)
  <2>1. /\ Head(queue) \in Incidents
        /\ Tail(queue) \in Seq(Incidents)
        /\ Len(Tail(queue)) <= QueueMax
    BY <1>1, TailTyped DEF Take
  <2> QED
    BY <1>1, <2>1 DEF Take, Goto
<1>2. CASE Load(w)
  <2>1. CASE status[job[w]] = "absent"
    BY <1>2, <2>1, FinishTyped DEF Load
  <2>2. CASE status[job[w]] # "absent"
    <3>1. Begin(w) /\ job[w] \in Incidents
      BY <1>2, <2>2 DEF Load
    <3> QED
      BY <1>2, <3>1, BeginTyped DEF Load
  <2> QED
    BY <2>1, <2>2
<1> QED
  BY ONLY Typed, Take(w) \/ Load(w), <1>1, <1>2

(* What a review does under the incident's lock.                           *)
LEMMA ReviewTyped ==
  ASSUME Typed, NEW h \in Handlers, ReviewStep(h)
  PROVE  Typed'
<1> USE DefaultsTyped, ConstantsAssumption
    DEF Typed, TypeOK, Equipped, storeVars, fileVars, procVars, boundVars, Procs,
        RunIds,
        PC, IngressPC, RunPC, FailPC, ReviewPC, Recording, Decisions
<1>1. CASE SetReview(h)
  <2> DEFINE row == diagnoses[job[h]][rid[h]]
              new == IF row.verified = "none" THEN row.decision ELSE pc[h]
  <2>1. diagnoses' \in [Incidents -> [RunIds -> Diagnosis]]
    <3>1. job[h] \in Incidents /\ rid[h] \in RunIds /\ row \in Diagnosis
      BY <1>1 DEF SetReview
    <3>2. [row EXCEPT !.decision = new] \in Diagnosis
      BY <1>1, <3>1 DEF SetReview, Diagnosis
    <3> QED
      BY <1>1, <3>1, <3>2 DEF SetReview
  <2>2. pc' \in [Procs -> PC] /\ pc'[h] \in {"html", "reject_event", "steer_event"}
    BY <1>1 DEF SetReview, Working
  <2> QED
    BY <1>1, <2>1, <2>2 DEF SetReview, Working
<1>2. CASE RejectEvent(h)
  BY <1>2, LogTyped DEF RejectEvent, Goto, EventKinds
<1>3. CASE RejectStatus(h)
  BY <1>3 DEF RejectStatus, Goto, SetStatus, Statuses
<1>4. CASE SteerEvent(h)
  BY <1>4, LogTyped DEF SteerEvent, Goto, EventKinds
<1>5. CASE SteerBegin(h)
  <2>1. Begin(h) /\ job[h] \in Incidents
    BY <1>5 DEF SteerBegin
  <2> QED
    BY <1>5, <2>1, BeginTyped DEF SteerBegin
<1>6. CASE WriteHtml(h)
  BY <1>6 DEF WriteHtml, Goto
<1>7. CASE PostSlack(h)
  <2>1. slack' \in [Incidents -> [RunIds -> Nat]]
    BY <1>7, ChannelTyped DEF PostSlack, Goto
  <2> QED
    BY <1>7, <2>1 DEF PostSlack, Goto
<1>8. CASE PostSlackTimesOut(h)
  <2>1. slack' \in [Incidents -> [RunIds -> Nat]]
    BY <1>8, ChannelTyped DEF PostSlackTimesOut
  <2>2. faults' \in 0..MaxFaults /\ crashes' \in 0..MaxCrashes
    BY <1>8, FaultTyped DEF PostSlackTimesOut
  <2> QED
    BY <1>8, <2>1, <2>2, FinishTyped DEF PostSlackTimesOut
<1>9. CASE PostEvent(h)
  BY <1>9, LogTyped DEF PostEvent, Goto, EventKinds
<1>10. CASE PostStatus(h)
  BY <1>10 DEF PostStatus, Goto, SetStatus, Statuses
<1>11. CASE Reap(h)
  <2>1. /\ snapshots' \in SUBSET Incidents
        /\ faults' \in 0..MaxFaults
        /\ crashes' \in 0..MaxCrashes
    BY <1>11, DiscardTyped DEF Reap
  <2> QED
    BY <1>11, <2>1, FinishTyped DEF Reap
<1> QED
  BY ONLY Typed, ReviewStep(h), <1>1, <1>2, <1>3, <1>4, <1>5, <1>6, <1>7, <1>8,
          <1>9, <1>10, <1>11
     DEF ReviewStep

(* Crash, start and recovery.                                              *)
LEMMA RecoveryTyped ==
  ASSUME Typed, Crash \/ Boot \/ RecoveryStep
  PROVE  Typed'
<1> USE DefaultsTyped, ConstantsAssumption
    DEF Typed, TypeOK, Equipped, storeVars, fileVars, procVars, boundVars, Procs,
        RunIds,
        PC, IngressPC, RunPC, FailPC, ReviewPC, Recording, Decisions
<1>1. CASE Crash
  BY <1>1 DEF Crash
<1>2. CASE Boot
  BY <1>2 DEF Boot
<1>3. ASSUME NEW i \in Incidents, Reconcile(i)  PROVE Typed'
  BY <1>3 DEF Reconcile, SetStatus, Statuses
<1>4. CASE Recover
  BY <1>4 DEF Recover, EnqueueAll
<1>5. CASE BootRaises
  BY <1>5 DEF BootRaises, Fault
<1> QED
  BY ONLY Typed, Crash \/ Boot \/ RecoveryStep, <1>1, <1>2, <1>3, <1>4, <1>5
     DEF RecoveryStep

(* A stutter changes nothing.                                              *)
LEMMA StutterTyped ==
  ASSUME Typed, UNCHANGED vars
  PROVE  Typed'
  BY DEF vars, storeVars, fileVars, procVars, boundVars, Typed, TypeOK, Equipped

(* Every step preserves the types and what the processes hold.             *)
LEMMA TypedStep == Typed /\ [Next]_vars => Typed'
<1> SUFFICES ASSUME Typed, [Next]_vars  PROVE Typed'
  OBVIOUS
<1>1. CASE Request
  BY <1>1, RequestTyped
<1>2. ASSUME NEW w \in Workers, WorkerStep(w)  PROVE Typed'
  BY <1>2, WorkerTyped, InvestigateTyped DEF WorkerStep, Procs
<1>3. ASSUME NEW h \in Handlers, HandlerStep(h)  PROVE Typed'
  BY <1>3, IngressTyped, ReviewTyped, InvestigateTyped DEF HandlerStep, Procs
<1>4. CASE Boot \/ RecoveryStep \/ Crash
  BY <1>4, RecoveryTyped
<1>5. CASE UNCHANGED vars
  BY <1>5, StutterTyped
<1> QED
  BY <1>1, <1>2, <1>3, <1>4, <1>5 DEF Next

(* Every process holds what its next step needs.                           *)
THEOREM AlwaysTyped == Spec => []Typed
  BY InitTyped, TypedStep, PTL DEF Spec

(* Every variable keeps its type.                                          *)
THEOREM TypeCorrect == Spec => []TypeOK
<1>1. Typed => TypeOK
  BY DEF Typed
<1> QED
  BY AlwaysTyped, <1>1, PTL

-----------------------------------------------------------------------------
(* The service keeps every incident in one pair of hands: the queue, the   *)
(* workers and the requests together hold it at most once.  Workers take   *)
(* no lock, so this is not what the incident's lock says.  It holds        *)
(* because the status of an incident tells whose turn it is: a request     *)
(* takes up what is absent or pending review, the queue and the workers    *)
(* hold what is queued or running.                                         *)

(* A step of a process works on the incident the process holds, and on no  *)
(* other.                                                                  *)

Untouched(j) ==
  /\ status'[j] = status[j] /\ runs'[j] = runs[j] /\ diagnoses'[j] = diagnoses[j]
  /\ evidence'[j] = evidence[j] /\ events'[j] = events[j]
  /\ html'[j] = html[j] /\ slack'[j] = slack[j] /\ attempts'[j] = attempts[j]
  /\ j \in snapshots' <=> j \in snapshots
  /\ j \in accepted' <=> j \in accepted

StandsBy(q) == /\ pc'[q] = pc[q] /\ job'[q] = job[q]
               /\ rid'[q] = rid[q] /\ draft'[q] = draft[q]

WorksAlone(p) ==
  /\ pc[p] # "idle"
  /\ \A q \in Procs : q # p => StandsBy(q)
  /\ \A j \in Incidents : j # job[p] => Untouched(j)
  /\ \/ job'[p] = job[p] /\ pc'[p] # "idle"
     \/ job'[p] = NoIncident /\ pc'[p] = "idle"
  /\ UNCHANGED phase

(* The process moves on, or it lets go.                                    *)
LEMMA MovesAlone ==
  ASSUME Typed, NEW p \in Procs, pc[p] # "idle", NEW step, step # "idle",
         pc' = [pc EXCEPT ![p] = step], UNCHANGED <<job, rid, phase>>,
         \A q \in Procs : q # p => draft'[q] = draft[q],
         \A j \in Incidents : j # job[p] => Untouched(j)
  PROVE  WorksAlone(p) /\ pc'[p] = step /\ job'[p] = job[p] /\ rid'[p] = rid[p]
  BY DEF Typed, TypeOK, WorksAlone, StandsBy

LEMMA FinishesAlone ==
  ASSUME Typed, NEW p \in Procs, pc[p] # "idle", Finish(p), UNCHANGED phase,
         \A j \in Incidents : j # job[p] => Untouched(j)
  PROVE  WorksAlone(p) /\ pc'[p] = "idle"
  BY DEF Typed, TypeOK, WorksAlone, StandsBy, Finish

(* What an investigation does is done to the incident it is about.         *)
LEMMA InvestigatesAlone ==
  ASSUME Typed, NEW p \in Procs, InvestigateStep(p)
  PROVE  WorksAlone(p) /\ UNCHANGED queue
<1> USE DEF Typed, TypeOK, Equipped, storeVars, fileVars, procVars, boundVars,
            RunPC, FailPC, Untouched
<1>1. CASE Mark(p)
  BY <1>1, MovesAlone DEF Mark, Goto, SetStatus
<1>2. CASE Loop(p)
  BY <1>2, MovesAlone DEF Loop, Goto
<1>3. CASE LoopRaises(p) \/ SignalsRaise(p)
  BY <1>3, MovesAlone DEF LoopRaises, SignalsRaise, Goto
<1>4. CASE RecordRun(p)
  BY <1>4, MovesAlone DEF RecordRun, Goto
<1>5. CASE RecordDiagnosis(p)
  BY <1>5, MovesAlone DEF RecordDiagnosis, Goto
<1>6. CASE RecordEvidence(p)
  BY <1>6, MovesAlone DEF RecordEvidence, Goto
<1>7. CASE RecordOutcome(p)
  BY <1>7, MovesAlone DEF RecordOutcome, Goto, Log
<1>8. CASE Pend(p)
  BY <1>8, MovesAlone, FinishesAlone DEF Pend, SetStatus, Working
<1>9. CASE RunRaises(p)
  BY <1>9, MovesAlone DEF RunRaises, Working
<1>10. CASE FailRun(p)
  BY <1>10, MovesAlone DEF FailRun, Goto
<1>11. CASE FailEvent(p)
  BY <1>11, MovesAlone DEF FailEvent, Goto, Log
<1>12. CASE FailStatus(p)
  BY <1>12, MovesAlone DEF FailStatus, Goto, SetStatus
<1>13. CASE PersistRaises(p)
  <2>1. \E step \in {"fail_event", "fail_status", "settle"} : Working(p, step)
    BY <1>13 DEF PersistRaises
  <2> QED
    BY <1>13, <2>1, MovesAlone DEF PersistRaises, Working
<1>14. CASE Settle(p)
  <2>1. \A j \in Incidents : j # job[p] => (j \in snapshots' <=> j \in snapshots)
    BY <1>14 DEF Settle, Discard
  <2> QED
    BY <1>14, <2>1, FinishesAlone DEF Settle
<1>15. CASE Raise(p)
  BY <1>15, FinishesAlone DEF Raise, Decisions
<1> QED
  BY ONLY InvestigateStep(p), <1>1, <1>2, <1>3, <1>4, <1>5, <1>6, <1>7, <1>8, <1>9,
          <1>10, <1>11, <1>12, <1>13, <1>14, <1>15
     DEF InvestigateStep

(* What the ingress does is done to the incident it claims.                *)
LEMMA IngressAlone ==
  ASSUME Typed, NEW h \in Handlers, IngressStep(h)
  PROVE  WorksAlone(h) /\ (UNCHANGED queue \/ Enqueue(h))
<1>0. h \in Procs
  BY DEF Procs
<1> USE <1>0
    DEF Typed, TypeOK, Equipped, storeVars, fileVars, procVars, boundVars, Untouched
<1>1. CASE ClaimId(h)
  <2>1. CASE status[job[h]] = "absent"
    BY <1>1, <2>1, MovesAlone DEF ClaimId, SetStatus, Working
  <2>2. CASE status[job[h]] # "absent"
    BY <1>1, <2>2, FinishesAlone DEF ClaimId
  <2> QED
    BY <2>1, <2>2
<1>2. CASE TakeSnapshot(h)
  BY <1>2, MovesAlone DEF TakeSnapshot, Working
<1>3. CASE SnapshotFails(h)
  BY <1>3, MovesAlone DEF SnapshotFails, Working
<1>4. CASE Unclaim(h)
  BY <1>4, FinishesAlone DEF Unclaim, DeleteRow, SetStatus
<1>5. CASE LogReceived(h)
  BY <1>5, MovesAlone DEF LogReceived, Goto, Log
<1>6. CASE Enqueue(h)
  BY <1>6, FinishesAlone DEF Enqueue
<1>7. CASE Shed(h)
  BY <1>7, MovesAlone DEF Shed, Working
<1>8. CASE RollbackDelete(h)
  BY <1>8, MovesAlone DEF RollbackDelete, DeleteRow, SetStatus, Working
<1>9. CASE RollbackDiscard(h)
  <2>1. \A j \in Incidents : j # job[h] => (j \in snapshots' <=> j \in snapshots)
    BY <1>9 DEF RollbackDiscard, Discard
  <2> QED
    BY <1>9, <2>1, FinishesAlone DEF RollbackDiscard
<1> QED
  BY ONLY IngressStep(h), <1>1, <1>2, <1>3, <1>4, <1>5, <1>6, <1>7, <1>8, <1>9
     DEF IngressStep

(* What a review does is done to the incident it reviews.                  *)
LEMMA ReviewsAlone ==
  ASSUME Typed, NEW h \in Handlers, ReviewStep(h)
  PROVE  WorksAlone(h) /\ UNCHANGED queue
<1>0. h \in Procs
  BY DEF Procs
<1> USE <1>0
    DEF Typed, TypeOK, Equipped, storeVars, fileVars, procVars, boundVars, Untouched
<1>1. CASE SetReview(h)
  <2>1. /\ \E step \in {"html", "reject_event", "steer_event"} : Working(h, step)
        /\ pc[h] # "idle"
    BY <1>1 DEF SetReview, Decisions
  <2> QED
    BY <1>1, <2>1, MovesAlone DEF SetReview, Working
<1>2. CASE RejectEvent(h)
  BY <1>2, MovesAlone DEF RejectEvent, Goto, Log
<1>3. CASE RejectStatus(h)
  BY <1>3, MovesAlone DEF RejectStatus, Goto, SetStatus
<1>4. CASE SteerEvent(h)
  BY <1>4, MovesAlone DEF SteerEvent, Goto, Log
<1>5. CASE SteerBegin(h)
  <2>1. \A j \in Incidents : j # job[h] => Untouched(j)
    BY <1>5 DEF SteerBegin, Begin
  <2> QED
    BY <1>5, <2>1 DEF SteerBegin, Begin, WorksAlone, StandsBy
<1>6. CASE WriteHtml(h)
  BY <1>6, MovesAlone DEF WriteHtml, Goto
<1>7. CASE PostSlack(h)
  BY <1>7, MovesAlone DEF PostSlack, Goto, ChannelReceives
<1>8. CASE PostSlackTimesOut(h)
  BY <1>8, FinishesAlone DEF PostSlackTimesOut, ChannelReceives
<1>9. CASE PostEvent(h)
  BY <1>9, MovesAlone DEF PostEvent, Goto, Log
<1>10. CASE PostStatus(h)
  BY <1>10, MovesAlone DEF PostStatus, Goto, SetStatus
<1>11. CASE Reap(h)
  <2>1. \A j \in Incidents : j # job[h] => (j \in snapshots' <=> j \in snapshots)
    BY <1>11 DEF Reap, Discard
  <2> QED
    BY <1>11, <2>1, FinishesAlone DEF Reap
<1> QED
  BY ONLY ReviewStep(h), <1>1, <1>2, <1>3, <1>4, <1>5, <1>6, <1>7, <1>8, <1>9,
          <1>10, <1>11
     DEF ReviewStep

(* A worker that loads an incident works on it alone.                      *)
LEMMA LoadsAlone ==
  ASSUME Typed, NEW w \in Workers, Load(w)
  PROVE  WorksAlone(w) /\ UNCHANGED queue
<1>0. w \in Procs
  BY DEF Procs
<1> USE <1>0
    DEF Typed, TypeOK, Equipped, storeVars, fileVars, procVars, boundVars, Untouched
<1>1. CASE status[job[w]] = "absent"
  BY <1>1, FinishesAlone DEF Load
<1>2. CASE status[job[w]] # "absent"
  <2>1. \A j \in Incidents : j # job[w] => Untouched(j)
    BY <1>2 DEF Load, Begin
  <2> QED
    BY <1>2, <2>1 DEF Load, Begin, WorksAlone, StandsBy
<1> QED
  BY <1>1, <1>2
-----------------------------------------------------------------------------
(* Whose turn it is.                                                       *)

(* A request that may still roll its claim back.                           *)
Claiming(p) == pc[p] \in {"snapshot", "unclaim", "received", "enqueue", "rollback_delete"}

(* A request that decides about an incident, up to what ends its review.   *)
Reviewing(p) ==
  pc[p] \in {"approve", "reject", "steer", "steer_event", "begin", "reject_event",
             "reject_status", "html", "slack", "post_event", "post_status"}

(* The queue and the processes hold an incident once, all of them together.*)
Sole ==
  /\ \A a, b \in DOMAIN queue : queue[a] = queue[b] => a = b
  /\ \A a \in DOMAIN queue, p \in Procs : job[p] # queue[a]
  /\ \A p, q \in Procs : job[p] = job[q] /\ job[p] # NoIncident => p = q

(* What the process is about to do is for its kind of process to do.       *)
Suited(p) ==
  /\ pc[p] = "idle" <=> job[p] = NoIncident
  /\ p \in Workers => pc[p] \in {"idle", "load", "settle"} \cup RunPC \cup FailPC
  /\ p \in Handlers => pc[p] # "load"

(* The incident it holds has a status at which nobody else takes it up.    *)
Standing(p) ==
  /\ pc[p] \in {"insert", "rollback_discard"} => status[job[p]] = "absent"
  /\ Claiming(p)  => status[job[p]] = "queued"
  /\ Reviewing(p) => status[job[p]] = "pending_review"
  /\ pc[p] = "reap" => status[job[p]] \in {"posted", "rejected"}
  /\ pc[p] = "load" => Pending(job[p])
  /\ pc[p] \in RunPC \ {"mark"} => status[job[p]] = "running"
  /\ pc[p] \in FailPC \cup {"mark"} =>
       status[job[p]] \in {"running", IF p \in Workers THEN "queued" ELSE "pending_review"}
  /\ pc[p] = "settle" =>
       status[job[p]] \in {"running", "failed",
                           IF p \in Workers THEN "queued" ELSE "pending_review"}

(* Nothing is held before the service is up.                               *)
QuietUnlessUp == phase # "up" => queue = <<>> /\ \A p \in Procs : pc[p] = "idle"

HandsInv ==
  /\ Sole /\ QuietUnlessUp
  /\ \A p \in Procs : Suited(p) /\ Standing(p)
  /\ \A a \in DOMAIN queue : Pending(queue[a])

(* The last place of the queue is taken.                                   *)
LEMMA AppendPlaces ==
  ASSUME NEW S, NEW s \in Seq(S), NEW e \in S
  PROVE  \A a \in DOMAIN Append(s, e) :
           \/ a \in DOMAIN s /\ Append(s, e)[a] = s[a]
           \/ a = Len(s) + 1 /\ Append(s, e)[a] = e
  OBVIOUS

(* The first place of the queue is given up.                               *)
LEMMA TailPlaces ==
  ASSUME NEW S, NEW s \in Seq(S), s # <<>>
  PROVE  /\ 1 \in DOMAIN s /\ Head(s) = s[1]
         /\ \A a \in DOMAIN Tail(s) :
              a \in Nat \ {0} /\ a + 1 \in DOMAIN s /\ Tail(s)[a] = s[a + 1]
  OBVIOUS

(* What the queue holds are incidents.                                     *)
LEMMA QueueHolds ==
  ASSUME Typed
  PROVE  \A a \in DOMAIN queue : queue[a] \in Incidents
  BY DEF Typed, TypeOK

(* Nobody takes up an incident in a step of a process at work.             *)
LEMMA AloneKeepsHands ==
  ASSUME Typed, HandsInv, NEW p \in Procs, WorksAlone(p), UNCHANGED queue,
         Suited(p)', Standing(p)'
  PROVE  HandsInv'
<1>1. /\ Sole /\ QuietUnlessUp /\ \A q \in Procs : Suited(q) /\ Standing(q)
      /\ \A a \in DOMAIN queue : Pending(queue[a])
  BY DEF HandsInv
<1>2. /\ \A q \in Procs : q # p => pc'[q] = pc[q] /\ job'[q] = job[q]
      /\ \A j \in Incidents : j # job[p] => status'[j] = status[j]
      /\ job'[p] \in {job[p], NoIncident} /\ pc[p] # "idle" /\ job[p] \in Incidents
      /\ phase' = phase
  BY DEF WorksAlone, StandsBy, Untouched, Typed, Equipped
<1>3. \A q \in Procs : pc[q] # "idle" => job[q] \in Incidents
  BY DEF Typed, Equipped
<1>4. \A a \in DOMAIN queue : queue[a] \in Incidents
  BY QueueHolds
<1>5. Sole'
  BY ONLY <1>1, <1>2, <1>4, UNCHANGED queue, ConstantsAssumption DEF Sole
<1>6. QuietUnlessUp'
  BY ONLY <1>1, <1>2, p \in Procs DEF QuietUnlessUp
<1>7. ASSUME NEW q \in Procs, q # p  PROVE Suited(q)' /\ Standing(q)'
  <2>1. /\ Suited(q) /\ Standing(q) /\ pc'[q] = pc[q] /\ job'[q] = job[q]
        /\ pc[q] # "idle" => job[q] \in Incidents /\ job[q] # job[p]
    BY <1>1, <1>2, <1>3, <1>7, ConstantsAssumption DEF Sole
  <2>2. Suited(q)'
    BY ONLY <2>1 DEF Suited
  <2>3. pc[q] # "idle" => status'[job[q]] = status[job[q]]
    BY <1>2, <2>1
  <2> QED
    BY ONLY <2>1, <2>2, <2>3
       DEF Standing, Claiming, Reviewing, Pending, RunPC, FailPC
<1>8. \A a \in DOMAIN queue' : Pending(queue[a])'
  <2>1. \A a \in DOMAIN queue : queue[a] # job[p]
    BY <1>1 DEF Sole
  <2> QED
    BY ONLY <1>1, <1>2, <1>4, <2>1, UNCHANGED queue DEF Pending
<1> QED
  BY <1>5, <1>6, <1>7, <1>8 DEF HandsInv

(* An investigation leaves its incident at a status of its own.            *)
LEMMA InvestigateStands ==
  ASSUME Typed, HandsInv, NEW p \in Procs, InvestigateStep(p)
  PROVE  Suited(p)' /\ Standing(p)'
<1>0. /\ Suited(p) /\ Standing(p) /\ WorksAlone(p)
      /\ pc \in [Procs -> PC] /\ job \in [Procs -> Incidents \cup {NoIncident}]
      /\ status \in [Incidents -> Statuses]
      /\ job[p] \in Incidents /\ job[p] # NoIncident /\ pc[p] # "idle"
  BY InvestigatesAlone, ConstantsAssumption
     DEF HandsInv, Typed, TypeOK, Equipped, WorksAlone
<1>a. ASSUME Finish(p)  PROVE Suited(p)' /\ Standing(p)'
  BY ONLY <1>0, <1>a, p \in Procs
     DEF Finish, Suited, Standing, Claiming, Reviewing, RunPC, FailPC
<1>b. ASSUME NEW step \in (RunPC \cup FailPC) \ {"mark"}, pc' = [pc EXCEPT ![p] = step],
             UNCHANGED <<job, status>>, pc[p] \in RunPC \cup FailPC,
             step \in RunPC => pc[p] \in RunPC \ {"mark"}
      PROVE  Suited(p)' /\ Standing(p)'
  BY ONLY <1>0, <1>b, p \in Procs, ConstantsAssumption
     DEF Suited, Standing, Claiming, Reviewing, RunPC, FailPC, Procs
<1>1. CASE Mark(p)
  BY ONLY <1>0, <1>1, p \in Procs
     DEF Mark, Goto, SetStatus, Suited, Standing, Claiming, Reviewing, RunPC, FailPC
<1>2. CASE Loop(p)
  BY ONLY <1>b, <1>2 DEF Loop, Goto, storeVars, RunPC, FailPC
<1>3. CASE LoopRaises(p) \/ SignalsRaise(p)
  BY ONLY <1>b, <1>3 DEF LoopRaises, SignalsRaise, Goto, storeVars, RunPC, FailPC
<1>4. CASE RecordRun(p)
  BY ONLY <1>b, <1>4 DEF RecordRun, Goto, RunPC, FailPC
<1>5. CASE RecordDiagnosis(p)
  BY ONLY <1>b, <1>5 DEF RecordDiagnosis, Goto, RunPC, FailPC
<1>6. CASE RecordEvidence(p)
  BY ONLY <1>b, <1>6 DEF RecordEvidence, Goto, RunPC, FailPC
<1>7. CASE RecordOutcome(p)
  BY ONLY <1>b, <1>7 DEF RecordOutcome, Goto, RunPC, FailPC
<1>8. CASE Pend(p)
  <2>1. CASE p \in Workers
    BY ONLY <1>a, <1>8, <2>1 DEF Pend
  <2>2. CASE p \notin Workers
    BY ONLY <1>0, <1>8, <2>2, p \in Procs
       DEF Pend, Working, SetStatus, Suited, Standing, Claiming, Reviewing, RunPC,
           FailPC
  <2> QED
    BY <2>1, <2>2
<1>9. CASE RunRaises(p)
  BY ONLY <1>b, <1>9 DEF RunRaises, Working, storeVars, RunPC, FailPC
<1>10. CASE FailRun(p)
  BY ONLY <1>b, <1>10 DEF FailRun, Goto, RunPC, FailPC
<1>11. CASE FailEvent(p)
  BY ONLY <1>b, <1>11 DEF FailEvent, Goto, RunPC, FailPC
<1>12. CASE FailStatus(p)
  BY ONLY <1>0, <1>12, p \in Procs
     DEF FailStatus, Goto, SetStatus, Suited, Standing, Claiming, Reviewing, RunPC,
         FailPC
<1>13. CASE PersistRaises(p)
  <2>1. /\ \E step \in {"fail_event", "fail_status", "settle"} : Working(p, step)
        /\ UNCHANGED status /\ pc[p] \in FailPC
    BY <1>13 DEF PersistRaises, FailPC, storeVars
  <2> QED
    BY ONLY <1>0, <2>1, p \in Procs
       DEF Working, Suited, Standing, Claiming, Reviewing, RunPC, FailPC
<1>14. CASE Settle(p)
  BY ONLY <1>a, <1>14 DEF Settle
<1>15. CASE Raise(p)
  BY ONLY <1>a, <1>15 DEF Raise
<1> QED
  BY ONLY InvestigateStep(p), <1>1, <1>2, <1>3, <1>4, <1>5, <1>6, <1>7, <1>8, <1>9,
          <1>10, <1>11, <1>12, <1>13, <1>14, <1>15
     DEF InvestigateStep

(* So does the ingress.                                                    *)
LEMMA IngressStands ==
  ASSUME Typed, HandsInv, NEW h \in Handlers, IngressStep(h)
  PROVE  Suited(h)' /\ Standing(h)'
<1>0. /\ h \in Procs /\ h \notin Workers
      /\ Suited(h) /\ Standing(h) /\ WorksAlone(h)
      /\ pc \in [Procs -> PC] /\ job \in [Procs -> Incidents \cup {NoIncident}]
      /\ status \in [Incidents -> Statuses]
      /\ job[h] \in Incidents /\ job[h] # NoIncident /\ pc[h] # "idle"
  BY IngressAlone, ConstantsAssumption
     DEF HandsInv, Typed, TypeOK, Equipped, WorksAlone, Procs
<1>a. ASSUME Finish(h)  PROVE Suited(h)' /\ Standing(h)'
  BY ONLY <1>0, <1>a
     DEF Finish, Suited, Standing, Claiming, Reviewing, RunPC, FailPC
<1>b. ASSUME NEW step, Working(h, step), Claiming(h), UNCHANGED status,
             step \in {"unclaim", "received", "enqueue", "rollback_delete"}
      PROVE  Suited(h)' /\ Standing(h)'
  BY ONLY <1>0, <1>b
     DEF Working, Suited, Standing, Claiming, Reviewing, RunPC, FailPC
<1> USE DEF storeVars
<1>1. CASE ClaimId(h)
  <2>1. CASE status[job[h]] = "absent"
    BY ONLY <1>0, <1>1, <2>1
       DEF ClaimId, SetStatus, Working, Suited, Standing, Claiming, Reviewing, RunPC,
           FailPC
  <2>2. CASE status[job[h]] # "absent"
    BY ONLY <1>a, <1>1, <2>2 DEF ClaimId
  <2> QED
    BY <2>1, <2>2
<1>2. CASE TakeSnapshot(h)
  BY ONLY <1>b, <1>2 DEF TakeSnapshot, Claiming
<1>3. CASE SnapshotFails(h)
  BY ONLY <1>b, <1>3 DEF SnapshotFails, Claiming
<1>4. CASE Unclaim(h)
  BY ONLY <1>a, <1>4 DEF Unclaim
<1>5. CASE LogReceived(h)
  BY ONLY <1>b, <1>5 DEF LogReceived, Goto, Working, Claiming
<1>6. CASE Enqueue(h)
  BY ONLY <1>a, <1>6 DEF Enqueue
<1>7. CASE Shed(h)
  BY ONLY <1>b, <1>7 DEF Shed, Claiming
<1>8. CASE RollbackDelete(h)
  BY ONLY <1>0, <1>8
     DEF RollbackDelete, DeleteRow, SetStatus, Working, Suited, Standing, Claiming,
         Reviewing, RunPC, FailPC
<1>9. CASE RollbackDiscard(h)
  BY ONLY <1>a, <1>9 DEF RollbackDiscard
<1> QED
  BY ONLY IngressStep(h), <1>1, <1>2, <1>3, <1>4, <1>5, <1>6, <1>7, <1>8, <1>9
     DEF IngressStep

(* So does a review, and the worker that loads an incident.                *)
LEMMA ReviewStands ==
  ASSUME Typed, HandsInv, NEW h \in Handlers, ReviewStep(h)
  PROVE  Suited(h)' /\ Standing(h)'
<1>0. /\ h \in Procs /\ h \notin Workers
      /\ Suited(h) /\ Standing(h) /\ WorksAlone(h)
      /\ pc \in [Procs -> PC] /\ job \in [Procs -> Incidents \cup {NoIncident}]
      /\ status \in [Incidents -> Statuses]
      /\ job[h] \in Incidents /\ job[h] # NoIncident /\ pc[h] # "idle"
  BY ReviewsAlone, ConstantsAssumption
     DEF HandsInv, Typed, TypeOK, Equipped, WorksAlone, Procs
<1>a. ASSUME Finish(h)  PROVE Suited(h)' /\ Standing(h)'
  BY ONLY <1>0, <1>a
     DEF Finish, Suited, Standing, Claiming, Reviewing, RunPC, FailPC
<1>b. ASSUME NEW step, pc' = [pc EXCEPT ![h] = step], UNCHANGED <<job, status>>,
             Reviewing(h),
             step \in {"steer_event", "begin", "mark", "reject_event", "reject_status",
                       "html", "slack", "post_event", "post_status"}
      PROVE  Suited(h)' /\ Standing(h)'
  BY ONLY <1>0, <1>b
     DEF Suited, Standing, Claiming, Reviewing, RunPC, FailPC
<1> USE DEF storeVars
<1>1. CASE SetReview(h)
  <2>1. /\ \E step \in {"html", "reject_event", "steer_event"} : Working(h, step)
        /\ Reviewing(h) /\ UNCHANGED status
    BY <1>1 DEF SetReview, Decisions, Reviewing
  <2> QED
    BY ONLY <1>b, <2>1 DEF Working
<1>2. CASE RejectEvent(h)
  BY ONLY <1>b, <1>2 DEF RejectEvent, Goto, Reviewing
<1>3. CASE RejectStatus(h)
  BY ONLY <1>0, <1>3
     DEF RejectStatus, Goto, SetStatus, Suited, Standing, Claiming, Reviewing, RunPC,
         FailPC
<1>4. CASE SteerEvent(h)
  BY ONLY <1>b, <1>4 DEF SteerEvent, Goto, Reviewing
<1>5. CASE SteerBegin(h)
  BY ONLY <1>b, <1>5 DEF SteerBegin, Begin, Reviewing
<1>6. CASE WriteHtml(h)
  BY ONLY <1>b, <1>6 DEF WriteHtml, Goto, Reviewing
<1>7. CASE PostSlack(h)
  BY ONLY <1>b, <1>7 DEF PostSlack, Goto, Reviewing
<1>8. CASE PostSlackTimesOut(h)
  BY ONLY <1>a, <1>8 DEF PostSlackTimesOut
<1>9. CASE PostEvent(h)
  BY ONLY <1>b, <1>9 DEF PostEvent, Goto, Reviewing
<1>10. CASE PostStatus(h)
  BY ONLY <1>0, <1>10
     DEF PostStatus, Goto, SetStatus, Suited, Standing, Claiming, Reviewing, RunPC,
         FailPC
<1>11. CASE Reap(h)
  BY ONLY <1>a, <1>11 DEF Reap
<1> QED
  BY ONLY ReviewStep(h), <1>1, <1>2, <1>3, <1>4, <1>5, <1>6, <1>7, <1>8, <1>9,
          <1>10, <1>11
     DEF ReviewStep

LEMMA LoadStands ==
  ASSUME Typed, HandsInv, NEW w \in Workers, Load(w)
  PROVE  Suited(w)' /\ Standing(w)'
<1>0. /\ w \in Procs /\ w \notin Handlers
      /\ Suited(w) /\ Standing(w) /\ pc[w] = "load"
      /\ pc \in [Procs -> PC] /\ job \in [Procs -> Incidents \cup {NoIncident}]
      /\ job[w] \in Incidents /\ job[w] # NoIncident /\ UNCHANGED status
  BY ConstantsAssumption
     DEF HandsInv, Typed, TypeOK, Equipped, Procs, Load, storeVars
<1>1. CASE Finish(w)
  BY ONLY <1>0, <1>1
     DEF Finish, Suited, Standing, Claiming, Reviewing, RunPC, FailPC
<1>2. CASE Begin(w)
  BY ONLY <1>0, <1>2, w \in Workers
     DEF Begin, Suited, Standing, Pending, Claiming, Reviewing, RunPC, FailPC
<1> QED
  BY <1>1, <1>2 DEF Load

(* The ingress hands its incident over to the queue.                       *)
LEMMA EnqueueKeepsHands ==
  ASSUME Typed, HandsInv, NEW h \in Handlers, Enqueue(h)
  PROVE  HandsInv'
<1>1. /\ h \in Procs /\ WorksAlone(h) /\ Suited(h)' /\ Standing(h)'
      /\ Sole /\ QuietUnlessUp /\ \A q \in Procs : Suited(q) /\ Standing(q)
      /\ \A a \in DOMAIN queue : Pending(queue[a])
  BY IngressAlone, IngressStands DEF HandsInv, IngressStep, Procs
<1>2. /\ \A q \in Procs : q # h => pc'[q] = pc[q] /\ job'[q] = job[q]
      /\ job'[h] = NoIncident /\ pc[h] # "idle" /\ job[h] \in Incidents
      /\ status' = status /\ phase' = phase /\ Pending(job[h])
  BY <1>1
     DEF WorksAlone, StandsBy, Typed, TypeOK, Equipped, Enqueue, Finish, storeVars,
         Standing, Claiming, Pending
<1>3. /\ \A a \in DOMAIN queue' : \/ a \in DOMAIN queue /\ queue'[a] = queue[a]
                                  \/ a = Len(queue) + 1 /\ queue'[a] = job[h]
      /\ \A a \in DOMAIN queue : queue[a] \in Incidents
  BY <1>2, AppendPlaces, QueueHolds DEF Enqueue, Typed, TypeOK
<1>4. Sole'
  BY ONLY <1>1, <1>2, <1>3, ConstantsAssumption DEF Sole
<1>5. QuietUnlessUp'
  BY ONLY <1>1, <1>2 DEF QuietUnlessUp
<1>6. ASSUME NEW q \in Procs, q # h  PROVE Suited(q)' /\ Standing(q)'
  BY ONLY <1>1, <1>2, <1>6
     DEF Suited, Standing, Claiming, Reviewing, Pending, RunPC, FailPC
<1>7. \A a \in DOMAIN queue' : Pending(queue[a])'
  BY ONLY <1>1, <1>2, <1>3 DEF Pending
<1> QED
  BY <1>1, <1>4, <1>5, <1>6, <1>7 DEF HandsInv

(* The queue hands an incident over to a worker.                           *)
LEMMA TakeKeepsHands ==
  ASSUME Typed, HandsInv, NEW w \in Workers, Take(w)
  PROVE  HandsInv'
<1>1. /\ w \in Procs /\ w \notin Handlers /\ phase = "up" /\ pc[w] = "idle"
      /\ Sole /\ \A q \in Procs : Suited(q) /\ Standing(q)
      /\ \A a \in DOMAIN queue : Pending(queue[a])
  BY ConstantsAssumption DEF HandsInv, Take, Goto, Procs
<1>2. /\ \A q \in Procs : q # w => pc'[q] = pc[q] /\ job'[q] = job[q]
      /\ job'[w] = Head(queue) /\ pc'[w] = "load" /\ job[w] = NoIncident
      /\ status' = status /\ phase' = phase /\ queue' = Tail(queue)
  BY <1>1 DEF Take, Goto, Typed, TypeOK, storeVars, Suited
<1>3. /\ \A a \in DOMAIN queue : queue[a] \in Incidents
      /\ 1 \in DOMAIN queue /\ Head(queue) = queue[1]
      /\ \A a \in DOMAIN queue' :
           a \in Nat \ {0} /\ a + 1 \in DOMAIN queue /\ queue'[a] = queue[a + 1]
  BY <1>2, TailPlaces, QueueHolds DEF Take, Typed, TypeOK
<1>4. Sole'
  <2>1. \A a, b \in DOMAIN queue' : queue'[a] = queue'[b] => a = b
    <3>1. \A a, b \in Nat : a + 1 = b + 1 => a = b
      OBVIOUS
    <3> QED
      BY ONLY <1>1, <1>3, <3>1 DEF Sole
  <2>2. \A a \in DOMAIN queue', q \in Procs : job'[q] # queue'[a]
    <3>1. \A a \in Nat \ {0} : a + 1 # 1
      OBVIOUS
    <3> QED
      BY ONLY <1>1, <1>2, <1>3, <3>1 DEF Sole
  <2>3. \A q, r \in Procs : job'[q] = job'[r] /\ job'[q] # NoIncident => q = r
    BY ONLY <1>1, <1>2, <1>3 DEF Sole
  <2> QED
    BY ONLY <2>1, <2>2, <2>3 DEF Sole
<1>5. QuietUnlessUp'
  BY <1>1, <1>2 DEF QuietUnlessUp
<1>6. ASSUME NEW q \in Procs, q # w  PROVE Suited(q)' /\ Standing(q)'
  BY ONLY <1>1, <1>2, <1>6
     DEF Suited, Standing, Claiming, Reviewing, Pending, RunPC, FailPC
<1>7. Suited(w)' /\ Standing(w)'
  BY ONLY <1>1, <1>2, <1>3, ConstantsAssumption
     DEF Suited, Standing, Claiming, Reviewing, Pending, RunPC, FailPC
<1>8. \A a \in DOMAIN queue' : Pending(queue[a])'
  BY ONLY <1>1, <1>2, <1>3 DEF Pending
<1> QED
  BY <1>4, <1>5, <1>6, <1>7, <1>8 DEF HandsInv

(* An incident that is absent or under review is held by nobody when its   *)
(* lock is free: no worker takes it up.                                    *)
LEMMA FreeMeansUnheld ==
  ASSUME HandsInv, NEW i \in Incidents, LockFree(i),
         status[i] \in {"absent", "pending_review"}
  PROVE  \A q \in Procs : job[q] # i
<1>1. ASSUME NEW w \in Workers, job[w] = i  PROVE FALSE
  <2>1. Suited(w) /\ Standing(w) /\ i # NoIncident
    BY ConstantsAssumption DEF HandsInv, Procs
  <2> QED
    BY ONLY <1>1, <2>1, status[i] \in {"absent", "pending_review"}, w \in Workers
       DEF Suited, Standing, Pending, RunPC, FailPC
<1> QED
  BY <1>1 DEF LockFree, Procs

(* A request takes up an incident that nobody holds.                       *)
LEMMA RequestKeepsHands ==
  ASSUME Typed, HandsInv, Request
  PROVE  HandsInv'
<1>0. /\ Sole /\ QuietUnlessUp /\ \A q \in Procs : Suited(q) /\ Standing(q)
      /\ \A a \in DOMAIN queue : Pending(queue[a])
      /\ pc \in [Procs -> PC] /\ job \in [Procs -> Incidents \cup {NoIncident}]
  BY DEF HandsInv, Typed, TypeOK
<1>1. ASSUME NEW i \in Incidents, Duplicate(i) \/ VerifyResolution(i)  PROVE HandsInv'
  <2>1. UNCHANGED <<status, pc, job, queue, phase>>
    BY <1>1 DEF Duplicate, VerifyResolution, storeVars, procVars
  <2> QED
    BY ONLY HandsInv, <2>1
       DEF HandsInv, Sole, QuietUnlessUp, Suited, Standing, Claiming, Reviewing,
           Pending
<1>2. ASSUME NEW i \in Incidents, NEW h \in Handlers,
             NEW step \in {"insert"} \cup Decisions,
             phase = "up", LockFree(i), pc[h] = "idle",
             status[i] = IF step = "insert" THEN "absent" ELSE "pending_review",
             pc' = [pc EXCEPT ![h] = step], job' = [job EXCEPT ![h] = i],
             UNCHANGED <<status, queue, phase>>
      PROVE  HandsInv'
  <2>1. /\ h \in Procs /\ h \notin Workers /\ job[h] = NoIncident
        /\ \A q \in Procs : q # h => pc'[q] = pc[q] /\ job'[q] = job[q]
        /\ pc'[h] = step /\ job'[h] = i
    BY <1>0, <1>2, ConstantsAssumption DEF Procs, Suited
  <2>2. \A q \in Procs : job[q] # i
    BY <1>2, FreeMeansUnheld
  <2>3. \A a \in DOMAIN queue : queue[a] # i
    BY <1>0, <1>2 DEF Pending
  <2>4. Sole'
    BY ONLY <1>0, <1>2, <2>1, <2>2, <2>3 DEF Sole
  <2>5. QuietUnlessUp'
    BY ONLY <1>2 DEF QuietUnlessUp
  <2>6. ASSUME NEW q \in Procs, q # h  PROVE Suited(q)' /\ Standing(q)'
    BY ONLY <1>0, <1>2, <2>1, <2>6
       DEF Suited, Standing, Claiming, Reviewing, Pending
  <2>7. Suited(h)' /\ Standing(h)'
    BY ONLY <1>2, <2>1, ConstantsAssumption
       DEF Suited, Standing, Claiming, Reviewing, Pending, RunPC, FailPC, Decisions
  <2>8. \A a \in DOMAIN queue' : Pending(queue[a])'
    BY ONLY <1>0, <1>2 DEF Pending
  <2> QED
    BY <2>4, <2>5, <2>6, <2>7, <2>8 DEF HandsInv
<1>3. ASSUME NEW i \in Incidents, NEW h \in Handlers, Deliver(h, i)  PROVE HandsInv'
  BY <1>2, <1>3 DEF Deliver, Goto, storeVars
<1>4. ASSUME NEW i \in Incidents, NEW h \in Handlers, NEW d \in Decisions,
             Review(h, i, d)
      PROVE  HandsInv'
  BY <1>2, <1>4 DEF Review, Goto, storeVars, Decisions
<1> QED
  BY <1>1, <1>3, <1>4 DEF Request

(* A crash empties every hand; recovery fills the queue before anybody     *)
(* else can take an incident up.                                           *)
LEMMA LifespanKeepsHands ==
  ASSUME Typed, HandsInv, Boot \/ RecoveryStep \/ Crash
  PROVE  HandsInv'
<1>0. /\ Sole /\ QuietUnlessUp /\ \A q \in Procs : Suited(q) /\ Standing(q)
      /\ \A a \in DOMAIN queue : Pending(queue[a])
  BY DEF HandsInv
<1>1. ASSUME \A q \in Procs : pc'[q] = "idle" /\ job'[q] = NoIncident
      PROVE  /\ \A q \in Procs : Suited(q)' /\ Standing(q)'
             /\ \A p, q \in Procs : job'[p] = job'[q] /\ job'[p] # NoIncident => p = q
  BY ONLY <1>1 DEF Suited, Standing, Claiming, Reviewing, RunPC, FailPC
<1>2. CASE Crash
  <2>1. /\ \A q \in Procs : pc'[q] = "idle" /\ job'[q] = NoIncident
        /\ queue' = <<>> /\ DOMAIN queue' = {}
    BY <1>2 DEF Crash
  <2> QED
    BY ONLY <1>1, <2>1 DEF HandsInv, Sole, QuietUnlessUp
<1>3. ASSUME Boot \/ BootRaises \/ Recover \/ \E i \in Incidents : Reconcile(i)
      PROVE  HandsInv'
  <2>1. phase # "up" /\ UNCHANGED <<pc, job>> /\ (UNCHANGED queue \/ Recover)
    BY <1>3 DEF Boot, BootRaises, Recover, EnqueueAll, Reconcile, storeVars, procVars
  <2>2. /\ \A q \in Procs : pc'[q] = "idle" /\ job'[q] = NoIncident
        /\ queue = <<>> /\ DOMAIN queue = {}
    BY <1>0, <2>1 DEF QuietUnlessUp, Suited
  <2>3. CASE UNCHANGED queue
    <3>1. DOMAIN queue' = {} /\ queue' = <<>>
      BY <2>2, <2>3
    <3> QED
      BY ONLY <1>1, <2>2, <3>1 DEF HandsInv, Sole, QuietUnlessUp
  <2>4. CASE Recover
    <3>1. /\ phase' = "up" /\ UNCHANGED status
          /\ \E n \in 0..QueueMax : \E s \in [1..n -> {i \in Incidents : Pending(i)}] :
               (\A a, b \in 1..n : s[a] = s[b] => a = b) /\ queue' = s
      BY <2>4 DEF Recover, EnqueueAll, storeVars
    <3>2. /\ \A a, b \in DOMAIN queue' : queue'[a] = queue'[b] => a = b
          /\ \A a \in DOMAIN queue' : queue'[a] \in Incidents /\ Pending(queue'[a])
      BY <3>1
    <3>3. \A a \in DOMAIN queue', q \in Procs : job'[q] # queue'[a]
      BY <2>2, <3>2, ConstantsAssumption
    <3>4. \A a \in DOMAIN queue' : Pending(queue[a])'
      BY ONLY <3>1, <3>2 DEF Pending
    <3> QED
      BY ONLY <1>1, <2>2, <3>1, <3>2, <3>3, <3>4 DEF HandsInv, Sole, QuietUnlessUp
  <2> QED
    BY <1>3, <2>1, <2>3, <2>4
<1> QED
  BY <1>2, <1>3 DEF RecoveryStep

(* At the start every hand is empty.                                       *)
LEMMA InitHands == Init => HandsInv
  BY ConstantsAssumption
     DEF Init, HandsInv, Sole, QuietUnlessUp, Suited, Standing, Claiming, Reviewing,
         RunPC, FailPC

(* Every step keeps every incident in one pair of hands.                   *)
LEMMA HandsStep == Typed /\ HandsInv /\ [Next]_vars => HandsInv'
<1> SUFFICES ASSUME Typed, HandsInv, [Next]_vars  PROVE HandsInv'
  OBVIOUS
<1>1. CASE Request
  BY <1>1, RequestKeepsHands
<1>2. ASSUME NEW p \in Procs, InvestigateStep(p)  PROVE HandsInv'
  BY <1>2, InvestigatesAlone, InvestigateStands, AloneKeepsHands
<1>3. ASSUME NEW w \in Workers, WorkerStep(w)  PROVE HandsInv'
  <2>1. w \in Procs
    BY DEF Procs
  <2>2. CASE Take(w)
    BY <2>2, TakeKeepsHands
  <2>3. CASE Load(w)
    BY <2>1, <2>3, LoadsAlone, LoadStands, AloneKeepsHands
  <2> QED
    BY <1>2, <1>3, <2>1, <2>2, <2>3 DEF WorkerStep
<1>4. ASSUME NEW h \in Handlers, HandlerStep(h)  PROVE HandsInv'
  <2>1. h \in Procs
    BY DEF Procs
  <2>2. CASE IngressStep(h)
    BY <2>1, <2>2, IngressAlone, IngressStands, AloneKeepsHands, EnqueueKeepsHands
  <2>3. CASE ReviewStep(h)
    BY <2>1, <2>3, ReviewsAlone, ReviewStands, AloneKeepsHands
  <2> QED
    BY <1>2, <1>4, <2>1, <2>2, <2>3 DEF HandlerStep
<1>5. CASE Boot \/ RecoveryStep \/ Crash
  BY <1>5, LifespanKeepsHands
<1>6. CASE UNCHANGED vars
  <2>1. UNCHANGED <<status, pc, job, queue, phase>>
    BY <1>6 DEF vars, storeVars, procVars
  <2> QED
    BY ONLY HandsInv, <2>1
       DEF HandsInv, Sole, QuietUnlessUp, Suited, Standing, Claiming, Reviewing,
           Pending
<1> QED
  BY <1>1, <1>3, <1>4, <1>5, <1>6 DEF Next

THEOREM AlwaysInOneHand == Spec => []HandsInv
  BY InitHands, HandsStep, AlwaysTyped, PTL DEF Spec

(* No incident is investigated twice at the same time.                     *)
THEOREM NeverTwiceAtOnce == Spec => []Exclusive
<1>1. Typed /\ HandsInv => Exclusive
  <2> SUFFICES ASSUME Typed, HandsInv  PROVE Exclusive
    OBVIOUS
  <2>1. \A p \in Procs : Investigating(p) => job[p] # NoIncident
    BY ConstantsAssumption DEF Investigating, Typed, Equipped, RunPC, FailPC
  <2> QED
    BY <2>1 DEF HandsInv, Sole, Exclusive
<1> QED
  BY AlwaysTyped, AlwaysInOneHand, <1>1, PTL
=============================================================================
