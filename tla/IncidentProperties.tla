------------------------- MODULE IncidentProperties -------------------------
(***************************************************************************)
(* What IncidentService must satisfy.  The first section holds whatever    *)
(* faults and crashes happen; the second needs the trouble the code does   *)
(* not recover from to be absent, and says which; the third is liveness.   *)
(***************************************************************************)
EXTENDS IncidentService

Closed == {"posted", "rejected", "failed"}

(* A process that is about to investigate, or is investigating.            *)
Investigating(p) == pc[p] \in {"load", "begin", "settle"} \cup RunPC \cup FailPC

-----------------------------------------------------------------------------
(* Under any fault and any crash.                                          *)

(* Fail closed: whatever reached the channel or the postmortem file is a   *)
(* finished, verified diagnosis with no fabricated citation, although the  *)
(* checks are made in one transaction and the publishing happens later,    *)
(* outside any (review.py, the approve branch).                            *)
FailClosed ==
  \A i \in Incidents, k \in RunIds :
    slack[i][k] > 0 \/ html[i] = k =>
      /\ runs[i][k].outcome \in Completed
      /\ ~runs[i][k].fabricated
      /\ diagnoses[i][k].verified = "yes"

(* No incident is investigated twice at the same time: queue, workers and  *)
(* steering reviews together hold an incident at most once.                *)
Exclusive ==
  /\ \A a, b \in DOMAIN queue : queue[a] = queue[b] => a = b
  /\ \A p \in Procs : Investigating(p) =>
       /\ \A a \in DOMAIN queue : queue[a] # job[p]
       /\ \A q \in Procs : Investigating(q) /\ job[q] = job[p] => q = p

(* A client that was answered 202, or 200 for a duplicate, keeps its       *)
(* incident: no rollback deletes a row somebody was told about.            *)
AcceptedIsKept == \A i \in accepted : status[i] # "absent"

(* delete_incident clears events and incidents only, because it runs       *)
(* "before any run exists": an id without a row has nothing anywhere else, *)
(* so the next claim of the id starts from nothing.                        *)
AbsentIsClean ==
  \A i \in Incidents : status[i] = "absent" =>
    /\ Listed(i) = {} /\ events[i] = {} /\ html[i] = 0
    /\ \A a \in DOMAIN queue : queue[a] # i
    /\ \A p \in Procs : job[p] = i => ~Investigating(p)

(* Recovery does not re-run what finished ("a re-run would persist a       *)
(* duplicate run"): a worker never investigates an incident that already   *)
(* has a completed run.                                                    *)
NoDuplicateRun ==
  \A w \in Workers :
    pc[w] \in {"load", "mark", "loop", "record_run"} => ~RunCompleted(job[w])

(* A closed incident is backed by the audit log: posted by the approval of *)
(* the very run the postmortem shows and the channel received, rejected by *)
(* a recorded rejection.                                                   *)
ClosedIsBacked ==
  \A i \in Incidents :
    /\ status[i] = "posted" =>
         /\ html[i] # 0 /\ IsLatest(i, html[i]) /\ slack[i][html[i]] > 0
         /\ diagnoses[i][html[i]].decision = "approve"
         /\ [kind |-> "posted", run |-> html[i]] \in events[i]
    /\ status[i] = "rejected" =>
         \E k \in Listed(i) : IsLatest(i, k) /\ [kind |-> "rejected", run |-> k] \in events[i]

(* The snapshot a run reads is never removed under it.                     *)
NoReapUnderRun ==
  [][\A i \in Incidents : i \in snapshots \ snapshots' =>
       ~ \E p \in Procs : job[p] = i /\ pc[p] \in {"load", "begin", "mark", "loop"}]_vars

(* The channel only ever receives the run the operator sees as latest, of  *)
(* an incident still under review: the run chosen under the guards is not  *)
(* stale when it is published.                                             *)
PublishesLatest ==
  [][\A i \in Incidents, k \in RunIds : slack'[i][k] # slack[i][k] =>
       status[i] = "pending_review" /\ IsLatest(i, k)]_vars

(* The service implements what it promises about each incident.            *)
Lifecycle == INSTANCE IncidentLifecycle
  WITH stage     <- status,
       accepted  <- accepted,
       published <- {i \in Incidents : \E k \in RunIds : slack[i][k] > 0}

ImplementsLifecycle == Lifecycle!LifecycleSpec

-----------------------------------------------------------------------------
(* With part of the trouble absent.                                        *)

(* At most one fault: a diagnosis the loop produced is not lost unless the *)
(* process is.  When its investigation ends it is in the diagnoses table,  *)
(* or in one of the two records of the failure that carry it, the run's    *)
(* 'failed' row and the 'failed' event ("each write is independently       *)
(* guarded"); a run whose row was written before it failed has only the    *)
(* table and the event.                                                    *)
DiagnosisSurvives ==
  [][\A p \in Procs :
       draft[p] # NoDraft /\ draft'[p] = NoDraft /\ phase' # "down" =>
         \/ diagnoses[job[p]][rid[p]].verified # "none"
         \/ runs[job[p]][rid[p]].outcome = "failed"
         \/ [kind |-> "failed", run |-> rid[p]] \in events[job[p]]]_vars

(* No fault, and a queue that holds every incident: while the service is   *)
(* up, an incident that waits for an investigation has exactly somebody to *)
(* run it, whatever crashed before ("never leave an incident orphaned").   *)
NoOrphan ==
  \A i \in Incidents : phase = "up" /\ Pending(i) =>
    \/ \E a \in DOMAIN queue : queue[a] = i
    \/ \E p \in Procs : job[p] = i

(* No fault and no crash: an incident under review offers a finished run   *)
(* with everything the review reads and the audit log owes.                *)
ReviewIsComplete ==
  \A i \in Incidents : status[i] = "pending_review" /\ LockFree(i) =>
    \E k \in RunIds :
      /\ IsLatest(i, k) /\ runs[i][k].outcome \in Completed
      /\ k = attempts[i]
      /\ diagnoses[i][k].verified # "none" /\ diagnoses[i][k].decision = "none"
      /\ runs[i][k].outcome = "diagnosed" => k \in evidence[i]
      /\ [kind |-> runs[i][k].outcome, run |-> k] \in events[i]

(* No fault and no crash: the snapshot is there from the claim to the      *)
(* close and not a moment longer.                                          *)
SnapshotWhileOpen ==
  \A i \in Incidents : (\A p \in Procs : job[p] # i) =>
    (i \in snapshots <=> status[i] \in {"queued", "running", "pending_review"})

(* "The review gate posts once per incident."                              *)
PostedOnce ==
  \A i \in Incidents, k \in RunIds :
    slack[i][k] <= 1 /\ \A l \in RunIds : slack[i][k] > 0 /\ slack[i][l] > 0 => k = l

(* "Reject: post nothing."                                                 *)
RejectedPostsNothing ==
  \A i \in Incidents : status[i] = "rejected" => \A k \in RunIds : slack[i][k] = 0

(* "So a client retry can cleanly re-claim and re-enqueue": once nobody    *)
(* works on an id without a row, its snapshot directory is gone, or every  *)
(* later claim of it fails.                                                *)
CleanRetry ==
  \A i \in Incidents : status[i] = "absent" /\ LockFree(i) => i \notin snapshots

(* Recovery reconciles an incident to 'pending_review' because "the run    *)
(* finished": the investigation it was last running is the completed one.  *)
ReconcilesFinishedRun ==
  [][\A i \in Incidents :
       phase = "recovering" /\ status[i] # "pending_review" /\ status'[i] = "pending_review"
         => runs[i][attempts[i]].outcome \in Completed]_vars

-----------------------------------------------------------------------------
(* Liveness, under Fairness.                                               *)

(* If the service stays up in the end, an accepted incident does not wait  *)
(* for ever: it reaches review or a close, across crashes and recoveries.  *)
AcceptedSettles ==
  <>[](phase = "up") =>
    \A i \in Incidents : i \in accepted /\ Pending(i) ~> ~Pending(i)

(* Every request ends and releases its incident's lock.                    *)
RequestsEnd == \A h \in Handlers : job[h] # NoIncident ~> job[h] = NoIncident
=============================================================================
