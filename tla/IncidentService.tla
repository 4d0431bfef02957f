-------------------------- MODULE IncidentService --------------------------
(***************************************************************************)
(* The incident-response service of src/quellgeist/service: the signed     *)
(* ingress, the bounded queue and its workers, the investigation they run  *)
(* and the operator's review, over a SQLite store and a directory of       *)
(* frozen signal snapshots.                                                *)
(*                                                                         *)
(* One action is one store transaction, one file operation, one call to    *)
(* the channel or one step of the event loop.  Every writer in             *)
(* store/dao.py commits a transaction of its own, so the service can be    *)
(* interrupted between any two actions of one request or one run.          *)
(*                                                                         *)
(* Three kinds of trouble are modelled, each bounded by a constant:        *)
(*   - an operation that raises (the store is locked, the disk is full,    *)
(*     the channel times out): MaxFaults of them;                          *)
(*   - a crash of the process, with a restart: MaxCrashes of them;         *)
(*   - a provider that fails, or a snapshot file that does not parse: any  *)
(*     number, an investigation then fails.                                *)
(***************************************************************************)
EXTENDS Naturals, Sequences

CONSTANTS
  Incidents,       \* ids a client delivers
  Workers,         \* the worker tasks of the pool, one executor thread each
  Handlers,        \* requests served at the same time, each in a thread
  NoIncident,      \* what an idle process works on
  QueueMax,        \* ServiceConfig.queue_maxsize
  VerifierPinned,  \* config.make_verifier_provider() returns a provider
  MaxRuns,         \* bound: investigations of one incident
  MaxFaults,       \* bound: operations that raise
  MaxCrashes       \* bound: crashes of the process

ASSUME ConstantsAssumption ==
  /\ Workers \cap Handlers = {}
  /\ NoIncident \notin Incidents
  /\ QueueMax \in Nat \ {0}     \* ServiceConfig refuses a smaller one
  /\ VerifierPinned \in BOOLEAN
  /\ MaxRuns \in Nat
  /\ MaxFaults \in Nat
  /\ MaxCrashes \in Nat

-----------------------------------------------------------------------------
(* Type definitions.                                                       *)

Procs    == Workers \cup Handlers
RunIds   == 1..MaxRuns
Statuses == {"absent", "queued", "running", "pending_review",
             "posted", "rejected", "failed"}
Completed == {"diagnosed", "abstained"}
Decisions == {"approve", "reject", "steer"}

RunRow    == [outcome : {"none", "failed"} \cup Completed, fabricated : BOOLEAN]
NoRun     == [outcome |-> "none", fabricated |-> FALSE]
Diagnosis == [verified : {"none", "no", "yes"}, decision : {"none"} \cup Decisions]
NoDiagnosis == [verified |-> "none", decision |-> "none"]

(* What a run holds in memory before its rows are written.                 *)
Draft   == [outcome : {"none"} \cup Completed, fabricated : BOOLEAN, verified : BOOLEAN]
NoDraft == [outcome |-> "none", fabricated |-> FALSE, verified |-> FALSE]

EventKinds == {"received", "rejected", "steered", "posted", "resolution", "failed"}
                \cup Completed
Event      == [kind : EventKinds, run : 0..MaxRuns]

IngressPC  == {"insert", "snapshot", "unclaim", "received", "enqueue",
               "rollback_delete", "rollback_discard"}
RunPC      == {"mark", "loop", "record_run", "record_diagnosis",
               "record_evidence", "record_outcome", "pend"}
FailPC     == {"fail_run", "fail_event", "fail_status"}
ReviewPC   == Decisions \cup {"steer_event", "begin", "reject_event", "reject_status",
               "html", "slack", "post_event", "post_status", "reap"}
PC         == {"idle", "load", "settle"} \cup IngressPC \cup RunPC \cup FailPC \cup ReviewPC

VARIABLES
  (* the store *)
  status,          \* incidents.status of each id, "absent" without a row
  runs,            \* runs: row of the k-th investigation of each incident
  diagnoses,       \* diagnoses: row of the k-th investigation
  evidence,        \* investigations whose citations are in the evidence table
  events,          \* the audit log
  (* files and the channel *)
  snapshots,       \* incidents whose frozen signal directory exists
  html,            \* the investigation the postmortem file shows, 0 without one
  slack,           \* how often the channel received the k-th diagnosis
  (* memory of the process *)
  queue,           \* the pool's asyncio.Queue
  phase,           \* lifespan of the application
  pc, job, rid, draft,  \* per process: next step, incident, run, its draft
  (* history and bounds *)
  accepted,        \* incidents whose client got a 202, or a 200 for a duplicate
  attempts,        \* investigations begun for each incident
  faults, crashes

storeVars   == <<status, runs, diagnoses, evidence, events>>
fileVars    == <<snapshots, html, slack>>
procVars    == <<pc, job, rid, draft>>
boundVars   == <<faults, crashes>>
vars == <<storeVars, fileVars, procVars, queue, phase, accepted, attempts, boundVars>>

TypeOK ==
  /\ status \in [Incidents -> Statuses]
  /\ runs \in [Incidents -> [RunIds -> RunRow]]
  /\ diagnoses \in [Incidents -> [RunIds -> Diagnosis]]
  /\ evidence \in [Incidents -> SUBSET RunIds]
  /\ events \in [Incidents -> SUBSET Event]
  /\ snapshots \in SUBSET Incidents
  /\ html \in [Incidents -> 0..MaxRuns]
  /\ slack \in [Incidents -> [RunIds -> Nat]]
  /\ queue \in Seq(Incidents) /\ Len(queue) <= QueueMax
  /\ phase \in {"down", "recovering", "up"}
  /\ pc \in [Procs -> PC]
  /\ job \in [Procs -> Incidents \cup {NoIncident}]
  /\ rid \in [Procs -> 0..MaxRuns]
  /\ draft \in [Procs -> Draft]
  /\ accepted \in SUBSET Incidents
  /\ attempts \in [Incidents -> 0..MaxRuns]
  /\ faults \in 0..MaxFaults
  /\ crashes \in 0..MaxCrashes

Init ==
  /\ status = [i \in Incidents |-> "absent"]
  /\ runs = [i \in Incidents |-> [k \in RunIds |-> NoRun]]
  /\ diagnoses = [i \in Incidents |-> [k \in RunIds |-> NoDiagnosis]]
  /\ evidence = [i \in Incidents |-> {}]
  /\ events = [i \in Incidents |-> {}]
  /\ snapshots = {}
  /\ html = [i \in Incidents |-> 0]
  /\ slack = [i \in Incidents |-> [k \in RunIds |-> 0]]
  /\ queue = <<>>
  /\ phase = "down"
  /\ pc = [p \in Procs |-> "idle"]
  /\ job = [p \in Procs |-> NoIncident]
  /\ rid = [p \in Procs |-> 0]
  /\ draft = [p \in Procs |-> NoDraft]
  /\ accepted = {}
  /\ attempts = [i \in Incidents |-> 0]
  /\ faults = 0
  /\ crashes = 0

-----------------------------------------------------------------------------
(* Helpers.                                                                *)

(* Slips the code could contain are kept beside the definition they are a  *)
(* slip of, each headed "Slip:"; the specification never uses them.  They  *)
(* show that the properties depend on what the code does.                  *)

(* Slip: no lock.                                                          *)
NoLock(i) == TRUE

(* The per-incident asyncio.Lock: held by the request that works on the    *)
(* incident, whether it came through the ingress, the review endpoint or   *)
(* the resolution endpoint.  Workers never take it.                        *)
LockFree(i) == \A h \in Handlers : job[h] # i

(* dao.list_runs orders by started_ts, the order investigations begin in.  *)
Listed(i) == {k \in RunIds : runs[i][k].outcome # "none"}
(* Slip: runs[0] for runs[-1].                                             *)
IsOldest(i, k) == k \in Listed(i) /\ \A l \in Listed(i) : k <= l

IsLatest(i, k) == k \in Listed(i) /\ \A l \in Listed(i) : l <= k

RunCompleted(i) == \E k \in RunIds : runs[i][k].outcome \in Completed

(* Slip: the fabrication check is forgotten.                               *)
PostableUnchecked(i, k) == diagnoses[i][k].verified = "yes"

(* What the approve branch checks of the latest run before it publishes.   *)
Postable(i, k) == /\ ~runs[i][k].fabricated
                  /\ diagnoses[i][k].verified = "yes"

Goto(p, from, to) == pc[p] = from /\ pc' = [pc EXCEPT ![p] = to]
Working(p, step)  == /\ pc' = [pc EXCEPT ![p] = step]
                     /\ UNCHANGED <<job, rid, draft>>
Finish(p) ==
  /\ pc' = [pc EXCEPT ![p] = "idle"]
  /\ job' = [job EXCEPT ![p] = NoIncident]
  /\ rid' = [rid EXCEPT ![p] = 0]
  /\ draft' = [draft EXCEPT ![p] = NoDraft]

Fault == faults < MaxFaults /\ faults' = faults + 1 /\ UNCHANGED crashes

Log(i, kind, k) ==
  events' = [events EXCEPT ![i] = @ \cup {[kind |-> kind, run |-> k]}]
SetStatus(i, s) == status' = [status EXCEPT ![i] = s]

-----------------------------------------------------------------------------
(* POST /incidents: the ingress holds the incident's lock throughout.      *)

(* The id is known: 200 with the row's status, and nothing else happens.   *)
Duplicate(i) ==
  /\ phase = "up" /\ LockFree(i)
  /\ status[i] # "absent"
  /\ accepted' = accepted \cup {i}
  /\ UNCHANGED <<storeVars, fileVars, procVars, queue, phase, attempts, boundVars>>

(* The id is unknown: the request goes on to claim it.                     *)
Deliver(h, i) ==
  /\ phase = "up" /\ LockFree(i)
  /\ Goto(h, "idle", "insert")
  /\ status[i] = "absent"
  /\ job' = [job EXCEPT ![h] = i]
  /\ UNCHANGED <<storeVars, fileVars, rid, draft, queue, phase, accepted, attempts, boundVars>>

(* create_incident; the primary key refuses a second row, and the loser of *)
(* that race answers as for a duplicate.                                   *)
ClaimId(h) ==
  LET i == job[h] IN
  /\ pc[h] = "insert"
  /\ IF status[i] = "absent"
       THEN SetStatus(i, "queued") /\ Working(h, "snapshot") /\ UNCHANGED accepted
       ELSE accepted' = accepted \cup {i} /\ Finish(h) /\ UNCHANGED status
  /\ UNCHANGED <<runs, diagnoses, evidence, events, fileVars, queue, phase, attempts, boundVars>>

(* snapshot_signals builds a temporary directory and renames it into       *)
(* place.  The rename fails on a directory that is already there.          *)
TakeSnapshot(h) ==
  /\ pc[h] = "snapshot" /\ job[h] \notin snapshots
  /\ snapshots' = snapshots \cup {job[h]}
  /\ Working(h, "received")
  /\ UNCHANGED <<storeVars, html, slack, queue, phase, accepted, attempts, boundVars>>

SnapshotFails(h) ==
  /\ pc[h] = "snapshot"
  /\ (job[h] \in snapshots /\ UNCHANGED boundVars) \/ Fault
  /\ Working(h, "unclaim")
  /\ UNCHANGED <<storeVars, fileVars, queue, phase, accepted, attempts>>

(* Slip: the events of a rolled back claim stay.                           *)
DeleteRowOnly(i) == SetStatus(i, "absent") /\ UNCHANGED <<runs, diagnoses, evidence, events>>

DeleteRow(i) ==
  /\ SetStatus(i, "absent")
  /\ events' = [events EXCEPT ![i] = {}]
  /\ UNCHANGED <<runs, diagnoses, evidence>>

(* The claim is rolled back and the client told to retry (503).            *)
Unclaim(h) ==
  /\ pc[h] = "unclaim"
  /\ DeleteRow(job[h])
  /\ Finish(h)
  /\ UNCHANGED <<fileVars, queue, phase, accepted, attempts, boundVars>>

LogReceived(h) ==
  /\ Goto(h, "received", "enqueue")
  /\ Log(job[h], "received", 0)
  /\ UNCHANGED <<status, runs, diagnoses, evidence, fileVars, job, rid, draft,
                 queue, phase, accepted, attempts, boundVars>>

(* Slip: a queue without a bound.                                          *)
EnqueueAlways(h) ==
  /\ pc[h] = "enqueue"
  /\ queue' = Append(queue, job[h])
  /\ accepted' = accepted \cup {job[h]}
  /\ Finish(h)
  /\ UNCHANGED <<storeVars, fileVars, phase, attempts, boundVars>>

(* pool.enqueue on the event loop, then 202.                               *)
Enqueue(h) ==
  /\ pc[h] = "enqueue" /\ Len(queue) < QueueMax
  /\ queue' = Append(queue, job[h])
  /\ accepted' = accepted \cup {job[h]}
  /\ Finish(h)
  /\ UNCHANGED <<storeVars, fileVars, phase, attempts, boundVars>>

(* The queue is full: load is shed through _rollback_ingest, then 503.     *)
Shed(h) ==
  /\ pc[h] = "enqueue" /\ Len(queue) >= QueueMax
  /\ Working(h, "rollback_delete")
  /\ UNCHANGED <<storeVars, fileVars, queue, phase, accepted, attempts, boundVars>>

(* Slip: the rollback frees the id and keeps the snapshot.                 *)
RollbackRowOnly(h) ==
  /\ pc[h] = "rollback_delete"
  /\ DeleteRow(job[h])
  /\ Finish(h)
  /\ UNCHANGED <<fileVars, queue, phase, accepted, attempts, boundVars>>

RollbackDelete(h) ==
  /\ pc[h] = "rollback_delete"
  /\ DeleteRow(job[h])
  /\ Working(h, "rollback_discard")
  /\ UNCHANGED <<fileVars, queue, phase, accepted, attempts, boundVars>>

(* discard_snapshot ignores errors: a fault leaves the directory behind.   *)
Discard(i) ==
  \/ snapshots' = snapshots \ {i} /\ UNCHANGED boundVars
  \/ Fault /\ UNCHANGED snapshots

RollbackDiscard(h) ==
  /\ pc[h] = "rollback_discard"
  /\ Discard(job[h])
  /\ Finish(h)
  /\ UNCHANGED <<storeVars, html, slack, queue, phase, accepted, attempts>>

-----------------------------------------------------------------------------
(* The worker: take an id, load its row, investigate.                      *)

Take(w) ==
  /\ phase = "up" /\ queue # <<>>
  /\ Goto(w, "idle", "load")
  /\ job' = [job EXCEPT ![w] = Head(queue)]
  /\ queue' = Tail(queue)
  /\ UNCHANGED <<storeVars, fileVars, rid, draft, phase, accepted, attempts, boundVars>>

(* investigate() begins: a fresh run id, started_ts is now.                *)
Begin(p) ==
  LET i == job[p] IN
  /\ attempts[i] < MaxRuns
  /\ attempts' = [attempts EXCEPT ![i] = @ + 1]
  /\ rid' = [rid EXCEPT ![p] = attempts[i] + 1]
  /\ pc' = [pc EXCEPT ![p] = "mark"]
  /\ UNCHANGED <<job, draft>>

Load(w) ==
  /\ pc[w] = "load"
  /\ IF status[job[w]] = "absent" THEN Finish(w) /\ UNCHANGED attempts ELSE Begin(w)
  /\ UNCHANGED <<storeVars, fileVars, queue, phase, accepted, boundVars>>

-----------------------------------------------------------------------------
(* investigate(), run by a worker or inline by the review that steers.     *)

Mark(p) ==
  /\ Goto(p, "mark", "loop")
  /\ SetStatus(job[p], "running")
  /\ UNCHANGED <<runs, diagnoses, evidence, events, fileVars, job, rid, draft,
                 queue, phase, accepted, attempts, boundVars>>

(* run_loop, check_fabrication and the verifier, over the frozen snapshot. *)
(* An abstention cites nothing; without a snapshot every citation is to a  *)
(* handle that does not exist.  verified is FALSE when no verifier is      *)
(* pinned or when it is out.                                               *)
Loop(p) ==
  /\ Goto(p, "loop", "record_run")
  /\ \E d \in Draft :
       /\ d.outcome # "none"
       /\ d.outcome = "abstained" => ~d.fabricated
       /\ d.outcome = "diagnosed" /\ job[p] \notin snapshots => d.fabricated
       /\ d.verified => VerifierPinned
       /\ draft' = [draft EXCEPT ![p] = d]
  /\ UNCHANGED <<storeVars, fileVars, job, rid, queue, phase, accepted, attempts, boundVars>>

(* The provider gave up: there is no diagnosis.                            *)
LoopRaises(p) ==
  /\ Goto(p, "loop", "fail_run")
  /\ UNCHANGED <<storeVars, fileVars, job, rid, draft, queue, phase, accepted,
                 attempts, boundVars>>

(* The loop outlived a snapshot file that does not parse, as a failing     *)
(* tool, and has its diagnosis; read_signals, which reads the file for the *)
(* citation check, raises.  The diagnosis is in hand and nothing has       *)
(* checked it.  Such a file is no fault of the run: any number of them.    *)
SignalsRaise(p) ==
  /\ Goto(p, "loop", "fail_run")
  /\ job[p] \in snapshots
  /\ \E outcome \in Completed :
       draft' = [draft EXCEPT ![p] = [outcome |-> outcome, fabricated |-> FALSE,
                                      verified |-> FALSE]]
  /\ UNCHANGED <<storeVars, fileVars, job, rid, queue, phase, accepted, attempts, boundVars>>

RecordRun(p) ==
  /\ Goto(p, "record_run", "record_diagnosis")
  /\ runs' = [runs EXCEPT ![job[p]][rid[p]] =
                [outcome |-> draft[p].outcome, fabricated |-> draft[p].fabricated]]
  /\ UNCHANGED <<status, diagnoses, evidence, events, fileVars, job, rid, draft,
                 queue, phase, accepted, attempts, boundVars>>

RecordDiagnosis(p) ==
  /\ Goto(p, "record_diagnosis", "record_evidence")
  /\ diagnoses' = [diagnoses EXCEPT ![job[p]][rid[p]] =
                     [verified |-> IF draft[p].verified THEN "yes" ELSE "no",
                      decision |-> "none"]]
  /\ UNCHANGED <<status, runs, evidence, events, fileVars, job, rid, draft,
                 queue, phase, accepted, attempts, boundVars>>

RecordEvidence(p) ==
  /\ Goto(p, "record_evidence", "record_outcome")
  /\ evidence' = [evidence EXCEPT ![job[p]] =
                    IF draft[p].outcome = "diagnosed" THEN @ \cup {rid[p]} ELSE @]
  /\ UNCHANGED <<status, runs, diagnoses, events, fileVars, job, rid, draft,
                 queue, phase, accepted, attempts, boundVars>>

RecordOutcome(p) ==
  /\ Goto(p, "record_outcome", "pend")
  /\ Log(job[p], draft[p].outcome, rid[p])
  /\ UNCHANGED <<status, runs, diagnoses, evidence, fileVars, job, rid, draft,
                 queue, phase, accepted, attempts, boundVars>>

(* Slip: a steer ends without releasing the incident's lock.               *)
PendKeepsLock(p) ==
  /\ pc[p] = "pend"
  /\ SetStatus(job[p], "pending_review")
  /\ IF p \in Workers THEN Finish(p) ELSE Working(p, "idle")
  /\ UNCHANGED <<runs, diagnoses, evidence, events, fileVars, queue, phase, accepted,
                 attempts, boundVars>>

(* The last write.  A worker is done; a steer reads the status back.       *)
Pend(p) ==
  /\ pc[p] = "pend"
  /\ SetStatus(job[p], "pending_review")
  /\ IF p \in Workers THEN Finish(p) ELSE Working(p, "settle")
  /\ UNCHANGED <<runs, diagnoses, evidence, events, fileVars, queue, phase, accepted,
                 attempts, boundVars>>

(* Any write of the run raises: it is recorded as failed.                  *)
RunRaises(p) ==
  /\ pc[p] \in RunPC \ {"loop"}
  /\ Fault
  /\ Working(p, "fail_run")
  /\ UNCHANGED <<storeVars, fileVars, queue, phase, accepted, attempts>>

(* Slip: one guard around the three writes of _persist_failed.             *)
FailRunUnguarded(p) ==
  LET i == job[p] IN
  /\ pc[p] = "fail_run"
  /\ IF runs[i][rid[p]].outcome = "none"
       THEN /\ runs' = [runs EXCEPT ![i][rid[p]] = [outcome |-> "failed", fabricated |-> FALSE]]
            /\ Working(p, "fail_event")
       ELSE Working(p, "settle") /\ UNCHANGED runs
  /\ UNCHANGED <<status, diagnoses, evidence, events, fileVars, queue, phase, accepted,
                 attempts, boundVars>>

(* _persist_failed: three writes, each guarded on its own.  The first is   *)
(* refused, and ignored, when the run's row is already there.  The row and *)
(* the event both carry the diagnosis, if there is one in hand.            *)
FailRun(p) ==
  LET i == job[p] IN
  /\ Goto(p, "fail_run", "fail_event")
  /\ runs' = [runs EXCEPT ![i][rid[p]] =
                IF @.outcome = "none" THEN [outcome |-> "failed", fabricated |-> FALSE] ELSE @]
  /\ UNCHANGED <<status, diagnoses, evidence, events, fileVars, job, rid, draft,
                 queue, phase, accepted, attempts, boundVars>>

FailEvent(p) ==
  /\ Goto(p, "fail_event", "fail_status")
  /\ Log(job[p], "failed", rid[p])
  /\ UNCHANGED <<status, runs, diagnoses, evidence, fileVars, job, rid, draft,
                 queue, phase, accepted, attempts, boundVars>>

FailStatus(p) ==
  /\ Goto(p, "fail_status", "settle")
  /\ SetStatus(job[p], "failed")
  /\ UNCHANGED <<runs, diagnoses, evidence, events, fileVars, job, rid, draft,
                 queue, phase, accepted, attempts, boundVars>>

PersistRaises(p) ==
  /\ pc[p] \in FailPC
  /\ Fault
  /\ Working(p, CASE pc[p] = "fail_run" -> "fail_event"
                  [] pc[p] = "fail_event" -> "fail_status"
                  [] pc[p] = "fail_status" -> "settle")
  /\ UNCHANGED <<storeVars, fileVars, queue, phase, accepted, attempts>>

(* Slip: only workers reap the snapshot of a failed incident.              *)
SettleWorkersOnly(p) ==
  /\ pc[p] = "settle"
  /\ IF status[job[p]] = "failed" /\ p \in Workers
       THEN Discard(job[p]) ELSE UNCHANGED <<snapshots, boundVars>>
  /\ Finish(p)
  /\ UNCHANGED <<storeVars, html, slack, queue, phase, accepted, attempts>>

(* The status is read back; the snapshot goes only if 'failed' is what the *)
(* store says.                                                             *)
Settle(p) ==
  /\ pc[p] = "settle"
  /\ IF status[job[p]] = "failed" THEN Discard(job[p]) ELSE UNCHANGED <<snapshots, boundVars>>
  /\ Finish(p)
  /\ UNCHANGED <<storeVars, html, slack, queue, phase, accepted, attempts>>

-----------------------------------------------------------------------------
(* POST /incidents/{id}/review, under the incident's lock.  A review that  *)
(* is refused changes nothing and is not a step.                           *)

(* Slip: the status is not checked.                                        *)
ReviewAnyStatus(h, i, decision) ==
  /\ phase = "up" /\ LockFree(i)
  /\ Goto(h, "idle", decision)
  /\ \E k \in RunIds :
       /\ IsLatest(i, k)
       /\ decision = "approve" => Postable(i, k)
       /\ decision = "steer" => attempts[i] + (MaxCrashes - crashes) < MaxRuns
       /\ rid' = [rid EXCEPT ![h] = k]
  /\ job' = [job EXCEPT ![h] = i]
  /\ UNCHANGED <<storeVars, fileVars, draft, queue, phase, accepted, attempts, boundVars>>

Review(h, i, decision) ==
  /\ phase = "up" /\ LockFree(i)
  /\ Goto(h, "idle", decision)
  /\ status[i] = "pending_review"
  /\ \E k \in RunIds :
       /\ IsLatest(i, k)
       /\ decision = "approve" => Postable(i, k)
       /\ decision = "steer" => attempts[i] + (MaxCrashes - crashes) < MaxRuns
       /\ rid' = [rid EXCEPT ![h] = k]
  /\ job' = [job EXCEPT ![h] = i]
  /\ UNCHANGED <<storeVars, fileVars, draft, queue, phase, accepted, attempts, boundVars>>

(* set_review updates the diagnosis row, if there is one.                  *)
SetReview(h) ==
  /\ pc[h] \in Decisions
  /\ diagnoses' = [diagnoses EXCEPT ![job[h]][rid[h]].decision =
                     IF diagnoses[job[h]][rid[h]].verified = "none" THEN @ ELSE pc[h]]
  /\ Working(h, CASE pc[h] = "approve" -> "html"
                  [] pc[h] = "reject" -> "reject_event"
                  [] pc[h] = "steer" -> "steer_event")
  /\ UNCHANGED <<status, runs, evidence, events, fileVars, queue, phase, accepted,
                 attempts, boundVars>>

RejectEvent(h) ==
  /\ Goto(h, "reject_event", "reject_status")
  /\ Log(job[h], "rejected", rid[h])
  /\ UNCHANGED <<status, runs, diagnoses, evidence, fileVars, job, rid, draft,
                 queue, phase, accepted, attempts, boundVars>>

RejectStatus(h) ==
  /\ Goto(h, "reject_status", "reap")
  /\ SetStatus(job[h], "rejected")
  /\ UNCHANGED <<runs, diagnoses, evidence, events, fileVars, job, rid, draft,
                 queue, phase, accepted, attempts, boundVars>>

SteerEvent(h) ==
  /\ Goto(h, "steer_event", "begin")
  /\ Log(job[h], "steered", rid[h])
  /\ UNCHANGED <<status, runs, diagnoses, evidence, fileVars, job, rid, draft,
                 queue, phase, accepted, attempts, boundVars>>

(* The steered run is a second investigate() over the same snapshot.       *)
SteerBegin(h) ==
  /\ pc[h] = "begin"
  /\ Begin(h)
  /\ UNCHANGED <<storeVars, fileVars, queue, phase, accepted, boundVars>>

(* publish(): the postmortem file first, then the channel.                 *)
WriteHtml(h) ==
  /\ Goto(h, "html", "slack")
  /\ html' = [html EXCEPT ![job[h]] = rid[h]]
  /\ UNCHANGED <<storeVars, snapshots, slack, job, rid, draft, queue, phase,
                 accepted, attempts, boundVars>>

ChannelReceives(h) == slack' = [slack EXCEPT ![job[h]][rid[h]] = @ + 1]

(* Slip: the post is not logged.                                           *)
PostSlackUnlogged(h) ==
  /\ Goto(h, "slack", "post_status")
  /\ ChannelReceives(h)
  /\ UNCHANGED <<storeVars, snapshots, html, job, rid, draft, queue, phase,
                 accepted, attempts, boundVars>>

PostSlack(h) ==
  /\ Goto(h, "slack", "post_event")
  /\ ChannelReceives(h)
  /\ UNCHANGED <<storeVars, snapshots, html, job, rid, draft, queue, phase,
                 accepted, attempts, boundVars>>

(* The channel took the message and the answer was lost or late: the       *)
(* poster raises and the review ends with nothing recorded.                *)
PostSlackTimesOut(h) ==
  /\ pc[h] = "slack"
  /\ Fault
  /\ ChannelReceives(h)
  /\ Finish(h)
  /\ UNCHANGED <<storeVars, snapshots, html, queue, phase, accepted, attempts>>

PostEvent(h) ==
  /\ Goto(h, "post_event", "post_status")
  /\ Log(job[h], "posted", rid[h])
  /\ UNCHANGED <<status, runs, diagnoses, evidence, fileVars, job, rid, draft,
                 queue, phase, accepted, attempts, boundVars>>

PostStatus(h) ==
  /\ Goto(h, "post_status", "reap")
  /\ SetStatus(job[h], "posted")
  /\ UNCHANGED <<runs, diagnoses, evidence, events, fileVars, job, rid, draft,
                 queue, phase, accepted, attempts, boundVars>>

Reap(h) ==
  /\ pc[h] = "reap"
  /\ Discard(job[h])
  /\ Finish(h)
  /\ UNCHANGED <<storeVars, html, slack, queue, phase, accepted, attempts>>

(* POST /incidents/{id}/verify-resolution: a verdict about a listed run,   *)
(* appended to the audit log whatever the status.  Which run it is about   *)
(* is not told apart.                                                      *)
VerifyResolution(i) ==
  /\ phase = "up" /\ LockFree(i)
  /\ Listed(i) # {}
  /\ Log(i, "resolution", 0)
  /\ UNCHANGED <<status, runs, diagnoses, evidence, fileVars, procVars, queue, phase,
                 accepted, attempts, boundVars>>

-----------------------------------------------------------------------------
(* Faults outside an investigation, crashes and restarts.                  *)

(* The pending read or write raises, or what an investigation needs before *)
(* its first write (the provider, the connection); the request ends with a *)
(* 500, or the worker logs worker_error, and nothing has changed.          *)
Raise(p) ==
  /\ pc[p] \in {"insert", "unclaim", "received", "rollback_delete", "load", "settle",
                "steer_event", "begin", "reject_event", "reject_status", "html", "slack",
                "post_event", "post_status"} \cup Decisions
  /\ Fault
  /\ Finish(p)
  /\ UNCHANGED <<storeVars, fileVars, queue, phase, accepted, attempts>>

(* Store, files and channel survive; the queue and every thread do not.    *)
Crash ==
  /\ phase # "down" /\ crashes < MaxCrashes
  /\ crashes' = crashes + 1
  /\ phase' = "down"
  /\ queue' = <<>>
  /\ pc' = [p \in Procs |-> "idle"]
  /\ job' = [p \in Procs |-> NoIncident]
  /\ rid' = [p \in Procs |-> 0]
  /\ draft' = [p \in Procs |-> NoDraft]
  /\ UNCHANGED <<storeVars, fileVars, accepted, attempts, faults>>

(* lifespan: init_db, pool.start, and then _recover_pending.               *)
Boot ==
  /\ phase = "down"
  /\ phase' = "recovering"
  /\ UNCHANGED <<storeVars, fileVars, procVars, queue, accepted, attempts, boundVars>>

Pending(i) == status[i] \in {"queued", "running"}

(* A run that finished before its 'pending_review' was written is not run  *)
(* again.                                                                  *)
Reconcile(i) ==
  /\ phase = "recovering"
  /\ Pending(i) /\ RunCompleted(i)
  /\ SetStatus(i, "pending_review")
  /\ UNCHANGED <<runs, diagnoses, evidence, events, fileVars, procVars, queue, phase,
                 accepted, attempts, boundVars>>

(* put_nowait for each, without ever yielding to a worker; the first       *)
(* QueueFull ends it and the rest wait for a later start.                  *)
EnqueueAll(ids) ==
  /\ phase = "recovering"
  /\ \E n \in 0..QueueMax : \E s \in [1..n -> ids] :
       /\ \A a, b \in 1..n : s[a] = s[b] => a = b
       /\ n < QueueMax => \A i \in ids : \E a \in 1..n : s[a] = i
       /\ queue' = s
  /\ phase' = "up"
  /\ UNCHANGED <<storeVars, fileVars, procVars, accepted, attempts, boundVars>>

AllReconciled == ~ \E i \in Incidents : Pending(i) /\ RunCompleted(i)

(* Slip: incidents caught 'running' are forgotten.                         *)
RecoverQueued ==
  AllReconciled /\ EnqueueAll({i \in Incidents : status[i] = "queued"})
(* Slip: what finished is run again.                                       *)
RecoverFinished == EnqueueAll({i \in Incidents : Pending(i)})
(* Slip: what waits for review is run again.                               *)
RecoverReviewed ==
  AllReconciled /\ EnqueueAll({i \in Incidents : Pending(i) \/ status[i] = "pending_review"})

Recover == AllReconciled /\ EnqueueAll({i \in Incidents : Pending(i)})

(* A fault in either ends the start: the lifespan raises.                  *)
BootRaises ==
  /\ phase = "recovering"
  /\ Fault
  /\ phase' = "down"
  /\ UNCHANGED <<storeVars, fileVars, procVars, queue, accepted, attempts>>

-----------------------------------------------------------------------------
InvestigateStep(p) ==
  \/ Mark(p) \/ Loop(p) \/ LoopRaises(p) \/ SignalsRaise(p)
  \/ RecordRun(p) \/ RecordDiagnosis(p) \/ RecordEvidence(p) \/ RecordOutcome(p) \/ Pend(p)
  \/ RunRaises(p) \/ FailRun(p) \/ FailEvent(p) \/ FailStatus(p) \/ PersistRaises(p)
  \/ Settle(p) \/ Raise(p)

WorkerStep(w) == Take(w) \/ Load(w) \/ InvestigateStep(w)

IngressStep(h) ==
  \/ ClaimId(h) \/ TakeSnapshot(h) \/ SnapshotFails(h) \/ Unclaim(h) \/ LogReceived(h)
  \/ Enqueue(h) \/ Shed(h) \/ RollbackDelete(h) \/ RollbackDiscard(h)

ReviewStep(h) ==
  \/ SetReview(h) \/ RejectEvent(h) \/ RejectStatus(h) \/ SteerEvent(h) \/ SteerBegin(h)
  \/ WriteHtml(h) \/ PostSlack(h) \/ PostSlackTimesOut(h) \/ PostEvent(h) \/ PostStatus(h)
  \/ Reap(h)

HandlerStep(h) == IngressStep(h) \/ ReviewStep(h) \/ InvestigateStep(h)

Request ==
  \E i \in Incidents :
    \/ Duplicate(i)
    \/ VerifyResolution(i)
    \/ \E h \in Handlers : Deliver(h, i)
    \/ \E h \in Handlers, decision \in Decisions : Review(h, i, decision)

RecoveryStep == (\E i \in Incidents : Reconcile(i)) \/ Recover \/ BootRaises

Next ==
  \/ Request
  \/ \E w \in Workers : WorkerStep(w)
  \/ \E h \in Handlers : HandlerStep(h)
  \/ Boot \/ RecoveryStep \/ Crash

Spec == Init /\ [][Next]_vars

(* Threads, tasks and the lifespan make progress.  Nothing obliges a       *)
(* client to deliver, an operator to review or the process to be started.  *)
Fairness ==
  /\ \A w \in Workers : WF_vars(WorkerStep(w))
  /\ \A h \in Handlers : WF_vars(HandlerStep(h))
  /\ WF_vars(RecoveryStep)

FairSpec == Spec /\ Fairness
=============================================================================
