# Quellgeist: a formal model of the incident-response service

Quellgeist (`src/src/quellgeist`) takes an alert, lets a language-model agent
investigate it over frozen logs, commits and metrics, checks the diagnosis for
fabricated citations, has an independent verifier look at it, and offers the
result to an operator who approves, rejects or steers. Beside it live a
sandbox that breaks and is fixed, an evaluation that compares models, and a
generator of training examples. This directory holds
TLA+ modules translated from that code, the TLC configurations that check them
on small instances, and proofs, checked by TLAPS, of the results that matter
most for every instance.

Paths below are relative to `src/src/quellgeist` unless they start otherwise.

## 1. Inventory

### Components, their state and their operations

| component | state | operations |
|---|---|---|
| `service/app.py` ingress | a reference-counted `asyncio.Lock` per incident; the lifespan | `POST /incidents`, `_rollback_ingest`, `_recover_pending`, `POST .../review`, `POST .../verify-resolution`, read-only pages |
| `service/queue.py` worker pool | an `asyncio.Queue` with a bound, worker tasks, one executor thread per worker | `start`, `stop`, `enqueue`, `_worker`, `_process_sync` |
| `service/snapshots.py` | one directory of frozen signals per incident | `snapshot_signals` (copy, then rename), `discard_snapshot` |
| `orchestrator/investigate.py` | run id and draft diagnosis in memory | `investigate` (up to six store transactions), `_persist_failed` |
| `orchestrator/review.py` | none | `apply_review`: approve, reject, steer |
| `orchestrator/resolution.py` | none | `verify_resolution` |
| `notify/` | the postmortem file, the channel | `publish`: file first, then the POST to the channel |
| `store/` | tables incidents, runs, diagnoses, evidence, events | one transaction per writer of `dao.py`; migrations |
| `agent/loop.py`, `actions.py`, `orchestrator/hint.py` | messages, a budget of steps, the handles seen | `run_loop` |
| `agent/verifier.py`, `citations.py`, `timing_verifier.py`, `schema.py` | none | what a diagnosis cites, what exists, what survives |
| `agent/providers.py`, `observability/usage.py` | a log of calls | calls with retries; scripted replies |
| `servers/`, `orchestrator/tools_factory.py` | none | filters and caps over the signals, bound to an incident |
| `ingest/` | none | tolerant parsing, assignment of ids, merging of files |
| `cli.py` | files the operator points at | `diagnose` with its citation check, `ingest` |
| `src/demo` | `.bad_deploy`, `deploy_log.json`, the log | a service that answers and logs; `bad_deploy`, `fix_deploy`, `reset` |
| `src/evals/run_evals.py`, `judge.py` | none | `run_scenario`: loop, timing check, verifier, judge |
| `src/evals/matrix/` | the files of one cell | passes, then `cell.json`; the row of a report |
| `src/evals/scenarios`, `src/evals/training` | a seed | scenarios, their ablations, scripted examples and the gate they pass |
| `src/finetune`, `output/`, `observability/logging.py` | files | glue, text |

### How they interact

A request handler runs on the event loop, takes the incident's lock and does
its store and file work in a thread. The ingress hands an id to the pool
through the queue and answers 202; a worker takes the id and runs
`investigate` in its own thread, **without** the lock. A review runs under the
lock in a request's thread; a steer runs a second `investigate` there, inline.
All of them write the same SQLite store, each writer in a transaction of its
own, and two of them remove snapshot directories. The store and the
directories survive a crash; the queue, the locks and every draft do not.
At start `_recover_pending` looks at what is `queued` or `running`, reconciles
what has finished and enqueues the rest before the first request is served.

The agent loop has four callers: the command line over live files, the
service over a snapshot, the evaluation over a scenario, and the builder of
training examples over a scenario with a script in place of a model. Each
calls the model a bounded number of times, the tools re-read the signals at
every call, and each caller checks the result its own way. The resolution
check reads the run from the store, then the operator's live log, then the
deploy log, while the sandbox goes on serving and a script may be at work.

### What is hard

* **Atomicity.** A claim, a run, a review and a publication are each several
  transactions and file operations, and any of them can raise or be cut off by
  a crash. Rollback (`_rollback_ingest`, `_persist_failed`) has several steps
  itself.
* **Checked, then used.** The review gate reads the latest run, its fabricated
  flag and its verdict, closes the connection, and publishes later. The worker
  decides by the status it reads back whether to remove the snapshot.
* **Interleaving.** Duplicate deliveries during a claim, two reviews of one
  incident, a steered re-run during a resolution check, a worker beside any of
  these.
* **Recovery.** It has to tell a finished run from an interrupted one with the
  tables alone.
* **Bounds.** The queue is full when the incident is already claimed; more may
  be pending after a crash than the queue holds.
* **Delivery.** The channel may take a message whose sender sees a timeout.
* **Live files.** What the model was shown is checked against files that have
  grown since, and whose rows get their ids anew at every reading.
* **Moments.** The resolution check compares lines, a run and a deploy log
  that were read one after the other, in seconds, around a boundary that is
  itself a second.
* **Leftovers.** A cell of the matrix is rerun into the directory of a run
  that was killed.
* **Labels.** A training example's label is asserted by the code that makes it.

`PROJECT.json` lists every such hazard at its line with the properties that
cover it. What makes each modelled component correct:

| component | correct when |
|---|---|
| ingress | what was accepted stays (`AcceptedIsKept`); shedding leaves no trace (`AbsentIsClean`, `CleanRetry`); the lock is always released (`RequestsEnd`) |
| queue, workers, recovery | an incident is in at most one pair of hands (`Exclusive`), is never forgotten (`NoOrphan`, `AcceptedSettles`), and what finished is not run again (`NoDuplicateRun`, `ReconcilesFinishedRun`) |
| lock table | one request at a time per incident (`OneInside`, `ImplementsMutex`), no entry leaks or goes early (`RefsCounted`), nobody starves (`WaitersServed`) |
| worker pool | one thread per incident across restarts (`OnePlace`), the join is exact (`DrainedIsDone`), nothing is written after `stop()` (`NoWriteOutlivesStop`), which ends (`StopEnds`) |
| snapshots | present exactly while the incident is open (`SnapshotWhileOpen`), never removed under a reader (`NoReapUnderRun`) |
| investigation | a review is offered complete rows (`ReviewIsComplete`), a produced diagnosis is not lost (`DiagnosisSurvives`) |
| review and publication | fail closed (`FailClosed`), current (`PublishesLatest`), once (`PostedOnce`), nothing on reject (`RejectedPostsNothing`), backed by the audit log (`ClosedIsBacked`) |
| agent loop, providers | a bounded cost (`CostIsBounded`), a transcript and counters that say what happened, and an abstention of the loop told apart from the model's (`TranscriptContract`) |
| tools, ingest, citations, `diagnose` | what was shown can be cited (`SeenStaysReal`) |
| verifier, timing check | they only take away (`VerifierOnlyRemoves`) |
| resolution, sandbox | `recovered` is true (`RecoveredIsHealed`), and a fix that took is reported (`FixIsObserved`) |
| matrix cell, report | a summary is of the files beside it (`SummaryIsItsPasses`), every call is charged once (`UsageIsPartitioned`), an unflagged row is a standard run (`ReportIsHonest`) |
| training examples | the label is the truth of the scenario (`ExamplesAreSound`) |
| the whole | the life cycle of an incident, as its client and its operator see it (`ImplementsLifecycle`) |

## 2. Modules

| module | what it is |
|---|---|
| `IncidentLifecycle` | abstract specification: what the service promises about one incident, without threads, queue, transactions or crashes |
| `IncidentService` | the service in detail: one action per transaction, file operation, channel call or event-loop step |
| `IncidentProperties` | everything checked of `IncidentService`, and the refinement of `IncidentLifecycle` |
| `MCIncidentService` | the symmetry set for TLC; the instances are in the `.cfg` files |
| `IncidentMutex` | abstract specification: mutual exclusion per incident, without saying how |
| `IncidentLock` | the reference-counted lock table of `create_app`, the properties of it, and the refinement of `IncidentMutex` |
| `WorkerPool` | the pool over starts, stops and kills: queue, worker tasks, executor threads; the properties of it |
| `IncidentSignals` | what the tools read: rows and their ids, the filters, handles, citations, the timing check, what `ingest` writes; operators only |
| `TrainingExamples` | scenarios, ablations, scripts, the judge's rule and the gate; operators only |
| `AgentLoop` | one call of `run_loop` with its provider and tools, over files that may grow |
| `AgentRun` | what the four callers make of its result |
| `AgentProperties` | everything checked of `AgentRun` |
| `MCAgentRun` | its instance: replies, sources and jobs |
| `MatrixCell`, `MCMatrixCell` | a cell's directory over runs that are killed, its price and its row |
| `Resolution`, `MCResolution` | the demo service, the chaos scripts, the clock and `verify_resolution` |
| `IncidentServiceProofs` | for every instance: types, that a process works on its own incident only, and that an incident is in one pair of hands (`Exclusive`) |
| `LedgerProofs` | for every instance, under any fault and crash: what is written down and published about an incident |
| `PromiseProofs` | the refinement of `IncidentLifecycle` for every instance; what holds without part of the trouble |
| `IncidentLockProofs` | types, mutual exclusion, the reference count and the refinement, for every instance |
| `WorkerPoolProofs` | types, one thread per incident, the exact join and the quiet stop, for every instance |
| `AgentRunProofs` | the bound on the calls of a run, the contract of its transcript, that the checks after it only take away, and that what was shown stays citable, for every instance |
| `MatrixCellProofs` | an honest row, the files of a finished cell, its charges and its totals, for every instance |
| `ResolutionProofs` | types, and that `recovered` is sound and a fix is observed, for every instance |

### IncidentService and the code

State. `status`, `runs`, `diagnoses`, `evidence` and `events` are the tables,
by incident and by the number of the investigation (a run id is a fresh uuid
in the code; here the investigations of an incident are numbered in the order
in which they begin, which is the order `list_runs` returns them in).
`snapshots` are the directories, `html` the run the postmortem file shows,
`slack` how often the channel received each diagnosis. `queue` and `phase` are
the pool's queue and the lifespan. Every worker and every request in flight is
a process with a program counter `pc`, the incident it works on (`job`, which
for a request is also the lock it holds), the run (`rid`) and the diagnosis it
has in memory (`draft`). `accepted` remembers whose client was answered 202 or
200; `attempts` counts the investigations; `faults` and `crashes` are bounds.

| actions | code |
|---|---|
| `Duplicate`, `Deliver`, `ClaimId`, `TakeSnapshot`, `SnapshotFails`, `Unclaim`, `LogReceived`, `Enqueue`, `Shed`, `RollbackDelete`, `RollbackDiscard` | `_ingest_incident`, `create_incident_ep`, `_rollback_ingest`, `snapshot_signals`, `WorkerPool.enqueue` |
| `Take`, `Load`, `Settle` | `WorkerPool._worker`, `_process_sync`; `Settle` is also the end of a steer in `apply_review` |
| `Mark`, `Loop`, `LoopRaises`, `SignalsRaise`, `RecordRun`, `RecordDiagnosis`, `RecordEvidence`, `RecordOutcome`, `Pend`, `RunRaises` | `investigate`, in a worker or inline in a review |
| `FailRun`, `FailEvent`, `FailStatus`, `PersistRaises` | `_persist_failed` |
| `Review`, `SetReview`, `RejectEvent`, `RejectStatus`, `SteerEvent`, `SteerBegin`, `WriteHtml`, `PostSlack`, `PostSlackTimesOut`, `PostEvent`, `PostStatus`, `Reap` | `apply_review`, `publish`, `post_slack` |
| `VerifyResolution` | the guard and the event of `verify_resolution` |
| `Crash`, `Boot`, `Reconcile`, `Recover`, `BootRaises` | the lifespan and `_recover_pending` |
| `Raise` | any other store, file or channel operation that raises |

`Loop` stands for `run_loop`, the fabrication check and the verifier. It
chooses any outcome these can produce: diagnosed or abstained, fabricated or
not, verified or not. It is constrained by what the code fixes: an abstention
cites nothing, a diagnosis over a missing snapshot cites handles that do not
exist, and nothing is verified when no verifier is pinned. `LoopRaises` is a
provider that gave up, with no diagnosis; `SignalsRaise` is a snapshot file that
does not parse: the loop takes it for a failing tool and goes on to a
diagnosis, and the reading for the citation check raises with that diagnosis in
hand.

Trouble. A provider may fail, and a snapshot be unreadable, any number of times. An operation that raises
takes one of `MaxFaults`, a crash one of `MaxCrashes`; a raise or a crash is
possible between any two steps. The crash is nobody's code, and marked external. A raise always means the transaction did not
commit, except for the channel, which may have taken the message.

Abstractions. A review that is refused (wrong status, no run, not postable)
changes nothing and is no step. Slack is taken as configured. Names, texts,
timestamps and payloads are left out. `list_runs` sorts by `started_ts`, which
the model takes to follow the order of the investigations; a clock that steps
back is not modelled. `stop()` of the pool appears only as `Crash`, which
leaves no less behind than a stop with its drain cut short; `WorkerPool` has
its parts. `LockFree`, the guard of every request, is the mutual exclusion
that `IncidentLock` is shown to implement.

In every detailed module, beside some definitions, there is a variant headed
"Slip:": the same operation with a plausible mistake. The specification never
uses them. Each property is checked to fail when a slip replaces the
definition, so it depends on what the code does and not on the shape of the
model.

### IncidentLock and the code

`idLocks` and `idLockRefs` are `id_locks` and `id_lock_refs`; `lock` is the
object each request's local variable names, and `locked` and `waiters` are the
fields of `asyncio.Lock`. A request is an asyncio task, so what it does between
two awaits is one step: `Enter` looks the lock up or makes it, counts itself
and takes the lock at once or stands in line (`asyncio.Lock.acquire` does not
yield when the lock is open and nobody waits); `TakeTurn` is the wake-up of
the first in line; `Leave` is the release and the `finally`; `GiveUp` is the
cancellation of a waiting task. What `acquire` does is the library's and
marked external. A collected lock object may be used again: `LockFor` takes
any object nobody refers to. `ImplementsMutex` maps the requests inside to
`inside` and forgets the table.

A request that is cancelled inside its body leaves like any other here. Its
thread would go on without the lock; the server cancels tasks only when it is
forced to quit, and then the process ends.

### WorkerPool and the code

`phase` follows the lifespan (`down`, `boot`, `up`) and `stop()` (`drain`,
`cancel`, `join`). `queue` and `unfinished` are the fields of `asyncio.Queue`,
`task` says where in `_worker` each task is, `thread` and `item` what the
executor does for it. `row` is what the store says of an id; `stranded` is
history: the open ids nobody in this process will take, which are those a
failed run, a full queue at recovery, or a drain timeout left behind.

`Start`, `Recover`, `Enqueue` are `start`, `_recover_pending` and `enqueue`;
`Take`, `TaskDone` and `TaskCancelled` are the task, `ThreadBegins`,
`ThreadReturns` and `ThreadRaises` its thread; `Drained` or `DrainTimeout`,
`Gathered` and `Joined` are `stop()`; `Kill` is the death of the process. A
cancelled task stops waiting and its thread goes on, as in `run_in_executor`;
a job that has not begun is withdrawn. The server closes its requests before
the lifespan ends, so nothing is enqueued during `stop()`. An investigation is
a single step of its thread; `IncidentService` has its parts.

### AgentLoop, AgentRun and the code

`job` is who calls the loop and how, `source` the files the tools read;
`step`, `transcript`, `toolCalls`, `violations`, `seen` and `diagnosis` are the
fields of `LoopResult`. `attempt` and `spent` count requests to a model: one
action is one request. `AttemptFails` is an attempt that
`LiteLLMProvider.complete` repeats, `CallRaises` the one it gives up on;
`BadReply`, `Unhashable`, `Diagnoses`, `ToolFails` and `Observes` are the ways a
reply is taken, `Exhausts` is the end of the budget. A reply is a member of a
small set with one of every kind `parse_action` and `run_loop` tell apart. The
provider of a builder's job plays `job.script` back.

The signals are rows with a number for a timestamp. `NormalizeLogRows` numbers
the rows without an id as the code does, at every reading, so the ids of a live
file are computed anew from what it holds by then. `LogGrows`, `DeployStarts`
and `DeployEnds` are other processes writing: a log gets a row at its end, a
deploy file is rewritten and cannot be parsed in between. Files are never
shortened during a run; a reset or a new bad deploy in the middle of a
`diagnose` is left out.

`AgentRun` has an action for each thing a caller does next: `CliChecks` is
`_verify_citations`, `ServiceChecks` the check of `investigate` and
`ServiceReadRaises` the snapshot it cannot read, `EvalTimes` the
timing check, `Verdict`, `VerdictUnresolved`, `VerifierAttemptFails` and
`VerifierRaises` one hypothesis of `verify`, `EvalScores` the judge,
`BuilderGates` the gate. What the verifier's model says is a free choice. The
exit of `run_evals` over all scenarios is that of one. For the service this is
the detail of the step `Loop` of `IncidentService`, whose outcomes are the ones
`ServiceRecords` and `CallerCatches` end with.

`TrainingExamples` builds a scenario from a family and two shape parameters
instead of a seed and words, with its causes, errors and decoys at the times
the generator gives them, relative to each other. Of a text it keeps the component it
speaks of: what a commit touches and what an error names. A metric is its points,
which climb from the culprit's deploy on; the tools cut them at `since`, and the
recipe `no_incident` flattens them. So whether a commit explains what a scenario
shows (`Explains`) is judged from its rows and points, not from the name of the
recipe that made it. The script of an example is
what `_build_example` writes: the probes, then the diagnosis.

### MatrixCell and the code

`cell` is `cell.json` (absent, torn or a summary), `passFile` the
`pass_N.jsonl` that are there. `ClearCell`, `ClearPass`, `OpenPass`,
`ScenarioEnds`, `PassEnds`, `CellOpened` and `CellWritten` are the steps of
`main` in `run_cell.py` in their order; `ScenarioRaises` ends it with exit 3 or
a traceback, `Killed` anywhere. `Report` reads whatever is there. What a
scenario comes to is an element of `Results`: it is `AgentRun` that says how.
`calls` is the provider's growing log, with the tokens of each call, and
`reasonerSeen` the mark `_usage_delta` slices it from. The split over memorised
cores is that of a cell outside the holdout, as all cells of the instance are (a
holdout cell has none); and a row is compared by the names resolved, so two
aliases of one model stay apart as they do in the code. Two processes writing
one directory at a time are not modelled: the code has nothing against it.

### Resolution and the code

`flag` is `.bad_deploy`, `deploys` the commits of `deploy_log.json`, `log` the
lines of the incident log, `runs` the rows of the incident's runs, `now` the
clock in seconds, the resolution of every timestamp. `Serve` is a handler of the
demo service that looks at the marker, `LogLine` the line written for it, up
to `Latency` later; `StrayLine` is a line of another program, `Restart` a new
session, which truncates the log. `BadWrite` and `BadTouch`, `FixUnlink` and
`FixWrite`, `ResetUnlink` and `ResetFiles` are the scripts in the order they
touch files, and `Killed` stops one half-way, which may leave a deploy log cut
off in its writing: the check reads no deploys from it. `ReadLog` and `Conclude` are a
check under way: what it has read is `reading`, and `RecoveredIsHealed` speaks
of every boundary it could still take, from the deploy log as it is now, from an
empty or torn one while a script is at work, and from a `since` of the operator.
`FixBoundary` and `Verdict` translate the body of `verify_resolution` for one log
and one deploy log. `broken` and `fix` are history, for the properties.

### The abstract specification

`IncidentLifecycle` says that an incident is claimed, and withdrawn only while
nobody was told about it; that it runs and is proposed for review or fails;
that its diagnosis is published only during review; that it closes as posted
only after it was published, and that posted, rejected and failed are final.
`ImplementsLifecycle` maps `stage` to `status`, `accepted` to `accepted` and
`published` to the incidents the channel received something of. Store steps
that touch neither stutter. It holds with a fault and a crash anywhere.

## 3. Runs

| run | instance | what it shows |
|---|---|---|
| `service_trouble` | 1 incident, 1 worker, 2 requests, up to 3 investigations, 1 fault, 1 crash; 0.9 million states | what must hold in any trouble: fail closed, accepted is kept, closes are backed, no reap under a reader, only the latest run is published, a diagnosis is not lost, the life cycle is implemented |
| `service_pair` | 2 incidents, 1 worker, 2 requests, a queue of one, 2 investigations, no trouble; 0.9 million states | types; shedding while another incident holds the queue; complete reviews; snapshots exactly while open; one post; nothing on reject; a clean retry |
| `service_recovery` | 2 incidents, 1 worker, 1 request, a queue of two, no verifier, 1 crash; 1.3 million states | after a crash anywhere nothing is forgotten, nothing is queued twice, nothing finished is run again |
| `service_live` | 1 incident, 1 worker, 2 requests, 1 crash, fairness; 0.2 million states | an accepted incident leaves `queued` and `running`; every request ends |
| `incident_lock` | 2 incidents, 4 requests, 5 lock objects, fairness; 12 thousand states | mutual exclusion, an exact reference count, the refinement of `IncidentMutex`; no waiter starves |
| `worker_pool` | 4 incidents, 2 workers, a queue of two, fairness; 0.2 million states | one thread per incident across restarts; the join is exact; no write after `stop()`; `stop()` ends; what is taken in is settled or accounted for |
| `agent_run` | 12 replies, 2 attempts a call, budgets of 2 and 3, 5 shapes of live files of up to 3 rows, raw and ingested, and every training script under a budget of 8; 0.2 million states | the cost, the transcript, the citations, the checks after the loop, the labels |
| `matrix_cell` | 2 scenarios, 7 command lines of up to 3 passes, 2 runs into one directory; 0.4 million states | a summary is of its files, calls are charged once, rows are honest |
| `resolution` | 2 routes, 3 lines, 1 request in flight, 1 run, 3 seconds, a commit backdated by 1, a latency of 1; 8.3 million states | the verdict is sound and, once traffic confirms a fix, complete |
| `double_post` | 1 incident, 1 fault | **violated**: see the findings |
| `shed_leftover` | 2 incidents, a queue of one, 1 crash | **violated** |
| `steer_lost` | 1 incident, 1 crash, a steer | **violated** |

Bounds. Incidents share only the queue and the workers; two of them and a queue
of one make every kind of competition for it, and the per-incident properties
are decided by what happens to one. Two requests are the fewest that race for a
lock (a duplicate against a rollback, a review against a review). Three
investigations leave room for the first, a steered one, and one that recovery
starts; a steer is only taken while the investigations that the remaining
crashes may need are left, so that the bound never blocks recovery. One fault
and one crash can fall anywhere; the violations found need one of the two. One
worker is enough for the races that the code admits, because two workers never
hold the same incident (`Exclusive` is what recovery could break); the proofs
are for any number. Requests are symmetric, and so are incidents, in the runs
of `IncidentService` without liveness. Four requests let two wait behind one
for an incident while another makes the lock of a second incident, and five
lock objects are one more than four requests can refer to. Four incidents fill
a queue of two and two workers, and after a kill there are more open than
recovery can enqueue. Neither of these two models needs a bound on its steps.
Deadlock is checked in every run: the service can always be booted or sent a
duplicate.

In `agent_run` two steps are the fewest in which an observation is followed by
a diagnosis that cites it, three leave room for a mistake or a second tool, and
two attempts are the fewest with a retry. The live files start with a row that
has an id and one that does not, in both orders, with a directory of two files,
with none, and as `ingest` makes them; a row more is enough for an assigned id
to meet an explicit one. The scenarios cover every family, variant and script
the generator has, at six sizes. The loop ends in `RunEnded`. In `matrix_cell`
three passes are the standard, and a second run with fewer is the case the
clearing is for; the results cover a pass, an abstention, a fabrication, and a
call whose tokens are not reported. In `resolution` one route goes through the
token and one does not; three lines are an error, a healthy line after it and
one more; the clock is long enough for an error, a run, a fix and a
confirmation in different seconds or the same. Two bounds shape it: one chaos
script runs at a time, and the log stands still between the two reads of a
check, which does not look at it again. The three models' type invariants
(`RunTypeOK`, `CellTypeOK`, `ResolutionTypeOK`) were checked on the same
instances; the runs spend their time on the others.

Fairness. Weak fairness for each worker, each request and the recovery: they
are an asyncio task, a thread of a started request and the lifespan, and each
is scheduled while it can run. Nothing obliges a client to deliver, an operator
to review, or anybody to start a process that is down, so `AcceptedSettles` is
conditional on the service staying up in the end. A `Raise` is a step of its
process but is never forced: `service_live` has no faults, since the code does
not recover every incident from a raise without a restart (section 5). In
`IncidentLock` a woken task runs and a critical section ends (a thread with a
bounded number of store and provider calls, each with a timeout); nobody has to
come or to be cancelled. In `WorkerPool` each worker's task or thread goes on,
and so do the recovery and `stop()`; the fairness is on `Drained` or
`DrainTimeout` together, so `StopEnds` does not count on the queue draining. An
investigation may always raise instead of returning.

## 4. Proofs

### The service

The theorems are about `Spec` of `IncidentService`, whatever the constants,
under `ConstantsAssumption`: workers and requests are different processes,
`NoIncident` is no incident, the queue has at least one place, and the bounds
are natural numbers. The sets may be infinite. So the results hold for any
number of incidents, workers, requests, runs, faults and crashes.

The argument is built in layers, each used by those after it.

1. *Types* (`IncidentServiceProofs`). **`TypeCorrect`**: the types alone are
   not inductive, because a row is written at the incident and the run a
   process holds. `Typed` adds `Equipped`: a busy process holds an incident,
   one that investigates or reviews holds a run, one that records holds the
   outcome of a loop that ended.
2. *Locality*. `WorksAlone(p)`: a step of a process changes nothing of another
   process and nothing of another process's incident, and keeps its incident or
   lets it go. It is shown once for every operation (`InvestigatesAlone`,
   `IngressAlone`, `ReviewsAlone`, `LoadsAlone`), so every later invariant is
   preserved for the others by one lemma.
3. *Hands*. **`NeverTwiceAtOnce`** (`Exclusive`). `HandsInv` says that queue and
   processes together hold an incident once (`Sole`), and that the incident a
   process holds has a status at which nobody else takes it up (`Standing`): a
   claim is `queued` and locked, what the queue holds is `queued` or `running`,
   a review holds what is `pending_review`. Exclusion is not inductive without
   the statuses: a request takes an incident up by its status, a worker by its
   place in the queue, and neither looks at the other.
4. *Rows* (`LedgerProofs`). **`PublishesFailClosed`** (`FailClosed`). The gate
   checks in one transaction and publishes several steps later. `RowInv` says
   why the check lasts: the run's row comes before its diagnosis, neither exists
   before its investigation writes it, rows are written once, and what is about
   to be published is sound.
5. *The ledger* (`LedgerProofs`). `LedgerInv` ties an incident's status to its
   runs, events, file and channel (`Ledger`), and every process to what it has
   seen or done so far (`Owes`): a review holds the latest run, a posting one
   has its decision recorded, then its file written, then its message sent. From
   it follow **`AcceptedStays`** (`AcceptedIsKept`), **`NothingIsLeftBehind`**
   (`AbsentIsClean`), **`NothingRunsTwice`** (`NoDuplicateRun`),
   **`ClosesAreBacked`** (`ClosedIsBacked`), and about steps
   **`ReadsWhatIsThere`** (`NoReapUnderRun`) and **`NothingStaleIsPublished`**
   (`PublishesLatest`). None of them assumes that a fault or a crash is absent.
6. *The lifecycle* (`PromiseProofs`). **`ServiceImplementsLifecycle`**
   (`ImplementsLifecycle`): under the refinement mapping of
   `IncidentProperties`, every step is a step of `IncidentLifecycle` or
   invisible to it. The steps that move a status need `HandsInv` (the status is
   the one the move starts from), the post needs `LedgerInv`.

The rest of `PromiseProofs` is about promises the code keeps only without part
of the trouble. The theorem names what is absent, and no hypothesis can be
dropped: on one or two incidents TLC breaks each of the first five with a
single fault and no crash, and with a single crash and no fault; it breaks
`NoOrphan` with a single fault, and with a crash and a queue too small for all
incidents; and `DiagnosisSurvives` with two faults (a snapshot that cannot be read, then
the row and the event). Section 5 has the two of
these traces that contradict what the repository says of the program.

* With `MaxFaults = 0` and `MaxCrashes = 0`: **`ReviewsAreComplete`**
  (`ReviewIsComplete`), **`SnapshotsLastWhileOpen`** (`SnapshotWhileOpen`),
  **`PostsAreSingle`** (`PostedOnce`), **`RejectionsAreSilent`**
  (`RejectedPostsNothing`), **`RetriesAreClean`** (`CleanRetry`). `CalmInv`
  describes an incident that nobody holds (`AtRest`) and one that is worked on
  (`InWork`): which snapshot, message, evidence and event is there at which step
  of the operation.
* With `MaxFaults = 0`, and either no crash or `RoomForAll` (finitely many
  incidents, and a queue with a place for each): **`NothingIsOrphaned`**
  (`NoOrphan`). `CareInv` says that a pending incident is queued or held while
  the service is up. It can fail in recovery only, which finds the queue large
  enough because it enqueues no incident twice (`RecoveryFindsRoom`), or finds
  nothing to recover (`StartsEmpty`, a part of `CalmInv`).
* With `MaxFaults <= 1`, any number of crashes: **`NoDiagnosisIsLost`**
  (`DiagnosisSurvives`). A diagnosis is in the table, or in the row or the event
  that `_persist_failed` writes. `KeptInv` (which holds under any trouble)
  counts faults: a process about to write the `failed` event whose diagnosis is
  in neither the table nor its run's `failed` row has met one, and if the event
  does not carry it either, two. A run that fails because its snapshot cannot be
  read has met none before it is written down; one whose row was written before
  it failed cannot get a `failed` row, but has met one.

### The other components

* **`LockTypeCorrect`, `OneAtATime`, `RefsAreCounted`, `LockImplementsMutex`**
  (`IncidentLockProofs`), under `LockAssumption` (finitely many requests).
  Mutual exclusion rests on two requests for one incident naming the same
  object, which rests on the count: `TableInv` says that whoever came refers to
  the object in the table (`Bound`), that no object serves two incidents
  (`NotShared`), that the count is the cardinality of the users (`Counted`),
  and that whoever is inside has closed the lock. `EntryStays` is the heart: as
  long as somebody else is there, a departure leaves the entry alone. The
  refinement maps each action to one of `IncidentMutex`.
* **`PoolTypeCorrect`, `OneThreadEach`, `JoinMeansDone`, `StopIsQuiet`**
  (`WorkerPoolProofs`), under `PoolAssumption` (finitely many workers, a queue
  of at least one). `PoolInv` says that a thread runs for a task that awaits it
  until `stop()` cancels it and never in a pool that is down (`ThreadsOwned`), that whatever
  waits or is worked on is open, and every open id is queued, worked on or
  stranded (`Tended`), and that `unfinished` counts the queue and the awaiting
  tasks (`Accounted`). Recovery enqueues all open ids, so `OnePlace` holds
  across a restart only because the join left no thread behind; `Start` itself
  would not end one.
* **`RunsAreAffordable`** (`AgentRunProofs`), under `MaxRetriesAssumption` (at
  least one attempt). `CostInv` says what is paid for when: between calls
  everything spent is covered by the steps and verdicts so far, inside a call
  the failed attempts come on top and are fewer than the call may cost
  (`LoopPaid`, `VerifyPaid`). The replies, jobs and sources may be any sets.
* **`TranscriptsAreComplete`** (`AgentRunProofs`; `TranscriptContract`). The
  contract counts turns at moments the loop is between two calls; inside a call
  the hint may be in the transcript and the reply not. `ContractInv` keeps a
  `Record` for every moment: after its opening the transcript is laid out as
  replies and answers in turn (`Laid`), as many replies as steps but for the
  step being tried again (`Replied`), as many complaints as violations, and the
  handles of its observations are those seen; a request goes out only when every
  reply is answered (`Settled`). Counting is done turn by turn
  (`CountAppended`, `ShownAppended`), so no induction over the transcript is
  needed. That the loop's own abstentions are told apart by their reason assumes
  `OwnWords`: the model and the scripts keep off the reasons that the loop
  reserves. Nothing in the code stops a model from using them; `loop.py:30`
  relies on it.
* **`ChecksOnlyRemove`** (`AgentRunProofs`; `VerifierOnlyRemoves`), under
  `OwnWords` and `OwnShapes` (a diagnosis has the fields of its schema, which
  `parse_action` sees to). `CheckInv` is a chain: what is verified is a
  reduction of the draft (`IsVerified`), the draft one of the model's diagnosis
  (`Reduced`, which composes: `ReducedAgain`), and the verifier's survivors are
  positions of the draft in its order, each with evidence that exists
  (`SurvivorsInOrder`). What exists does not change under the verifier, because
  files grow only until the loop has returned. That the timing check keeps the
  order is a lemma about every list picked by rank: ranks under a total order
  are distinct and fill an interval (`RanksGrow`, `RanksTaken`, `Listed`), so
  the choice in `InOrder` is always of exactly one element (`PickedInOrder`).
* **`ShownStaysCitable`** (`AgentRunProofs`; `SeenStaysReal`), under
  `OwnSources` (a job starts with lists of rows, as the readers return them, a
  metric's rows by name with their points, and what is appended to a log is a row) and `OwnCalls` (a call names one of the
  tools, with an integer for a limit; any other limit raises). `SeenInv` keeps
  that every handle seen is one of the source as it is now, that the log rows
  shown from a single file are rows of it, and that nothing is reported before
  the loop has ended. What has to be shown is that a source keeps its handles
  when it grows. In a single file it keeps its rows: the id of a row without one
  depends only on the rows before it (`IdFromBefore`, `IdsStay`,
  `NormalizedGrows`), although it is computed anew at every reading. A directory
  keeps its numbers only: they are the positions in a merged list that gets
  longer (`FlattenedLonger`, `MergedRows`), which is why a row of a directory
  may be renamed and the property promises nothing of it. Deploys are only
  appended (`DeployEnded`). What the tools show is picked, sorted, trimmed or cut from
  what the readers return (`RowsShown`), so a capped or filtered answer cannot
  contain what the uncapped reading lacks. In a file with ids of its own the
  assigned ones are larger than all before them, so they all differ
  (`IdsDiffer`) and an id names one row (`OneRowForAnId`).
* **`TableIsHonest`, `CellIsOneRun`** (`MatrixCellProofs`), under
  `ScenarioCountAssumption` and `ArgumentsAssumption` (passes are integers).
  The first rests on a finished cell coming from arguments that were let
  through, with the model its provider resolved. The second is the half of
  `SummaryIsItsPasses` that is about the directory: `DirectoryInv` says that
  there is no summary while a run is at work, that its finished files are
  whole, and that the file being written is the records so far.
* **`UsageIsComplete`** (`MatrixCellProofs`; `UsageIsPartitioned`), under
  `ResultsAssumption` as well (a call's tokens are an integer, or the one that
  stands for none). `MeterInv` keeps two sums for every moment of a run
  (`Metered`): the provider's log against the records, and against the passes
  that ended with the records of the one that is open, which is what a price is
  made of. The tokens agree as long as every pass and record has a number
  (`Priced`); one without leaves the row without. At the end the row is the sum
  over the passes (`RowPriced`), and it stays until the next run.
* **`TotalsAreOnDisk`** (`MatrixCellProofs`; `SummaryIsItsPasses`). `TallyInv`
  says that the tallies of the passes are counts over the files
  (`Tallied`: pairs of a pass and a place in it, so that no file is counted
  twice), that the records of all passes are as many as the passes times the
  scenarios, and that every scenario is among them once a pass has ended. It
  needs `DirectoryInv`: the file a pass is counted from is the one it wrote, and
  the files of a run that was killed are gone before the first pass.

Sums, and the ids and merged files of a log, are treated by induction without an
induction theorem: a sum over a sequence is the value of some function of the
partial sums (`Sums`, `TotalIsSum`; likewise `Numbered` and `Flat`), and a claim
about all prefixes that fails has a least prefix where it does
(`LeastNatural`, which is `WFMin` of the library for the order of the natural
numbers), and the one before it satisfies the claim.

* **`ResolutionTypeCorrect`, `VerdictIsSound`, `FixesAreObserved`**
  (`ResolutionProofs`), under `RoutesAssumption` and `TimesAssumption`. A
  `recovered` verdict rests on a healthy line of a route that failed before
  (`RecoveredIsConfirmed`), and only routes that need the token fail. So it is enough that a healthy line of such
  a route is at most `Latency` younger than the break, whether it is in the log
  or was read from it before (`LineSound`), which holds because the answer was
  given under the marker as it was (`AnswerSound`). The boundary must be a
  number: the deploy log never holds two commits of one script (`OneEach`), so
  it has a latest one.
  `FixesAreObserved` (`FixIsObserved`) is the other direction. `FixInv` says
  that the commit of `fix_deploy` is the latest of the deploy log once it is
  written: there is none of an earlier fix while the service is broken
  (`NoFixCommit`), because what broke it rewrote the log, and nothing is written
  after it until the next break resets the fix. So the boundary is the second of
  the fix, and the rest is the rule of `Verdict`.

Before they were proved TLC checked the invariants on small instances:
`HandsInv`, `RowInv` and `LedgerInv` with a fault and a crash and with two
workers, `CalmInv` on two incidents, `CareInv` with a crash and two incidents,
`KeptInv` with two faults and a crash, `Equipped`, `PoolInv`, and `CostInv`,
`ContractInv`, `CheckInv`, `SeenInv`, `MeterInv`, `TallyInv` and `FixInv` on the
instances of `agent_run`, `matrix_cell` and `resolution`, where `OwnWords`,
`OwnShapes`, `OwnSources` and `OwnCalls` are true of the jobs, replies and rows.

Model-checked only:

* Liveness under fairness (`AcceptedSettles`, `RequestsEnd`, `WaitersServed`,
  `StopEnds`, `TakenInSettles`).
* `ExamplesAreSound`, which is about the fixed catalogue of examples: the run
  goes through every one of them.

The properties of the violating runs are false of the code as a whole;
`PostedOnce` and `CleanRetry` are proved under the assumptions above.

## 5. Findings

Three runs show the code doing something else than its own text says; each
trace is a sequence of ordinary operations.

* `double_post`: the channel takes the message and the answer is lost. Nothing
  records the post, the incident stays in `pending_review`, and the operator's
  second approval posts it again ("the review gate posts once per incident",
  `notify/slack.py:7`). By the same way a reject can close as `rejected` what
  was already posted.
* `shed_leftover`: `_rollback_ingest` deletes the row and then the directory.
  After a crash in between nobody owns the directory, `os.replace` onto it
  fails, and every later delivery of that id is refused with a 503 ("so a
  client retry can cleanly re-claim and re-enqueue", `service/app.py:210`).
* `steer_lost`: after a crash during a steered re-run, recovery takes the
  older completed run for the interrupted one and puts the incident back to
  `pending_review` with the diagnosis the operator had steered away from ("the
  run finished but the terminal 'pending_review' write was lost",
  `service/app.py:236`).

Seen while modelling, and kept as notes on the hazards: a store error after
the claim leaves a `queued` row in no queue until the next start; a swallowed
status write in `_persist_failed` leaves an incident `running` until then; a
crash between claim and snapshot makes recovery investigate without signals,
which ends in an abstention or a diagnosis flagged fabricated.

Of the other components, seen in the models but shown by no run:

* An `action` that is a list or an object raises out of `run_loop`
  (`Unhashable`), whose comments promise to "never crash" (`agent/loop.py:145`,
  of a failing tool, and 163); every other malformed reply is answered.
* Rows without an id before rows with one can give two rows of a file the same
  handle, and `quellgeist ingest` writes the duplicate into the canonical file.
  In a directory of files the ids of a later file move as an earlier one grows.
  So `SeenStaysReal` lets a handle name its row for good only in a single file
  whose explicit ids come first and differ.
* A deploy file that is being rewritten when `diagnose` checks its citations
  leaves them unverified, and the exit code is 0 even with
  `--strict-citations`.
* One scenario without a call of the verifier (an abstention) leaves its token
  count unset, and with it the total of the whole cell, although no count means
  that a backend "did not report usage" (`src/evals/matrix/run_cell.py:97`).
* `cell.json` is written in place: a kill in the middle leaves a torn file the
  report stops on. It is never taken for a summary.
* An error logged in the second of the fix is after the boundary, so the
  verdict stays `not_recovered`. A second `fix_deploy` without a new
  `bad_deploy` does not move the boundary. A bad deploy repeated after a fix is
  backdated, and can be taken for the boundary itself: `recovered` may then be
  reported of a service that has just been broken again, which is the case
  `RecoveredIsHealed` allows for.

## 6. Not modelled, and the plan

Out of scope: configuration, HMAC checks, prompts, rendering, logging and
the read-only pages (single values and text, no state); the parsing of log
formats and of `git log`; the judging model and its validation, contamination
scans, probes and audits (counts and text over finished files); fine-tuning
scripts (glue around training libraries). Migrations: the check and the
statements are one immediate transaction of SQLite, so the one action they would
be has nothing to interleave with. Times: pacing and backoff of the provider,
which no property depends on; a clock that steps back.

What could be added:

* A second script of the operator at the same time as the first in
  `Resolution`, and files that are reset during a `diagnose` in `AgentLoop`.
