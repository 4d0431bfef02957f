----------------------------- MODULE WorkerPool -----------------------------
(***************************************************************************)
(* WorkerPool (service/queue.py) over the life of a process and its        *)
(* restarts: the bounded asyncio.Queue, the worker tasks, the threads of   *)
(* the pool's executor, and stop(), which drains with a timeout, cancels   *)
(* the tasks and joins the threads.                                        *)
(*                                                                         *)
(* A task and the thread that works for it are different things: a task    *)
(* that is cancelled stops waiting, its thread goes on.  What a task does  *)
(* between two awaits is one step.  An investigation is one step of its    *)
(* thread here; IncidentService has its parts.                             *)
(***************************************************************************)
EXTENDS Naturals, Sequences, FiniteSets

CONSTANTS
  Incidents,         \* ids the service is given
  Workers,           \* as many as num_workers
  NoIncident,        \* what a worker without an item works on
  QueueMax           \* queue_maxsize

ASSUME PoolAssumption ==
  /\ NoIncident \notin Incidents
  /\ IsFiniteSet(Workers)
  /\ QueueMax \in Nat \ {0}

VARIABLES
  phase,             \* how far start() and stop() are
  queue,             \* asyncio.Queue: the ids that wait
  unfinished,        \* asyncio.Queue._unfinished_tasks, what join() waits for
  task,              \* worker -> where its task is in _worker
  item,              \* worker -> the id its last executor job is for
  thread,            \* worker -> the state of that job in the executor
  row,               \* id -> its row: none, queued or running, or past that
  stranded           \* open ids nobody in this process is going to take

poolVars == <<phase, queue, unfinished, task, item, thread, row, stranded>>

Phases  == {"down", "boot", "up", "drain", "cancel", "join"}
Tasks   == {"none", "get", "await", "ended"}
Threads == {"none", "submitted", "running", "returned", "raised"}
Rows    == {"absent", "open", "settled"}

(* What recovery finds: incidents_by_status(queued, running).              *)
Open == {i \in Incidents : row[i] = "open"}

PoolTypeOK ==
  /\ phase \in Phases
  /\ queue \in Seq(Incidents) /\ Len(queue) <= QueueMax
  /\ unfinished \in Nat
  /\ task \in [Workers -> Tasks]
  /\ item \in [Workers -> Incidents \cup {NoIncident}]
  /\ thread \in [Workers -> Threads]
  /\ row \in [Incidents -> Rows]
  /\ stranded \subseteq Open

PoolInit ==
  /\ phase = "down"
  /\ queue = <<>> /\ unfinished = 0
  /\ task = [w \in Workers |-> "none"]
  /\ item = [w \in Workers |-> NoIncident]
  /\ thread = [w \in Workers |-> "none"]
  /\ row = [i \in Incidents |-> "absent"]
  /\ stranded = {}

-----------------------------------------------------------------------------
(* Starting.                                                               *)

(* start(): a new queue, a new executor and the worker tasks.  It does     *)
(* nothing about a thread that an executor before it still runs.           *)
Start ==
  /\ phase = "down"
  /\ phase' = "boot"
  /\ queue' = <<>> /\ unfinished' = 0
  /\ task' = [w \in Workers |-> "get"]
  /\ UNCHANGED <<item, thread, row, stranded>>

(* The lists of different ids from S, as long as the queue allows.         *)
Listings(S) ==
  {s \in UNION {[1..n -> S] : n \in 0..QueueMax} :
     /\ \A a, b \in DOMAIN s : s[a] = s[b] => a = b
     /\ Len(s) < QueueMax => S = {s[a] : a \in DOMAIN s}}

(* _recover_pending enqueues what the store holds open until the queue is  *)
(* full; the rest waits for a later start.                                 *)
Recover ==
  /\ phase = "boot"
  /\ \E s \in Listings(Open) :
       /\ queue' = s
       /\ unfinished' = Len(s)
       /\ stranded' = Open \ {s[a] : a \in DOMAIN s}
  /\ phase' = "up"
  /\ UNCHANGED <<task, item, thread, row>>

(* Slip: a queue without maxsize.                                          *)
EnqueueUnbounded(i) ==
  /\ phase = "up" /\ row[i] = "absent"
  /\ queue' = Append(queue, i)
  /\ unfinished' = unfinished + 1
  /\ row' = [row EXCEPT ![i] = "open"]
  /\ UNCHANGED <<phase, task, item, thread, stranded>>

(* A request claims a new id and enqueues it.  With a full queue the claim *)
(* is rolled back and nothing is left of it.                               *)
Enqueue(i) ==
  /\ phase = "up" /\ row[i] = "absent"
  /\ Len(queue) < QueueMax
  /\ queue' = Append(queue, i)
  /\ unfinished' = unfinished + 1
  /\ row' = [row EXCEPT ![i] = "open"]
  /\ UNCHANGED <<phase, task, item, thread, stranded>>

-----------------------------------------------------------------------------
(* A worker and its thread.                                                *)

TasksRun == phase \in {"boot", "up", "drain"}

(* Slip: task_done when the item is taken.                                 *)
TakeMarksDone(w) ==
  /\ TasksRun /\ task[w] = "get" /\ queue # <<>>
  /\ queue' = Tail(queue)
  /\ task' = [task EXCEPT ![w] = "await"]
  /\ item' = [item EXCEPT ![w] = Head(queue)]
  /\ thread' = [thread EXCEPT ![w] = "submitted"]
  /\ unfinished' = unfinished - 1
  /\ UNCHANGED <<phase, row, stranded>>

(* queue.get() returns, and the job goes to the executor.                  *)
Take(w) ==
  /\ TasksRun /\ task[w] = "get" /\ queue # <<>>
  /\ queue' = Tail(queue)
  /\ task' = [task EXCEPT ![w] = "await"]
  /\ item' = [item EXCEPT ![w] = Head(queue)]
  /\ thread' = [thread EXCEPT ![w] = "submitted"]
  /\ UNCHANGED <<phase, unfinished, row, stranded>>

ThreadBegins(w) ==
  /\ thread[w] = "submitted"
  /\ thread' = [thread EXCEPT ![w] = "running"]
  /\ UNCHANGED <<phase, queue, unfinished, task, item, row, stranded>>

(* _process_sync returns: the incident has left queued and running.        *)
ThreadReturns(w) ==
  /\ thread[w] = "running"
  /\ thread' = [thread EXCEPT ![w] = "returned"]
  /\ row' = [row EXCEPT ![item[w]] = "settled"]
  /\ UNCHANGED <<phase, queue, unfinished, task, item, stranded>>

(* It raises, or its last write is lost: the incident stays open.          *)
ThreadRaises(w) ==
  /\ thread[w] = "running"
  /\ thread' = [thread EXCEPT ![w] = "raised"]
  /\ stranded' = stranded \cup {item[w]}
  /\ UNCHANGED <<phase, queue, unfinished, task, item, row>>

Ended(w) == thread[w] \in {"returned", "raised"}

(* Slip: an exception of the run ends the worker.                          *)
TaskDoneIfReturned(w) ==
  /\ TasksRun /\ task[w] = "await" /\ thread[w] = "returned"
  /\ task' = [task EXCEPT ![w] = "get"]
  /\ unfinished' = unfinished - 1
  /\ UNCHANGED <<phase, queue, item, thread, row, stranded>>

(* The await ends, with or without an exception: task_done, next item.     *)
TaskDone(w) ==
  /\ TasksRun /\ task[w] = "await" /\ Ended(w)
  /\ task' = [task EXCEPT ![w] = "get"]
  /\ unfinished' = unfinished - 1
  /\ UNCHANGED <<phase, queue, item, thread, row, stranded>>

-----------------------------------------------------------------------------
(* Stopping.                                                               *)

(* The server shuts down when its requests have ended.                     *)
Stop ==
  /\ phase = "up"
  /\ phase' = "drain"
  /\ UNCHANGED <<queue, unfinished, task, item, thread, row, stranded>>

(* wait_for(queue.join()) is satisfied; then the tasks are cancelled.      *)
Drained ==
  /\ phase = "drain" /\ unfinished = 0
  /\ phase' = "cancel"
  /\ UNCHANGED <<queue, unfinished, task, item, thread, row, stranded>>

(* It times out first: the items that wait are left to the next start.     *)
DrainTimeout ==
  /\ phase = "drain" /\ unfinished # 0
  /\ phase' = "cancel"
  /\ stranded' = stranded \cup {queue[a] : a \in DOMAIN queue}
  /\ UNCHANGED <<queue, unfinished, task, item, thread, row>>

(* Slip: the await of a thread is shielded.                                *)
TaskCancelledWhileIdle(w) ==
  /\ phase = "cancel" /\ task[w] = "get"
  /\ task' = [task EXCEPT ![w] = "ended"]
  /\ UNCHANGED <<phase, queue, unfinished, item, thread, row, stranded>>

(* CancelledError in a task: one that awaits its thread calls task_done on *)
(* its way out and withdraws a job that has not begun.                     *)
TaskCancelled(w) ==
  /\ phase = "cancel" /\ task[w] \in {"get", "await"}
  /\ task' = [task EXCEPT ![w] = "ended"]
  /\ IF task[w] = "await"
       THEN unfinished' = unfinished - 1
       ELSE UNCHANGED unfinished
  /\ IF task[w] = "await" /\ thread[w] = "submitted"
       THEN /\ thread' = [thread EXCEPT ![w] = "none"]
            /\ stranded' = stranded \cup {item[w]}
       ELSE UNCHANGED <<thread, stranded>>
  /\ UNCHANGED <<phase, queue, item, row>>

(* gather() has every task.                                                *)
Gathered ==
  /\ phase = "cancel"
  /\ \A w \in Workers : task[w] = "ended"
  /\ phase' = "join"
  /\ UNCHANGED <<queue, unfinished, task, item, thread, row, stranded>>

(* Slip: shutdown(wait=False).                                             *)
JoinedAtOnce ==
  /\ phase = "join"
  /\ phase' = "down"
  /\ UNCHANGED <<queue, unfinished, task, item, thread, row, stranded>>

(* executor.shutdown(wait=True) returns: stop() is over.                   *)
Joined ==
  /\ phase = "join"
  /\ \A w \in Workers : thread[w] \notin {"submitted", "running"}
  /\ phase' = "down"
  /\ UNCHANGED <<queue, unfinished, task, item, thread, row, stranded>>

(* The process is killed: no task and no thread survives, the store does.  *)
Kill ==
  /\ phase # "down"
  /\ phase' = "down"
  /\ queue' = <<>> /\ unfinished' = 0
  /\ task' = [w \in Workers |-> "none"]
  /\ thread' = [w \in Workers |-> "none"]
  /\ stranded' = Open
  /\ UNCHANGED <<item, row>>

-----------------------------------------------------------------------------
WorkerStep(w) ==
  \/ Take(w) \/ ThreadBegins(w) \/ ThreadReturns(w) \/ ThreadRaises(w)
  \/ TaskDone(w) \/ TaskCancelled(w)

PoolNext ==
  \/ Start \/ Recover
  \/ \E i \in Incidents : Enqueue(i)
  \/ \E w \in Workers : WorkerStep(w)
  \/ Stop \/ Drained \/ DrainTimeout \/ Gathered \/ Joined
  \/ Kill

PoolSpec == PoolInit /\ [][PoolNext]_poolVars

(* Tasks and threads are scheduled, an investigation ends (its provider    *)
(* calls have timeouts and a bound), and stop() goes on.  Nobody has to    *)
(* deliver, start, stop or kill.                                           *)
PoolFairSpec ==
  /\ PoolSpec
  /\ \A w \in Workers : WF_poolVars(WorkerStep(w))
  /\ WF_poolVars(Recover)
  /\ WF_poolVars(Drained \/ DrainTimeout \/ Gathered \/ Joined)

-----------------------------------------------------------------------------
Live(w) == thread[w] \in {"submitted", "running"}
Queued  == {queue[a] : a \in DOMAIN queue}

(* An incident is investigated by one thread at a time and queued at most  *)
(* once, across timeouts of stop(), restarts and recovery: recovery takes  *)
(* every open row, so no thread of the pool before may still work on one.  *)
OnePlace ==
  /\ \A a, b \in DOMAIN queue : queue[a] = queue[b] => a = b
  /\ \A v, w \in Workers : Live(v) /\ Live(w) /\ item[v] = item[w] => v = w
  /\ \A w \in Workers : Live(w) => item[w] \notin Queued

(* When join() lets stop() go on, the work is done: "each item calls       *)
(* task_done when its executor run returns", on every path out of the      *)
(* await.  Nothing is queued, no thread works, and what is still open is   *)
(* what a failed run or a full queue left for the next start.              *)
DrainedIsDone ==
  phase \in {"up", "drain"} /\ unfinished = 0 =>
    queue = <<>> /\ (\A w \in Workers : ~Live(w)) /\ Open = stranded

(* "No store write outlives stop()", drain timeout or not.                 *)
NoWriteOutlivesStop == [][phase = "down" => row' = row]_poolVars

(* stop() comes to its end, even if the queue never drains.                *)
StopEnds == phase = "drain" ~> phase = "down"

(* What is taken in is investigated, unless its own run raises or the      *)
(* process stops first; another incident's exception does not hold it up   *)
(* ("never let one bad incident kill a worker").                           *)
TakenInSettles ==
  \A i \in Incidents :
    row[i] = "open" /\ i \notin stranded ~> row[i] = "settled" \/ i \in stranded
=============================================================================
