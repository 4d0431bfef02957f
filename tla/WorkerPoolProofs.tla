-------------------------- MODULE WorkerPoolProofs --------------------------
(***************************************************************************)
(* Proofs about WorkerPool for any number of incidents, any finite number  *)
(* of workers, any bound of the queue and any number of restarts.          *)
(***************************************************************************)
EXTENDS WorkerPool, FiniteSetTheorems, TLAPS

Elems(s)    == {s[a] : a \in DOMAIN s}
Distinct(s) == \A a, b \in DOMAIN s : s[a] = s[b] => a = b
Awaiting    == {w \in Workers : task[w] = "await"}
Worked      == {item[w] : w \in {v \in Workers : Live(v)}}

(* A thread works for a task that waits for it, until stop() cancels it,   *)
(* and never in a pool that is not running; a new pool has nothing to do.  *)
ThreadsOwned ==
  /\ phase = "boot" => queue = <<>>
  /\ \A w \in Workers :
       /\ phase = "boot" => task[w] = "get"
       /\ phase \in {"up", "drain"} => task[w] \in {"get", "await"}
       /\ phase = "down" => ~Live(w)
       /\ task[w] = "get" => ~Live(w)
       /\ task[w] = "await" => item[w] \in Incidents

(* What waits or is worked on is open, and somebody's.                     *)
Tended ==
  /\ Queued \subseteq Open
  /\ \A w \in Workers : Live(w) => item[w] \in Open \ stranded
  /\ phase \in {"up", "drain"} =>
       /\ Queued \cap stranded = {}
       /\ Open \subseteq stranded \cup Queued \cup Worked

(* unfinished counts what waits and what is awaited.                       *)
Accounted ==
  phase \in {"boot", "up", "drain", "cancel"} =>
    unfinished = Len(queue) + Cardinality(Awaiting)

PoolInv == PoolTypeOK /\ ThreadsOwned /\ Tended /\ Accounted /\ OnePlace

-----------------------------------------------------------------------------
(* Taking the first of a list of different ids.                            *)
LEMMA TailElems ==
  ASSUME NEW S, NEW s \in Seq(S), s # <<>>, Distinct(s)
  PROVE  /\ Head(s) \in S /\ Tail(s) \in Seq(S)
         /\ Len(Tail(s)) = Len(s) - 1 /\ Len(s) # 0
         /\ Distinct(Tail(s))
         /\ Elems(s) = Elems(Tail(s)) \cup {Head(s)}
         /\ Head(s) \notin Elems(Tail(s))
<1>1. Len(s) \in Nat \ {0} /\ Head(s) = s[1] /\ DOMAIN s = 1..Len(s)
  OBVIOUS
<1>2. /\ Tail(s) \in Seq(S) /\ Len(Tail(s)) = Len(s) - 1
      /\ DOMAIN Tail(s) = 1..(Len(s) - 1)
      /\ \A a \in 1..(Len(s) - 1) : Tail(s)[a] = s[a + 1]
  BY <1>1
<1>3. Distinct(Tail(s))
  BY <1>1, <1>2 DEF Distinct
<1>4. Head(s) \notin Elems(Tail(s))
  BY <1>1, <1>2 DEF Distinct, Elems
<1>5. Elems(s) = Elems(Tail(s)) \cup {Head(s)}
  <2>1. ASSUME NEW x \in Elems(s) PROVE x \in Elems(Tail(s)) \cup {Head(s)}
    <3>1. PICK a \in 1..Len(s) : x = s[a]
      BY <1>1, <2>1 DEF Elems
    <3>2. CASE a = 1
      BY <1>1, <3>1, <3>2
    <3>3. CASE a # 1
      <4>1. a - 1 \in 1..(Len(s) - 1) /\ Tail(s)[a - 1] = x
        BY <1>1, <1>2, <3>1, <3>3
      <4>2. QED
        BY <1>2, <4>1 DEF Elems
    <3>4. QED
      BY <3>2, <3>3
  <2>2. ASSUME NEW x \in Elems(Tail(s)) \cup {Head(s)} PROVE x \in Elems(s)
    <3>1. CASE x = Head(s)
      BY <1>1, <3>1 DEF Elems
    <3>2. CASE x \in Elems(Tail(s))
      <4>1. PICK a \in 1..(Len(s) - 1) : x = Tail(s)[a]
        BY <1>2, <3>2 DEF Elems
      <4>2. a + 1 \in 1..Len(s) /\ s[a + 1] = x
        BY <1>1, <1>2, <4>1
      <4>3. QED
        BY <1>1, <4>2 DEF Elems
    <3>3. QED
      BY <2>2, <3>1, <3>2
  <2>3. QED
    BY <2>1, <2>2
<1>6. QED
  BY <1>1, <1>2, <1>3, <1>4, <1>5

(* Adding a new id to a list of different ids.                             *)
LEMMA AppendElems ==
  ASSUME NEW S, NEW s \in Seq(S), NEW e \in S, Distinct(s), e \notin Elems(s)
  PROVE  /\ Append(s, e) \in Seq(S) /\ Len(Append(s, e)) = Len(s) + 1
         /\ Distinct(Append(s, e))
         /\ Elems(Append(s, e)) = Elems(s) \cup {e}
<1>1. Len(s) \in Nat /\ DOMAIN s = 1..Len(s)
  OBVIOUS
<1>2. /\ Append(s, e) \in Seq(S) /\ Len(Append(s, e)) = Len(s) + 1
      /\ DOMAIN Append(s, e) = 1..(Len(s) + 1)
      /\ \A a \in 1..Len(s) : Append(s, e)[a] = s[a]
      /\ Append(s, e)[Len(s) + 1] = e
  BY <1>1
<1>3. \A a \in 1..(Len(s) + 1) : a \in 1..Len(s) \/ a = Len(s) + 1
  BY <1>1
<1>4. Distinct(Append(s, e))
  BY <1>1, <1>2, <1>3 DEF Distinct, Elems
<1>5. Elems(Append(s, e)) = Elems(s) \cup {e}
  <2>1. ASSUME NEW x \in Elems(s) PROVE x \in Elems(Append(s, e))
    <3>1. PICK a \in 1..Len(s) : x = s[a]
      BY <1>1, <2>1 DEF Elems
    <3>2. a \in 1..(Len(s) + 1)
      BY <1>1
    <3>3. QED
      BY <1>2, <3>1, <3>2 DEF Elems
  <2>2. e \in Elems(Append(s, e))
    <3>1. Len(s) + 1 \in 1..(Len(s) + 1)
      BY <1>1
    <3>2. QED
      BY <1>2, <3>1 DEF Elems
  <2>3. ASSUME NEW x \in Elems(Append(s, e)) PROVE x \in Elems(s) \cup {e}
    BY <1>1, <1>2, <1>3, <2>3 DEF Elems
  <2>4. QED
    BY <2>1, <2>2, <2>3
<1>6. QED
  BY <1>2, <1>4, <1>5

(* What recovery enqueues is a list of different open ids that fits.       *)
LEMMA ListingTyped ==
  ASSUME NEW S, NEW s \in Listings(S)
  PROVE  s \in Seq(S) /\ Len(s) <= QueueMax /\ Distinct(s)
<1>1. PICK n \in 0..QueueMax : s \in [1..n -> S]
  BY DEF Listings
<1>2. n \in Nat /\ n <= QueueMax
  BY <1>1, PoolAssumption
<1>3. s \in Seq(S) /\ Len(s) = n
  BY <1>1, <1>2
<1>4. QED
  BY <1>2, <1>3 DEF Listings, Distinct

(* The awaiting tasks are finitely many.                                   *)
LEMMA AwaitingFinite == IsFiniteSet(Awaiting) /\ Cardinality(Awaiting) \in Nat
<1>1. Awaiting \in SUBSET Workers
  BY DEF Awaiting
<1>2. IsFiniteSet(Awaiting)
  BY <1>1, PoolAssumption, FS_Subset
<1>3. QED
  BY <1>2, FS_CardinalityType

LEMMA QueueFacts ==
  ASSUME PoolInv
  PROVE  queue \in Seq(Incidents) /\ Distinct(queue) /\ Queued = Elems(queue)
BY DEF PoolInv, PoolTypeOK, OnePlace, Distinct, Queued, Elems

-----------------------------------------------------------------------------
(* One lemma for each action.                                              *)
LEMMA PoolInitInv == PoolInit => PoolInv
<1> SUFFICES ASSUME PoolInit PROVE PoolInv
  OBVIOUS
<1>1. PoolTypeOK
  BY PoolAssumption DEF PoolInit, PoolTypeOK, Phases, Tasks, Threads, Rows, Open
<1>2. ThreadsOwned /\ Accounted /\ OnePlace
  BY DEF PoolInit, ThreadsOwned, Accounted, OnePlace, Live
<1>3. Tended
  BY DEF PoolInit, Tended, Live, Queued
<1>4. QED
  BY <1>1, <1>2, <1>3 DEF PoolInv

LEMMA StartKeeps == ASSUME PoolInv, Start PROVE PoolInv'
<1>1. \A w \in Workers : ~Live(w) /\ ~Live(w)' /\ task'[w] = "get"
  BY DEF Start, Live, PoolInv, ThreadsOwned
<1>2. Awaiting' = {} /\ Queued' = {} /\ Open' = Open
  BY <1>1 DEF Start, Awaiting, Queued, Open
<1>3. PoolTypeOK'
  BY <1>2, PoolAssumption DEF Start, PoolInv, PoolTypeOK, Phases, Tasks
<1>4. ThreadsOwned' /\ Tended' /\ OnePlace'
  BY <1>1, <1>2 DEF Start, ThreadsOwned, Tended, OnePlace
<1>5. Accounted'
  BY <1>2, FS_EmptySet DEF Start, Accounted
<1>6. QED
  BY <1>3, <1>4, <1>5 DEF PoolInv

LEMMA RecoverKeeps == ASSUME PoolInv, Recover PROVE PoolInv'
<1>1. PICK s \in Listings(Open) :
        queue' = s /\ unfinished' = Len(s) /\ stranded' = Open \ Elems(s)
  BY DEF Recover, Elems
<1>2. phase = "boot" /\ phase' = "up" /\ row' = row /\ Open' = Open
  BY DEF Recover, Open
<1>3. \A w \in Workers : ~Live(w) /\ ~Live(w)' /\ task'[w] = "get"
  BY <1>2 DEF Recover, PoolInv, ThreadsOwned, Live
<1>4. s \in Seq(Open) /\ Len(s) <= QueueMax /\ Distinct(s) /\ Elems(s) \subseteq Open
  <2>1. s \in Seq(Open) /\ Len(s) <= QueueMax /\ Distinct(s)
    BY ListingTyped
  <2>2. QED
    BY <2>1 DEF Elems
<1>5. s \in Seq(Incidents) /\ Len(s) \in Nat
  BY <1>4 DEF Open
<1>6. PoolTypeOK'
  BY <1>1, <1>2, <1>4, <1>5 DEF Recover, PoolInv, PoolTypeOK, Phases
<1>7. Queued' = Elems(s)
  BY <1>1 DEF Queued, Elems
<1>8. ThreadsOwned'
  BY <1>2, <1>3 DEF ThreadsOwned
<1>9. Tended'
  BY <1>1, <1>2, <1>3, <1>4, <1>7 DEF Tended
<1>10. Accounted'
  <2>1. Awaiting' = {}
    BY <1>3 DEF Awaiting
  <2>2. QED
    BY <1>1, <1>5, <2>1, FS_EmptySet DEF Accounted
<1>11. OnePlace'
  BY <1>1, <1>3, <1>4 DEF OnePlace, Distinct
<1>12. QED
  BY <1>6, <1>8, <1>9, <1>10, <1>11 DEF PoolInv

LEMMA EnqueueKeeps == ASSUME PoolInv, NEW i \in Incidents, Enqueue(i) PROVE PoolInv'
<1>1. i \notin Queued /\ i \notin Open /\ i \notin stranded
  BY DEF Enqueue, PoolInv, PoolTypeOK, Tended, Open
<1>2. /\ Append(queue, i) \in Seq(Incidents)
      /\ Len(Append(queue, i)) = Len(queue) + 1 /\ Len(queue) \in Nat
      /\ Distinct(Append(queue, i))
      /\ Elems(Append(queue, i)) = Elems(queue) \cup {i}
  BY <1>1, QueueFacts, AppendElems
<1>3. Queued' = Queued \cup {i}
  BY <1>2, QueueFacts DEF Enqueue, Queued, Elems
<1>4. Open' = Open \cup {i}
  BY DEF Enqueue, Open, PoolInv, PoolTypeOK
<1>5. Worked' = Worked /\ Awaiting' = Awaiting /\ \A w \in Workers : Live(w)' = Live(w)
  BY DEF Enqueue, Worked, Awaiting, Live
<1>6. PoolTypeOK'
  BY <1>2, <1>4, PoolAssumption DEF Enqueue, PoolInv, PoolTypeOK, Rows
<1>7. ThreadsOwned'
  BY <1>5 DEF Enqueue, PoolInv, ThreadsOwned
<1>8. Tended'
  BY <1>1, <1>3, <1>4, <1>5 DEF Enqueue, PoolInv, Tended
<1>9. Accounted'
  BY <1>2, <1>5, AwaitingFinite DEF Enqueue, PoolInv, PoolTypeOK, Accounted
<1>10. OnePlace'
  <2>1. \A w \in Workers : Live(w) => item[w] # i
    BY <1>1 DEF PoolInv, Tended
  <2>2. QED
    BY <1>2, <1>3, <1>5, <2>1 DEF Enqueue, PoolInv, OnePlace, Distinct
<1>11. QED
  BY <1>6, <1>7, <1>8, <1>9, <1>10 DEF PoolInv

LEMMA TakeKeeps == ASSUME PoolInv, NEW w \in Workers, Take(w) PROVE PoolInv'
<1> DEFINE i == Head(queue)
<1>1. /\ i \in Incidents /\ Tail(queue) \in Seq(Incidents)
      /\ Len(Tail(queue)) = Len(queue) - 1 /\ Len(queue) \in Nat \ {0}
      /\ Distinct(Tail(queue))
      /\ Elems(queue) = Elems(Tail(queue)) \cup {i}
      /\ i \notin Elems(Tail(queue))
  BY QueueFacts, TailElems DEF Take
<1>2. phase \in {"up", "drain"} /\ phase' = phase /\ task[w] = "get"
  BY DEF Take, TasksRun, PoolInv, ThreadsOwned
<1>3. Queued = Queued' \cup {i} /\ i \notin Queued'
  BY <1>1, QueueFacts DEF Take, Queued, Elems
<1>4. ~Live(w) /\ Live(w)' /\ item'[w] = i
  BY <1>2 DEF Take, Live, PoolInv, ThreadsOwned, PoolTypeOK
<1>5. \A v \in Workers : v # w =>
        item'[v] = item[v] /\ task'[v] = task[v] /\ (Live(v)' <=> Live(v))
  BY DEF Take, Live, PoolInv, PoolTypeOK
<1>6. Worked' = Worked \cup {i}
  BY <1>4, <1>5 DEF Worked
<1>7. Open' = Open /\ stranded' = stranded
  BY DEF Take, Open
<1>8. PoolTypeOK'
  <2>1. queue' \in Seq(Incidents) /\ Len(queue') <= QueueMax
    BY <1>1, PoolAssumption DEF Take, PoolInv, PoolTypeOK
  <2>2. /\ task' \in [Workers -> Tasks] /\ thread' \in [Workers -> Threads]
        /\ item' \in [Workers -> Incidents \cup {NoIncident}]
    BY <1>1 DEF Take, PoolInv, PoolTypeOK, Tasks, Threads
  <2>3. QED
    BY <1>7, <2>1, <2>2 DEF Take, PoolInv, PoolTypeOK
<1>9. ThreadsOwned'
  BY <1>1, <1>2, <1>4, <1>5 DEF Take, PoolInv, ThreadsOwned, PoolTypeOK
<1>10. Tended'
  BY <1>2, <1>3, <1>4, <1>5, <1>6, <1>7 DEF PoolInv, Tended
<1>11. Accounted'
  <2>1. Awaiting' = Awaiting \cup {w} /\ w \notin Awaiting
    BY <1>2 DEF Take, Awaiting, PoolInv, PoolTypeOK
  <2>2. Cardinality(Awaiting') = Cardinality(Awaiting) + 1
    BY <2>1, AwaitingFinite, FS_AddElement
  <2>3. QED
    BY <1>1, <1>2, <2>2, AwaitingFinite DEF Take, PoolInv, PoolTypeOK, Accounted
<1>12. OnePlace'
  <2>1. \A v \in Workers : Live(v) => item[v] # i
    BY <1>3 DEF PoolInv, OnePlace
  <2>2. \A a, b \in DOMAIN queue' : queue'[a] = queue'[b] => a = b
    BY <1>1 DEF Take, Distinct
  <2>3. \A v \in Workers : Live(v)' => item'[v] \notin Queued'
    BY <1>3, <1>4, <1>5 DEF PoolInv, OnePlace
  <2>4. \A u, v \in Workers : Live(u)' /\ Live(v)' /\ item'[u] = item'[v] => u = v
    BY <1>4, <1>5, <2>1 DEF PoolInv, OnePlace
  <2>5. QED
    BY <2>2, <2>3, <2>4 DEF OnePlace
<1>13. QED
  BY <1>8, <1>9, <1>10, <1>11, <1>12 DEF PoolInv

LEMMA ThreadBeginsKeeps == ASSUME PoolInv, NEW w \in Workers, ThreadBegins(w) PROVE PoolInv'
<1>1. \A v \in Workers : Live(v)' <=> Live(v)
  BY DEF ThreadBegins, Live, PoolInv, PoolTypeOK
<1>2. Queued' = Queued /\ Open' = Open /\ Awaiting' = Awaiting /\ Worked' = Worked
  BY <1>1 DEF ThreadBegins, Queued, Open, Awaiting, Worked
<1>3. PoolTypeOK'
  BY <1>2 DEF ThreadBegins, PoolInv, PoolTypeOK, Threads
<1>4. ThreadsOwned' /\ Tended' /\ OnePlace'
  BY <1>1, <1>2 DEF ThreadBegins, PoolInv, ThreadsOwned, Tended, OnePlace
<1>5. Accounted'
  BY <1>2 DEF ThreadBegins, PoolInv, Accounted
<1>6. QED
  BY <1>3, <1>4, <1>5 DEF PoolInv

(* What both ends of a thread have in common: it lets go of its item, and  *)
(* nobody else has it.                                                     *)
LEMMA ThreadEnds ==
  ASSUME PoolInv, NEW w \in Workers, Live(w),
         ThreadReturns(w) \/ ThreadRaises(w)
  PROVE  /\ ~Live(w)'
         /\ \A v \in Workers : v # w => (Live(v)' <=> Live(v)) /\ (Live(v) => item[v] # item[w])
         /\ Worked' = Worked \ {item[w]}
         /\ item[w] \in Open \ (stranded \cup Queued)
         /\ UNCHANGED <<phase, queue, unfinished, task, item>>
         /\ Queued' = Queued /\ Awaiting' = Awaiting
<1>1. UNCHANGED <<phase, queue, unfinished, task, item>>
  BY DEF ThreadReturns, ThreadRaises
<1>2. ~Live(w)' /\ \A v \in Workers : v # w => (Live(v)' <=> Live(v))
  BY DEF ThreadReturns, ThreadRaises, Live, PoolInv, PoolTypeOK
<1>3. \A v \in Workers : v # w => (Live(v) => item[v] # item[w])
  BY DEF PoolInv, OnePlace
<1>4. Worked' = Worked \ {item[w]}
  BY <1>1, <1>2, <1>3 DEF Worked
<1>5. item[w] \in Open \ (stranded \cup Queued)
  BY DEF PoolInv, Tended, OnePlace
<1>6. Queued' = Queued /\ Awaiting' = Awaiting
  BY <1>1 DEF Queued, Awaiting
<1>7. QED
  BY <1>1, <1>2, <1>3, <1>4, <1>5, <1>6

LEMMA ThreadReturnsKeeps == ASSUME PoolInv, NEW w \in Workers, ThreadReturns(w) PROVE PoolInv'
<1>1. Live(w)
  BY DEF ThreadReturns, Live
<1>2. /\ ~Live(w)'
      /\ \A v \in Workers : v # w => (Live(v)' <=> Live(v)) /\ (Live(v) => item[v] # item[w])
      /\ Worked' = Worked \ {item[w]}
      /\ item[w] \in Open \ (stranded \cup Queued)
      /\ UNCHANGED <<phase, queue, unfinished, task, item>>
      /\ Queued' = Queued /\ Awaiting' = Awaiting
  BY <1>1, ThreadEnds
<1>3. Open' = Open \ {item[w]} /\ stranded' = stranded
  BY DEF ThreadReturns, Open, PoolInv, PoolTypeOK
<1>4. PoolTypeOK'
  BY <1>2, <1>3 DEF ThreadReturns, PoolInv, PoolTypeOK, Threads, Rows
<1>5. ThreadsOwned'
  BY <1>2 DEF PoolInv, ThreadsOwned
<1>6. Tended'
  BY <1>2, <1>3 DEF PoolInv, Tended
<1>7. Accounted' /\ OnePlace'
  BY <1>2 DEF PoolInv, Accounted, OnePlace
<1>8. QED
  BY <1>4, <1>5, <1>6, <1>7 DEF PoolInv

LEMMA ThreadRaisesKeeps == ASSUME PoolInv, NEW w \in Workers, ThreadRaises(w) PROVE PoolInv'
<1>1. Live(w)
  BY DEF ThreadRaises, Live
<1>2. /\ ~Live(w)'
      /\ \A v \in Workers : v # w => (Live(v)' <=> Live(v)) /\ (Live(v) => item[v] # item[w])
      /\ Worked' = Worked \ {item[w]}
      /\ item[w] \in Open \ (stranded \cup Queued)
      /\ UNCHANGED <<phase, queue, unfinished, task, item>>
      /\ Queued' = Queued /\ Awaiting' = Awaiting
  BY <1>1, ThreadEnds
<1>3. Open' = Open /\ stranded' = stranded \cup {item[w]}
  BY DEF ThreadRaises, Open
<1>4. PoolTypeOK'
  BY <1>2, <1>3 DEF ThreadRaises, PoolInv, PoolTypeOK, Threads
<1>5. ThreadsOwned'
  BY <1>2 DEF PoolInv, ThreadsOwned
<1>6. Tended'
  BY <1>2, <1>3 DEF PoolInv, Tended
<1>7. Accounted' /\ OnePlace'
  BY <1>2 DEF PoolInv, Accounted, OnePlace
<1>8. QED
  BY <1>4, <1>5, <1>6, <1>7 DEF PoolInv

(* A task that stops awaiting is one item less to wait for.                *)
LEMMA OneLessAwaited ==
  ASSUME PoolInv, NEW w \in Workers, task[w] = "await",
         NEW s \in Tasks, s # "await", task' = [task EXCEPT ![w] = s],
         phase \in {"boot", "up", "drain", "cancel"}
  PROVE  /\ unfinished - 1 \in Nat
         /\ unfinished - 1 = Len(queue) + Cardinality(Awaiting')
<1>1. Awaiting' = Awaiting \ {w} /\ w \in Awaiting
  BY DEF Awaiting, PoolInv, PoolTypeOK
<1>2. Cardinality(Awaiting') = Cardinality(Awaiting) - 1 /\ Cardinality(Awaiting) # 0
  BY <1>1, AwaitingFinite, FS_RemoveElement, FS_EmptySet
<1>3. Len(queue) \in Nat
  BY DEF PoolInv, PoolTypeOK
<1>4. QED
  BY <1>2, <1>3, AwaitingFinite DEF PoolInv, PoolTypeOK, Accounted

LEMMA TaskDoneKeeps == ASSUME PoolInv, NEW w \in Workers, TaskDone(w) PROVE PoolInv'
<1>1. ~Live(w) /\ task[w] = "await" /\ phase \in {"up", "drain"}
  BY DEF TaskDone, TasksRun, Ended, Live, PoolInv, ThreadsOwned
<1>2. unfinished - 1 \in Nat /\ unfinished - 1 = Len(queue) + Cardinality(Awaiting')
  BY <1>1, OneLessAwaited DEF TaskDone, Tasks
<1>3. /\ \A v \in Workers : Live(v)' <=> Live(v)
      /\ Queued' = Queued /\ Open' = Open /\ Worked' = Worked
  BY DEF TaskDone, Live, Queued, Open, Worked
<1>4. PoolTypeOK'
  BY <1>2, <1>3 DEF TaskDone, PoolInv, PoolTypeOK, Tasks
<1>5. ThreadsOwned'
  BY <1>1, <1>3 DEF TaskDone, PoolInv, PoolTypeOK, ThreadsOwned
<1>6. Tended' /\ OnePlace'
  BY <1>3 DEF TaskDone, PoolInv, Tended, OnePlace
<1>7. Accounted'
  BY <1>2 DEF TaskDone, Accounted
<1>8. QED
  BY <1>4, <1>5, <1>6, <1>7 DEF PoolInv

LEMMA TaskCancelledKeeps == ASSUME PoolInv, NEW w \in Workers, TaskCancelled(w) PROVE PoolInv'
<1>1. phase = "cancel" /\ phase' = phase /\ task' = [task EXCEPT ![w] = "ended"]
  BY DEF TaskCancelled
<1>2. Queued' = Queued /\ Open' = Open /\ UNCHANGED <<queue, item, row>>
  BY DEF TaskCancelled, Queued, Open
<1>3. unfinished' \in Nat /\ Accounted'
  <2>1. CASE task[w] = "await"
    <3>1. unfinished - 1 \in Nat /\ unfinished - 1 = Len(queue) + Cardinality(Awaiting')
      BY <1>1, <2>1, OneLessAwaited DEF Tasks
    <3>2. QED
      BY <1>2, <2>1, <3>1 DEF TaskCancelled, Accounted
  <2>2. CASE task[w] = "get"
    <3>1. Awaiting' = Awaiting
      BY <1>1, <2>2 DEF Awaiting, PoolInv, PoolTypeOK
    <3>2. QED
      BY <1>1, <1>2, <2>2, <3>1 DEF TaskCancelled, PoolInv, PoolTypeOK, Accounted
  <2>3. QED
    BY <2>1, <2>2 DEF TaskCancelled
(* Either its job is withdrawn, or its thread goes on as it was.           *)
<1>4. /\ \A v \in Workers : Live(v)' => Live(v)
      /\ \A v \in Workers : v # w => (Live(v)' <=> Live(v))
      /\ thread' \in [Workers -> Threads]
      /\ \/ stranded' = stranded
         \/ /\ stranded' = stranded \cup {item[w]}
            /\ Live(w) /\ ~Live(w)'
  BY DEF TaskCancelled, Live, PoolInv, PoolTypeOK, Threads
<1>5. Live(w) => item[w] \in Open /\ \A v \in Workers : v # w /\ Live(v) => item[v] # item[w]
  BY DEF PoolInv, Tended, OnePlace
<1>6. PoolTypeOK'
  BY <1>1, <1>2, <1>3, <1>4, <1>5 DEF PoolInv, PoolTypeOK, Tasks
<1>7. ThreadsOwned'
  BY <1>1, <1>2, <1>4 DEF PoolInv, PoolTypeOK, ThreadsOwned
<1>8. Tended'
  BY <1>1, <1>2, <1>4, <1>5 DEF PoolInv, Tended
<1>9. OnePlace'
  BY <1>2, <1>4 DEF PoolInv, OnePlace
<1>10. QED
  BY <1>3, <1>6, <1>7, <1>8, <1>9 DEF PoolInv

(* The steps of stop() that only say how far it is.                        *)
LEMMA StoppingKeeps ==
  ASSUME PoolInv, Stop \/ Drained \/ Gathered \/ Joined PROVE PoolInv'
<1>1. UNCHANGED <<queue, unfinished, task, item, thread, row, stranded>>
  BY DEF Stop, Drained, Gathered, Joined
<1>2. /\ phase' \in Phases \ {"boot"}
      /\ phase' = "drain" => phase = "up"
      /\ phase' = "cancel" => phase = "drain"
      /\ phase' # "up"
      /\ phase' = "down" => \A w \in Workers : ~Live(w)
  BY DEF Stop, Drained, Gathered, Joined, Phases, Live
<1>3. /\ \A v \in Workers : Live(v)' <=> Live(v)
      /\ Queued' = Queued /\ Open' = Open /\ Worked' = Worked /\ Awaiting' = Awaiting
  BY <1>1 DEF Live, Queued, Open, Worked, Awaiting
<1>4. PoolTypeOK'
  BY <1>1, <1>2, <1>3 DEF PoolInv, PoolTypeOK
<1>5. ThreadsOwned'
  BY <1>1, <1>2, <1>3 DEF PoolInv, ThreadsOwned
<1>6. Tended'
  BY <1>1, <1>2, <1>3 DEF PoolInv, Tended
<1>7. Accounted' /\ OnePlace'
  BY <1>1, <1>2, <1>3 DEF PoolInv, Accounted, OnePlace
<1>8. QED
  BY <1>4, <1>5, <1>6, <1>7 DEF PoolInv

LEMMA DrainTimeoutKeeps == ASSUME PoolInv, DrainTimeout PROVE PoolInv'
<1>1. /\ phase = "drain" /\ phase' = "cancel"
      /\ UNCHANGED <<queue, unfinished, task, item, thread, row>>
      /\ stranded' = stranded \cup Queued
  BY DEF DrainTimeout, Queued
<1>2. /\ \A v \in Workers : Live(v)' <=> Live(v)
      /\ Queued' = Queued /\ Open' = Open /\ Worked' = Worked /\ Awaiting' = Awaiting
  BY <1>1 DEF Live, Queued, Open, Worked, Awaiting
<1>3. PoolTypeOK'
  BY <1>1, <1>2 DEF PoolInv, PoolTypeOK, Phases, Tended
<1>4. ThreadsOwned'
  BY <1>1, <1>2 DEF PoolInv, ThreadsOwned
<1>5. Tended'
  BY <1>1, <1>2 DEF PoolInv, Tended, OnePlace
<1>6. Accounted' /\ OnePlace'
  BY <1>1, <1>2 DEF PoolInv, Accounted, OnePlace
<1>7. QED
  BY <1>3, <1>4, <1>5, <1>6 DEF PoolInv

LEMMA KillKeeps == ASSUME PoolInv, Kill PROVE PoolInv'
<1>1. Open' = Open /\ Queued' = {} /\ \A w \in Workers : ~Live(w)'
  BY DEF Kill, Open, Queued, Live
<1>2. PoolTypeOK'
  BY <1>1, PoolAssumption DEF Kill, PoolInv, PoolTypeOK, Phases, Tasks, Threads
<1>3. ThreadsOwned'
  BY <1>1 DEF Kill, ThreadsOwned
<1>4. Tended' /\ Accounted' /\ OnePlace'
  BY <1>1 DEF Kill, Tended, Accounted, OnePlace
<1>5. QED
  BY <1>2, <1>3, <1>4 DEF PoolInv

LEMMA PoolStutterKeeps == ASSUME PoolInv, UNCHANGED poolVars PROVE PoolInv'
<1>1. /\ \A v \in Workers : Live(v)' <=> Live(v)
      /\ Queued' = Queued /\ Open' = Open /\ Worked' = Worked /\ Awaiting' = Awaiting
  BY DEF poolVars, Live, Queued, Open, Worked, Awaiting
<1>2. PoolTypeOK'
  BY <1>1 DEF poolVars, PoolInv, PoolTypeOK
<1>3. ThreadsOwned' /\ Tended' /\ Accounted' /\ OnePlace'
  BY <1>1 DEF poolVars, PoolInv, ThreadsOwned, Tended, Accounted, OnePlace
<1>4. QED
  BY <1>2, <1>3 DEF PoolInv

-----------------------------------------------------------------------------
(* The pool keeps its books right in every state.                          *)
THEOREM PoolAlwaysRight == PoolSpec => []PoolInv
<1>1. PoolInit => PoolInv
  BY PoolInitInv
<1>2. PoolInv /\ [PoolNext]_poolVars => PoolInv'
  <2> SUFFICES ASSUME PoolInv, [PoolNext]_poolVars PROVE PoolInv'
    OBVIOUS
  <2>1. CASE Start \/ Recover \/ DrainTimeout \/ Kill
    BY <2>1, StartKeeps, RecoverKeeps, DrainTimeoutKeeps, KillKeeps
  <2>2. ASSUME NEW i \in Incidents, Enqueue(i) PROVE PoolInv'
    BY <2>2, EnqueueKeeps
  <2>3. ASSUME NEW w \in Workers, WorkerStep(w) PROVE PoolInv'
    BY <2>3, TakeKeeps, ThreadBeginsKeeps, ThreadReturnsKeeps, ThreadRaisesKeeps,
       TaskDoneKeeps, TaskCancelledKeeps DEF WorkerStep
  <2>4. CASE Stop \/ Drained \/ Gathered \/ Joined
    BY <2>4, StoppingKeeps
  <2>5. CASE UNCHANGED poolVars
    BY <2>5, PoolStutterKeeps
  <2>6. QED
    BY <2>1, <2>2, <2>3, <2>4, <2>5 DEF PoolNext
<1>3. QED
  BY <1>1, <1>2, PTL DEF PoolSpec

(* Every variable of the pool keeps its type, and the queue its bound.     *)
THEOREM PoolTypeCorrect == PoolSpec => []PoolTypeOK
<1>1. PoolInv => PoolTypeOK
  BY DEF PoolInv
<1>2. QED
  BY <1>1, PoolAlwaysRight, PTL

(* An incident is investigated by one thread at a time, across timeouts of *)
(* stop(), restarts and recovery, for any number of workers.               *)
THEOREM OneThreadEach == PoolSpec => []OnePlace
<1>1. PoolInv => OnePlace
  BY DEF PoolInv
<1>2. QED
  BY <1>1, PoolAlwaysRight, PTL

(* When join() lets stop() go on, nothing is queued, no thread works, and  *)
(* every open incident is one a failed run or a full queue left behind.    *)
THEOREM JoinMeansDone == PoolSpec => []DrainedIsDone
<1>1. PoolInv => DrainedIsDone
  <2> SUFFICES ASSUME PoolInv, phase \in {"up", "drain"}, unfinished = 0
               PROVE  queue = <<>> /\ (\A w \in Workers : ~Live(w)) /\ Open = stranded
    BY DEF DrainedIsDone
  <2>1. Len(queue) = 0 /\ Cardinality(Awaiting) = 0
    BY AwaitingFinite DEF PoolInv, PoolTypeOK, Accounted
  <2>2. queue = <<>>
    BY <2>1 DEF PoolInv, PoolTypeOK
  <2>3. Awaiting = {}
    BY <2>1, AwaitingFinite, FS_EmptySet
  <2>4. \A w \in Workers : ~Live(w)
    BY <2>3 DEF Awaiting, PoolInv, ThreadsOwned
  <2>5. Queued = {} /\ Worked = {}
    BY <2>2, <2>4 DEF Queued, Worked
  <2>6. QED
    BY <2>2, <2>4, <2>5 DEF PoolInv, PoolTypeOK, Tended
<1>2. QED
  BY <1>1, PoolAlwaysRight, PTL

(* No store write outlives stop(), whether the queue drained or not.       *)
THEOREM StopIsQuiet == PoolSpec => NoWriteOutlivesStop
<1>1. PoolInv /\ [PoolNext]_poolVars => [phase = "down" => row' = row]_poolVars
  <2> SUFFICES ASSUME PoolInv, PoolNext, phase = "down" PROVE row' = row
    BY DEF poolVars
  <2>1. \A w \in Workers : ~ThreadReturns(w)
    BY DEF ThreadReturns, Live, PoolInv, ThreadsOwned
  <2>2. \A i \in Incidents : ~Enqueue(i)
    BY DEF Enqueue
  <2>3. QED
    BY <2>1, <2>2 DEF PoolNext, WorkerStep, Start, Recover, Take, ThreadBegins, ThreadRaises,
       TaskDone, TaskCancelled, Stop, Drained, DrainTimeout, Gathered, Joined, Kill
<1>2. QED
  BY <1>1, PoolAlwaysRight, PTL DEF PoolSpec, NoWriteOutlivesStop
=============================================================================
