---------------------------- MODULE IncidentLock ----------------------------
(***************************************************************************)
(* _incident_lock of create_app (service/app.py): an asyncio.Lock for each *)
(* incident, made by the first request that comes for it and removed by    *)
(* the last one that leaves.  Delivery, review and verify-resolution all   *)
(* run under it.                                                           *)
(*                                                                         *)
(* A request is an asyncio task: what it does between two awaits is one    *)
(* step.  It only awaits inside `async with lock` (waiting for its turn)   *)
(* and in its body.  A lock object lives as long as somebody refers to it; *)
(* a new one is any object nobody refers to, as the identity of a          *)
(* collected object may be used again.                                     *)
(***************************************************************************)
EXTENDS Naturals, Sequences, FiniteSets, SequencesExt

CONSTANTS
  Incidents,         \* idempotency keys
  Requests,          \* the tasks that serve requests
  Locks,             \* asyncio.Lock objects
  NoIncident,        \* what a request that serves nothing works on
  NoLock             \* an entry that is not in id_locks

ASSUME LockAssumption ==
  /\ NoIncident \notin Incidents
  /\ NoLock \notin Locks
  /\ IsFiniteSet(Requests)

VARIABLES
  pc,                \* request -> "idle", "waiting" or "inside"
  target,            \* request -> the incident it came for
  lock,              \* request -> the lock object its `lock` variable names
  idLocks,           \* id_locks
  idLockRefs,        \* id_lock_refs; a missing entry is 0
  locked,            \* asyncio.Lock._locked
  waiters            \* asyncio.Lock._waiters

registry == <<idLocks, idLockRefs>>
lockVars == <<pc, target, lock, idLocks, idLockRefs, locked, waiters>>

LockTypeOK ==
  /\ pc \in [Requests -> {"idle", "waiting", "inside"}]
  /\ target \in [Requests -> Incidents \cup {NoIncident}]
  /\ lock \in [Requests -> Locks \cup {NoLock}]
  /\ idLocks \in [Incidents -> Locks \cup {NoLock}]
  /\ idLockRefs \in [Incidents -> Nat]
  /\ locked \in [Locks -> BOOLEAN]
  /\ waiters \in [Locks -> Seq(Requests)]

LockInit ==
  /\ pc = [t \in Requests |-> "idle"]
  /\ target = [t \in Requests |-> NoIncident]
  /\ lock = [t \in Requests |-> NoLock]
  /\ idLocks = [i \in Incidents |-> NoLock]
  /\ idLockRefs = [i \in Incidents |-> 0]
  /\ locked = [l \in Locks |-> FALSE]
  /\ waiters = [l \in Locks |-> <<>>]

-----------------------------------------------------------------------------
(* The objects the table or a request refers to.                           *)
Referenced == {idLocks[i] : i \in Incidents} \cup {lock[t] : t \in Requests}

(* id_locks.get(incident_id), or a new lock if there is none.              *)
LockFor(i, l) ==
  IF idLocks[i] = NoLock THEN l \in Locks \ Referenced ELSE l = idLocks[i]

(* The request takes a reference and the lock, without awaiting, if nobody *)
(* holds it or waits for it; a new lock is open and has no waiters.        *)
EnterAtOnce(t, i, l) ==
  /\ idLocks[i] # NoLock => ~locked[l] /\ waiters[l] = <<>>
  /\ pc' = [pc EXCEPT ![t] = "inside"]
  /\ locked' = [locked EXCEPT ![l] = TRUE]
  /\ waiters' = [waiters EXCEPT ![l] = <<>>]

(* Otherwise it awaits its turn at the end of the line.                    *)
StandInLine(t, i, l) ==
  /\ idLocks[i] # NoLock /\ (locked[l] \/ waiters[l] # <<>>)
  /\ pc' = [pc EXCEPT ![t] = "waiting"]
  /\ waiters' = [waiters EXCEPT ![l] = Append(@, t)]
  /\ UNCHANGED locked

Enter(t, i) ==
  /\ pc[t] = "idle"
  /\ \E l \in Locks :
       /\ LockFor(i, l)
       /\ lock' = [lock EXCEPT ![t] = l]
       /\ target' = [target EXCEPT ![t] = i]
       /\ idLocks' = [idLocks EXCEPT ![i] = l]
       /\ idLockRefs' = [idLockRefs EXCEPT ![i] = @ + 1]
       /\ EnterAtOnce(t, i, l) \/ StandInLine(t, i, l)

(* The lock was released and woke the first in line.                       *)
TakeTurn(t) ==
  /\ pc[t] = "waiting"
  /\ ~locked[lock[t]]
  /\ waiters[lock[t]] # <<>> /\ Head(waiters[lock[t]]) = t
  /\ pc' = [pc EXCEPT ![t] = "inside"]
  /\ locked' = [locked EXCEPT ![lock[t]] = TRUE]
  /\ waiters' = [waiters EXCEPT ![lock[t]] = Tail(@)]
  /\ UNCHANGED <<target, lock, registry>>

(* Slip: the entry goes with whoever leaves first.                         *)
GiveBackAlwaysPops(i) ==
  /\ idLockRefs' = [idLockRefs EXCEPT ![i] = @ - 1]
  /\ idLocks' = [idLocks EXCEPT ![i] = NoLock]

(* The `finally`: give the reference back, and remove the lock with the    *)
(* last one.                                                               *)
GiveBack(i) ==
  /\ idLockRefs' = [idLockRefs EXCEPT ![i] = @ - 1]
  /\ idLocks' = IF idLockRefs[i] = 1 THEN [idLocks EXCEPT ![i] = NoLock] ELSE idLocks

Depart(t) ==
  /\ pc' = [pc EXCEPT ![t] = "idle"]
  /\ target' = [target EXCEPT ![t] = NoIncident]
  /\ lock' = [lock EXCEPT ![t] = NoLock]

(* Slip: the reference is given back twice.                                *)
LeaveGivesBackTwice(t) ==
  /\ pc[t] = "inside"
  /\ locked' = [locked EXCEPT ![lock[t]] = FALSE]
  /\ idLockRefs' = [idLockRefs EXCEPT ![target[t]] = @ - 2]
  /\ idLocks' = IF idLockRefs[target[t]] = 1 THEN [idLocks EXCEPT ![target[t]] = NoLock]
                ELSE idLocks
  /\ Depart(t)
  /\ UNCHANGED waiters

(* The body returned or raised: asyncio.Lock.release, then the `finally`.  *)
Leave(t) ==
  /\ pc[t] = "inside"
  /\ locked' = [locked EXCEPT ![lock[t]] = FALSE]
  /\ GiveBack(target[t])
  /\ Depart(t)
  /\ UNCHANGED waiters

(* Slip: a cancelled request stays in the line.                            *)
GiveUpKeepsPlace(t) ==
  /\ pc[t] = "waiting"
  /\ GiveBack(target[t])
  /\ Depart(t)
  /\ UNCHANGED <<locked, waiters>>

(* Slip: no `finally` around the wait.                                     *)
GiveUpKeepsReference(t) ==
  /\ pc[t] = "waiting"
  /\ \E k \in DOMAIN waiters[lock[t]] :
       /\ waiters[lock[t]][k] = t
       /\ waiters' = [waiters EXCEPT ![lock[t]] = RemoveAt(@, k)]
  /\ Depart(t)
  /\ UNCHANGED <<registry, locked>>

(* The task is cancelled while it waits: it steps out of the line, and the *)
(* next in line gets its turn.                                             *)
GiveUp(t) ==
  /\ pc[t] = "waiting"
  /\ \E k \in DOMAIN waiters[lock[t]] :
       /\ waiters[lock[t]][k] = t
       /\ waiters' = [waiters EXCEPT ![lock[t]] = RemoveAt(@, k)]
  /\ GiveBack(target[t])
  /\ Depart(t)
  /\ UNCHANGED locked

LockNext ==
  \E t \in Requests :
    \/ \E i \in Incidents : Enter(t, i)
    \/ TakeTurn(t)
    \/ Leave(t)
    \/ GiveUp(t)

LockSpec == LockInit /\ [][LockNext]_lockVars

(* A task that can run is scheduled, and the body of a request ends: it is *)
(* a thread that does a bounded number of store and provider calls, each   *)
(* with a timeout.  Nobody has to come, and nobody has to be cancelled.    *)
LockFairSpec ==
  LockSpec /\ \A t \in Requests : WF_lockVars(TakeTurn(t)) /\ WF_lockVars(Leave(t))

-----------------------------------------------------------------------------
Users(i) == {t \in Requests : pc[t] # "idle" /\ target[t] = i}

(* Requests for one incident never run their bodies together, although the *)
(* lock they wait on is made and removed while they come and go.           *)
OneInside ==
  \A t, u \in Requests :
    pc[t] = "inside" /\ pc[u] = "inside" /\ target[t] = target[u] => t = u

(* "Ref-counted so entries never leak": the count is the number of         *)
(* requests that hold or await the lock, whichever way the others went,    *)
(* the table has an entry exactly while there are any, and it is the very  *)
(* object all of them use.                                                 *)
RefsCounted ==
  \A i \in Incidents :
    /\ idLockRefs[i] = Cardinality(Users(i))
    /\ idLocks[i] = NoLock <=> Users(i) = {}
    /\ \A t \in Users(i) : lock[t] = idLocks[i]

(* A delivery that waits behind others for its incident gets its turn or   *)
(* is cancelled, although later requests keep coming.                      *)
WaitersServed ==
  \A t \in Requests : pc[t] = "waiting" ~> pc[t] # "waiting"

(* The lock table is the mutual exclusion the handlers rely on.            *)
Mutex == INSTANCE IncidentMutex WITH
           inside <- {t \in Requests : pc[t] = "inside"}

ImplementsMutex == Mutex!MutexSpec
=============================================================================
