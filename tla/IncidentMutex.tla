--------------------------- MODULE IncidentMutex ---------------------------
(***************************************************************************)
(* What the per-incident lock of the ingress promises: requests for one    *)
(* incident go one at a time, requests for different incidents do not      *)
(* disturb each other, and a request that waits may be cancelled.  How the *)
(* locks come and go is invisible here; IncidentLock implements it.        *)
(***************************************************************************)

CONSTANTS
  Incidents,         \* idempotency keys
  Requests,          \* the tasks that serve requests
  NoIncident         \* what a request that serves nothing works on

VARIABLES
  target,            \* the incident a request works on or waits for
  inside             \* the requests whose critical section runs

mutexVars == <<target, inside>>

MutexInit ==
  /\ target = [t \in Requests |-> NoIncident]
  /\ inside = {}

Free(i) == \A t \in inside : target[t] # i

(* A request comes for an incident, and goes straight in if it may.        *)
Come(t, i) ==
  /\ target[t] = NoIncident
  /\ target' = [target EXCEPT ![t] = i]
  /\ \/ inside' = inside
     \/ Free(i) /\ inside' = inside \cup {t}

GoIn(t) ==
  /\ target[t] # NoIncident /\ t \notin inside
  /\ Free(target[t])
  /\ inside' = inside \cup {t}
  /\ UNCHANGED target

(* It goes after its critical section, or gives up before it.              *)
Go(t) ==
  /\ target[t] # NoIncident
  /\ target' = [target EXCEPT ![t] = NoIncident]
  /\ inside' = inside \ {t}

MutexNext ==
  \E t \in Requests :
    \/ \E i \in Incidents : Come(t, i)
    \/ GoIn(t)
    \/ Go(t)

MutexSpec == MutexInit /\ [][MutexNext]_mutexVars
=============================================================================
