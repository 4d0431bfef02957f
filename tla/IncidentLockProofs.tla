------------------------- MODULE IncidentLockProofs -------------------------
(***************************************************************************)
(* Proofs about IncidentLock for any number of incidents and lock objects  *)
(* and any finite number of requests.                                      *)
(***************************************************************************)
EXTENDS IncidentLock, FiniteSetTheorems, SequenceTheorems, TLAPS

(* Whoever came for an incident refers to the object the table has for it; *)
(* nobody else refers to any.                                              *)
Bound ==
  \A t \in Requests :
    IF pc[t] = "idle"
      THEN target[t] = NoIncident /\ lock[t] = NoLock
      ELSE /\ target[t] \in Incidents
           /\ lock[t] \in Locks
           /\ lock[t] = idLocks[target[t]]

(* No object serves two incidents.                                         *)
NotShared ==
  \A i, j \in Incidents : idLocks[i] = idLocks[j] /\ idLocks[i] # NoLock => i = j

(* The references are counted, and an entry stays while there are any.     *)
Counted ==
  \A i \in Incidents :
    /\ idLockRefs[i] = Cardinality(Users(i))
    /\ idLocks[i] = NoLock <=> idLockRefs[i] = 0

(* Whoever is inside has closed its lock.                                  *)
InsideIsLocked == \A t \in Requests : pc[t] = "inside" => locked[lock[t]]

TableInv == LockTypeOK /\ Bound /\ NotShared /\ Counted /\ InsideIsLocked /\ OneInside

-----------------------------------------------------------------------------
(* The users of an incident are finitely many.                             *)
LEMMA UsersFinite ==
  ASSUME NEW i PROVE IsFiniteSet(Users(i)) /\ Cardinality(Users(i)) \in Nat
<1>1. Users(i) \in SUBSET Requests
  BY DEF Users
<1>2. IsFiniteSet(Users(i))
  BY <1>1, LockAssumption, FS_Subset
<1>3. QED
  BY <1>2, FS_CardinalityType

(* An incident without an entry has no users.                              *)
LEMMA NoEntryNoUsers ==
  ASSUME TableInv, NEW i \in Incidents
  PROVE  idLocks[i] = NoLock <=> Users(i) = {}
BY UsersFinite, FS_EmptySet DEF TableInv, Counted

(* The step into the line or the critical section adds one user.           *)
LEMMA EnterCounts ==
  ASSUME TableInv, NEW t \in Requests, NEW i \in Incidents, Enter(t, i)
  PROVE  Counted' /\ idLockRefs' \in [Incidents -> Nat]
<1>1. PICK l \in Locks :
        /\ idLocks' = [idLocks EXCEPT ![i] = l]
        /\ idLockRefs' = [idLockRefs EXCEPT ![i] = @ + 1]
        /\ target' = [target EXCEPT ![t] = i]
        /\ pc[t] = "idle" /\ pc'[t] # "idle"
        /\ \A u \in Requests : u # t => pc'[u] = pc[u]
  BY DEF Enter, EnterAtOnce, StandInLine, TableInv, LockTypeOK
<1>2. Users(i)' = Users(i) \cup {t} /\ t \notin Users(i)
  BY <1>1 DEF Users, TableInv, LockTypeOK
<1>3. \A j \in Incidents : j # i => Users(j)' = Users(j)
  BY <1>1, LockAssumption DEF Users, TableInv, LockTypeOK, Bound
<1>4. Cardinality(Users(i)') = Cardinality(Users(i)) + 1
  BY <1>2, UsersFinite, FS_AddElement
<1>5. l # NoLock
  BY LockAssumption
<1>6. QED
  BY <1>1, <1>3, <1>4, <1>5, UsersFinite DEF Counted, TableInv, LockTypeOK

(* A request that leaves or gives up takes one user away.                  *)
LEMMA GiveBackCounts ==
  ASSUME TableInv, NEW t \in Requests, pc[t] # "idle", GiveBack(target[t]), Depart(t)
  PROVE  Counted' /\ idLockRefs' \in [Incidents -> Nat]
<1>0. PICK i \in Incidents : i = target[t]
  BY DEF TableInv, Bound
<1>1. t \in Users(i)
  BY <1>0 DEF Users
<1>2. Users(i)' = Users(i) \ {t}
  BY <1>0, <1>1, LockAssumption DEF Users, Depart, TableInv, LockTypeOK
<1>3. \A j \in Incidents : j # i => Users(j)' = Users(j)
  BY <1>0, <1>1, LockAssumption DEF Users, Depart, TableInv, LockTypeOK
<1>4. Cardinality(Users(i)') = Cardinality(Users(i)) - 1
  BY <1>1, <1>2, UsersFinite, FS_RemoveElement
<1>5. idLockRefs[i] # 0 /\ idLockRefs[i] = Cardinality(Users(i))
  BY <1>1, UsersFinite, FS_EmptySet DEF TableInv, Counted
<1>6. idLockRefs' = [idLockRefs EXCEPT ![i] = @ - 1] /\ idLockRefs[i] - 1 \in Nat
  BY <1>0, <1>1, <1>5 DEF GiveBack, TableInv, LockTypeOK
<1>7. idLocks[i] # NoLock
  BY <1>0, <1>1, <1>5 DEF TableInv, Counted
<1>8. \A j \in Incidents : idLocks'[j] = NoLock <=> idLockRefs'[j] = 0
  BY <1>0, <1>5, <1>6, <1>7 DEF GiveBack, TableInv, LockTypeOK, Counted
<1>9. QED
  BY <1>0, <1>3, <1>4, <1>5, <1>6, <1>8 DEF Counted, TableInv, LockTypeOK

(* A request that stays does not depend on those that go: while it is      *)
(* there the entry stays.                                                  *)
LEMMA EntryStays ==
  ASSUME TableInv, NEW t \in Requests, pc[t] # "idle", GiveBack(target[t]),
         NEW u \in Requests, u # t, pc[u] # "idle"
  PROVE  idLocks'[target[u]] = idLocks[target[u]]
<1>1. target[t] \in Incidents /\ target[u] \in Incidents
  BY DEF TableInv, Bound
<1>2. CASE target[u] # target[t]
  BY <1>1, <1>2 DEF GiveBack, TableInv, LockTypeOK
<1>3. CASE target[u] = target[t]
  <2> DEFINE S == Users(target[t])
  <2>1. {t, u} \in SUBSET S
    BY <1>3 DEF Users
  <2>2. Cardinality(S) # 1
    BY <2>1, UsersFinite, FS_Singleton
  <2>3. idLockRefs[target[t]] # 1
    BY <1>1, <2>2 DEF TableInv, Counted
  <2>4. QED
    BY <2>3 DEF GiveBack
<1>4. QED
  BY <1>2, <1>3

-----------------------------------------------------------------------------
LEMMA TableInit == LockInit => TableInv
<1> SUFFICES ASSUME LockInit PROVE TableInv
  OBVIOUS
<1>1. \A i : Users(i) = {}
  BY DEF LockInit, Users
<1>2. Counted
  BY <1>1, FS_EmptySet DEF LockInit, Counted
<1>3. QED
  BY <1>2 DEF LockInit, TableInv, LockTypeOK, Bound, NotShared, InsideIsLocked, OneInside

LEMMA EnterKeeps ==
  ASSUME TableInv, NEW t \in Requests, NEW i \in Incidents, Enter(t, i)
  PROVE  TableInv'
<1>1. PICK l \in Locks :
        /\ LockFor(i, l)
        /\ lock' = [lock EXCEPT ![t] = l]
        /\ target' = [target EXCEPT ![t] = i]
        /\ idLocks' = [idLocks EXCEPT ![i] = l]
        /\ EnterAtOnce(t, i, l) \/ StandInLine(t, i, l)
  BY DEF Enter
<1>2. Counted' /\ idLockRefs' \in [Incidents -> Nat]
  BY EnterCounts
<1>3. l # NoLock /\ (idLocks[i] # NoLock => l = idLocks[i])
  BY <1>1, LockAssumption DEF LockFor
(* A new object is nobody's.                                               *)
<1>4. idLocks[i] = NoLock =>
        /\ \A j \in Incidents : idLocks[j] # l
        /\ \A u \in Requests : lock[u] # l /\ (pc[u] # "idle" => target[u] # i)
  <2>1. ASSUME idLocks[i] = NoLock, NEW u \in Requests, pc[u] # "idle" PROVE target[u] # i
    BY <2>1, LockAssumption DEF TableInv, Bound
  <2>2. QED
    BY <1>1, <2>1 DEF LockFor, Referenced
<1>5. LockTypeOK'
  <2>1. waiters' \in [Locks -> Seq(Requests)]
    <3>1. CASE EnterAtOnce(t, i, l)
      BY <3>1 DEF EnterAtOnce, TableInv, LockTypeOK
    <3>2. CASE StandInLine(t, i, l)
      <4>1. Append(waiters[l], t) \in Seq(Requests)
        BY DEF TableInv, LockTypeOK
      <4>2. QED
        BY <3>2, <4>1 DEF StandInLine, TableInv, LockTypeOK
    <3>3. QED
      BY <1>1, <3>1, <3>2
  <2>2. QED
    BY <1>1, <1>2, <2>1 DEF EnterAtOnce, StandInLine, TableInv, LockTypeOK
<1>6. Bound'
  <2> SUFFICES ASSUME NEW u \in Requests
               PROVE  IF pc'[u] = "idle"
                        THEN target'[u] = NoIncident /\ lock'[u] = NoLock
                        ELSE /\ target'[u] \in Incidents
                             /\ lock'[u] \in Locks
                             /\ lock'[u] = idLocks'[target'[u]]
    BY DEF Bound
  <2>1. CASE u = t
    BY <1>1, <2>1 DEF EnterAtOnce, StandInLine, TableInv, LockTypeOK
  <2>2. CASE u # t
    <3>1. pc'[u] = pc[u] /\ target'[u] = target[u] /\ lock'[u] = lock[u]
      BY <1>1, <2>2 DEF EnterAtOnce, StandInLine, TableInv, LockTypeOK
    <3>2. pc[u] # "idle" => idLocks'[target[u]] = idLocks[target[u]]
      BY <1>1, <1>3, <1>4 DEF TableInv, LockTypeOK, Bound
    <3>3. QED
      BY <3>1, <3>2 DEF TableInv, Bound
  <2>3. QED
    BY <2>1, <2>2
<1>7. NotShared'
  BY <1>1, <1>3, <1>4 DEF NotShared, TableInv, LockTypeOK
<1>8. InsideIsLocked' /\ OneInside'
  <2>1. CASE EnterAtOnce(t, i, l)
    <3>1. \A u \in Requests : pc[u] = "inside" => lock[u] # l /\ target[u] # i
      BY <1>1, <1>3, <1>4, <2>1 DEF EnterAtOnce, TableInv, InsideIsLocked, Bound
    <3>2. QED
      BY <1>1, <2>1, <3>1 DEF EnterAtOnce, InsideIsLocked, OneInside, TableInv, LockTypeOK, Bound
  <2>2. CASE StandInLine(t, i, l)
    BY <1>1, <2>2 DEF StandInLine, InsideIsLocked, OneInside, TableInv, LockTypeOK
  <2>3. QED
    BY <1>1, <2>1, <2>2
<1>9. QED
  BY <1>2, <1>5, <1>6, <1>7, <1>8 DEF TableInv

LEMMA TakeTurnKeeps ==
  ASSUME TableInv, NEW t \in Requests, TakeTurn(t)
  PROVE  TableInv'
<1>1. lock[t] \in Locks /\ pc[t] = "waiting" /\ ~locked[lock[t]]
  BY DEF TakeTurn, TableInv, Bound
<1>2. \A i \in Incidents : Users(i)' = Users(i)
  BY <1>1 DEF TakeTurn, Users, TableInv, LockTypeOK
<1>3. LockTypeOK'
  <2>1. Tail(waiters[lock[t]]) \in Seq(Requests)
    BY <1>1 DEF TakeTurn, TableInv, LockTypeOK
  <2>2. QED
    BY <1>1, <2>1 DEF TakeTurn, registry, TableInv, LockTypeOK
<1>4. Bound' /\ NotShared'
  BY <1>1 DEF TakeTurn, registry, Bound, NotShared, TableInv, LockTypeOK
<1>5. Counted'
  BY <1>2 DEF TakeTurn, registry, Counted, TableInv
(* An open lock: nobody who refers to it, so nobody for its incident, is   *)
(* inside.                                                                 *)
<1>6. \A u \in Requests : pc[u] = "inside" => lock[u] # lock[t] /\ target[u] # target[t]
  BY <1>1 DEF TableInv, InsideIsLocked, Bound
<1>7. InsideIsLocked' /\ OneInside'
  BY <1>1, <1>6 DEF TakeTurn, registry, InsideIsLocked, OneInside, TableInv, LockTypeOK
<1>8. QED
  BY <1>3, <1>4, <1>5, <1>7 DEF TableInv

(* What leaving and giving up have in common: the one who goes leaves the  *)
(* table as everybody else needs it.                                       *)
LEMMA DepartKeeps ==
  ASSUME TableInv, NEW t \in Requests, pc[t] # "idle", GiveBack(target[t]), Depart(t)
  PROVE  Bound' /\ NotShared' /\ Counted' /\ OneInside'
<1>1. Counted'
  BY GiveBackCounts
<1>2. Bound'
  <2> SUFFICES ASSUME NEW u \in Requests
               PROVE  IF pc'[u] = "idle"
                        THEN target'[u] = NoIncident /\ lock'[u] = NoLock
                        ELSE /\ target'[u] \in Incidents
                             /\ lock'[u] \in Locks
                             /\ lock'[u] = idLocks'[target'[u]]
    BY DEF Bound
  <2>1. CASE u = t
    BY <2>1 DEF Depart, TableInv, LockTypeOK
  <2>2. CASE u # t
    <3>1. pc'[u] = pc[u] /\ target'[u] = target[u] /\ lock'[u] = lock[u]
      BY <2>2 DEF Depart, TableInv, LockTypeOK
    <3>2. pc[u] # "idle" => idLocks'[target[u]] = idLocks[target[u]]
      BY <2>2, EntryStays
    <3>3. QED
      BY <3>1, <3>2 DEF TableInv, Bound
  <2>3. QED
    BY <2>1, <2>2
<1>3. NotShared'
  BY DEF GiveBack, NotShared, TableInv, LockTypeOK
<1>4. OneInside'
  BY DEF Depart, OneInside, TableInv, LockTypeOK
<1>5. QED
  BY <1>1, <1>2, <1>3, <1>4

(* The types of what a departure writes.                                   *)
LEMMA DepartTyped ==
  ASSUME TableInv, NEW t \in Requests, pc[t] # "idle", GiveBack(target[t]), Depart(t)
  PROVE  /\ pc' \in [Requests -> {"idle", "waiting", "inside"}]
         /\ target' \in [Requests -> Incidents \cup {NoIncident}]
         /\ lock' \in [Requests -> Locks \cup {NoLock}]
         /\ idLocks' \in [Incidents -> Locks \cup {NoLock}]
         /\ idLockRefs' \in [Incidents -> Nat]
BY GiveBackCounts DEF Depart, GiveBack, TableInv, LockTypeOK

LEMMA LeaveKeeps ==
  ASSUME TableInv, NEW t \in Requests, Leave(t)
  PROVE  TableInv'
<1>1. pc[t] = "inside" /\ lock[t] \in Locks /\ GiveBack(target[t]) /\ Depart(t)
  BY DEF Leave, TableInv, Bound
<1>2. LockTypeOK'
  BY <1>1, DepartTyped DEF Leave, TableInv, LockTypeOK
<1>3. Bound' /\ NotShared' /\ Counted' /\ OneInside'
  BY <1>1, DepartKeeps
(* The lock it opens is nobody else's inside: two inside would be there    *)
(* for different incidents, and those have different locks.                *)
<1>4. InsideIsLocked'
  <2> SUFFICES ASSUME NEW u \in Requests, pc'[u] = "inside" PROVE locked'[lock'[u]]
    BY DEF InsideIsLocked
  <2>1. u # t /\ pc[u] = "inside" /\ lock'[u] = lock[u]
    BY <1>1 DEF Depart, TableInv, LockTypeOK
  <2>2. target[u] # target[t]
    BY <1>1, <2>1 DEF TableInv, OneInside
  <2>3. lock[u] # lock[t]
    BY <1>1, <2>1, <2>2, LockAssumption DEF TableInv, Bound, NotShared
  <2>4. QED
    BY <1>1, <2>1, <2>3 DEF Leave, TableInv, InsideIsLocked, LockTypeOK
<1>5. QED
  BY <1>2, <1>3, <1>4 DEF TableInv

(* The rest of a line without one of its places is a line.                 *)
LEMMA RemoveAtTyped ==
  ASSUME NEW S, NEW s \in Seq(S), NEW k \in DOMAIN s
  PROVE  RemoveAt(s, k) \in Seq(S)
<1>1. k \in 1..Len(s) /\ Len(s) \in Nat
  OBVIOUS
<1>2. SubSeq(s, 1, k - 1) \in Seq(S)
  BY <1>1, SubSeqProperties
<1>3. SubSeq(s, k + 1, Len(s)) \in Seq(S)
  BY <1>1, SubSeqProperties
<1>4. QED
  BY <1>2, <1>3, ConcatProperties DEF RemoveAt

LEMMA GiveUpKeeps ==
  ASSUME TableInv, NEW t \in Requests, GiveUp(t)
  PROVE  TableInv'
<1>1. pc[t] = "waiting" /\ lock[t] \in Locks /\ GiveBack(target[t]) /\ Depart(t)
  BY DEF GiveUp, TableInv, Bound
<1>2. waiters' \in [Locks -> Seq(Requests)]
  <2>1. PICK k \in DOMAIN waiters[lock[t]] :
          waiters' = [waiters EXCEPT ![lock[t]] = RemoveAt(@, k)]
    BY DEF GiveUp
  <2>2. RemoveAt(waiters[lock[t]], k) \in Seq(Requests)
    BY <1>1, RemoveAtTyped DEF TableInv, LockTypeOK
  <2>3. QED
    BY <1>1, <2>1, <2>2 DEF TableInv, LockTypeOK
<1>3. LockTypeOK'
  BY <1>1, <1>2, DepartTyped DEF GiveUp, TableInv, LockTypeOK
<1>4. Bound' /\ NotShared' /\ Counted' /\ OneInside'
  BY <1>1, DepartKeeps
<1>5. InsideIsLocked'
  BY <1>1 DEF GiveUp, Depart, InsideIsLocked, TableInv, LockTypeOK
<1>6. QED
  BY <1>3, <1>4, <1>5 DEF TableInv

LEMMA StutterKeeps == TableInv /\ UNCHANGED lockVars => TableInv'
<1> SUFFICES ASSUME TableInv, UNCHANGED lockVars PROVE TableInv'
  OBVIOUS
<1>1. LockTypeOK' /\ Bound' /\ NotShared'
  BY DEF lockVars, TableInv, LockTypeOK, Bound, NotShared
<1>2. \A i : Users(i)' = Users(i)
  BY DEF lockVars, Users
<1>3. Counted'
  BY <1>2 DEF lockVars, TableInv, Counted
<1>4. InsideIsLocked' /\ OneInside'
  BY DEF lockVars, TableInv, InsideIsLocked, OneInside
<1>5. QED
  BY <1>1, <1>3, <1>4 DEF TableInv

(* The table is right in every state, whatever requests come and go.       *)
THEOREM TableAlwaysRight == LockSpec => []TableInv
<1>1. LockInit => TableInv
  BY TableInit
<1>2. TableInv /\ [LockNext]_lockVars => TableInv'
  BY EnterKeeps, TakeTurnKeeps, LeaveKeeps, GiveUpKeeps, StutterKeeps DEF LockNext
<1>3. QED
  BY <1>1, <1>2, PTL DEF LockSpec

(* Every variable of the lock table keeps its type: a request names a lock *)
(* object or none, and the counts are natural numbers.                     *)
THEOREM LockTypeCorrect == LockSpec => []LockTypeOK
<1>1. TableInv => LockTypeOK
  BY DEF TableInv
<1>2. QED
  BY <1>1, TableAlwaysRight, PTL

(* Requests for one incident never run their bodies together, for any      *)
(* number of requests and incidents.                                       *)
THEOREM OneAtATime == LockSpec => []OneInside
<1>1. TableInv => OneInside
  BY DEF TableInv
<1>2. QED
  BY <1>1, TableAlwaysRight, PTL

(* The reference count of _incident_lock is exact and its entries neither  *)
(* leak nor go while somebody uses them.                                   *)
THEOREM RefsAreCounted == LockSpec => []RefsCounted
<1>1. TableInv => RefsCounted
  <2> SUFFICES ASSUME TableInv, NEW i \in Incidents
               PROVE  /\ idLockRefs[i] = Cardinality(Users(i))
                      /\ idLocks[i] = NoLock <=> Users(i) = {}
                      /\ \A t \in Users(i) : lock[t] = idLocks[i]
    BY DEF RefsCounted
  <2>1. idLocks[i] = NoLock <=> Users(i) = {}
    BY NoEntryNoUsers
  <2>2. QED
    BY <2>1 DEF TableInv, Counted, Bound, Users
<1>2. QED
  BY <1>1, TableAlwaysRight, PTL

-----------------------------------------------------------------------------
(* The refinement: every step of the lock table is a step of the mutual    *)
(* exclusion or invisible to it.                                           *)

Inside == {t \in Requests : pc[t] = "inside"}

(* Who may go in: nobody inside is there for the same incident.            *)
LEMMA OpenIsFree ==
  ASSUME TableInv, NEW i \in Incidents,
         idLocks[i] # NoLock => ~locked[idLocks[i]]
  PROVE  Mutex!Free(i)
<1> SUFFICES ASSUME NEW u \in Requests, pc[u] = "inside", target[u] = i PROVE FALSE
  BY DEF Mutex!Free
<1>1. lock[u] = idLocks[i] /\ lock[u] \in Locks /\ locked[lock[u]]
  BY DEF TableInv, Bound, InsideIsLocked
<1>2. QED
  BY <1>1, LockAssumption

LEMMA EnterIsCome ==
  ASSUME TableInv, NEW t \in Requests, NEW i \in Incidents, Enter(t, i)
  PROVE  Mutex!Come(t, i)
<1>1. PICK l \in Locks :
        /\ LockFor(i, l)
        /\ target' = [target EXCEPT ![t] = i]
        /\ EnterAtOnce(t, i, l) \/ StandInLine(t, i, l)
  BY DEF Enter
<1>2. pc[t] = "idle" /\ target[t] = NoIncident
  BY DEF Enter, TableInv, Bound
<1>3. CASE EnterAtOnce(t, i, l)
  <2>1. Mutex!Free(i)
    BY <1>1, <1>3, OpenIsFree DEF EnterAtOnce, LockFor
  <2>2. Inside' = Inside \cup {t}
    BY <1>3 DEF EnterAtOnce, Inside, TableInv, LockTypeOK
  <2>3. QED
    BY <1>1, <1>2, <2>1, <2>2 DEF Mutex!Come, Inside
<1>4. CASE StandInLine(t, i, l)
  <2>1. Inside' = Inside
    BY <1>2, <1>4 DEF StandInLine, Inside, TableInv, LockTypeOK
  <2>2. QED
    BY <1>1, <1>2, <2>1 DEF Mutex!Come, Inside
<1>5. QED
  BY <1>1, <1>3, <1>4

LEMMA TakeTurnIsGoIn ==
  ASSUME TableInv, NEW t \in Requests, TakeTurn(t)
  PROVE  Mutex!GoIn(t)
<1>1. pc[t] = "waiting" /\ target[t] \in Incidents /\ target' = target
  BY DEF TakeTurn, TableInv, Bound
<1>2. Mutex!Free(target[t])
  BY <1>1, OpenIsFree DEF TakeTurn, TableInv, Bound
<1>3. Inside' = Inside \cup {t} /\ t \notin Inside
  BY <1>1 DEF TakeTurn, Inside, TableInv, LockTypeOK
<1>4. QED
  BY <1>1, <1>2, <1>3, LockAssumption DEF Mutex!GoIn, Inside

LEMMA DepartIsGo ==
  ASSUME TableInv, NEW t \in Requests, pc[t] # "idle", Depart(t)
  PROVE  Mutex!Go(t)
<1>1. target[t] # NoIncident
  BY LockAssumption DEF TableInv, Bound
<1>2. Inside' = Inside \ {t}
  BY DEF Depart, Inside, TableInv, LockTypeOK
<1>3. QED
  BY <1>1, <1>2 DEF Depart, Mutex!Go, Inside

(* The reference-counted lock table implements mutual exclusion for each   *)
(* incident.                                                               *)
THEOREM LockImplementsMutex == LockSpec => ImplementsMutex
<1>1. LockInit => Mutex!MutexInit
  BY DEF LockInit, Mutex!MutexInit
<1>2. TableInv /\ [LockNext]_lockVars => [Mutex!MutexNext]_(Mutex!mutexVars)
  <2> SUFFICES ASSUME TableInv, [LockNext]_lockVars
               PROVE  [Mutex!MutexNext]_(Mutex!mutexVars)
    OBVIOUS
  <2>1. ASSUME NEW t \in Requests, NEW i \in Incidents, Enter(t, i)
        PROVE  Mutex!MutexNext
    BY <2>1, EnterIsCome DEF Mutex!MutexNext
  <2>2. ASSUME NEW t \in Requests, TakeTurn(t) PROVE Mutex!MutexNext
    BY <2>2, TakeTurnIsGoIn DEF Mutex!MutexNext
  <2>3. ASSUME NEW t \in Requests, Leave(t) \/ GiveUp(t) PROVE Mutex!MutexNext
    BY <2>3, DepartIsGo DEF Leave, GiveUp, Mutex!MutexNext
  <2>4. CASE UNCHANGED lockVars
    BY <2>4 DEF lockVars, Mutex!mutexVars
  <2>5. QED
    BY <2>1, <2>2, <2>3, <2>4 DEF LockNext
<1>3. QED
  BY <1>1, <1>2, TableAlwaysRight, PTL DEF LockSpec, ImplementsMutex, Mutex!MutexSpec
=============================================================================
