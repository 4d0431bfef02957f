SPECIFICATION LockFairSpec
CONSTANTS
  Incidents = {i1, i2}
  Requests = {t1, t2, t3, t4}
  Locks = {l1, l2, l3, l4, l5}
  NoIncident = NoIncident
  NoLock = NoLock
INVARIANTS
  LockTypeOK OneInside RefsCounted
PROPERTIES
  ImplementsMutex WaitersServed
