SPECIFICATION Spec
CONSTANTS
  Incidents = {i1, i2}
  Workers = {w1}
  Handlers = {h1, h2}
  NoIncident = NoIncident
  QueueMax = 1
  VerifierPinned = TRUE
  MaxRuns = 2
  MaxFaults = 0
  MaxCrashes = 0
SYMMETRY Interchangeable
INVARIANTS
  TypeOK AbsentIsClean ReviewIsComplete SnapshotWhileOpen
  PostedOnce RejectedPostsNothing CleanRetry
