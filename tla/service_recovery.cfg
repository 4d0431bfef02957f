SPECIFICATION Spec
CONSTANTS
  Incidents = {i1, i2}
  Workers = {w1}
  Handlers = {h1}
  NoIncident = NoIncident
  QueueMax = 2
  VerifierPinned = FALSE
  MaxRuns = 2
  MaxFaults = 0
  MaxCrashes = 1
SYMMETRY Interchangeable
INVARIANTS
  Exclusive NoOrphan NoDuplicateRun
