SPECIFICATION Spec
CONSTANTS
  Incidents = {i1, i2}
  Workers = {w1}
  Handlers = {h1}
  NoIncident = NoIncident
  QueueMax = 1
  VerifierPinned = TRUE
  MaxRuns = 1
  MaxFaults = 0
  MaxCrashes = 1
INVARIANT CleanRetry
