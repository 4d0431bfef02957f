SPECIFICATION Spec
CONSTANTS
  Incidents = {i1}
  Workers = {w1}
  Handlers = {h1}
  NoIncident = NoIncident
  QueueMax = 1
  VerifierPinned = TRUE
  MaxRuns = 1
  MaxFaults = 1
  MaxCrashes = 0
INVARIANT PostedOnce
