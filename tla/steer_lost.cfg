SPECIFICATION Spec
CONSTANTS
  Incidents = {i1}
  Workers = {w1}
  Handlers = {h1}
  NoIncident = NoIncident
  QueueMax = 1
  VerifierPinned = TRUE
  MaxRuns = 3
  MaxFaults = 0
  MaxCrashes = 1
PROPERTY ReconcilesFinishedRun
