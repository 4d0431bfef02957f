SPECIFICATION Spec
CONSTANTS
  Incidents = {i1}
  Workers = {w1}
  Handlers = {h1, h2}
  NoIncident = NoIncident
  QueueMax = 1
  VerifierPinned = TRUE
  MaxRuns = 3
  MaxFaults = 1
  MaxCrashes = 1
SYMMETRY Interchangeable
INVARIANTS
  FailClosed AcceptedIsKept ClosedIsBacked
PROPERTIES
  NoReapUnderRun PublishesLatest DiagnosisSurvives ImplementsLifecycle
