SPECIFICATION Spec
CONSTANTS
  Routes <- MCRoutes
  Failing <- MCFailing
  NoRoute = NoRoute
  NoTime = NoTime
  Lag = 1
  Latency = 1
  Sinces <- MCSinces
  MaxTime = 2
  MaxRuns = 1
  MaxServed = 1
  MaxLines = 3
INVARIANTS
  RecoveredIsHealed
  FixIsObserved
