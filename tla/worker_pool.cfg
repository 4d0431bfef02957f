SPECIFICATION PoolFairSpec
CONSTANTS
  Incidents = {i1, i2, i3, i4}
  Workers = {w1, w2}
  NoIncident = NoIncident
  QueueMax = 2
INVARIANTS
  PoolTypeOK OnePlace DrainedIsDone
PROPERTIES
  NoWriteOutlivesStop StopEnds TakenInSettles
