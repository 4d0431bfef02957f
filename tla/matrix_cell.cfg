SPECIFICATION Spec
CONSTANTS
  ScenarioCount = 2
  Overlaps <- MCOverlaps
  Arguments <- MCArguments
  Results <- MCResults
  MaxStarts = 2
INVARIANTS
  SummaryIsItsPasses
  UsageIsPartitioned
  ReportIsHonest
