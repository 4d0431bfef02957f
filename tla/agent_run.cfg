SPECIFICATION Spec
CONSTANTS
  Replies <- MCReplies
  MaxRetries = 2
  NewRows <- MCNewRows
  MaxRows = 3
  Jobs <- MCJobs
INVARIANTS
  CostIsBounded
  TranscriptContract
  SeenStaysReal
  VerifierOnlyRemoves
  ExamplesAreSound
