CONSTANTS
  r1 = r1
  r2 = r2
  Rows <- MCRows
  NumSegments = 1
  SegmentRows <- OneSegment
  MaxTargets = 2
  Runs <- ChunkedRuns

SPECIFICATION Spec

INVARIANTS
  ErrorsAreAttributed
