CONSTANTS
  r1 = r1
  r2 = r2
  Rows <- MCRows
  NumSegments = 2
  SegmentRows <- MCSegmentRows
  MaxTargets = 1024
  Runs <- ReportRuns

SPECIFICATION Spec

INVARIANTS
  ReportMatchesSnapshot
  ErrorsAreAttributed
  ErrorsAreNeverTolerated
  SameDenominator
  OneTotalPerSegment
  VerdictFollowsPolicy

PROPERTIES
  FailFast
  RefinesContract
