CONSTANTS
  Rows <- MCRows
  Plans <- MCPlans
  Requests <- MCRequests

SPECIFICATION FairSpec

INVARIANTS
  TypeOK
  DrainMatchesReport
  ReleasedWhenEnded
  EventMatchesOutcome
  CancellationIsPrompt

PROPERTIES
  RefinesCursor
  StreamEnds
