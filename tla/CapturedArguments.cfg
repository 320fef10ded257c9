\* Query diagnostics of a frequency check.
CONSTANTS
  Styles = {"dollar", "question"}
  Scopes <- ScopeOfOne
  Segmented <- NoSegments
  Rules <- ValueShares
SPECIFICATION Spec
INVARIANT CapturedWithArguments
CHECK_DEADLOCK FALSE
