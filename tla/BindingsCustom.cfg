\* A custom dialect that numbers its placeholders but does not write them $n.
CONSTANTS
  Styles = {"other"}
  Scopes <- ScopeOfOne
  Segmented <- NoSegments
  Rules <- SharedRules
SPECIFICATION Spec
INVARIANT PlaceholdersGetTheirValues
CHECK_DEADLOCK FALSE
