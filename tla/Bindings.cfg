\* Every kind of statement, in the two placeholder styles of the built-in dialects.
CONSTANTS
  Styles = {"dollar", "question"}
  Scopes <- MCScopes
  Segmented <- MCSegmented
  Rules <- MCRules
SPECIFICATION Spec
INVARIANT TypeOK
INVARIANT PlaceholdersGetTheirValues
PROPERTY PopulationHeld
\* A refused call stops, and a returned report need not be asked for keys.
CHECK_DEADLOCK FALSE
