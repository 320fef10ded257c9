CONSTANTS
  RawIds <- MCRawIds
  Trim <- MCTrim
  Suites <- MCSuites
  Dialects <- AllOrNothing

SPECIFICATION Spec

INVARIANTS
  TypeOK
  EverySlotJudged
  CauseByPrecedence
