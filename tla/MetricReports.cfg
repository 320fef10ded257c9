\* Every table-level expectation next to a writer, then the ways to export and record.
CONSTANTS
  Numbers <- MCNumbers
  Cases <- MCCases
  DriverErrors = {"database"}
  MaxRows = 2
  MaxWrites = 2
  MaxFaults = 1
  MaxExportedQueryTextRunes = 2
  MaxExportedArgumentCount = 2
  MaxEdits = 1
SPECIFICATION Spec
INVARIANT TypeOK
INVARIANT VerdictFollowsFacts
INVARIANT ExportKeepsItsPromise
INVARIANT RecordsJoinUniquely
INVARIANT GateSurvivesExport
PROPERTY RightWhenQuiet
PROPERTY RecordsAreSnapshots
\* A report is exported and recorded once, and then there is nothing more to do.
CHECK_DEADLOCK FALSE
