SPECIFICATION LiveSpec
CONSTANTS
  Credential = {1, 2}
  Day = {1}
  Invocation = {i1}
  Direction = {upload}
  MaxInt = 2
  NoReading = NoReading
  Call = {e1, e2}
  PageSize = 1
  MaxLate = 1
INVARIANTS
  ExportedMeansStored
  HonestPagesNeverConflict
  CentralNeverAhead
PROPERTIES
  ReplicatesVersions
  EveryBucketIsExported
CHECK_DEADLOCK FALSE
