SPECIFICATION MCSpec
CONSTANTS
  Tx = {t1, t2, t3}
  First = t1
  NoTx = NoTx
  Partial = Partial
  File = {f1, f2}
  MaxQueue = 2
  MaxCrashes = 1
  MaxFailures = 1
SYMMETRY LaterSymmetry
INVARIANTS
  FilesAreTheCommittedVersion
  CommitProvesPublication
  ActiveHasItsState
  ActiveJournalIsTheGeneration
PROPERTIES
  RestoreOnlyWhenSafe
CHECK_DEADLOCK FALSE
