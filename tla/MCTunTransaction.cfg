SPECIFICATION RootSpec
CONSTANTS
  Tx = {t1}
  NoTx = NoTx
  Partial = Partial
  MaxQueue = 2
  MaxCrashes = 2
  MaxFailures = 2
INVARIANTS
  UncommittedCaptureIsBounded
  OffMeansNoCapture
PROPERTIES
  CommitIsDurable
  UncommittedCaptureEnds
CHECK_DEADLOCK FALSE
