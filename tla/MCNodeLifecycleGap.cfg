SPECIFICATION LifecycleSpec
CONSTANTS
  Credential = {1}
  Day = {1}
  Invocation = {i1, i2, i3}
  Direction = {upload}
  MaxInt = 1
  NoReading = NoReading
  Generation = {1}
  Roster <- OneAccount
  NoInvocation = NoInvocation
SYMMETRY LifecycleSymmetry
PROPERTIES
  EveryEndIsReported
