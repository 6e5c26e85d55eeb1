SPECIFICATION LifecycleLive
CONSTANTS
  Credential = {1, 2}
  Day = {1, 2}
  Invocation = {i1, i2}
  Direction = {upload}
  MaxInt = 2
  NoReading = NoReading
  Generation = {1, 2}
  Roster <- NewAccount
  NoInvocation = NoInvocation
INVARIANTS
  EveryByteCountedOnce
  SamplesAreGenuine
  EngineRunsSelected
  FinishedHasEnded
PROPERTIES
  StatusIsEarned EngineComesBack CoverageIsFinal
