SPECIFICATION LiveSpec
CONSTANTS
  Scripts = {{"upgrade"}, {"upgrade", "config"}, {"upgrade", "port", "start", "restart"},
             {"upgrade", "stop", "install"}}
  Repeated = {{"upgrade"}}
  MaxVersion = 2
  MaxFaults = 1
INVARIANTS NoMixedEngine WholeWithoutRecord StartedIsCurrent
PROPERTIES ImplementsUpdate EngineComesUp
