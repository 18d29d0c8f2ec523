CONSTANTS
  RestA = {4094, 4095}
  RestB = {4095}
  Loaded <- LoadedReadings
  Current = 1
  SpeedOut = 1
  OutMax = 1
  Settings <- HostSettings
SPECIFICATION Spec
INVARIANTS
  TypeOK
  OutputLimited
  OneParameterSet
PROPERTIES
  OffsetIsMean
  SettledStays
  IdPositional
  IqPositional
