CONSTANTS
  RestA = {4094, 4095}
  RestB = {2048}
  Loaded <- LoadedReadings
  Current = 1
  SpeedOut = 1
  OutMax = 2
  Settings <- HostSettings
SPECIFICATION Spec
INVARIANT RestIsZero
