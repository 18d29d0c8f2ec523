CONSTANTS
  Counts = 8
  MaxMove = 3
  OutMax = 3
  Settings <- HostSettings
SPECIFICATION Spec
INVARIANTS
  TypeOK
  SpeedIsMovement
  SpeedPlausible
  TorqueLimited
PROPERTY SpeedPositional
