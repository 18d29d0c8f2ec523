CONSTANTS
  Ts = 3464
  OutMax = 6
SPECIFICATION Spec
INVARIANTS
  TypeOK
  DutyInPeriod
  SampleInLowSide
  LineVoltages
PROPERTY MinMaxRefinement
