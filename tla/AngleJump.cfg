CONSTANTS
  Counts = 256
  Jitter = 1
  Homes = {0, 5, 23, 24, 93, 128, 163}
SPECIFICATION Spec
INVARIANT CalibrationAligned
