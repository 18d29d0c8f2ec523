CONSTANTS
  N = 3
  Size = 2
SPECIFICATION Spec
INVARIANT FrameIntact
