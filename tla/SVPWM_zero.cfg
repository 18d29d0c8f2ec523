CONSTANTS
  Ts = 3464
  OutMax = 6
SPECIFICATION Spec
INVARIANT ZeroVectorBalanced
