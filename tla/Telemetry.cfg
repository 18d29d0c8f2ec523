CONSTANTS
  N = 1
  Size = 1
SPECIFICATION FairSpec
INVARIANTS
  TypeOK
  TailInPlace
PROPERTIES
  CharactersKept
  PrintEnds
  FramesFlow
