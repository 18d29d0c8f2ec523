CONSTANT InitReads = 12
SPECIFICATION FairSpec
INVARIANTS
  TypeOK
  AngleFresh
  PortQuiet
  OneReader
  NoLostWakeup
  LoopsExclusive
PROPERTIES
  WholeRead
  ReadCompletes
  LoopsAlive
  TaskRefinement
