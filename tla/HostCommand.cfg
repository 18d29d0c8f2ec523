CONSTANTS
  Commands <- HostCommands
  BufferSize = 11
  NameSize = 7
SPECIFICATION FairSpec
INVARIANTS
  TypeOK
  ExecutedAsSent
  ReleasedAsAsked
PROPERTIES
  EveryCommandAnswered
  ServiceRefinement
