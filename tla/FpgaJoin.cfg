SPECIFICATION FairSpec
CONSTANTS
  None = None
  MapLines = 2
  BitMapSize = 12
  CL_SIZE = 8
  Partitions = 2
  PageLines = 3
  MinGap = 2
  WriteCredits = 1
INVARIANTS
  TypeOK
  CompletionIsCurrent
PROPERTIES
  JoinEnds
  ImplementsAtomicScan
