SPECIFICATION FairSpec
CONSTANTS
  None = None
  ScanType <- TwoScans
  Partitions <- TwoPartitionsEach
  Elements <- ThreeAndSix
  BitEncoding <- FourBits
  CL_SIZE = 8
  PageLines = 2
  MinGap = 2
  WriteCredits = 1
INVARIANTS
  TypeOK
  QuietWhenDone
  CompletionIsCurrent
  ResponseHasReader
PROPERTIES
  ParametersHeld
  ScanEnds
  ImplementsAtomicScan
