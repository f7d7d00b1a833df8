SPECIFICATION Spec
CONSTANTS
  None = None
  ScanType <- TwoScans
  Partitions <- TwoPartitionsEach
  Elements <- ThreeAndSix
  BitEncoding <- FourBits
  CL_SIZE = 8
  PageLines = 2
  MinGap = 2
  WriteCredits = 2
INVARIANTS
  AllPartitionsProcessed
