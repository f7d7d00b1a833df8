SPECIFICATION Spec
CONSTANTS
  WORD_SIZE = 8
  CL_SIZE = 32
  PAGE_SIZE = 16
  ColSizes <- UpToFivePages
  BitEncodings <- TwoFourAndEight
INVARIANTS
  TypeOK
  RowsInPlace
  CountedOnce
