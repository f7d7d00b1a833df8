SPECIFICATION ReaderSpec
CONSTANTS
  CLBytes = 6
  Chunks = 1
  Bar = Bar
  Newline = Newline
  Other = Other
INVARIANTS
  ExtractsFields
