SPECIFICATION FairSpec
CONSTANTS
  MaxParts = 3
  ForcedParts = 2
  MaxMatches = 2
INVARIANTS
  TypeOK
  TokensReturned
  OwnResults
PROPERTIES
  LiveHandles
  EndsWithoutFault
