SPECIFICATION Spec
CONSTANTS
  NumOfCus = 2
  FPGA = FALSE
  MayFailCreate = FALSE
INVARIANTS
  NoCrash
