SPECIFICATION FairSpec
CONSTANTS
  NumOfCus = 3
  FPGA = TRUE
  MayFailCreate = TRUE
CHECK_DEADLOCK FALSE
INVARIANTS
  TypeOK
  Rendezvous
  BarriersOutliveWaiters
  EndAfterScan
PROPERTIES
  MainReturns
