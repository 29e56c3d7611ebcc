SPECIFICATION FairSpec
CONSTANTS
  timer = timer
  write = write
  NrCpus = 2
  NrDomains = 1
  Timer = timer
  Users <- Writers
  Balancer <- Balancers
  BalancesFor <- OwnCpu
  MayFail = TRUE
  MaxReads = 1
  MaxLoads = 2
  MaxArrays = 2
INVARIANTS
  TypeOK
  FillSeesRows
  ReadSeesRows
  

  
  
\* The bounds on loads and reads end the run.
CHECK_DEADLOCK FALSE
