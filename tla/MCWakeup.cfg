SPECIFICATION FairSpec
CONSTANTS
  c1 = c1
  c2 = c2
  Cpu <- CPUs
  Hooks <- Some
  ClearedWhenFull <- TheClearedWhenFull
  ReturnsWhenFull <- TheReturnsWhenFull
  Types <- TheTypes
  Stores <- TheStores
  Prints <- ThePrints
  ClearedByReader <- TheClearedByReader
  MaxEntries = 2
  MaxId = 4
  MaxReads = 2
  MaxLoads = 1
  Session = TRUE
INVARIANTS
  
  FirstReadComplete
  SessionReadsBuffer
  
PROPERTIES
  ReadEnds
\* A CPU that jumped through a NULL hook is stuck, and the bounds end the run.
CHECK_DEADLOCK FALSE
