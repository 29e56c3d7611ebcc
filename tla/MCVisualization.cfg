SPECIFICATION Spec
CONSTANTS
  c1 = c1
  c2 = c2
  Cpu <- CPUs
  Hooks <- Some
  ClearedWhenFull <- TheClearedWhenFull
  ReturnsWhenFull <- TheReturnsWhenFull
  Types <- TheTypes
  Stores <- TheStores
  Prints <- ThePrints
  ClearedByReader <- TheClearedByReader
  MaxEntries = 2
  MaxId = 4
  MaxReads = 1
  MaxLoads = 2
  Session = FALSE
SYMMETRY Symmetry
INVARIANTS
  TypeOK
  EntryOwnedOnce
  
  HandlersHaveBuffer
  NoStorePastEnd
PROPERTIES
  FullStopsHook
  ImplementsSampleLog
\* A CPU that jumped through a NULL hook is stuck, and the bounds end the run.
CHECK_DEADLOCK FALSE
