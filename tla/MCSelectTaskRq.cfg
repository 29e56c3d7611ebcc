SPECIFICATION Spec
CONSTANTS
  t1 = t1
  t2 = t2
  t3 = t3
  NrCpus = 2
  Task <- Tasks
  Affinities <- Masks
  MaxTime = 3
SYMMETRY Symmetry
INVARIANTS
  TypeOK
  ChoiceWasIdle
  IdleCpuNotMissed
  
