SPECIFICATION Spec
CONSTANTS
  NrCpus = 5
  Topologies <- BothTopologies
INVARIANTS
  TypeOK
  SpanCovered
  OwnGroupFirst
  LocalGroupContainsCpu
  DistantCpusInOtherGroups
  RingClosed
  EachGroupNeeded
\* The construction ends.
CHECK_DEADLOCK FALSE
