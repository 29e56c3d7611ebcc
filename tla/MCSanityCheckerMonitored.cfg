SPECIFICATION Spec
CONSTANTS
  t1 = t1
  t2 = t2
  t3 = t3
  NrCpus = 2
  Task <- Tasks2
  Allowed <- OnePinned
  Buggy = 3
  UserStatus <- NoStatus
PROPERTIES
  EachCpuMonitored
