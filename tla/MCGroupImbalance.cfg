SPECIFICATION FairSpec
CONSTANTS
  NrGroups = 2
  GroupOf <- TwoNodes
  Loads <- Tasks
  Queues <- HeavyAndIdle
  Balancers <- AllCpus
  AsymPacking = FALSE
  ULongMax = 255
INVARIANTS
  TypeOK
  ImbalanceBounded
PROPERTIES
  OverloadedGroupRelieved
  IdleGroupPulls
