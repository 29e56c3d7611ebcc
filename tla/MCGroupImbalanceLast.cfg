SPECIFICATION FairSpec
CONSTANTS
  NrGroups = 3
  GroupOf <- ThreeNodes
  Loads <- Tasks
  Queues <- IdleLightHeavy
  Balancers <- AllCpus
  AsymPacking = FALSE
  ULongMax = 255
PROPERTIES
  EachOverloadedGroupRelieved
