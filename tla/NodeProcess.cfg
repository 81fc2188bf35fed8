SPECIFICATION FairSpec
CONSTANTS
  UlongModulus = 1048576
  Environments <- MCEnvironments
  EarlyMatch = FALSE
  MaxOrders = 2
  MaxInbox = 2
  MaxHeard = 1
  MaxStarts = 2
INVARIANTS
  TypeOK
  EntitiesNested
  NodeWhole
  NothingLeftBehind
  OrdersArePrefix
  ConfigMeansEnvironment
PROPERTIES
  ShutdownCompletes
  OrderReachesEngine
