SPECIFICATION Spec
CONSTANTS
  UlongModulus = 1048576
  Environments <- MCEnvironments
  EarlyMatch = TRUE
  MaxOrders = 2
  MaxInbox = 2
  MaxHeard = 1
  MaxStarts = 1
INVARIANT
  OrdersArePrefix
