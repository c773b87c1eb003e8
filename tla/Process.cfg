CONSTANTS
  Devices <- MCAllDevices
  MaxRestarts = 1
  MaxProcs = 2
  MaxThreads = 6
SPECIFICATION FairSpec
INVARIANTS
  ProcInv
PROPERTIES
  ExitDelivered
  SoleWaiterReturns
CHECK_DEADLOCK FALSE
