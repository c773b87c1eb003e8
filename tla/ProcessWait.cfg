CONSTANTS
  Devices <- MCNoDevices
  MaxRestarts = 1
  MaxProcs = 1
  MaxThreads = 3
SPECIFICATION FairSpec
PROPERTY
  WaitReturns
CHECK_DEADLOCK FALSE
