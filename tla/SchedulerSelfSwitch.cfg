CONSTANTS
  Cpus <- MCCpus
  BSP = 0
  MaxThreads = 3
SPECIFICATION SchedSpec
INVARIANT
  SelfSwitchSafe
