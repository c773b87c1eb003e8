CONSTANTS
  Cpus <- MCCpus
  BSP = 0
  MaxThreads = 5
SPECIFICATION SchedFairSpec
INVARIANTS
  ThreadsConserved
  StacksSafe
PROPERTIES
  ReadyRuns
  ExitedReaped
