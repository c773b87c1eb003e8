CONSTANTS
  Mmio <- MCMmio
  Span = 16
  Usable <- MCUsable
  Reserved <- MCReserved
  s1 = s1
  s2 = s2
  ahci = ahci
  netstack = netstack
  Slots = {s1, s2}
  Drivers = {ahci, netstack}
  Direct = {netstack}
  TestDevice = test
  GraphSlots <- MCGraph
  MaxRestarts = 1
  MaxSpawns = 1
  MaxHeap = 1
  Layouts <- MCLayouts
  NodeSize = 4
  MinAlign = 2
  PageSize = 16
  InitPages = 1
  MinGrow = 2
  Threads = {t1, t2}
  Programs <- MCPrograms
  NumAPs = 3
  MaxCpus = 3
  SharedPages = {v1, v2}
  MaxShootdowns = 2
  HeapFrames = 4
  MaxLive = 3
SPECIFICATION MCSpec
INVARIANTS    OwnContext 
           IdentityUniqueUnlessGivenUp PassMeansFlushed
SYMMETRY MCSymmetry
CHECK_DEADLOCK FALSE
