CONSTANTS
  CPUS <- MCCpus
  MaxFrames = 3
  CounterSpan = 4
  NPages = 10
  BootMaps <- MCBootMaps
  Segments <- MCSegments
  Images <- MCImages
  PoolPages = 6
  PtPages = 16
  PdPages = 16
  PdptPages = 16
  MaxEvents = 2
SPECIFICATION MCSpec
INVARIANTS
  
  HandedOver
PROPERTIES
  LockProgress
  ImplementsCriticalSection
