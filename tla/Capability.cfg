CONSTANTS
  Threads <- MCThreads
  Boot <- MCBoot
  Rights <- MCRights
  GRANT = "GRANT"
  AgentMaxRights <- MCPolicy
  Kinds <- MCKinds
  MaxRecords = 2
  MaxObjects = 1
  MaxGeneration = 3
  MaxSlots = 2
  MaxSeq = 3
  VisCap = 32
  MaxDirty = 1
  GridW = 3
  GridH = 3
  MaxRects = 2
  s1 = s1
  s2 = s2
  Surfaces = {s1, s2}
  NoSurface = none
  ScreenW = 3
  ScreenH = 4
  TitleH = 1
  MenuH = 1
  WinW = 2
  WinH = 2
  CursorW = 1
  CursorH = 2
  Home <- MCHome
  Colors = {"ink"}
  Motions <- MCMotions
  RowSpans <- MCRowSpans
  Targets <- MCTargets
  MaxCalls = 4
  Owners = {w1, w2, w3}
  NoOwner = NoOwner
  MaxDelivered = 2
  MaxKeys = 1
  MaxPackets = 1
SPECIFICATION MCSpec
INVARIANTS
  Attenuation
  
  PixelsAccounted
  KeysReachTheirWindow
  NeverStalls
PROPERTIES
  RevocationStands
  DenialsAudited
  PaintsOnlyVisible
CHECK_DEADLOCK FALSE
