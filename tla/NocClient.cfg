\* Two threads, two 2M windows and one 128G window, sizes scaled to 2, 4 and 8.
SPECIFICATION FairSpec
CONSTANTS
  t1 = t1
  t2 = t2
  Threads = {t1, t2}
  None = none
  Identity = identity
  FirmwareTarget = fw
  Count2M = 2
  Count128G = 1
  TwoMegs = 2
  FourGigs = 4
  Size128G = 8
  MaxWord = 3
  Tiles <- MCTiles
  Settings = {"strict", "posted"}
  Program <- MCProgram
INVARIANTS
  TypeOK
  CacheCoherent
  AccessHits
  SmallMappingReach
  NothingLeaks
PROPERTIES
  CallsReturn
CHECK_DEADLOCK FALSE
