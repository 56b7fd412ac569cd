SPECIFICATION MCSpec
CONSTANTS
  POOL_SIZE = 12
  HDR = 2
  Requests = {1, 2, 3}
  NULL = NULL
  MAX_PAGES = 10
  RegionBase = 1
  RegionEnd = 9
  KernelEnd = 2
  ENTRIES = 2
  Sizes = {1, 2, 3}
  Alignments = {1, 2}
  LFB_VIRT = 12
  LFB_PHYS = 20
  LFB_PAGES = 2
  NotPresent = NotPresent
INVARIANTS
  PoolTiled
  NullOnlyWhenNoneFits
  FramesHaveOneOwner
  FramesAccountedFor
  BuffersStayMapped
