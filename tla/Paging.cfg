SPECIFICATION PagerSpec
CONSTANTS
  a = a
  b = b
  c = c
  Procs = {a, b, c}
  LastPage = 2
  Frames = 3
  Owners <- MCOwners
  NoOwner <- MCNoOwner
  Stores <- MCStores
  NoStore <- MCNoStore
  NoPage = 0
  Mappings <- MCMappings
  Values <- MCValues
  FileValue <- MCFileValue
  DefaultSize <- MCDefaultSize
  Limits = {1}
  Quota = 1
  Extent = 2
  Minimum = 1
  GrowLimit = 0
  TBSkip = 1
  FreeLimit = 1
  FreeGoal = 2
  HiLimit = 1
  LoLimit = 0
  ReadCluster = 2
  Locks <- MCLocks
  MaxSystem = 2
  MaxKept = 1
  PageFileNamed = TRUE
  PageFileAtBoot = {"unopened"}
  FileSize = 2
  WriteCluster = 2
  MinAllocation = 1
  Drop = 1
  Regrow = 1
INVARIANTS
  Check
  WorkingSetsAreValidPages
  PagesOwnTheirFrames
  BlocksHaveOneHolder
PROPERTIES
  TouchedPagesStay
  PagingIsInvisible
