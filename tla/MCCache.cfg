CONSTANTS
  Double = 1
  BlockSize = 2
  SetSize = 4
  PageSize = 4
  DWays = 2
  IWays = 1
  Frames <- Shuffled
  Value = {0, 1}
  Coherency = {TRUE, FALSE}
  MaxLoads = 4
  MaxFetches = 2
  MaxDirty = 1
SPECIFICATION CacheSpec
INVARIANT CacheTypeOK
INVARIANT ReadsMemory
INVARIANT CachedOnce
PROPERTY StoresOneWord
