CONSTANTS
  Double = 2
  BlockSize = 4
  SetSize = 4
  PageSize = 8
  DWays = 2
  IWays = 1
  Frames <- Shuffled
  Value = {0, 1}
  Coherency = {FALSE}
  MaxLoads = 4
  MaxFetches = 2
  MaxDirty = 1
SPECIFICATION CacheSpec
INVARIANT ReadsMemory
