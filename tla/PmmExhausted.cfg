CONSTANTS
  PageSize = 8
  StatSize = 5
  MemMaps <- Maps
  Word = 64
  MaxBatch = 2
SPECIFICATION FairSpec
INVARIANT HandedOutInsideRegion
