CONSTANTS
  PageSize = 4
  HeapMinSize = 16
  HeapSize = 20
  Word = 256
  Sizes = {1, 2}
  Top = 20
  HighWater = 14
  FreeRule = "any"
SPECIFICATION Spec
INVARIANT FreedMemoryIndexed
