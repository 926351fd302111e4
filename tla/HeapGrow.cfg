CONSTANTS
  PageSize = 4
  HeapMinSize = 4
  HeapSize = 8
  Word = 256
  Sizes = {1, 2, 5}
  Top = 28
  HighWater = 28
  FreeRule = "none"
SPECIFICATION Spec
INVARIANT HeapWellFormed
PROPERTY PayloadUntouched
CHECK_DEADLOCK FALSE
