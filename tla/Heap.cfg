CONSTANTS
  PageSize = 4
  HeapMinSize = 12
  HeapSize = 16
  Word = 256
  Sizes = {1, 2, 3}
  Top = 16
  HighWater = 11
  FreeRule = "safe"
SPECIFICATION Spec
INVARIANT TypeOK
INVARIANT HeapWellFormed
INVARIANT HolesSound
PROPERTY PayloadUntouched
PROPERTY ImplementsBlockAllocator
