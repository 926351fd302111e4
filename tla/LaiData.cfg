SPECIFICATION Spec
CONSTANTS
  RegionByte = 2
  INT = 8
  REGION = 24
  Banks = {0, 1}
  Fields <- MCFields
  Contents <- MCContents
  Sources <- MCSources
  INDEX = 16
  HostPage = 1
  Ids = {o1, o2, o3, o4}
  Locals = {"l0"}
  Names = {"n0"}
  SIZE = 1
  MAX_RC = 2
  Ops = {"store", "copy", "index", "store_index", "deref", "sizeof", "field", "mutate_pkg", "end"}
  Width = 8
  HEX = 4
  DEC = 3
  BYTES = 2
  Values <- MCValues
  Others <- MCOthers
INVARIANTS
  
  ReferencesSound
  ConversionsCorrect
SYMMETRY Symmetry
CHECK_DEADLOCK FALSE
