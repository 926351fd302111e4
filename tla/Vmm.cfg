CONSTANTS
  Fanout = 3
  PpnLimit = 32
  BootTop = 2
  FirstFree = 4
  RamTop = 16
  MaxFrame = 20
  Mmio = {20}
  HeapPages = {27, 28}
  Permissions = {"write", "nx"}
  CachedPages = {4, 20, 27}
SPECIFICATION Spec
INVARIANT TypeOK
INVARIANT TablesPrivate
INVARIANT TranslationCorrect
INVARIANT TlbCurrent
