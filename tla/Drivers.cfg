SPECIFICATION Spec
CONSTANTS
  Commands = {c1, c2}
  NoCommand = none
  SIZE = 6
  PAGE_TRBS = 3
  MaxOutstanding = 4
  StaleCycles = {0}
  Buses <- AllBuses
  DRIVER_LIMIT = 4
  FirstIrq = 24
  SoftwareIrqs = 2
  IRQ_VECTOR_BASE = 32
  Firmware = {{}, {"kbd int"}, {"kbd int", "aux off"}}
  ScanCodes = {{"kbd int"}, {"aux int", "kbd off"}}
  MaxKeys = 2
  MaxMoves = 3
  Width = 6
  Base = 3
  Nibble = 2
  MaxIrqs = 2
  HandlerChars = 2
  Tasks = {t1, t2, t3, t4}
  NoTask = no_task
  KernelMemory = kernel
  Elements = {a, b, c, d}
  Null = null
  Size = 4
  Values = {0, 1}
  Backwards = FALSE

  
PROPERTIES
  RingCorrect
  
  MouseCorrect
  PrintCorrect
  RoundRobin
