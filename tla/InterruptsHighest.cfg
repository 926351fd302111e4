CONSTANTS
  IRQ_NUM_VECTORS = 14
  IRQ_NUM_ISA = 2
  IRQ_VECTOR_BASE = 4
  Madts <- OneIoApic
  FirmwareVectors = {4}
  MaxSoftware = 1
SPECIFICATION Spec
INVARIANT HighestIrqUsable
