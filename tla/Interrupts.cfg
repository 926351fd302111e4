CONSTANTS
  IRQ_NUM_VECTORS = 14
  IRQ_NUM_ISA = 2
  IRQ_VECTOR_BASE = 4
  Madts <- AllMadts
  FirmwareVectors = {4, 5}
  MaxSoftware = 2
SPECIFICATION FairSpec
INVARIANT TypeOK
INVARIANT IrqsSeparate
PROPERTY CallsMatch
PROPERTY RaisedIrqsServed
