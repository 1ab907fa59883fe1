CONSTANTS
  quant = quant
  patriarch = patriarch
  execution = execution
  None = None
  Writer <- ThreeWriters
  Inode = {i1, i2, i3, i4, i5}
  MaxReceipts = 4
  MaxCrashes = 1
SPECIFICATION Spec
CHECK_DEADLOCK FALSE
SYMMETRY Interchangeable
INVARIANT TypeOK
INVARIANT WalkFindsAll
INVARIANT SerialWritesChain
PROPERTY ImplementsHeadLog
