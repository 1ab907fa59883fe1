CONSTANTS
  quant = quant
  patriarch = patriarch
  execution = execution
  Writer <- TwoWriters
  MaxReceipts = 3
  PageLimit = 2
SPECIFICATION WalkSpec
CHECK_DEADLOCK FALSE
SYMMETRY Interchangeable
INVARIANT WalkTypeOK
INVARIANT VerifiedIsWhole
INVARIANT NoneLost
INVARIANT FailsForCause
PROPERTY AppendsWhenSerial
