CONSTANTS
  quant = quant
  patriarch = patriarch
  None = None
  ProposalId = {p1}
  Swap = {s1}
  Owner <- MCOwner
  Quant <- quant
  Patriarch <- patriarch
  Threshold = 2
  Live = FALSE
  FreshIds = TRUE
  MaxDrafts = 1
  MaxSignatures = 2
  MaxClearances = 1
  MaxPermits = 0
  MaxFaults = 1
  MaxTimeouts = 0
  MaxClears = 0
  MaxStale = 0
SPECIFICATION Spec
INVARIANT NoDoubleExecution
