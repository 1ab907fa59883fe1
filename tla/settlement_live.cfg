CONSTANTS
  quant = quant
  patriarch = patriarch
  None = None
  ProposalId = {p1, p2}
  Swap = {s1, s2}
  Owner <- MCOwner
  Quant <- quant
  Patriarch <- patriarch
  Threshold = 2
  Live = TRUE
  FreshIds = FALSE
  MaxDrafts = 2
  MaxSignatures = 4
  MaxClearances = 2
  MaxPermits = 0
  MaxFaults = 1
  MaxTimeouts = 1
  MaxClears = 0
  MaxStale = 0
SPECIFICATION Spec
SYMMETRY Interchangeable
INVARIANT TypeOK
INVARIANT LedgerIsTrue
INVARIANT SuccessIsBacked
INVARIANT RevertIsFinal
PROPERTY ImplementsTreasury
