CONSTANTS
  quant = quant
  patriarch = patriarch
  None = None
  ProposalId = {p1, p2}
  Swap = {s1, s2}
  Owner <- MCOwner
  Quant <- quant
  Patriarch <- patriarch
  Threshold = 2
  Live = FALSE
  FreshIds = FALSE
  MaxDrafts = 2
  MaxSignatures = 4
  MaxClearances = 2
  MaxPermits = 0
  MaxFaults = 0
  MaxTimeouts = 0
  MaxClears = 1
  MaxStale = 0
SPECIFICATION Spec
SYMMETRY Interchangeable
INVARIANT OwnersConsent
INVARIANT ExecutedAsSigned
PROPERTY LedgerOnlyGrows
