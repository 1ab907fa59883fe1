CONSTANTS
  quant = quant
  patriarch = patriarch
  None = None
  ProposalId = {p1}
  Swap = {s1}
  Owner <- MCOwner
  Quant <- quant
  Patriarch <- patriarch
  Threshold = 2
  Live = TRUE
  FreshIds = TRUE
  MaxDrafts = 1
  MaxSignatures = 3
  MaxClearances = 2
  MaxPermits = 1
  MaxFaults = 2
  MaxTimeouts = 1
  MaxClears = 0
  MaxStale = 1
SPECIFICATION FairSpec
PROPERTY CompleteIsAnswered
