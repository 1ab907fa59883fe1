CONSTANTS
  quant = quant
  patriarch = patriarch
  None = None
  ProposalId = {p1, p2, p3, p4}
  Market = {m1}
  Quant <- quant
  Patriarch <- patriarch
  FreshIds = TRUE
  MaxMarket = 1
  MaxProposals = 4
  MaxForeign = 1
  MaxSignatures = 8
  MaxClearances = 4
  MaxErrors = 1
  MaxCrashes = 0
SPECIFICATION Spec
INVARIANT TypeOK
INVARIANT OneTradePerEvent
INVARIANT MissedOnce
PROPERTY PublishesAsAssumed
