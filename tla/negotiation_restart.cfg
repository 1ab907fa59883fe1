CONSTANTS
  quant = quant
  patriarch = patriarch
  None = None
  ProposalId = {p1, p2}
  Market = {m1}
  Quant <- quant
  Patriarch <- patriarch
  FreshIds = TRUE
  MaxMarket = 1
  MaxProposals = 2
  MaxForeign = 1
  MaxSignatures = 6
  MaxClearances = 4
  MaxErrors = 0
  MaxCrashes = 1
SPECIFICATION FairSpec
PROPERTY EveryProposalIsAnswered
