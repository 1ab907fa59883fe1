CONSTANTS
  marketGod = marketGod
  quant = quant
  patriarch = patriarch
  Node <- MCNode
  Injector <- marketGod
  Peers <- MCPeers
  Publisher <- MCPublisher
  Reader <- MCReader
  MaxMessages = 2
  MaxCrashes = 1
SPECIFICATION FairSpec
INVARIANT TypeOK
INVARIANT AtMostOnce
PROPERTY ImplementsTopic
PROPERTY RowIsHandled
PROPERTY InboxIsHandled
