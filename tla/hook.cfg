CONSTANTS
  safe = safe
  universalRouter = universalRouter
  Pool = {a, b}
  Sender = {safe, universalRouter}
  ArbiterSafe <- safe
  SafeRoute <- safe
  Cooldown = 1
  Window = 3
  Cap = 4
  UintRange = 8
  Amounts <- MCAmounts
  MaxTime = 8
  MaxTrades = 4
SPECIFICATION Spec
CHECK_DEADLOCK FALSE
SYMMETRY Interchangeable
INVARIANT TypeOK
INVARIANT CooldownHolds
INVARIANT AtMostTwiceCap
