CONSTANTS
  safe = safe
  universalRouter = universalRouter
  Pool = {a}
  Sender = {safe, universalRouter}
  ArbiterSafe <- safe
  SafeRoute <- universalRouter
  Cooldown = 1
  Window = 3
  Cap = 4
  UintRange = 8
  Amounts <- MCAmounts
  MaxTime = 4
  MaxTrades = 2
SPECIFICATION Spec
CHECK_DEADLOCK FALSE
SYMMETRY Interchangeable
INVARIANT SafeIsThrottled
