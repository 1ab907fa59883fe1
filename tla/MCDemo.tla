-------------------------------- MODULE MCDemo --------------------------------
(* A small instance of Demo for TLC. *)
EXTENDS Demo

\* An answer with the score of a swap; one that is too large at the oracle's price; one
\* with the score of protocol_hack; the same with lower basis points beside it; one with
\* no risk at all; one in USDC with no amount, and no asset to get; one with a hook that
\* is not allowed.
Answer == [protocol |-> "Uniswap_V4", assetIn |-> "ETH", assetOut |-> "USDC", amount |-> 10,
           units |-> None, score |-> 20, riskBps |-> None, hook |-> "throttle"]

SomeAnswers == {
  Answer,
  [Answer EXCEPT !.amount = 150],
  [Answer EXCEPT !.score = 95],
  [Answer EXCEPT !.score = 95, !.riskBps = 950, !.hook = None],
  [Answer EXCEPT !.score = None],
  [Answer EXCEPT !.assetIn = "USDC", !.assetOut = None, !.amount = None],
  [Answer EXCEPT !.hook = "other"]}

FewLefts == {1100, 59}

ByHand == {"flash_crash_eth"}
===============================================================================
