--------------------------------- MODULE Policy --------------------------------
(***************************************************************************)
(* The pure functions between a market message and a clearance: the        *)
(* scenarios (core/market_god.py), the analysis Quant computes and         *)
(* Patriarch computes again (calculate_optimal_rotation), what Quant makes *)
(* of the LLM's answer, and the rules of the firewall.                     *)
(*                                                                         *)
(* Prices are in dollars, yields in tenths of a percent, scores and        *)
(* amounts in tenths.  An amount is in tokens; a number of base units that *)
(* does not depend on the asset, such as 10**18, is as many tokens as the  *)
(* asset's decimals make it, and Huge when that is more than any cap.      *)
(***************************************************************************)
EXTENDS Integers, Sequences, TLC

CONSTANTS
  None,      \* a field the LLM has left out
  MaxUnits   \* MAX_SWAP_UNITS, in tenths of 10**18 base units, or None

Huge == 10000000

-------------------------------------------------------------------------------
(* The market *)

Normal == [gas |-> 25, wethPrice |-> 3500, wethVol |-> 40, wethYield |-> 30,
           stEthYield |-> 42, pendleYield |-> 140, solSafety |-> 80]

\* A scenario changes a few numbers; a name that is none changes nothing, and nor
\* does sol_yield_spike as far as these numbers go.
MarketData(scenario) ==
  CASE scenario = "pendle_yield_arbitrage" -> [Normal EXCEPT !.pendleYield = 220]
    [] scenario = "lst_expansion" -> [Normal EXCEPT !.stEthYield = 65]
    [] scenario = "protocol_hack" -> [Normal EXCEPT !.solSafety = 20]
    [] scenario = "flash_crash_eth" -> [Normal EXCEPT !.wethPrice = 2800, !.wethVol = 450]
    [] scenario = "gas_war" -> [Normal EXCEPT !.gas = 850, !.wethVol = 380]
    [] OTHER -> Normal

-------------------------------------------------------------------------------
(* The analysis *)

\* 10000 dollars at the spread for a week pay for the gas, 150000 gwei of it.
PaysForGas(m) == (m.pendleYield - 40) * 1000000 > 52 * 15 * m.gas * m.wethPrice

\* What calculate_optimal_rotation tries, in its order.
Rules(m) == <<
  [holds |-> m.solSafety < 40,
   action |-> "EMERGENCY_WITHDRAW", protocol |-> "Uniswap_V4", risk |-> 95],
  [holds |-> m.pendleYield > 150 /\ PaysForGas(m),
   action |-> "YIELD_TRADE", protocol |-> "Pendle", risk |-> 55],
  [holds |-> m.stEthYield > m.wethYield + 20,
   action |-> "STAKE_LST", protocol |-> "Lido", risk |-> 30],
  [holds |-> m.wethVol > 150,
   action |-> "SWAP", protocol |-> "Uniswap_V4", risk |-> 20],
  [holds |-> TRUE,
   action |-> "NONE", protocol |-> "Uniswap_V4", risk |-> 10] >>

\* The first rule that holds.
Rotation(m) ==
  LET applicable == {i \in DOMAIN Rules(m) : Rules(m)[i].holds}
  IN Rules(m)[CHOOSE i \in applicable : \A j \in applicable : i <= j]

-------------------------------------------------------------------------------
(* The proposal.  Every field here is the LLM's own.  Its prompt tells it to  *)
(* copy the analysis, but nothing compares what it answers with the analysis *)
(* or fills in what it leaves out: only the hash of the analysis is compared, *)
(* and that does not come from the LLM.                                      *)

\* DECIMALS_BY_SYMBOL, where it is not 18.
Decimals == [USDC |-> 6, WBTC |-> 8, SOL |-> 9] @@ ("PT-USDC" :> 6)

DecimalsOf(asset) == IF asset \in DOMAIN Decimals THEN Decimals[asset] ELSE 18

\* 10**18 base units and their tenths, in tokens of the asset.
Tokens(asset, tenths) == IF DecimalsOf(asset) = 18 THEN tenths ELSE Huge

\* Mutant: a score of 10 is 1000 basis points.
HundredfoldBps(a) ==
  IF a.riskBps # None THEN a.riskBps ELSE IF a.score # None THEN a.score * 10 ELSE None

\* The basis points, if given; else int(score * 1000) of the score, if given.
RiskBps(a) ==
  IF a.riskBps # None THEN a.riskBps ELSE IF a.score # None THEN a.score * 100 ELSE None

\* amount_in_units after Proposal._populate and capture_llm_context_node: the LLM's,
\* or from its amount_in, or 10**18 base units whatever the asset; then cut.
AmountIn(a) ==
  LET given == IF a.units # None THEN a.units
               ELSE IF a.amount # None THEN a.amount
               ELSE Tokens(a.assetIn, 10)
      cap   == IF MaxUnits = None THEN given ELSE Tokens(a.assetIn, MaxUnits)
  IN IF given <= cap THEN given ELSE cap

\* What is signed and published for the LLM's answer a.  History: has it copied the
\* score of the analysis, and given no basis points beside it?
Draft(a, rotation) ==
  [protocol |-> a.protocol,
   assetIn |-> IF a.assetIn = "ETH" THEN "WETH" ELSE a.assetIn,
   assetOut |-> IF a.assetOut = "ETH" THEN "WETH" ELSE a.assetOut,
   amount |-> AmountIn(a), riskBps |-> RiskBps(a),
   copied |-> (a.riskBps = None /\ a.score = rotation.risk), hook |-> a.hook]

-------------------------------------------------------------------------------
(* The firewall *)

WhitelistedAssets == {"WETH", "USDC", "stETH", "WBTC", "PT-USDC", "SOL", "PENDLE"}
AllowedProtocols  == {"Uniswap_V4", "Lido", "Pendle"}
AllowedHooks      == {None, "vol_oracle", "dynamic_fee", "throttle"}
MaxValue   == 50000000  \* MAX_TRANSACTION_VALUE_USD
MaxRiskBps == 8000
MinLeft    == 60     \* MIN_PROPOSAL_DEADLINE_SECONDS

\* Mutant: prices of another day.
PastPrices ==
  [asset \in {"WETH", "stETH", "USDC", "WBTC", "PT-USDC", "SOL", "PENDLE"} |->
    CASE asset = "WETH" -> 250000  [] asset = "stETH" -> 251000   [] asset = "USDC" -> 100
      [] asset = "WBTC" -> 6500000 [] asset = "PT-USDC" -> 92     [] asset = "SOL" -> 15000
      [] asset = "PENDLE" -> 350]

\* MarketOracle: prices in cents, which never change.
OraclePrices ==
  [asset \in {"WETH", "stETH", "USDC", "WBTC", "PT-USDC", "SOL", "PENDLE"} |->
    CASE asset = "WETH" -> 350000  [] asset = "stETH" -> 351000   [] asset = "USDC" -> 100
      [] asset = "WBTC" -> 6500000 [] asset = "PT-USDC" -> 92     [] asset = "SOL" -> 15000
      [] asset = "PENDLE" -> 350]

\* In tenths of a cent.  What has no price is worth more than any cap.
UsdValue(asset, amount) ==
  IF asset \in DOMAIN OraclePrices /\ amount < Huge
  THEN OraclePrices[asset] * amount ELSE MaxValue + 1

\* validate_proposal, of a proposal Patriarch has accepted and whose deadline is
\* left seconds away.  A risk that is not given is not checked.  A hook is named by its role; None is the zero address too,
\* and the throttle hook's address is mined with the flags the last rule asks for.
Clears(p, left) ==
  /\ p.protocol \in AllowedProtocols
  /\ p.assetIn \in WhitelistedAssets
  /\ p.assetOut # None => p.assetOut \in WhitelistedAssets
  /\ UsdValue(p.assetIn, p.amount) <= MaxValue
  /\ p.riskBps # None => p.riskBps <= MaxRiskBps
  /\ left >= MinLeft
  /\ p.hook \in AllowedHooks
===============================================================================
