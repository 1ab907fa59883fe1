----------------------------- MODULE ThrottleHook -----------------------------
(***************************************************************************)
(* contracts/ArbiterThrottleHook.sol: the Uniswap v4 hook that spaces the  *)
(* Safe's swaps on a pool and caps what it counts of them per window.      *)
(*                                                                         *)
(* PoolManager.swap calls beforeSwap, swaps and calls afterSwap in one     *)
(* transaction, with its own caller as the sender: a swap is one step, and *)
(* one that a hook or the pool reverts is none.                            *)
(***************************************************************************)
EXTENDS Integers, Sequences

CONSTANTS
  Pool,
  Sender,       \* the addresses that call PoolManager.swap
  ArbiterSafe,  \* arbiterSafe, the sender that is throttled
  SafeRoute,    \* the address that calls PoolManager.swap for the Safe
  Cooldown,     \* cooldownSeconds
  Window,       \* windowSeconds
  Cap,          \* maxNotionalPerWindow
  UintRange,    \* 2^128: an amount is cut to uint128
  Amounts,      \* values of amountSpecified, negative for an exact input
  MaxTime,      \* bound: the last timestamp
  MaxTrades     \* bound: swaps

ASSUME ThrottleAssumption ==
  /\ SafeRoute \in Sender
  /\ Cooldown \in Nat
  /\ Window \in Nat \ {0} /\ Cap \in Nat \ {0}
  /\ UintRange \in Nat /\ Cap < UintRange
  /\ Amounts \subseteq Int
  /\ MaxTime \in Nat /\ MaxTrades \in Nat

VARIABLES
  now,                 \* block.timestamp
  lastSwapAt,          \* per pool, 0 before the first swap
  windowStartedAt,     \* per pool, 0 before the first window
  windowNotionalUsed,  \* per pool
  trades,              \* history: the swaps that were executed
  total,               \* history: all the notional that was counted on each pool
  asked                \* history: the same before amounts are cut

hookVars == <<lastSwapAt, windowStartedAt, windowNotionalUsed, total, asked>>
vars == <<now, hookVars, trades>>

\* start is the window the swap was counted in; before and after are the totals
\* of the pool, opening is the total when that window started; amount is what the
\* swap specified, asked is the pool's sum of that.
Trades == [sender : Sender, pool : Pool, at : Nat, start : Nat,
           opening : Nat, before : Nat, after : Nat, amount : Nat, asked : Nat]

Size(amount) == IF amount < 0 THEN -amount ELSE amount

\* What is counted of it: the cast to uint128 keeps the low bits.
Notional(amount) == Size(amount) % UintRange

Init ==
  /\ now = 1
  /\ lastSwapAt = [p \in Pool |-> 0]
  /\ windowStartedAt = [p \in Pool |-> 0]
  /\ windowNotionalUsed = [p \in Pool |-> 0]
  /\ trades = <<>>
  /\ total = [p \in Pool |-> 0] /\ asked = [p \in Pool |-> 0]

\* Mutant: the cooldown runs from the start of the window.
CooledFromStart(p) == windowStartedAt[p] = 0 \/ now >= windowStartedAt[p] + Cooldown

Cooled(p) == lastSwapAt[p] = 0 \/ now >= lastSwapAt[p] + Cooldown

Expired(p) == windowStartedAt[p] = 0 \/ now >= windowStartedAt[p] + Window

\* Mutant: a window that has expired is emptied, its start stays.
OpenWindowOnly(p) ==
  IF Expired(p) /\ windowStartedAt[p] = 0 THEN [start |-> now, used |-> 0]
  ELSE IF Expired(p) THEN [start |-> windowStartedAt[p], used |-> 0]
  ELSE [start |-> windowStartedAt[p], used |-> windowNotionalUsed[p]]

\* The window the swap counts in: a new one begins with the first swap after the
\* last one has expired.
OpenWindow(p) ==
  IF Expired(p) THEN [start |-> now, used |-> 0]
  ELSE [start |-> windowStartedAt[p], used |-> windowNotionalUsed[p]]

\* Mutant: each swap is held against the cap on its own.
HasRoomAlone(p, n) == n <= Cap

HasRoom(p, n) == OpenWindow(p).used + n <= Cap

\* beforeSwap and afterSwap for the Safe.
ThrottledSwap(p, amount) ==
  LET n == Notional(amount)
      a == Size(amount)
      w == OpenWindow(p)
  IN
  /\ Len(trades) < MaxTrades
  /\ Cooled(p)
  /\ HasRoom(p, n)
  /\ windowStartedAt' = [windowStartedAt EXCEPT ![p] = w.start]
  /\ windowNotionalUsed' = [windowNotionalUsed EXCEPT ![p] = w.used + n]
  /\ lastSwapAt' = [lastSwapAt EXCEPT ![p] = now]
  /\ total' = [total EXCEPT ![p] = @ + n]
  /\ asked' = [asked EXCEPT ![p] = @ + a]
  /\ trades' = Append(trades, [sender |-> ArbiterSafe, pool |-> p, at |-> now,
                               start |-> w.start, opening |-> total[p] - w.used,
                               before |-> total[p], after |-> total[p] + n,
                               amount |-> a, asked |-> asked[p] + a])
  /\ UNCHANGED now

\* Any other sender passes through both hooks.
FreeSwap(s, p) ==
  /\ s # ArbiterSafe
  /\ Len(trades) < MaxTrades
  /\ trades' = Append(trades, [sender |-> s, pool |-> p, at |-> now, start |-> 0,
                               opening |-> 0, before |-> 0, after |-> 0,
                               amount |-> 0, asked |-> 0])
  /\ UNCHANGED <<now, hookVars>>

\* The next block.
Tick ==
  /\ now < MaxTime
  /\ now' = now + 1
  /\ UNCHANGED <<hookVars, trades>>

Swap == \E p \in Pool :
  \/ ArbiterSafe \in Sender /\ \E amount \in Amounts : ThrottledSwap(p, amount)
  \/ \E s \in Sender : FreeSwap(s, p)

Next == Swap \/ Tick

Spec == Init /\ [][Next]_vars

-------------------------------------------------------------------------------
(* Properties *)

\* Types; the usage of a window stays within the cap, so it fits its uint128.
TypeOK ==
  /\ now \in Nat \ {0}
  /\ lastSwapAt \in [Pool -> Nat] /\ windowStartedAt \in [Pool -> Nat]
  /\ windowNotionalUsed \in [Pool -> 0..Cap]
  /\ total \in [Pool -> Nat] /\ asked \in [Pool -> Nat]
  /\ trades \in Seq(Trades)

\* i and j are swaps of the sender s on one pool, i before j.
InOrder(s, i, j) ==
  /\ i < j
  /\ trades[i].sender = s /\ trades[j].sender = s
  /\ trades[i].pool = trades[j].pool

\* Any two swaps of the throttled sender on one pool are Cooldown seconds apart,
\* the ones in different windows and with other pools' swaps between them too.
CooldownHolds ==
  \A i, j \in 1..Len(trades) :
    InOrder(ArbiterSafe, i, j) => trades[j].at >= trades[i].at + Cooldown

\* What the swaps from i to j, both included, have specified on their pool.
Asked(i, j) == trades[j].asked - trades[i].asked + trades[i].amount

\* None of these swaps is above the width of uint128.
Fits(i, j) ==
  \A k \in i..j :
    trades[k].sender = ArbiterSafe /\ trades[k].pool = trades[i].pool
      => trades[k].amount < UintRange

\* In any Window seconds, wherever they begin, the swaps on a pool specify at most
\* twice the cap, if each amount fits uint128: such a stretch meets at most two of the
\* windows that the hook counts by.  The contract calls its window rolling (lines 13
\* and 26), but it is one that starts afresh (lines 111-115), so that the bound is not
\* the cap itself.  An amount that does not fit is cut (lines 117 and 140) and counts
\* for little: there is no bound then, whatever line 29 says of the cap.
AtMostTwiceCap ==
  \A i, j \in 1..Len(trades) :
    /\ InOrder(ArbiterSafe, i, j)
    /\ trades[j].at < trades[i].at + Window
    /\ Fits(i, j)
    => Asked(i, j) <= 2 * Cap

\* What SECURITY.md says: the Safe's trades are Cooldown seconds apart.
SafeIsThrottled ==
  \A i, j \in 1..Len(trades) :
    InOrder(SafeRoute, i, j) => trades[j].at >= trades[i].at + Cooldown

===============================================================================
