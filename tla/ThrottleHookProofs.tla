-------------------------- MODULE ThrottleHookProofs --------------------------
(* Theorems about ThrottleHook, for every value of its constants. *)
EXTENDS ThrottleHook, TLAPS

\* What the pool p had counted before its present window.
Opening(p) == total[p] - windowNotionalUsed[p]

\* The clock never runs behind what the hook has noted.
BooksOK ==
  \A p \in Pool : /\ windowNotionalUsed[p] <= total[p]
                  /\ lastSwapAt[p] <= now /\ windowStartedAt[p] <= now

\* What a throttled swap says of itself: it lies in the window it was counted
\* in, and that window has not counted more than the cap up to it.
Sound(t) ==
  /\ t.start > 0 /\ t.start <= t.at /\ t.at < t.start + Window
  /\ t.opening <= t.before /\ t.before <= t.after /\ t.after <= t.opening + Cap

\* How it stands to the books of its pool: it belongs to the present window, or
\* to the one before, whose usage is within the cap, or it is two windows old.
Placed(t, started, opening) ==
  \/ t.start = started /\ t.opening = opening
  \/ /\ t.start + Window <= started
     /\ \/ opening <= t.opening + Cap
        \/ t.start + 2 * Window <= started

Noted(t) ==
  /\ Sound(t)
  /\ t.at <= lastSwapAt[t.pool]
  /\ Placed(t, windowStartedAt[t.pool], Opening(t.pool))

\* The same after the step, of a record of before it.
NotedNext(t) ==
  /\ Sound(t)
  /\ t.at <= lastSwapAt'[t.pool]
  /\ Placed(t, windowStartedAt'[t.pool], total'[t.pool] - windowNotionalUsed'[t.pool])

TradesNoted ==
  \A i \in 1..Len(trades) : trades[i].sender = ArbiterSafe => Noted(trades[i])

\* The throttled swaps of i's pool after the first k that fit, from the i-th on.
FitsTo(i, k) ==
  \A m \in 1..k : m > i /\ trades[m].sender = ArbiterSafe /\ trades[m].pool = trades[i].pool
                  => trades[m].amount < UintRange

\* The same after the step, of a number of before it.
FitsToNext(i, k) ==
  \A m \in 1..k : m > i /\ trades'[m].sender = ArbiterSafe /\ trades'[m].pool = trades'[i].pool
                  => trades'[m].amount < UintRange

\* An amount that fits is counted in full; while they fit, what the swaps have specified
\* runs ahead of what was counted by no more than before.
Uncut ==
  \A i \in 1..Len(trades) : trades[i].sender = ArbiterSafe =>
    /\ trades[i].amount < UintRange => trades[i].after = trades[i].before + trades[i].amount
    /\ FitsTo(i, Len(trades)) =>
         asked[trades[i].pool] - total[trades[i].pool] = trades[i].asked - trades[i].after

ThrottleInv == TypeOK /\ BooksOK /\ TradesNoted /\ Uncut /\ CooldownHolds /\ AtMostTwiceCap

\* A sequence that grows keeps what it holds.
LEMMA GrowsByOne ==
  ASSUME NEW S, NEW seq \in Seq(S), NEW e \in S
  PROVE  /\ Append(seq, e) \in Seq(S)
         /\ Len(Append(seq, e)) = Len(seq) + 1
         /\ \A n \in 1..Len(seq) : Append(seq, e)[n] = seq[n]
         /\ Append(seq, e)[Len(seq) + 1] = e
OBVIOUS

\* An amount is counted as a natural number, and in full when it fits.
LEMMA NotionalType ==
  ASSUME NEW amount \in Amounts
  PROVE  /\ Notional(amount) \in Nat /\ Size(amount) \in Nat
         /\ Size(amount) < UintRange => Notional(amount) = Size(amount)
<1>1. UintRange \in Nat \ {0} /\ amount \in Int
  BY ThrottleAssumption
<1>2. \A x \in Nat : x % UintRange \in Nat
  BY <1>1
<1>3. Size(amount) \in Nat
  BY <1>1 DEF Size
<1>4. \A x \in Nat : x < UintRange => x % UintRange = x
  BY <1>1
<1> QED
  BY <1>2, <1>3, <1>4 DEF Notional

\* The window a swap counts in: the present one, or one that begins now with
\* nothing used.
LEMMA OpenWindowCases ==
  ASSUME ThrottleInv, NEW p \in Pool
  PROVE  /\ OpenWindow(p).start \in Nat \ {0} /\ OpenWindow(p).used \in 0..Cap
         /\ OpenWindow(p).used <= total[p]
         /\ OpenWindow(p).start <= now /\ now < OpenWindow(p).start + Window
         /\ \/ /\ OpenWindow(p).start = windowStartedAt[p]
               /\ OpenWindow(p).used = windowNotionalUsed[p]
            \/ /\ OpenWindow(p).start = now /\ OpenWindow(p).used = 0
               /\ windowStartedAt[p] = 0 \/ now >= windowStartedAt[p] + Window
<1>1. /\ now \in Nat \ {0} /\ windowStartedAt[p] \in Nat /\ total[p] \in Nat
      /\ windowNotionalUsed[p] \in 0..Cap /\ windowNotionalUsed[p] <= total[p]
      /\ windowStartedAt[p] <= now
      /\ Window \in Nat \ {0} /\ Cap \in Nat
  BY ThrottleAssumption DEF ThrottleInv, TypeOK, BooksOK
<1>2. CASE Expired(p)
  BY <1>1, <1>2 DEF OpenWindow, Expired
<1>3. CASE ~Expired(p)
  BY <1>1, <1>3 DEF OpenWindow, Expired
<1> QED
  BY <1>2, <1>3

\* The record a throttled swap leaves, and the books after it.
NewTrade(p, n, a) ==
  [sender |-> ArbiterSafe, pool |-> p, at |-> now,
   start |-> OpenWindow(p).start, opening |-> total[p] - OpenWindow(p).used,
   before |-> total[p], after |-> total[p] + n,
   amount |-> a, asked |-> asked[p] + a]

\* A record with fields of their types.
LEMMA TradeType ==
  ASSUME NEW s \in Sender, NEW p \in Pool, NEW at \in Nat, NEW st \in Nat, NEW op \in Nat,
         NEW be \in Nat, NEW af \in Nat, NEW am \in Nat, NEW as \in Nat
  PROVE  [sender |-> s, pool |-> p, at |-> at, start |-> st, opening |-> op,
          before |-> be, after |-> af, amount |-> am, asked |-> as] \in Trades
BY DEF Trades

\* What a throttled swap does, with the notional it counts and the amount it is asked for.
LEMMA SwapChanges ==
  ASSUME ThrottleInv, NEW p \in Pool, NEW amount \in Amounts,
         ArbiterSafe \in Sender, ThrottledSwap(p, amount)
  PROVE  \E n, a \in Nat :
           /\ OpenWindow(p).used + n <= Cap
           /\ NewTrade(p, n, a) \in Trades /\ trades' = Append(trades, NewTrade(p, n, a))
           /\ a < UintRange => n = a
           /\ asked' = [asked EXCEPT ![p] = asked[p] + a]
           /\ windowStartedAt' = [windowStartedAt EXCEPT ![p] = OpenWindow(p).start]
           /\ windowNotionalUsed' = [windowNotionalUsed EXCEPT ![p] = OpenWindow(p).used + n]
           /\ lastSwapAt' = [lastSwapAt EXCEPT ![p] = now]
           /\ total' = [total EXCEPT ![p] = total[p] + n]
           /\ now' = now /\ Cooled(p)
<1> DEFINE n == Notional(amount)
           a == Size(amount)
<1>1. n \in Nat /\ a \in Nat /\ (a < UintRange => n = a)
  BY NotionalType
<1>2. NewTrade(p, n, a) \in Trades
  <2> HIDE DEF n, a
  <2>1. total[p] \in Nat /\ now \in Nat /\ asked[p] \in Nat
    BY DEF ThrottleInv, TypeOK
  <2>2. total[p] - OpenWindow(p).used \in Nat /\ total[p] + n \in Nat /\ asked[p] + a \in Nat
    BY <1>1, <2>1, OpenWindowCases, ThrottleAssumption
  <2>3. OpenWindow(p).start \in Nat
    BY OpenWindowCases
  <2> QED
    BY <1>1, <2>1, <2>2, <2>3, TradeType DEF NewTrade
<1> QED
  BY <1>1, <1>2 DEF ThrottledSwap, HasRoom, NewTrade

\* When a window closes, every swap counted so far is one window older.
LEMMA PlacedMoves ==
  ASSUME NEW t \in Trades, NEW started \in Nat, NEW opening \in Nat,
         NEW used \in 0..Cap, NEW clock \in Nat,
         Sound(t), Placed(t, started, opening), started + Window <= clock
  PROVE  Placed(t, clock, opening + used)
<1>1. Window \in Nat /\ Cap \in Nat /\ t.start \in Nat /\ t.opening \in Nat
  BY ThrottleAssumption DEF Trades
<1>2. CASE t.start = started /\ t.opening = opening
  BY <1>1, <1>2 DEF Placed
<1>3. CASE t.start + Window <= started
  BY <1>1, <1>3 DEF Placed
<1> QED
  BY <1>2, <1>3 DEF Placed

\* What is counted from the swap t on, when n more is counted at clock: t is in
\* the present window or in the one before, or it is Window seconds old.
LEMMA CountedBetween ==
  ASSUME NEW t \in Trades, NEW started \in Nat, NEW opening \in Nat,
         NEW used \in 0..Cap, NEW n \in 0..Cap, NEW clock \in Nat,
         Sound(t), Placed(t, started, opening),
         started <= clock, clock < t.at + Window,
         used + n <= Cap \/ started + Window <= clock
  PROVE  opening + used + n - t.before <= 2 * Cap
<1>1. /\ Window \in Nat /\ Cap \in Nat /\ t.start \in Nat /\ t.opening \in Nat
      /\ t.at \in Nat /\ t.before \in Nat
  BY ThrottleAssumption DEF Trades
<1>2. t.opening <= t.before /\ t.at < t.start + Window
  BY DEF Sound
<1>3. CASE t.start = started /\ t.opening = opening
  BY <1>1, <1>2, <1>3
<1>4. CASE t.start + Window <= started /\ opening <= t.opening + Cap
  BY <1>1, <1>2, <1>4
<1>5. CASE t.start + 2 * Window <= started
  BY <1>1, <1>2, <1>5
<1> QED
  BY <1>3, <1>4, <1>5 DEF Placed

\* The books of p, before and after the swap.
LEMMA BooksOf ==
  ASSUME ThrottleInv, NEW p \in Pool
  PROVE  /\ Opening(p) \in Nat /\ windowStartedAt[p] \in Nat /\ now \in Nat \ {0}
         /\ windowNotionalUsed[p] \in 0..Cap /\ total[p] \in Nat
         /\ total[p] = Opening(p) + windowNotionalUsed[p]
         /\ windowStartedAt[p] <= now /\ lastSwapAt[p] <= now
         /\ lastSwapAt[p] \in Nat
<1>1. Cap \in Nat
  BY ThrottleAssumption
<1> QED
  BY <1>1 DEF ThrottleInv, TypeOK, BooksOK, Opening

\* A throttled swap keeps the types and the books.
LEMMA SwapTypes ==
  ASSUME ThrottleInv, NEW p \in Pool, NEW amount \in Amounts,
         ArbiterSafe \in Sender, ThrottledSwap(p, amount)
  PROVE  TypeOK' /\ BooksOK'
<1>1. PICK n, a \in Nat :
        /\ OpenWindow(p).used + n <= Cap
        /\ NewTrade(p, n, a) \in Trades /\ trades' = Append(trades, NewTrade(p, n, a))
        /\ a < UintRange => n = a
        /\ asked' = [asked EXCEPT ![p] = asked[p] + a]
        /\ windowStartedAt' = [windowStartedAt EXCEPT ![p] = OpenWindow(p).start]
        /\ windowNotionalUsed' = [windowNotionalUsed EXCEPT ![p] = OpenWindow(p).used + n]
        /\ lastSwapAt' = [lastSwapAt EXCEPT ![p] = now]
        /\ total' = [total EXCEPT ![p] = total[p] + n]
        /\ now' = now /\ Cooled(p)
  BY SwapChanges
<1>2. /\ OpenWindow(p).start \in Nat /\ OpenWindow(p).used \in 0..Cap
      /\ OpenWindow(p).used <= total[p] /\ OpenWindow(p).start <= now
  BY OpenWindowCases
<1>3. OpenWindow(p).used + n \in 0..Cap /\ total[p] + n \in Nat
  <2>1. Cap \in Nat
    BY ThrottleAssumption
  <2>2. total[p] \in Nat
    BY BooksOf
  <2> QED
    BY <1>1, <1>2, <2>1, <2>2
<1>4. TypeOK'
  <2>1. trades' \in Seq(Trades)
    BY <1>1, GrowsByOne DEF ThrottleInv, TypeOK
  <2>2. now' \in Nat \ {0}
    BY <1>1 DEF ThrottleInv, TypeOK
  <2>3. lastSwapAt' \in [Pool -> Nat] /\ windowStartedAt' \in [Pool -> Nat]
    BY <1>1, <1>2 DEF ThrottleInv, TypeOK
  <2>4. windowNotionalUsed' \in [Pool -> 0..Cap] /\ total' \in [Pool -> Nat]
    BY <1>1, <1>3 DEF ThrottleInv, TypeOK
  <2>5. asked' \in [Pool -> Nat]
    <3>1. asked[p] + a \in Nat /\ asked \in [Pool -> Nat]
      BY <1>1 DEF ThrottleInv, TypeOK
    <3> QED
      BY <1>1, <3>1
  <2> QED
    BY <2>1, <2>2, <2>3, <2>4, <2>5 DEF TypeOK
<1>5. ASSUME NEW q \in Pool
      PROVE  /\ windowNotionalUsed'[q] <= total'[q]
             /\ lastSwapAt'[q] <= now' /\ windowStartedAt'[q] <= now'
  <2>1. CASE q = p
    <3>1. /\ windowNotionalUsed'[p] = OpenWindow(p).used + n /\ total'[p] = total[p] + n
          /\ lastSwapAt'[p] = now /\ windowStartedAt'[p] = OpenWindow(p).start /\ now' = now
      BY <1>1 DEF ThrottleInv, TypeOK
    <3>2. Cap \in Nat /\ total[p] \in Nat /\ now \in Nat
      BY BooksOf, ThrottleAssumption
    <3> QED
      BY <1>2, <2>1, <3>1, <3>2
  <2>2. CASE q # p
    BY <1>1, <2>2 DEF ThrottleInv, TypeOK, BooksOK
  <2> QED
    BY <2>1, <2>2
<1> QED
  BY <1>4, <1>5 DEF BooksOK

\* The books of the pool after the swap, by whether its window goes on.
LEMMA SwapBooks ==
  ASSUME ThrottleInv, NEW p \in Pool, NEW n \in Nat,
         OpenWindow(p).used + n <= Cap,
         windowStartedAt' = [windowStartedAt EXCEPT ![p] = OpenWindow(p).start],
         windowNotionalUsed' = [windowNotionalUsed EXCEPT ![p] = OpenWindow(p).used + n],
         total' = [total EXCEPT ![p] = total[p] + n]
  PROVE  /\ windowStartedAt'[p] = OpenWindow(p).start
         /\ Opening(p)' = total[p] - OpenWindow(p).used
         /\ \A q \in Pool \ {p} : windowStartedAt'[q] = windowStartedAt[q] /\ Opening(q)' = Opening(q)
         /\ n \in 0..Cap
<1>1. n \in 0..Cap
  BY OpenWindowCases, ThrottleAssumption
<1>2. windowNotionalUsed'[p] = OpenWindow(p).used + n /\ total'[p] = total[p] + n
  BY DEF ThrottleInv, TypeOK
<1>3. OpenWindow(p).used \in Nat /\ total[p] \in Nat
  BY OpenWindowCases, BooksOf, ThrottleAssumption
<1>4. Opening(p)' = total[p] - OpenWindow(p).used
  BY <1>2, <1>3 DEF Opening
<1> QED
  BY <1>1, <1>4 DEF ThrottleInv, TypeOK, Opening

\* A swap that was noted before stays noted, whatever becomes of the window.
LEMMA OldStaysNoted ==
  ASSUME ThrottleInv, NEW p \in Pool, NEW n \in Nat,
         OpenWindow(p).used + n <= Cap,
         windowStartedAt' = [windowStartedAt EXCEPT ![p] = OpenWindow(p).start],
         windowNotionalUsed' = [windowNotionalUsed EXCEPT ![p] = OpenWindow(p).used + n],
         total' = [total EXCEPT ![p] = total[p] + n],
         lastSwapAt' = [lastSwapAt EXCEPT ![p] = now],
         NEW t \in Trades, Noted(t)
  PROVE  NotedNext(t)
<1>1. t.pool \in Pool /\ t.at \in Nat
  BY DEF Trades
<1>2. Sound(t)
  BY DEF Noted
<1>3. t.at <= lastSwapAt'[t.pool]
  <2>1. t.at <= lastSwapAt[t.pool]
    BY DEF Noted
  <2>2. lastSwapAt'[t.pool] = (IF t.pool = p THEN now ELSE lastSwapAt[t.pool])
    BY <1>1 DEF ThrottleInv, TypeOK
  <2>3. lastSwapAt[t.pool] <= now /\ lastSwapAt[t.pool] \in Nat /\ now \in Nat
    BY <1>1, BooksOf
  <2> QED
    BY <1>1, <2>1, <2>2, <2>3
<1>4. Placed(t, windowStartedAt[t.pool], Opening(t.pool)) /\ Sound(t)
  BY DEF Noted
<1>5. CASE t.pool # p
  <2>1. Placed(t, windowStartedAt'[t.pool], total'[t.pool] - windowNotionalUsed'[t.pool])
    BY <1>1, <1>4, <1>5, SwapBooks DEF Opening
  <2> QED
    BY <1>2, <1>3, <2>1 DEF NotedNext, Opening
<1>6. CASE t.pool = p
  <2>1. windowStartedAt'[p] = OpenWindow(p).start /\ Opening(p)' = total[p] - OpenWindow(p).used
    BY SwapBooks
  <2>2. CASE OpenWindow(p).start = windowStartedAt[p] /\ OpenWindow(p).used = windowNotionalUsed[p]
    BY <1>2, <1>3, <1>4, <1>6, <2>1, <2>2 DEF NotedNext, Opening
  <2>3. CASE /\ OpenWindow(p).start = now /\ OpenWindow(p).used = 0
             /\ windowStartedAt[p] = 0 \/ now >= windowStartedAt[p] + Window
    <3>1. windowStartedAt[p] # 0
      BY <1>4, <1>6, BooksOf, ThrottleAssumption DEF Placed, Sound, Trades
    <3>2. windowStartedAt[p] + Window <= now
      BY <2>3, <3>1, BooksOf, ThrottleAssumption
    <3>3. Placed(t, now, Opening(p) + windowNotionalUsed[p])
      BY <1>4, <1>6, <3>2, BooksOf, PlacedMoves
    <3>4. windowStartedAt'[p] = now /\ Opening(p)' = Opening(p) + windowNotionalUsed[p]
      BY <2>1, <2>3, BooksOf
    <3> QED
      BY <1>2, <1>3, <1>6, <3>3, <3>4 DEF NotedNext, Opening
  <2> QED
    BY <2>2, <2>3, OpenWindowCases
<1> QED
  BY <1>5, <1>6

\* The new swap is noted in the books of its pool.
LEMMA NewIsNoted ==
  ASSUME ThrottleInv, NEW p \in Pool, NEW n \in Nat,
         OpenWindow(p).used + n <= Cap,
         windowStartedAt' = [windowStartedAt EXCEPT ![p] = OpenWindow(p).start],
         windowNotionalUsed' = [windowNotionalUsed EXCEPT ![p] = OpenWindow(p).used + n],
         total' = [total EXCEPT ![p] = total[p] + n],
         lastSwapAt' = [lastSwapAt EXCEPT ![p] = now],
         NEW a, NEW t, t = NewTrade(p, n, a)
  PROVE  NotedNext(t)
<1>1. /\ t.pool = p /\ t.at = now /\ t.start = OpenWindow(p).start
      /\ t.opening = total[p] - OpenWindow(p).used
      /\ t.before = total[p] /\ t.after = total[p] + n
  BY DEF NewTrade
<1>2. lastSwapAt'[p] = now /\ now \in Nat
  BY DEF ThrottleInv, TypeOK
<1>3. Sound(t)
  BY <1>1, OpenWindowCases, BooksOf, ThrottleAssumption DEF Sound
<1>4. windowStartedAt'[p] = t.start /\ Opening(p)' = t.opening
  BY <1>1, SwapBooks
<1> QED
  BY <1>1, <1>2, <1>3, <1>4 DEF NotedNext, Opening, Placed

\* The swap keeps its distance to every earlier one, and the cap.
LEMMA NewKeepsLimits ==
  ASSUME ThrottleInv, NEW p \in Pool, NEW n \in Nat,
         OpenWindow(p).used + n <= Cap, Cooled(p),
         NEW t \in Trades, Noted(t), t.pool = p
  PROVE  /\ now >= t.at + Cooldown
         /\ now < t.at + Window => (total[p] + n) - t.before <= 2 * Cap
<1>1. /\ t.at \in Nat /\ t.start \in Nat /\ Cooldown \in Nat /\ Window \in Nat \ {0}
      /\ Cap \in Nat /\ t.at >= t.start /\ t.start > 0
  BY ThrottleAssumption DEF Trades, Noted, Sound
<1>2. now >= t.at + Cooldown
  BY <1>1, BooksOf DEF Cooled, Noted
<1>3. ASSUME now < t.at + Window PROVE (total[p] + n) - t.before <= 2 * Cap
  <2>1. n \in 0..Cap
    BY <1>1, OpenWindowCases
  <2>2. windowStartedAt[p] # 0
    BY <1>1, BooksOf DEF Noted, Placed
  <2>3. windowNotionalUsed[p] + n <= Cap \/ windowStartedAt[p] + Window <= now
    BY <1>1, <2>2, OpenWindowCases, BooksOf
  <2>4. Opening(p) + windowNotionalUsed[p] + n - t.before <= 2 * Cap
    BY <1>3, <2>1, <2>3, BooksOf, CountedBetween DEF Noted
  <2>5. Opening(p) + windowNotionalUsed[p] = total[p] /\ t.before \in Nat
    BY BooksOf DEF Trades
  <2> QED
    BY <1>1, <2>1, <2>4, <2>5, BooksOf
<1> QED
  BY <1>2, <1>3

\* A throttled swap keeps the invariant.
LEMMA SwapStep ==
  ASSUME ThrottleInv, NEW p \in Pool, NEW amount \in Amounts,
         ArbiterSafe \in Sender, ThrottledSwap(p, amount)
  PROVE  ThrottleInv'
<1>1. PICK n, a \in Nat :
        /\ OpenWindow(p).used + n <= Cap
        /\ NewTrade(p, n, a) \in Trades /\ trades' = Append(trades, NewTrade(p, n, a))
        /\ a < UintRange => n = a
        /\ asked' = [asked EXCEPT ![p] = asked[p] + a]
        /\ windowStartedAt' = [windowStartedAt EXCEPT ![p] = OpenWindow(p).start]
        /\ windowNotionalUsed' = [windowNotionalUsed EXCEPT ![p] = OpenWindow(p).used + n]
        /\ lastSwapAt' = [lastSwapAt EXCEPT ![p] = now]
        /\ total' = [total EXCEPT ![p] = total[p] + n]
        /\ now' = now /\ Cooled(p)
  BY SwapChanges
<1> DEFINE t == NewTrade(p, n, a)
           k == Len(trades)
<1>2. /\ t.sender = ArbiterSafe /\ t.pool = p /\ t.at = now
      /\ t.before = total[p] /\ t.after = total[p] + n
      /\ t.amount = a /\ t.asked = asked[p] + a
  BY DEF NewTrade
<1>3. NotedNext(t)
  BY <1>1, NewIsNoted
<1>4. t \in Trades /\ trades \in Seq(Trades) /\ trades' = Append(trades, t)
  BY <1>1 DEF ThrottleInv, TypeOK
<1> HIDE DEF t
<1>5. /\ k \in Nat /\ Len(trades') = k + 1 /\ trades'[k + 1] = t
      /\ \A i \in 1..k : trades'[i] = trades[i] /\ trades[i] \in Trades
  BY <1>4, GrowsByOne
<1>6. ASSUME NEW i \in 1..k, trades[i].sender = ArbiterSafe PROVE Noted(trades[i])
  BY <1>6 DEF ThrottleInv, TradesNoted
<1>7. TradesNoted'
  <2>1. ASSUME NEW i \in 1..k, trades[i].sender = ArbiterSafe PROVE NotedNext(trades'[i])
    <3> DEFINE old == trades[i]
    <3>1. old \in Trades /\ Noted(old)
      BY <1>5, <1>6, <2>1
    <3>2. trades'[i] = old
      BY <1>5
    <3> HIDE DEF old
    <3> QED
      BY <1>1, <3>1, <3>2, OldStaysNoted
  <2> QED
    <3>1. ASSUME NEW i \in 1..Len(trades'), trades'[i].sender = ArbiterSafe
          PROVE  NotedNext(trades'[i])
      BY <1>3, <1>5, <2>1, <3>1
    <3> QED
      BY <3>1 DEF TradesNoted, Noted, NotedNext, Opening
<1>8. ASSUME NEW i \in 1..k, trades[i].sender = ArbiterSafe, trades[i].pool = p
      PROVE  /\ now >= trades[i].at + Cooldown
             /\ now < trades[i].at + Window => (total[p] + n) - trades[i].before <= 2 * Cap
  BY <1>1, <1>5, <1>6, <1>8, NewKeepsLimits
<1>9. /\ asked'[p] = asked[p] + a /\ total'[p] = total[p] + n
      /\ \A q \in Pool \ {p} : asked'[q] = asked[q] /\ total'[q] = total[q]
      /\ asked[p] \in Nat /\ total[p] \in Nat
  BY <1>1 DEF ThrottleInv, TypeOK
<1>10. Uncut'
  <2> SUFFICES ASSUME NEW i \in 1..(k + 1), trades'[i].sender = ArbiterSafe
               PROVE  LET o == trades'[i]
                      IN  /\ o.amount < UintRange => o.after = o.before + o.amount
                          /\ FitsToNext(i, k + 1) => asked'[o.pool] - total'[o.pool] = o.asked - o.after
    BY <1>5 DEF Uncut, FitsTo, FitsToNext
  <2>1. CASE i = k + 1
    <3>1. trades'[i] = t
      BY <1>5, <2>1
    <3>2. asked'[p] - total'[p] = t.asked - t.after
      BY <1>2, <1>9
    <3>3. t.amount < UintRange => t.after = t.before + t.amount
      BY <1>1, <1>2
    <3> QED
      BY <1>2, <3>1, <3>2, <3>3
  <2>2. CASE i \in 1..k
    <3> DEFINE o == trades[i]
    <3>1. trades'[i] = o /\ o.sender = ArbiterSafe /\ o \in Trades
      BY <1>5, <2>2
    <3>2. /\ o.amount < UintRange => o.after = o.before + o.amount
          /\ FitsTo(i, k) => asked[o.pool] - total[o.pool] = o.asked - o.after
      BY <2>2, <3>1 DEF ThrottleInv, Uncut
    <3>3. ASSUME FitsToNext(i, k + 1) PROVE FitsTo(i, k) /\ (o.pool = p => a < UintRange)
      <4>1. \A m \in 1..(k + 1) : m > i /\ trades'[m].sender = ArbiterSafe /\ trades'[m].pool = o.pool
                                   => trades'[m].amount < UintRange
        BY <3>1, <3>3 DEF FitsToNext
      <4>2. FitsTo(i, k)
        <5>1. \A m \in 1..k : m \in 1..(k + 1) /\ trades'[m] = trades[m]
          BY <1>5
        <5> QED
          BY <4>1, <5>1 DEF FitsTo
      <4>3. k + 1 \in 1..(k + 1) /\ k + 1 > i
        BY <1>5, <2>2
      <4> QED
        BY <1>2, <1>5, <4>1, <4>2, <4>3
    <3>4. o.pool \in Pool /\ o.asked \in Nat /\ o.after \in Nat
      BY <3>1 DEF Trades
    <3> HIDE DEF o
    <3>5. ASSUME FitsToNext(i, k + 1) PROVE asked'[o.pool] - total'[o.pool] = o.asked - o.after
      <4>1. CASE o.pool = p
        <5>1. n = a /\ asked[p] - total[p] = o.asked - o.after
          BY <1>1, <3>2, <3>3, <3>5, <4>1
        <5>2. (asked[p] + a) - (total[p] + a) = asked[p] - total[p]
          BY <1>1, <1>9
        <5> QED
          BY <1>9, <4>1, <5>1, <5>2
      <4>2. CASE o.pool # p
        BY <1>9, <3>2, <3>3, <3>4, <3>5, <4>2
      <4> QED
        BY <4>1, <4>2
    <3> QED
      BY <3>1, <3>2, <3>5
  <2> QED
    BY <1>5, <2>1, <2>2
<1>11. ASSUME NEW i \in 1..Len(trades'), NEW j \in 1..Len(trades'), InOrder(ArbiterSafe, i, j)'
       PROVE  /\ trades'[j].at >= trades'[i].at + Cooldown
              /\ trades'[j].at < trades'[i].at + Window /\ Fits(i, j)' => Asked(i, j)' <= 2 * Cap
  <2>1. i \in 1..k /\ (j \in 1..k \/ j = k + 1)
    BY <1>5, <1>11 DEF InOrder
  <2>2. CASE j \in 1..k
    <3>1. InOrder(ArbiterSafe, i, j)
      BY <1>5, <1>11, <2>1, <2>2 DEF InOrder
    <3>2. Asked(i, j)' = Asked(i, j)
      BY <1>5, <2>1, <2>2 DEF Asked
    <3>3. Fits(i, j)' => Fits(i, j)
      <4>1. \A m \in i..j : trades'[m] = trades[m]
        BY <1>5, <2>1, <2>2
      <4> QED
        BY <1>5, <2>1, <4>1 DEF Fits
    <3> QED
      BY <1>5, <2>1, <2>2, <3>1, <3>2, <3>3 DEF ThrottleInv, CooldownHolds, AtMostTwiceCap
  <2>3. CASE j = k + 1
    <3> DEFINE o == trades[i]
    <3>1. o.sender = ArbiterSafe /\ o.pool = p
      BY <1>2, <1>5, <1>11, <2>1, <2>3 DEF InOrder
    <3>2. trades'[j] = t /\ trades'[i] = o /\ o \in Trades
      BY <1>5, <2>1, <2>3
    <3>3. /\ now >= o.at + Cooldown
          /\ now < o.at + Window => (total[p] + n) - o.before <= 2 * Cap
      BY <1>8, <2>1, <3>1
    <3>4. ASSUME Fits(i, j)' PROVE Asked(i, j)' = (total[p] + n) - o.before
      <4>1. \A m \in i..(k + 1) : trades'[m].sender = ArbiterSafe /\ trades'[m].pool = p
                                   => trades'[m].amount < UintRange
        BY <2>3, <3>1, <3>2, <3>4 DEF Fits
      <4>2. /\ i \in i..(k + 1) /\ k + 1 \in i..(k + 1)
            /\ \A m \in 1..(k + 1) : m > i => m \in i..(k + 1)
        BY <1>5, <2>1
      <4>3. o.amount < UintRange /\ a < UintRange
        BY <1>2, <1>5, <3>1, <3>2, <4>1, <4>2
      <4>4. FitsToNext(i, k + 1)
        BY <3>1, <3>2, <4>1, <4>2 DEF FitsToNext
      <4>5. /\ o.after = o.before + o.amount
            /\ asked'[p] - total'[p] = o.asked - o.after
        <5>1. i \in 1..Len(trades') /\ FitsTo(i, Len(trades))'
          BY <1>5, <2>1, <4>4 DEF FitsTo, FitsToNext
        <5> QED
          BY <1>10, <3>1, <3>2, <4>3, <5>1 DEF Uncut
      <4>6. o.after \in Nat /\ o.before \in Nat /\ o.amount \in Nat /\ o.asked \in Nat
        BY <3>2 DEF Trades
      <4>7. Asked(i, j)' = ((asked[p] + a) - o.asked) + o.amount
        <5>1. Asked(i, j)' = trades'[j].asked - trades'[i].asked + trades'[i].amount
          BY DEF Asked
        <5> HIDE DEF o
        <5> QED
          BY <1>2, <3>2, <5>1
      <4> HIDE DEF o
      <4>8. n = a
        BY <1>1, <4>3
      <4>9. asked[p] \in Nat /\ total[p] \in Nat /\ (asked[p] + a) - (total[p] + a) = o.asked - o.after
        BY <1>9, <4>5, <4>8
      <4>10. PICK u, v, w, x, y, z \in Nat :
               /\ u = asked[p] /\ v = total[p] /\ w = o.before
               /\ x = o.asked /\ y = o.after /\ z = o.amount
        BY <4>6, <4>9
      <4>11. ((u + a) - x) + z = (v + a) - w
        <5>1. (u + a) - (v + a) = x - y /\ y = w + z
          BY <4>5, <4>9, <4>10
        <5> QED
          BY <1>1, <5>1
      <4> QED
        BY <4>7, <4>8, <4>10, <4>11
    <3>5. trades'[j].at = now
      BY <1>2, <3>2
    <3> QED
      BY <3>2, <3>3, <3>4, <3>5
  <2> QED
    BY <2>1, <2>2, <2>3
<1> QED
  BY <1>7, <1>10, <1>11, SwapTypes DEF ThrottleInv, CooldownHolds, AtMostTwiceCap

\* A swap of another sender keeps the invariant: it changes no books.
LEMMA FreeStep ==
  ASSUME ThrottleInv, NEW s \in Sender, NEW p \in Pool, FreeSwap(s, p)
  PROVE  ThrottleInv'
<1> DEFINE t == [sender |-> s, pool |-> p, at |-> now, start |-> 0,
                 opening |-> 0, before |-> 0, after |-> 0, amount |-> 0, asked |-> 0]
           k == Len(trades)
<1>1. t \in Trades /\ trades \in Seq(Trades) /\ trades' = Append(trades, t)
  BY DEF FreeSwap, ThrottleInv, TypeOK, Trades
<1>2. t.sender # ArbiterSafe
  BY DEF FreeSwap
<1> HIDE DEF t
<1>3. /\ k \in Nat /\ Len(trades') = k + 1 /\ trades'[k + 1] = t /\ trades' \in Seq(Trades)
      /\ \A i \in 1..k : trades'[i] = trades[i]
  BY <1>1, GrowsByOne
<1>4. UNCHANGED <<now, lastSwapAt, windowStartedAt, windowNotionalUsed, total, asked>>
  BY DEF FreeSwap, hookVars
<1>5. TypeOK' /\ BooksOK'
  BY <1>3, <1>4 DEF ThrottleInv, TypeOK, BooksOK
<1>6. TradesNoted'
  <2>1. ASSUME NEW i \in 1..k, trades[i].sender = ArbiterSafe PROVE NotedNext(trades'[i])
    BY <1>3, <1>4, <2>1 DEF ThrottleInv, TradesNoted, Noted, NotedNext, Opening
  <2> QED
    <3>1. ASSUME NEW i \in 1..Len(trades'), trades'[i].sender = ArbiterSafe
          PROVE  NotedNext(trades'[i])
      BY <1>2, <1>3, <2>1, <3>1
    <3> QED
      BY <3>1 DEF TradesNoted, Noted, NotedNext, Opening
<1>7. ASSUME NEW i \in 1..Len(trades'), NEW j \in 1..Len(trades'), InOrder(ArbiterSafe, i, j)'
      PROVE  /\ i \in 1..k /\ j \in 1..k /\ InOrder(ArbiterSafe, i, j)
             /\ trades'[i] = trades[i] /\ trades'[j] = trades[j]
             /\ Asked(i, j)' = Asked(i, j) /\ (Fits(i, j)' => Fits(i, j))
  <2>1. i \in 1..k /\ j \in 1..k
    BY <1>2, <1>3, <1>7 DEF InOrder
  <2>2. \A m \in i..j : trades'[m] = trades[m]
    BY <1>3, <2>1
  <2>3. trades'[i] = trades[i] /\ trades'[j] = trades[j]
    BY <1>3, <2>1
  <2>4. Fits(i, j)' => Fits(i, j)
    BY <2>2, <2>3 DEF Fits
  <2> QED
    BY <1>7, <2>1, <2>3, <2>4 DEF InOrder, Asked
<1>8. Uncut'
  <2> SUFFICES ASSUME NEW i \in 1..(k + 1), trades'[i].sender = ArbiterSafe
               PROVE  LET o == trades'[i]
                      IN  /\ o.amount < UintRange => o.after = o.before + o.amount
                          /\ FitsToNext(i, k + 1) => asked[o.pool] - total[o.pool] = o.asked - o.after
    BY <1>3, <1>4 DEF Uncut, FitsTo, FitsToNext
  <2>1. i \in 1..k /\ trades'[i] = trades[i]
    BY <1>2, <1>3
  <2>2. FitsToNext(i, k + 1) => FitsTo(i, k)
    <3>1. \A m \in 1..k : m \in 1..(k + 1) /\ trades'[m] = trades[m]
      BY <1>3
    <3> QED
      BY <2>1, <3>1 DEF FitsTo, FitsToNext
  <2> QED
    BY <2>1, <2>2 DEF ThrottleInv, Uncut
<1> QED
  BY <1>5, <1>6, <1>7, <1>8 DEF ThrottleInv, CooldownHolds, AtMostTwiceCap

\* Time passes: every limit is about times already noted.
LEMMA TickStep == ThrottleInv /\ (Tick \/ UNCHANGED vars) => ThrottleInv'
<1> SUFFICES ASSUME ThrottleInv, Tick \/ UNCHANGED vars PROVE ThrottleInv'
  OBVIOUS
<1>1. /\ UNCHANGED <<lastSwapAt, windowStartedAt, windowNotionalUsed, total, asked, trades>>
      /\ now' \in {now, now + 1}
  BY DEF Tick, vars, hookVars
<1>2. TypeOK' /\ BooksOK'
  BY <1>1 DEF ThrottleInv, TypeOK, BooksOK
<1>3. TradesNoted'
  BY <1>1 DEF ThrottleInv, TradesNoted, Noted, Sound, Placed, Opening
<1>4. CooldownHolds' /\ AtMostTwiceCap'
  BY <1>1 DEF ThrottleInv, CooldownHolds, AtMostTwiceCap, InOrder, Asked, Fits
<1>5. Uncut'
  BY <1>1 DEF ThrottleInv, Uncut, FitsTo
<1> QED
  BY <1>2, <1>3, <1>4, <1>5 DEF ThrottleInv

\* The inductive invariant holds in every behaviour.
LEMMA ThrottleInvariance == Spec => []ThrottleInv
<1>1. Init => ThrottleInv
  BY ThrottleAssumption
     DEF Init, ThrottleInv, TypeOK, BooksOK, TradesNoted, Uncut, CooldownHolds,
         AtMostTwiceCap, InOrder
<1>2. ThrottleInv /\ [Next]_vars => ThrottleInv'
  BY SwapStep, FreeStep, TickStep DEF Next, Swap
<1> QED
  BY <1>1, <1>2, PTL DEF Spec

\* Every variable keeps its type, and no window counts more than the cap.
THEOREM ThrottleTypeCorrect == Spec => []TypeOK
<1>1. ThrottleInv => TypeOK
  BY DEF ThrottleInv
<1> QED
  BY <1>1, ThrottleInvariance, PTL

\* For every cooldown, window and cap, and any traffic of others, the throttled
\* sender's swaps on a pool are Cooldown seconds apart.
THEOREM CooldownIsKept == Spec => []CooldownHolds
<1>1. ThrottleInv => CooldownHolds
  BY DEF ThrottleInv
<1> QED
  BY <1>1, ThrottleInvariance, PTL

\* In any Window seconds, and not only in the windows the hook counts by, the throttled
\* swaps on a pool specify at most twice the cap, as long as each amount fits uint128.
THEOREM TwiceCapIsKept == Spec => []AtMostTwiceCap
<1>1. ThrottleInv => AtMostTwiceCap
  BY DEF ThrottleInv
<1> QED
  BY <1>1, ThrottleInvariance, PTL

===============================================================================
