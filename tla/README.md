# Arbiter Capital in TLA+

This directory specifies the parts of Arbiter Capital that move money or that
others rely on for evidence, checks them with TLC on small instances, and proves
their safety properties with TLAPS for every value of the constants. The
Python and Solidity under `src/` is the reference: every definition is translated
from it, and `PROJECT.json` gives the lines each one stands for. Where the
documents say something else than the code does, a run shows it.

## The system

Three daemons and an injector, each a process of its own, talk over a bus of
topics (SQLite in the default mode), and share a storage directory and a Safe.

| Component | State | Operations | Talks to |
|---|---|---|---|
| Market injector (`apps/market_injector.py`, `core/market_god.py`) | none | wipe the bus, publish market data | bus: MARKET_DATA |
| Quant, Node A (`apps/quant_process.py`, `agents/quant.py`) | two cursors, `proposal_history` | analyze, draft (LLM), sign, publish snapshot, proposal and signature; revise what was rejected, three rounds at most | reads the Safe nonce; bus: MARKET_SNAPSHOTS, PROPOSALS, CONSENSUS_SIGNATURES; reads PROPOSAL_EVALUATIONS |
| Patriarch, Node B (`apps/patriarch_process.py`, `agents/patriarch.py`) | two cursors, `snapshot_cache` | check signatures, recompute, evaluate (LLM), simulate twice, firewall, clear, sign, save the decision, tell Quant | reads MARKET_SNAPSHOTS, PROPOSALS; bus: FIREWALL_CLEARED, CONSENSUS_SIGNATURES, PROPOSAL_EVALUATIONS, ATTACK_REJECTED; receipt log |
| Execution Node, P3 (`apps/execution_process.py`) | two cursors, `pending_proposals` | collect signatures and clearances, check the threshold and the ledger, execute, mark, archive, mint, publish | reads CONSENSUS_SIGNATURES, FIREWALL_CLEARED; ledger, Safe, receipt log; bus: EXECUTION_SUCCESS, EXECUTION_FAILURE |
| DedupeLedger (`core/dedupe.py`) | a table keyed by Safe and nonce | `already_executed`, `mark` (INSERT OR REPLACE) | called by P3 |
| SafeTreasury (`execution/safe_treasury.py`, `execution/uniswap_v4/`) | in MOCK mode a nonce file; in LIVE mode the Safe on chain | read the nonce, hash a transaction, execute with signatures | called by Quant and P3 |
| Receipt log (`memory/`) | receipts by hash, a head file, its temporary file | `write_artifact`: read the head, store, replace the head | called by all three daemons, with no lock |
| Audit walks (`apps/verify_audit.py`, `monitor/public_verifier/verifier.html`) | none | walk `prev_0g_tx_hash` from the head, or from a hash that is given, and check hashes and signatures | read the receipt log and 0G |
| Throttle hook (`contracts/ArbiterThrottleHook.sol`) | per pool: last swap, window start, usage | `beforeSwap`, `afterSwap` | called by PoolManager |
| Bus (`core/network.py`) | a table with a row per message; per live node an AXL queue and an inbox | publish to peers and table, drain in the background, subscribe, clear | all |
| Analysis (`agents/quant.py`: `calculate_optimal_rotation`) | none | what to do about a market message | called by Quant, and again by Patriarch |
| Firewall (`execution/firewall.py`), simulation (`execution/keeper_hub.py`) | none | a verdict on a proposal | called by Patriarch |
| Byzantine watchdog (`apps/byzantine_watchdog.py`) | none | fire six messages with a fault, in order or at random | bus: PROPOSALS, CONSENSUS_SIGNATURES and a topic nobody reads |
| Demonstration (`scripts/demo_run.py`, `scripts/start_all.py`) | the number of rows when it counted | run the injector and the watchdog, wait until there are more rows than before | reads EXECUTION_SUCCESS, ATTACK_REJECTED in the table |
| Dashboard (`monitor/public_verifier/server.py`) | none | fold the rows of a proposal into a status | reads the table and the receipt log |
| Soulbound receipt (`contracts/ArbiterReceipt.sol`), other monitors, deployment | | | |

What is hard here is not one of these parts but the space between them:

* **Crashes.** Cursors, slots, snapshots and negotiations are in memory only. A
  restarted daemon reads the bus from its first message and meets its own past.
  `core/persistence.py` has a cursor store, but no daemon uses it.
* **Steps that are not atomic.** P3 executes, then marks its ledger, then archives,
  then publishes; Patriarch clears, then signs a second later; a receipt is stored,
  then the head is replaced. A process may die, or a call may raise, between any two.
* **Stale data.** A proposal is signed for the nonce and the Permit2 state that
  Quant read; both may have changed when P3 executes. Ids come from an LLM and may
  repeat. A transaction whose wait timed out may still be mined.
* **Order.** Signatures and clearances arrive in any order, twice, or after their
  slot is gone. Patriarch drains snapshots before proposals, and the two may be
  published between the drains. The injector wipes what nobody has read yet.
* **Sharing.** Three processes advance one head file through one temporary file, and
  walks read it meanwhile.
* **Counting.** The demonstration tells success from failure by counting rows of a
  table that its own injector wipes and that other consoles write to.

`PROJECT.json` lists these as hazards, at their lines, with the properties that
would catch them going wrong.

What makes each component correct:

* *Settlement*: nothing executes that was not cleared and signed by enough owners;
  a nonce is used once, by what was signed for it; the ledger tells the truth; what
  is announced has happened; what is complete is answered.
* *Receipt log*: a walk from the head finds every receipt; the log only grows, and
  loses nothing, when writes do not overlap.
* *Audit walks*: what is called verified is the whole chain, down to the anchor if one
  is named; writers keep no walk from a chain to walk, unless their writes overlap.
* *Analysis and firewall*: what is cleared is worth less than the cap; no emergency is
  cleared at the score the analysis gives it.
* *Demonstration*: a tick means that something has been settled since the count, a
  cross that nothing has; a passed drill that six messages were rejected, whoever
  sent them. The code falls short of some of this, and the properties say how far.
* *Dashboard*: it shows what happened to the proposal.
* *Throttle hook*: swaps of the throttled sender keep their distance, and what they
  specify in a time is bounded, as long as each amount fits.
* *Negotiation*: one market event leads to three proposals and one clearance at
  most; the daemons publish what P3 assumes of them; every proposal is answered.

## Modules

| Module | Stands for |
|---|---|
| `Treasury` | The promise: Safe nonces are consumed one by one, each by a transaction that enough owners signed for that very nonce. |
| `Settlement` | P3, the ledger, the treasury in both modes, the Safe and the chain. Implements `Treasury`. |
| `SettlementProofs` | Theorems about `Settlement`. |
| `AuditLog` | The promise: a list that only grows. |
| `HeadLog` | The promise to a reader: a list that grows as long as writes do not cross, and what may become of it when they do. |
| `AuditChain` | The receipt log with any number of unlocked writers. Implements `HeadLog`, and `AuditLog` when there is one writer. |
| `AuditWalk`, `AuditWalkProofs` | The two walks, over `HeadLog`; an `AuditLog` while no writes overlap. Theorems about it. |
| `AuditSystem` | The composition of the two: the walks over the files `AuditChain` writes. |
| `AuditChainProofs` | Theorems about `AuditChain` and `AuditSystem`. |
| `ThrottleHook`, `ThrottleHookProofs` | The hook, and theorems about it. |
| `Negotiation`, `NegotiationProofs` | Injector, Quant and Patriarch. Implements the publishers' part of `Settlement`. Theorems about it. |
| `Topic` | The promise of a topic: every row once and in order, per start of the reader, except what was wiped. |
| `Bus`, `BusProofs` | `MockAXLNode` and the loop that reads it. Implements `Topic` for nodes that read the table. Theorems about it. |
| `Policy` | Scenarios, analysis, what becomes of the LLM's answer, and the firewall: pure functions. |
| `Dashboard` | The status the dashboard makes of a proposal's rows: a pure function. |
| `Demo` | The demonstration, the menu, the watchdog and the daemons' fault-free course, over `Policy` and `Dashboard`. |
| `DemoProofs` | Theorems about `Demo`, `Policy` and `Dashboard`. |
| `Arbiter`, `ArbiterProofs` | The composition of `Negotiation` and `Settlement`: the three daemons from the market message to the Safe. Theorems about it. |
| `MCSettlement`, `MCBus`, `MCAuditChain`, `MCAuditWalk`, `MCThrottleHook`, `MCNegotiation`, `MCDemo` | Small instances for TLC. |

`Negotiation` and `Settlement` are composed through the topics they share:
`Negotiation` has an instance of `Settlement` in which `clearedLog` and `sigLog` are
its own topics, and `PublishesAsAssumed` says that each of its steps is, for that
instance, a step of `Settlement!Publishers` or none. What P3 may rely on is so
checked against what the other two really do. `Arbiter` is the whole: both state
machines at once.

### Settlement

`pc` is P3's place in its loop (`run_execution_daemon`), `cur` the slot it is
settling. The drains are one step each: a drain reads what is on the topic at one
moment and then only touches memory. A settlement is cut into one step for each
effect that another process or a restart can see: the send or the mock execution,
the wait, the mark, the artifact, the mint, the publication, and on the other path
the failure message and its artifact. `DaemonError` is an exception that reaches the
loop's handler, `Crash` a restart.

*The chain.* `executed` is what the Safe has executed, and its length the Safe's
nonce: this is also the mock nonce file, which only `execute_with_signatures`
changes. In LIVE mode P3 appends to `txs` and waits; `MineTx` mines in the order of
the executor's account nonce, the Safe recomputes the hash from the calldata it is
given and its own nonce, and what it accepts may still revert. A wait may time out
while its transaction stays (`AwaitTimeout`). In MOCK mode nothing but P3 checks.

*The hash.* `TxHash` is a record of what the hash binds: the swap, the Permit2 state
that shapes the calldata, and the nonce. `generate_calldata` runs once when Quant
signs and again when P3 executes; `permit` is what may change between the two
(the allowance, and with it whether a permit command is in the calldata). A
signature is valid for exactly one hash; elliptic curves are not modelled.

*The publishers.* `QuantPropose` reads the nonce and the Permit2 state; its
signature, the clearance and Patriarch's signature are later messages, and
Patriarch's may come twice. That CONSENSUS_THRESHOLD is the threshold of the Safe is
assumed, as the code assumes it.

### Bus

A node is live when its `AXL_NODE_URL_*` is set. `live` is chosen at the start, node
by node, because the code decides it node by node. `Publish`, `Send` and `WriteToDb`
are one publication: the peers in the order of AXL_PEER_KEYS, each of which may fail
with no effect but a log line, then the table, which may raise (`WriteFails`) when the
peers have the message already. `Recv` is the drain thread, between any two steps of
the main thread; it mirrors what it gets into the table. `Subscribe` pops the inbox of
a live node and selects past the cursor for another one. `Handle` moves the cursor,
then runs the handler, and a handler that raises takes the rest of the batch with it
(`Abandon`): a reader of the table fetches it again, a live node has lost it. Ids are
never reused (AUTOINCREMENT), so that `wiped` is an id. AXL nodes themselves are not
in the repository: a queue per node that may lose and reorder, and does not repeat.

`Settlement` and `Negotiation` read topics as `Topic` promises them. That is what a
deployment without AXL has; with live nodes the promise is weaker, and
`InboxIsHandled` and `AtMostOnce` say what is left of it.

### AuditChain

A write is `ReadHead`, `Store`, `OpenTmp`, `WriteTmp`, `Replace`. Files are inodes:
a name can be moved to another inode, and a process keeps writing to the one it has
opened. That matters, because all writers use the name `audit_chain_head.tmp`: one
may truncate a file another is about to rename, or find it renamed already
(`ReplaceFails`). A file that holds no JSON is 0; `AuditChainHead()` raises on one,
so that writers stop. A receipt is its number; the hash is its identity.

`HeadLog` is what that amounts to for somebody who only reads: a write is `Begin`,
`Keep`, `Handle`, `Advance` (or `Abandon`), and `crossed` says which writers have had another's hands on their
files. A write nobody has crossed leaves its own receipt as the head; one that was
crossed may leave any receipt, an unreadable file, or fail. `ImplementsHeadLog` checks
it with the files in place.

### AuditWalk

`verify_audit.py` starts at the head (`ReadWalkHead`) or at a hash it is given
(`GivenHead`); the page starts at `/api/head`, or fails if it cannot reach it
(`HeadOutOfReach`). Each fetch is a step (`Visit`, `FetchFails`, `WaitTimesOut`), with
writes between any two. A fetch may fail at any receipt: both walks catch every
exception, so that the reason makes no difference. `Lose` deletes a local copy, any of
them and in any order: `0g_storage` is not under version control, the head may outlive
it. `prefixed` says whether the hash has its `0x`: `HexBytes.hex()` of the pinned version writes
none, so that a hash taken from the log is a file name and no transaction, and only
one that is given by hand waits for 0G's confirmations. The page stops after
`PageLimit` receipts and finds a different hash for some numbers (`allOk`); the other
walk takes a receipt it cannot fetch, unless it is the first, for the anchor of the
chain and says CHAIN VERIFIED. What that verdict covers is the part above the anchor
(`VerifiedIsWhole`); what is below may be in storage still.

`AuditSystem` puts the two together: the daemons take the steps of `AuditChain`, the
walk those of `AuditWalk`, over what `AuditChain!H` shows of the files. No run needs to
check it: that it implements `AuditWalk` is a theorem, and what holds of the walks over
`HeadLog` holds of them over the files.

### ThrottleHook

PoolManager calls `beforeSwap`, swaps and calls `afterSwap` in one transaction, so a
swap is one step, and one that reverts is none. Time passes between steps (`Tick`).
Amounts are cut to the width of `uint128` (`UintRange`), as the contract casts them.
`trades`, `total` and `asked` are history: `total` sums what is counted on a pool, `asked`
what was specified, before the cut. Properties are about the latter.

### Negotiation

Each daemon is its loop: drain, handle one message after the other, drain, and so
on. A message's handling is cut at every publication. The answers of the LLM, the
simulation and the firewall are arbitrary. `QuantError` and `PatriarchError` are
exceptions that reach a loop's handler: the cursor has already passed the message,
so what was not published will not be. `QuantCrash` and `PatriarchCrash` are
restarts with nothing remembered. A payload that Patriarch cannot validate
(`patriarch_process.py:90-94`) is passed over with a log line, and is no message of the
model; nor is the empty review of lines 191-193, which `agents/patriarch.py` never
returns. `event` in a proposal is history: the market
message it goes back to. `Wipe` and `Inject` are the injector's two calls.

### Arbiter

`Arbiter` runs Quant and Patriarch as `Negotiation` has them, and P3 as `Settlement` has
it, on the same topics. What `Negotiation` leaves out of a proposal is put back:
`QuantDrafts` is `sign_proposal`, which reads the nonce of the Safe and the Permit2 state
when it drafts. The two (`held`, `terms`, `sigTerms`) travel with the proposal, its
clearance and both signatures, so that what is signed may be out of date when P3 executes
it. Forged proposals carry other terms. Publications by Quant and Patriarch interleave
with every step of P3, and any of the three may fail or restart. No run checks it: at
bounds where something happens on both sides the states are too many for TLC. A small
instance (two proposals, one fault of P3) was explored while the theorems were written;
what the project says of `Arbiter` is proved.

### Policy and Dashboard

`Policy` keeps the numbers of the code in units of its own (dollars, tenths of a
percent, tenths of a token), so that its comparisons are those of the code.
`Rotation` is the first of `calculate_optimal_rotation`'s rules that holds; `Draft` is
what `Proposal._populate` and `capture_llm_context_node` make of an answer, whose fields
are all the LLM's own: the risk too, which may be given as a score, in basis points, or
not at all (`RiskBps`); `Clears` is `validate_proposal`, which checks a risk only when
there is one. An amount in base units means different amounts in different
tokens (`Tokens`), which is how 10**18 becomes too much USDC.

`Dashboard!Status` is the fold of `/api/dashboard` over the rows newer than the last
PROPOSALS row. `DashboardAgrees` in `Demo` compares it with what the daemons did, in
whatever order their rows arrive, and counts the signatures that nobody checks.

### Demo

`script` is the console that runs: `demo_run.py` with its seven steps (`Plan`), or the
menu of `start_all.py`. A step counts (`Baseline`), injects (`InjectStep`, which wipes
the table and then publishes), and waits until there is a row more than it counted
(`SuccessSeen`) or gives up (`SuccessNotSeen`); the drill starts the watchdog and waits
for six rejections. The menu injects first and counts afterwards. The daemons are those
of `Negotiation` and `Settlement`, cut to the rows the scripts and the dashboard read,
but with the scenarios, the analysis and the firewall in place: what `Negotiation`
leaves arbitrary is computed here. `fresh`, `others` and `wiped` are history: what has
really happened since the count. `InjectByHand` is somebody at another console, and
`RejectsOther` the watchdog that `start_all.py` leaves running.

## Runs

| Run | Question | Instance |
|---|---|---|
| `settlement_live` | Does P3 with a real Safe do what the treasury promises, is the ledger true, is a published success backed, and a published REVERT final? | Two proposals that may share id, nonce and hash, one crash or exception, one timed out wait |
| `settlement_mock` | When P3's own checks are all there is, do the owners consent to what executes, at the nonce they signed? | Two proposals, ids may repeat, one wipe of the bus |
| `settlement_restart` | Is a complete proposal answered in the end? | One proposal, three signatures, two clearances, two crashes or exceptions, one timed out wait, one change of the Permit2 state, one ten-minute pause; fairness |
| `audit_writers` | Does a walk find everything, do only overlapping writes fork, and may a reader take the files for `HeadLog`? | Three writers, four receipts, one crash |
| `audit_walk` | Is what is called verified the chain, down to an anchor that is named, do writers keep no walk from a chain, and is the log append-only while writes do not overlap? | Two writers, three receipts, a page limit of two; any fetch may fail, any copy be deleted |
| `hook` | Do cooldown and twice the cap hold, of what swaps specify? | Two pools, four swaps in eight seconds, window 3, cap 4, width 8, five amounts |
| `negotiation` | One clearance for an event? One missed snapshot? Do the two publish what Settlement assumes? | One event, four proposals of which one unsigned, one exception |
| `negotiation_restart` | Is every proposal answered? | Two proposals, one restart of either daemon at any step; fairness |
| `bus` | Is the table the topic others take it for? Is every row and every message in an inbox taken up, and none too often? | An injector, a reader and a peer, each live or not; two messages, one restart, any number of wipes and raised exceptions; fairness |
| `demo` | What do ticks, crosses and a passed drill mean, what does the firewall do about the scenarios, and does the dashboard agree? | One id, seven answers, two deadlines, two interventions from outside |
| `finding_replay` | "Replay ... does not double-execute"? | MOCK mode, one proposal, one crash |
| `finding_route` | The Safe's trades are throttled? | One pool, two swaps by the router |

**Bounds.** Each counter that would grow is bounded in the guard of the action that
moves it, and each bound is a constant. Two proposals are what it takes to compete
for a nonce, to share an id or to overwrite a slot; a third only repeats this. Two
owners with a threshold of two are the configuration of the deployment. One crash
reaches every pair of adjacent steps; two in `settlement_restart` add a crash during
the recovery from the first. In `settlement_live` Permit2 does not change and no
signature ages (`MaxPermits` and `MaxStale` are 0): both happen in `settlement_restart`,
and that the promise to the treasury and a REVERT survive them is proved
(`SettlementImplementsTreasury`, `RevertsAreFinal`), not checked by a run. Three writers are all there are. In the hook's run the
cooldown is shorter than the window and the window shorter than the time, so that
three windows fit and two swaps fit into each; the amounts are an exact input and an
exact output, zero, one above the cap and one above the width. Four proposals in `negotiation` let a fourth round
happen if the code allowed it. Two messages make six rows in `bus` when both peers
mirror them, and a batch of two is enough for an exception to take one along. In
`audit_walk` copies are deleted in any order, down to none; a limit of two under three receipts makes the page stop early, and two
writers suffice for an overlap (`audit_writers` has the third). In `demo` the two
interventions are a second injection, a rejection by another watchdog, or one of each;
one id suffices because the scripts count rows and not ids (two ids with one
intervention were tried as well). The answers are one with
the score of a swap, one that exceeds the cap, one with the score of `protocol_hack`, the
same with lower basis points beside it, one with no risk at all, one in USDC with no
amount and nothing to get, and one with a foreign hook; the deadlines lie on either side of the firewall's
minute. Further bounds of `Demo`: only the first round of a negotiation, a proposal is
signed before the table is wiped again, nothing is followed after a script's end, and
the mode is SQLite. The safety runs of `Settlement` treat ids and swaps
as interchangeable, which they are; no run with a liveness property uses symmetry.

**Deadlock** is checked except in four modules. In `AuditChain` a head that does not
parse really stops every writer, and the bound on receipts stops the model; in
`ThrottleHook` the bounds on time and swaps do. A walk of `AuditWalk` and a script of
`Demo` come to their end. Daemons never stop, so the runs of
`Settlement`, `Negotiation` and `Bus` check it.

**Fairness.** `WF` of a daemon as a whole: each is a `while True` loop with sleeps,
and a daemon that dies is started again. `WF` of mining: the chain keeps producing
blocks. Nothing is assumed of one action over another, of the LLM's answers, or of
the publishers, or of AXL. `CompleteIsAnswered` excepts proposals of a time with a wipe
or a ten-minute pause, `RowIsHandled` wiped rows, `InboxIsHandled` what a crash or an
exception took along, and `negotiation_restart` has no exceptions, because there the
code does lose the message: a signature older than ten minutes is dropped, a wiped
message is gone, and a proposal whose handling raises is never taken up again.

What the properties need, and say: `ExecutedAsSigned` in MOCK mode, `LedgerIsTrue`
and `ImplementsTreasury` need a P3 that does not fail half way (in LIVE mode they
need nothing); `RevertIsFinal` speaks of fresh ids without failures or timeouts;
`OneTradePerEvent` needs fresh ids and daemons that do not restart; `MissedOnce`
fresh ids. Each is false otherwise, and the reason is in its comment or its hazard.

### Where code and documents part

* **A replay can execute twice** (`finding_replay`). P3 executes before it marks the
  ledger. In MOCK mode a crash between the two, and the nonce file and the drained
  signatures do the rest. In LIVE mode the Safe's nonce prevents it: that is theorem
  `ExecutesOnce`.
* **The Safe's swaps are not throttled** (`finding_route`). The hook compares
  `sender`, PoolManager's caller, with the Safe; the Safe calls the Universal Router.

Further differences, which no violated run is spent on. Where a passing run states
what the code does instead, it is named:

* **The anchor need not be the tail.** `verify_audit.py:59-64` ends the walk at any
  receipt it cannot fetch and calls the chain verified; its comment (line 61) speaks of
  a missing tail, `docs/AUDIT_REPRODUCE.md:22` of an unbroken chain. One copy lost or
  unreadable in the middle suffices, with older ones still in storage. `VerifiedIsWhole`
  says what the verdict does cover.
* **The cap of a window can be passed.** `ArbiterThrottleHook.sol:29` calls it the
  maximum notional per window. An amount above 2^128 is cut before it is counted (lines
  117 and 140), so that `AtMostTwiceCap` is about amounts that fit.
* **The chain is not append-only.** `docs/SYSTEM_DESIGN.md:574` calls it so, but two
  overlapping `write_artifact` calls (`memory_manager.py:68`) name the same
  predecessor and the head keeps one. `SerialWritesChain` and `AppendsWhenSerial` say
  when it is true; two writers may even install a head file that does not parse.
* **A first `demo_run.py` stops at its second step.** It counts the successes before
  the injector wipes them, and then waits for one more (`StopsAtSecondStep`,
  `TimeoutIsEarned`); `TECHNICAL_ROADMAP.md:1326` and `demo_run.py:4` have it run
  through. `start_all.py` counts after it injects, and may then take the late success
  of an earlier scenario for that of the new one: `TickIsEarned` says no more.
* **`protocol_hack` cannot settle as it was analysed.** Its risk score of 9.5 becomes
  9500 basis points, the firewall's ceiling is 8000, and yet step 4 waits for
  EXECUTION_SUCCESS. An LLM that copies the score, as its prompt asks, has the withdrawal
  refused (`CopiedEmergencyIsRefused`). It is cleared when the LLM gives another score or
  basis points of its own, and when it leaves both out, because `firewall.py:107` then
  checks nothing. The rejection is published as WHITELIST_BYPASS, and the evaluation says ACCEPTED.
* **The drill cannot pass on its own.** It waits for six rejections; A2 is a
  signature P3 ignores, and A5 goes to a topic nobody reads (`DrillNeedsOthers`).
* **A batch of policy constants is never read**: MAX_GAS_PRICE_GWEI,
  MAX_DAILY_DRAWDOWN_BPS, MAX_PER_ASSET_ALLOCATION_BPS. The cap on the value uses
  prices that never change (`CapHoldsAtMarket` says what that leaves).
* **The proposal is not compared with the analysis.** Patriarch recomputes the
  analysis and compares its hash; the fields that are signed are the LLM's.
* **`min_amount_out_units` does not reach the calldata** (`router.py:94`), although
  `docs/SYSTEM_DESIGN.md:557` has the swap protected by it; `quant.py:259` computes it
  from the amount before the cap.
* **The dashboard** counts signatures it has not checked and ignores
  EXECUTION_FAILURE, so that what failed is "signing" for good (`DashboardAgrees`).
* **Three confirmations are not waited for** (`docs/SYSTEM_DESIGN.md:698`) for hashes
  the log names, since they have no `0x`. The page stops at 50 receipts, and has no
  anchor. `monitor_network.py:13` looks for files where nothing writes them.
* `docs/SYSTEM_DESIGN.md:442` has P3 verify that the nonce is the Safe's, but it asks
  only its ledger; line 692 has cursors persisted; line 707 has a proposal expire when
  Patriarch is killed, but nothing sets EXPIRED; the hook's "rolling" window (lines 13
  and 26) starts afresh, which is why its bound is twice the cap; `AgentState` has no
  key `proposal_id`, so that the id of a revision is the LLM's; the injector asks for
  `AXL_NODE_URL`, while `.env.example:41` to 45 set only the daemons' variables, so
  that beside live daemons its market data goes to the table, which they do not read,
  and with DEMO_MODE=1 it exits; a live injector's `clear_network` clears only its own
  inbox; three daemons may take the same nonce of one 0G account.

## Proofs

Every theorem is about the specification a run checks, or about one of the two
compositions of them (`AuditSystem`, `Arbiter`), for every value of the constants: any number of owners, writers, nodes, pools, proposals, messages, crashes
and faults. "Says" gives the property; the last column the hypotheses, where the
theorem has any.

| Module | Theorem | Says | If |
|---|---|---|---|
| `SettlementProofs` | `TypeCorrect` | `TypeOK` is an invariant. | |
| | `Consent` | What executes was cleared, and signed by a threshold of owners over its very hash: both modes, any failures. | |
| | `LedgerGrows` | No row of the ledger is replaced. | |
| | `SuccessBacked` | A published success has executed and has its row and receipt: both modes, any failures. | |
| | `NoncesAreKept`, `ExecutesOnce`, `LedgerCorrect` | Nonce by nonce what executes is what was signed, once, and the ledger names it. | `Reliable` |
| | `SettlementImplementsTreasury` | The refinement, step by step. | `Reliable` |
| | `RevertsAreFinal` | What a REVERT failure names has not executed and never will, when nothing disturbs P3. | `Threshold >= 2` |
| `AuditChainProofs` | `AuditTypeCorrect`, `WalkSucceeds` | Types, and no walk misses a receipt: any number of writers, dying anywhere. | |
| | `SerialChain` | Two receipts never name the same predecessor if the second was begun after the first was done. | |
| | `ChainImplementsHeadLog` | Whoever only reads may take the files for `HeadLog`. | |
| | `FilesCarryTheWalk`, `WalksOverFiles` | `AuditSystem` implements `AuditWalk`, so `VerifiedIsWhole`, `NoneLost`, `FailsForCause` and `AppendsWhenSerial` hold of a walk over the files themselves, with the page's limit of 50. | |
| | `AloneImplementsLog` | A lone writer implements `AuditLog`. (No run repeats this: `AppendsWhenSerial` is the stronger form for several writers.) | `Alone` |
| `AuditWalkProofs` | `WalkTypeCorrect` | Types. | |
| | `VerifiedCoversAll` | What a walk calls verified is the whole chain (of which the page walks its limit), or, with an anchor, all that is above it, whatever fetch fails and whatever is lost. | |
| | `NothingIsLost`, `SerialAppends` | While no writes overlap, every receipt that was written is found from the head, and the log only grows. | |
| | `FailureHasCause` | No walk is without a chain because of writers, unless writes overlap or none has returned. | |
| `ThrottleHookProofs` | `ThrottleTypeCorrect`, `CooldownIsKept`, `TwiceCapIsKept` | The hook's bounds, for every cooldown, window, cap and width; the second of what swaps specify, where each amount fits. | |
| `BusProofs` | `BusTypeCorrect` | Types. | |
| | `BusImplementsTopic` | For nodes that read the table, the bus is a `Topic`: every row once and in order, per start, except what was wiped. | |
| | `TakenAtMostOnce` | A live node takes a message once, and a reader of the table at most once for each author of a row. | `PeersDiffer` |
| `NegotiationProofs` | `NegotiationTypeCorrect` | Types. | |
| | `NegotiationPublishes` | Each step of Quant, Patriarch and the injector is, for P3, a step of `Settlement!Publishers` or none. | |
| | `OneTradeUntilRestart`, `OneTrade` | One market event leads to `MaxIterations` proposals and one clearance at most, until a daemon restarts. | `FreshIds` (and `MaxCrashes = 0`) |
| | `SnapshotMissedOnce` | Only the first proposal of the last injection can be missed for want of its snapshot, and again only after a restart. | `FreshIds` |
| `DemoProofs` | `DemoTypeCorrect` | Types, and the data of a proposal are kept exactly until its end. | |
| | `TicksAreEarned`, `TimeoutsAreEarned` | What a tick and a cross mean. | |
| | `SecondStepIsLast` | `demo_run.py` does not get past its second step unless somebody injects by hand. | |
| | `DrillPassesWithOthers` | The drill passes only with two rejections of something else. | |
| | `EmergencyIsRefused`, `CapIsKept` | The firewall lets no withdrawal through whose answer copies the score of the analysis, and nothing above the cap at the market's price of ether, whatever the LLM answers. | |
| | `DashboardIsRight` | The status and the number of signatures the dashboard makes of a proposal's rows are what the daemons have done: any number of rows, in any order they can have. | |
| `ArbiterProofs` | `SettlesAsSpecified` | The three daemons together behave, for P3, as `Settlement` says (`ImplementsSettlement`): each theorem about `Settlement` holds of the whole. | |
| | `Agreed` | What executes is a proposal on the bus that Quant signed and the firewall cleared, and both owners have signed its very hash: both modes, any failures and restarts (`TradesAreAgreed`). | |
| | `OneExecution` | Each execution goes back to a market message of its own, until Quant or Patriarch restarts, however often P3 does in LIVE mode (`OneTradeExecuted`). | `FreshIds`, `Reliable` |

**Assumptions.** The only ones are the named ones of the modules
(`SettlementAssumption`, `AuditAssumption`, `HeadLogAssumption`, `WalkAssumption`,
`ThrottleAssumption`, `NegotiationAssumption`, `BusAssumption`, `DemoAssumption`):
sets of owners, writers, inodes, nodes and ids are finite, `None` is none of the
values it stands beside, bounds are naturals, the cap fits the width, the injector
reads no topic, amounts are integers. TLC evaluates them in the runs. `Arbiter` has
none of its own: its theorems have `Settlement`'s, for the instance in it, as a
hypothesis (`P3!SettlementAssumption`).

**Hypotheses**, and what justifies them:

* `Reliable`: LIVE mode, or no failures of P3. Without it a replay in MOCK mode does
  execute twice (`finding_replay`).
* `Threshold >= 2`: CONSENSUS_THRESHOLD is 2 unless the environment says otherwise
  (`execution_process.py:117`). With a threshold of one Patriarch's signature alone, which
  may be repeated, would start a settlement again. That nothing disturbs P3 (no
  failure, no timed out wait, fresh ids) is in the property itself.
* `PeersDiffer`: no node is listed twice in AXL_PEER_KEYS, where a publication would be
  sent to it twice.
* `FreshIds`: ids do not repeat. They come from the LLM; `quant.py:191-193` makes one
  only when there is none. `MaxCrashes = 0`: a restarted daemon reads the bus again,
  and clears again what it cleared before.
* `Alone`: one writer.

None of the properties that take several steps to violate is inductive by itself. This is
what the proofs add.

*Settlement.* Where things come from: every signature in a slot is on the bus, every
clearance is a proposal, every settled slot holds a proposal that was cleared and meets
the threshold (`SlotInv`, `ConsentInv`); and, for the success, what each place of `pc`
has behind it: at "executed" the slot's proposal has executed, at "marked" its row is in
the ledger, and so on. For the nonces (`NonceInv`), in MOCK mode without failures, nonce
file and ledger are in step except at "executed", and in LIVE mode the Safe only accepts
what was signed for its nonce. The refinement follows with `signed` and `consumed` read
off the topics and the Safe. For the REVERT (`RevertInv`): once P3 has tried to execute
a proposal, either it is the one being settled, or P3 has read Quant's signature and let
go of it. Quant does not repeat one, so the slot never again has two signers; so the
transaction P3 waits for is the only one of its proposal, and what has reverted is not
pending.

*AuditChain.* What a file or a writer holds is in storage already, since a receipt is
stored before any file names it; with one writer the head cannot change between its
read and its replacement, so the trail of the new head extends that of the old. For any
number of writers (`SerialInv`): no two files hold the same hash, and the head that a
receipt's writer has read is retired when it returns; it is not in the temporary file
either, so no rename brings it back. `ChainImplementsHeadLog` maps a
writer that others have got at (its temporary file renamed or truncated, or the head
changed under it) to `crossed`, and then each action to one of `HeadLog`'s.
`FilesCarryTheWalk` adds the walk to that: a file-level step of a daemon is a write of
`AuditWalk`, so the theorems of `AuditWalkProofs`, instantiated, are about the files.

*AuditWalk.* `WalkInv` has the log and the walk. The log: a receipt's trail is that of
the one it names, and itself; while no writes overlap, what the one busy writer has read
is still the head, so its write appends. The walk: what it has visited, reversed, and the
trail of the receipt it fetches next are together the trail of the receipt it started
from. So what is visited is a beginning of that trail, whichever fetch ends the walk, and
the anchor is the receipt that follows in it.

*ThrottleHook.* Each swap records the window it was counted in and the totals around
it. A swap less than a window's length after another belongs to the same window or
to the next; each window counts the cap at most; totals of successive windows join. That
is about what is counted. `Uncut` carries it to what is specified: from a swap on, the two
sums of a pool grow alike as long as amounts fit.

*Bus.* A cursor, the batch behind it and the table are in step: the batch is a gapless
piece of the table, and what is missing between it and the cursor has been wiped
(`ReadsInOrder`); this carries the refinement. For `AtMostOnce`, a message has one
sender that sends it to each peer once, and what a live node holds or has held its AXL
node can no longer hand it (`TakenOnce`). Every row has an author, the publisher or a
live peer, and the rows of one message have different ones (`RowsAreAuthored`): so there
are at most as many of them as live peers and one.

*Negotiation.* With fresh ids an evaluation is read as that of the proposal it is about
(`FreshInv`), so a proposal goes back to a market message through its rounds. `OneTradeInv`
adds that a round is published once, that the rounds before it have been refused, and
that Patriarch takes a proposal up once: a second clearance would have to follow an
acceptance. For `MissedInv`, Quant starts on a market message once per start, and has
published its snapshot before the proposal; Patriarch has drained the snapshot when it
comes to any later round. `NegotiationPublishes` needs the types alone.

*Demo.* `Kept`: an open proposal's data are a draft for some answer and the analysis of
its scenario, and what is cleared has passed the firewall. The two theorems about the
firewall follow by computing the first rule that holds, the risk and the value.
`Counting`: what a script counted and whether a success came since then agree with the
rows, unless the table was wiped. `DrillCounted`: rejections since the count, and those
the watchdog's messages can still cause, are never more than four and what others add.
`FirstSteps`: in the first two steps there is at most one of a market message, a
proposal in flight and a success, so that the second wait starts from one success, which
the injector wipes, and ends with one at most.

*Dashboard.* The rows are folded by a recursive function, newest first. `StatusIs` gives it
a closed form, `Verdict`, which only asks which topics occur: that function solves the
recursive equation, so the one `CHOOSE` picks solves it too, and the two agree since a
least counterexample (`LeastMember`) would have a smaller one. The closed form holds
where a session never has both a success and an attack; `RowsAgree` is the invariant that
gives this, and that says what each topic in the session proves of the proposal, and,
as long as the proposal's own row has not been wiped, the converse.

*Arbiter.* Each message carries its terms, and Quant has signed whatever Patriarch clears
(`TermsInv`); with this a step of the whole is a step of `Negotiation` or none, and a step
of `Settlement` or none, so that the theorems about both hold of it. `OneExecution` joins
them: what executes was cleared (`Consent`), by fresh ids the clearance is of that very
proposal, a market message has one clearance (`OneTradeUntilRestart`), and a proposal
executes once (`ExecutesOnce`).

**Only model-checked.** Liveness under fairness and ENABLED are out of TLAPS' reach:
`CompleteIsAnswered`, `EveryProposalIsAnswered`, `RowIsHandled` and `InboxIsHandled`.
Every other property of a passing run is one of the theorems above. For the same reason
nothing is said of liveness from the market message to the Safe.

## Not modelled

* AXL nodes beyond what `MockAXLNode` sees of them; the content of envelopes; the
  heartbeats and other topics that nothing reads to act.
* The mock simulation and its attestation: their verdict is arbitrary.
* The signatures inside receipts, and the encodings (EIP-712, calldata, Permit2): a
  hash that a walk recomputes is right, except for the page's numbers.
* `ArbiterReceipt`'s own rules, a handful of guards; minting is a best-effort step of a
  settlement.
* The older audit by Chroma entries, `replay_decision.py`, the node list and the feed of
  the verifier page, the terminal monitor: they display, and change nothing.
* Starting and stopping daemons by PID files, and the demonstration beside live nodes,
  where the table holds a mirrored copy of a row for each node. Deployment scripts run
  once, by hand, and have no state of their own.
* `SafeTreasury.sign_hash`, `core/persistence.py`, `core/retry.py`, which have no caller.

## Plan

1. `Settlement` with `Treasury`: done, checked and proved.
2. `AuditChain` with `AuditLog`: done, checked and proved.
3. `ThrottleHook`: done, checked and proved.
4. `Negotiation`, and its composition with `Settlement`: done, checked and proved.
5. `Bus` with `Topic`: done, checked and proved.
6. `Policy`, `Dashboard` and `Demo`: done, checked and proved.
7. `HeadLog` and `AuditWalk`: done, checked and proved.
8. `AuditSystem` and `Arbiter`, the compositions: proved.
9. If there is time: the mirrored rows of a live demonstration; `ArbiterReceipt`.
