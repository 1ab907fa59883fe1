------------------------------ MODULE Settlement ------------------------------
(***************************************************************************)
(* Process 3, the Execution Node (apps/execution_process.py), with what it *)
(* settles against: the DedupeLedger (core/dedupe.py), the Safe            *)
(* (execution/safe_treasury.py) and the chain behind it, the receipt log   *)
(* (memory/memory_manager.py) and the topics it reads and publishes.       *)
(*                                                                         *)
(* Quant and Patriarch appear as the publishers of the two topics P3       *)
(* drains: a proposal is signed against the Safe nonce Quant read, its     *)
(* clearance and the two signatures are separate messages, and Patriarch   *)
(* may publish any of its own twice (it drains PROPOSALS again from id 0   *)
(* when it restarts).  A topic is a log that P3 reads past a cursor.       *)
(*                                                                         *)
(* The settlement of one slot is cut at every point where another process  *)
(* can act or the daemon can die: P3 is at pc and settles the slot cur.    *)
(***************************************************************************)
EXTENDS Integers, Sequences, FiniteSets

CONSTANTS
  ProposalId,     \* values of proposal_id; Quant's LLM chooses them, so they may repeat
  Swap,           \* what a proposal orders: action, assets and amounts
  Owner,          \* SAFE_OWNERS: the keys whose signatures count
  Quant,          \* the owner that proposes
  Patriarch,      \* the owner that clears
  Threshold,      \* CONSENSUS_THRESHOLD
  FreshIds,       \* TRUE: no two proposals share a proposal_id
  Live,           \* TRUE: LIVE mode, an on-chain Safe; FALSE: MOCK mode, a nonce file
  None,           \* no proposal in a slot, no slot being settled
  MaxDrafts,      \* bound: proposals Quant publishes
  MaxSignatures,  \* bound: messages on CONSENSUS_SIGNATURES
  MaxClearances,  \* bound: messages on FIREWALL_CLEARED
  MaxPermits,     \* bound: changes of the Permit2 allowance
  MaxFaults,      \* bound: crashes of P3 and exceptions that reach its outer handler
  MaxTimeouts,    \* bound: waits for a transaction receipt that time out
  MaxClears,      \* bound: bus wipes (clear_network)
  MaxStale        \* bound: ten-minute pauses

ASSUME SettlementAssumption ==
  /\ IsFiniteSet(Owner)
  /\ {Quant, Patriarch} \subseteq Owner
  /\ Threshold \in Nat \ {0}
  /\ Live \in BOOLEAN /\ FreshIds \in BOOLEAN
  /\ None \notin ProposalId
  /\ None \notin [id : ProposalId, swap : Swap, permit : Nat, nonce : Nat]
  /\ \A b \in {MaxDrafts, MaxSignatures, MaxClearances, MaxPermits,
               MaxFaults, MaxTimeouts, MaxClears, MaxStale} : b \in Nat

VARIABLES
  drafts,      \* the proposals Quant has published on PROPOSALS
  sigLog,      \* CONSENSUS_SIGNATURES, oldest first
  clearedLog,  \* FIREWALL_CLEARED, oldest first
  floor,       \* per topic, how many of its messages clear_network has deleted
  staleUpTo,   \* the signatures up to here are more than ten minutes old
  pc,          \* where P3 is in its loop
  cur,         \* the slot being settled, or None
  todo,        \* the slots of this pass that meet the threshold and remain to be settled
  pending,     \* pending_proposals: the slot of each proposal id
  cursor,      \* per topic, last_sig_id and last_cleared_id
  ledger,      \* rows of executed_proposals.sqlite
  receipts,    \* artifacts P3 has written
  outcomes,    \* messages published on EXECUTION_SUCCESS and EXECUTION_FAILURE
  minted,      \* ArbiterReceipt tokens minted
  txs,         \* LIVE: the executor's transactions, in the order of its account nonce
  executed,    \* what the Safe has executed; executed[n + 1] consumed nonce n
  permit,      \* LIVE: the state of the Permit2 allowance the calldata depends on
  faults, timeouts, clears, pauses   \* what has been used of the bounds

busVars   == <<drafts, sigLog, clearedLog, floor, staleUpTo, clears, pauses>>
p3Vars    == <<pc, cur, todo, pending, cursor>>
diskVars  == <<ledger, receipts>>
chainVars == <<minted, txs, executed, permit>>
vars == <<busVars, p3Vars, diskVars, chainVars, outcomes, faults, timeouts>>

-------------------------------------------------------------------------------
(* Data *)

Drafts     == [id : ProposalId, swap : Swap, permit : Nat, nonce : Nat]
Hashes     == [swap : Swap, permit : Nat, nonce : Nat]
Signatures == [id : ProposalId, signer : Owner, hash : Hashes]
Slots      == [proposal : Drafts \cup {None}, signatures : SUBSET Signatures]
Bundles    == [draft : Drafts, permit : Nat, signatures : SUBSET Signatures]
Txs        == [bundle : Bundles, status : {"pending", "ok", "reverted"}]
Places     == {"sigs", "cleared", "settle", "waiting", "executed", "marked",
               "archived", "minted", "failed"}

\* Mutant: the nonce is left out of the hash.
TxHashWithoutNonce(s, a, n) == [swap |-> s, permit |-> a, nonce |-> 0]

\* The hash the owners sign binds the calldata, which Permit2's allowance shapes,
\* and the nonce.  It does not bind proposal_id.
TxHash(s, a, n) == [swap |-> s, permit |-> a, nonce |-> n]

SafeTxHash(d) == TxHash(d.swap, d.permit, d.nonce)

Signature(d, o) == [id |-> d.id, signer |-> o, hash |-> SafeTxHash(d)]

\* read_nonce: the Safe's nonce on chain, the nonce file in MOCK mode.
SafeNonce == Len(executed)

EmptySlot == [proposal |-> None, signatures |-> {}]

\* Mutant: every signature filed in the slot counts.
AllSignatures(p) == pending[p].signatures

\* The signatures in the slot that recover to an owner against its proposal.
ValidSignatures(p) ==
  {m \in pending[p].signatures : m.hash = SafeTxHash(pending[p].proposal)}

Signers(sigs) == {m.signer : m \in sigs}

ThresholdMet(p) ==
  /\ pending[p].proposal # None
  /\ Cardinality(Signers(ValidSignatures(p))) >= Threshold

\* Mutant: the ledger is not consulted.
NeverExecuted(n) == FALSE

AlreadyExecuted(n) == \E row \in ledger : row.nonce = n

Outcome(kind, p)  == [kind |-> kind, id |-> p, nonce |-> pending[p].proposal.nonce]

\* router.generate_calldata and the signature blob, for the slot p: the permit
\* part is read again, as it stands now.
Bundle(p) == [draft      |-> pending[p].proposal,
              permit     |-> IF Live THEN permit ELSE 0,
              signatures |-> ValidSignatures(p)]

-------------------------------------------------------------------------------
Init ==
  /\ drafts = {} /\ sigLog = <<>> /\ clearedLog = <<>>
  /\ floor = [sigs |-> 0, cleared |-> 0]
  /\ staleUpTo = 0
  /\ pc = "sigs" /\ cur = None /\ todo = {}
  /\ pending = [p \in ProposalId |-> EmptySlot]
  /\ cursor = [sigs |-> 0, cleared |-> 0]
  /\ ledger = {} /\ receipts = {} /\ outcomes = {}
  /\ minted = {} /\ txs = <<>> /\ executed = <<>> /\ permit = 0
  /\ faults = 0 /\ timeouts = 0 /\ clears = 0 /\ pauses = 0

-------------------------------------------------------------------------------
(* The publishers *)

\* Quant: sign_proposal reads the nonce and builds the calldata, then the
\* proposal is published.
QuantPropose(p, s) ==
  /\ Cardinality(drafts) < MaxDrafts
  /\ FreshIds => \A d \in drafts : d.id # p
  /\ drafts' = drafts \cup {[id |-> p, swap |-> s, nonce |-> SafeNonce,
                             permit |-> IF Live THEN permit ELSE 0]}
  /\ UNCHANGED <<sigLog, clearedLog, floor, staleUpTo, clears, pauses, p3Vars,
                 diskVars, chainVars, outcomes, faults, timeouts>>

PublishSignature(d, o) ==
  /\ Len(sigLog) < MaxSignatures
  /\ sigLog' = Append(sigLog, Signature(d, o))
  /\ UNCHANGED <<drafts, clearedLog, floor, staleUpTo, clears, pauses, p3Vars,
                 diskVars, chainVars, outcomes, faults, timeouts>>

\* Quant publishes its own signature after the proposal: once, unless it has
\* proposed the very same thing again.
QuantSign(d) ==
  /\ FreshIds => \A i \in 1..Len(sigLog) : sigLog[i] # Signature(d, Quant)
  /\ PublishSignature(d, Quant)

\* Patriarch publishes the clearance first...
PatriarchClear(d) ==
  /\ Len(clearedLog) < MaxClearances
  /\ clearedLog' = Append(clearedLog, d)
  /\ UNCHANGED <<drafts, sigLog, floor, staleUpTo, clears, pauses, p3Vars,
                 diskVars, chainVars, outcomes, faults, timeouts>>

\* ...and its signature a second later.
PatriarchSign(d) ==
  /\ \E i \in 1..Len(clearedLog) : clearedLog[i] = d
  /\ PublishSignature(d, Patriarch)

\* The market injector wipes the bus before it injects: messages nobody has
\* read yet are gone, the ids go on.
ClearNetwork ==
  /\ clears < MaxClears
  /\ clears' = clears + 1
  /\ floor' = [sigs |-> Len(sigLog), cleared |-> Len(clearedLog)]
  /\ UNCHANGED <<drafts, sigLog, clearedLog, staleUpTo, pauses, p3Vars,
                 diskVars, chainVars, outcomes, faults, timeouts>>

\* Every signature published so far becomes more than ten minutes old.
TenMinutesPass ==
  /\ pauses < MaxStale
  /\ pauses' = pauses + 1
  /\ staleUpTo' = Len(sigLog)
  /\ UNCHANGED <<drafts, sigLog, clearedLog, floor, clears, p3Vars,
                 diskVars, chainVars, outcomes, faults, timeouts>>

-------------------------------------------------------------------------------
(* P3: the drains *)

Unread(topic, log) ==
  {i \in 1..Len(log) : i > cursor[topic] /\ i > floor[topic]}

\* A signature is filed under its proposal id whether or not a proposal is
\* there; one more than ten minutes old is dropped.
DrainSignatures ==
  /\ pc = "sigs"
  /\ pending' = [p \in ProposalId |->
       [pending[p] EXCEPT !.signatures = @ \cup
         {sigLog[i] : i \in {j \in Unread("sigs", sigLog) :
                              j > staleUpTo /\ sigLog[j].id = p}}]]
  /\ cursor' = [cursor EXCEPT !.sigs = Len(sigLog)]
  /\ pc' = "cleared"
  /\ UNCHANGED <<cur, todo, busVars, diskVars, chainVars, outcomes, faults, timeouts>>

\* A clearance replaces whatever proposal its slot holds; the pass that follows
\* visits every slot and leaves the ones below the threshold alone.
DrainCleared ==
  LET new(p) == {i \in Unread("cleared", clearedLog) : clearedLog[i].id = p}
  IN
  /\ pc = "cleared"
  /\ \E latest \in [ProposalId -> 0..Len(clearedLog)] :
       /\ \A p \in ProposalId :
            IF new(p) = {} THEN latest[p] = 0
            ELSE latest[p] \in new(p) /\ \A i \in new(p) : i <= latest[p]
       /\ pending' = [p \in ProposalId |->
            [pending[p] EXCEPT !.proposal =
               IF latest[p] = 0 THEN @ ELSE clearedLog[latest[p]]]]
  /\ cursor' = [cursor EXCEPT !.cleared = Len(clearedLog)]
  /\ pc' = "settle"
  /\ todo' = {p \in ProposalId : ThresholdMet(p)'}
  /\ UNCHANGED <<cur, busVars, diskVars, chainVars, outcomes, faults, timeouts>>

-------------------------------------------------------------------------------
(* P3: the settlement of a slot *)

\* Mutant: the slot that was settled is not let go.
CloseKeepsSlot(p) ==
  /\ pending' = [pending EXCEPT ![p] = EmptySlot]
  /\ pc' = "settle" /\ todo' = todo \ {p}
  /\ UNCHANGED <<cur, cursor>>

\* The slot p is done with: del pending_proposals[p], on to the next one.
Close(p) ==
  /\ pending' = [pending EXCEPT ![p] = EmptySlot]
  /\ pc' = "settle" /\ cur' = None /\ todo' = todo \ {p}
  /\ UNCHANGED cursor

\* Publish EXECUTION_FAILURE for p; the artifact and the deletion follow.
PublishFailure(kind, p) ==
  /\ outcomes' = outcomes \cup {Outcome(kind, p)}
  /\ pc' = "failed" /\ cur' = p
  /\ UNCHANGED <<todo, pending, cursor>>

\* The ledger already has the nonce.
RejectReplay(p) ==
  /\ pc = "settle"
  /\ AlreadyExecuted(pending[p].proposal.nonce)
  /\ PublishFailure("dedupe-replay", p)
  /\ UNCHANGED <<busVars, diskVars, chainVars, faults, timeouts>>

\* MOCK mode: the nonce file is read and incremented, nothing is verified.
ExecuteMock(p) ==
  /\ ~Live /\ pc = "settle"
  /\ ~AlreadyExecuted(pending[p].proposal.nonce)
  /\ executed' = Append(executed, Bundle(p))
  /\ pc' = "executed" /\ cur' = p
  /\ UNCHANGED <<todo, pending, cursor, busVars, diskVars, minted, txs, permit,
                 outcomes, faults, timeouts>>

\* LIVE mode: the transaction is sent, and P3 waits for its receipt.
SubmitTx(p) ==
  /\ Live /\ pc = "settle"
  /\ ~AlreadyExecuted(pending[p].proposal.nonce)
  /\ txs' = Append(txs, [bundle |-> Bundle(p), status |-> "pending"])
  /\ pc' = "waiting" /\ cur' = p
  /\ UNCHANGED <<todo, pending, cursor, busVars, diskVars, minted, executed, permit,
                 outcomes, faults, timeouts>>

\* The call raises before it has sent the transaction (the node, LIVE mode) or
\* written the next nonce (the file of MOCK mode).
SendFails(p) ==
  /\ pc = "settle"
  /\ ~AlreadyExecuted(pending[p].proposal.nonce)
  /\ PublishFailure("REVERT", p)
  /\ UNCHANGED <<busVars, diskVars, chainVars, faults, timeouts>>

\* Mutant: the transaction hash is taken for its receipt.
AwaitNothing ==
  /\ pc = "waiting"
  /\ pc' = "executed"
  /\ UNCHANGED <<cur, todo, pending, cursor, busVars, diskVars, chainVars,
                 outcomes, faults, timeouts>>

AwaitSuccess ==
  /\ pc = "waiting" /\ txs[Len(txs)].status = "ok"
  /\ pc' = "executed"
  /\ UNCHANGED <<cur, todo, pending, cursor, busVars, diskVars, chainVars,
                 outcomes, faults, timeouts>>

\* Mutant: a transaction that is not mined yet counts as reverted.
AwaitNotOk ==
  /\ pc = "waiting" /\ txs[Len(txs)].status # "ok"
  /\ PublishFailure("REVERT", cur)
  /\ UNCHANGED <<busVars, diskVars, chainVars, faults, timeouts>>

AwaitRevert ==
  /\ pc = "waiting" /\ txs[Len(txs)].status = "reverted"
  /\ PublishFailure("REVERT", cur)
  /\ UNCHANGED <<busVars, diskVars, chainVars, faults, timeouts>>

\* wait_for_transaction_receipt raises after 120 seconds, or because the node
\* does not answer; the transaction stays where it is.
AwaitTimeout ==
  /\ pc = "waiting" /\ timeouts < MaxTimeouts
  /\ timeouts' = timeouts + 1
  /\ PublishFailure("REVERT", cur)
  /\ UNCHANGED <<busVars, diskVars, chainVars, faults>>

\* The failure's artifact is written and the slot deleted.
ArchiveFailure ==
  /\ pc = "failed"
  /\ receipts' = receipts \cup {Outcome("ExecutionFailure", cur)}
  /\ Close(cur)
  /\ UNCHANGED <<busVars, ledger, chainVars, outcomes, faults, timeouts>>

\* Mutant: the row gets the nonce the Safe has after the execution.
MarkNextNonce ==
  /\ pc = "executed"
  /\ ledger' = ledger \cup {[nonce |-> SafeNonce, id |-> cur]}
  /\ pc' = "marked"
  /\ UNCHANGED <<cur, todo, pending, cursor, busVars, receipts, chainVars,
                 outcomes, faults, timeouts>>

\* Mutant: the row is not committed.
MarkNothing ==
  /\ pc = "executed"
  /\ pc' = "marked"
  /\ UNCHANGED <<cur, todo, pending, cursor, busVars, diskVars, chainVars,
                 outcomes, faults, timeouts>>

\* dedupe.mark: INSERT OR REPLACE on the nonce.
Mark ==
  LET nonce == pending[cur].proposal.nonce
  IN
  /\ pc = "executed"
  /\ ledger' = {row \in ledger : row.nonce # nonce} \cup {[nonce |-> nonce, id |-> cur]}
  /\ pc' = "marked"
  /\ UNCHANGED <<cur, todo, pending, cursor, busVars, receipts, chainVars,
                 outcomes, faults, timeouts>>

ArchiveReceipt ==
  /\ pc = "marked"
  /\ receipts' = receipts \cup {Outcome("ExecutionReceipt", cur)}
  /\ pc' = "archived"
  /\ UNCHANGED <<cur, todo, pending, cursor, busVars, ledger, chainVars,
                 outcomes, faults, timeouts>>

\* _mint_sbt is best effort: it never raises, and may mint nothing.
MintReceipt ==
  /\ pc = "archived"
  /\ minted' \in {minted, minted \cup {Outcome("SBT", cur)}}
  /\ pc' = "minted"
  /\ UNCHANGED <<cur, todo, pending, cursor, busVars, diskVars, txs, executed,
                 permit, outcomes, faults, timeouts>>

PublishSuccess ==
  /\ pc = "minted"
  /\ outcomes' = outcomes \cup {Outcome("success", cur)}
  /\ Close(cur)
  /\ UNCHANGED <<busVars, diskVars, chainVars, faults, timeouts>>

EndPass ==
  /\ pc = "settle" /\ todo = {}
  /\ pc' = "sigs"
  /\ UNCHANGED <<cur, todo, pending, cursor, busVars, diskVars, chainVars,
                 outcomes, faults, timeouts>>

\* An exception reaches the outer handler (the ledger or the bus is locked, the
\* receipt log fails): the pass is abandoned, the slot stays.
DaemonError ==
  /\ faults < MaxFaults
  /\ \/ pc = "settle" /\ todo # {}
     \/ pc \in {"cleared", "waiting", "executed", "marked", "minted", "failed"}
  /\ faults' = faults + 1
  /\ pc' = "sigs" /\ cur' = None /\ todo' = {}
  /\ UNCHANGED <<pending, cursor, busVars, diskVars, chainVars, outcomes, timeouts>>

\* Mutant: the cursors survive the restart, the slots do not.
CrashKeepsCursors ==
  /\ faults < MaxFaults
  /\ faults' = faults + 1
  /\ pc' = "sigs" /\ cur' = None /\ todo' = {}
  /\ pending' = [p \in ProposalId |-> EmptySlot]
  /\ UNCHANGED <<cursor, busVars, diskVars, chainVars, outcomes, timeouts>>

\* P3 dies and is started again: slots and cursors were in memory only.
Crash ==
  /\ faults < MaxFaults
  /\ faults' = faults + 1
  /\ pc' = "sigs" /\ cur' = None /\ todo' = {}
  /\ pending' = [p \in ProposalId |-> EmptySlot]
  /\ cursor' = [sigs |-> 0, cleared |-> 0]
  /\ UNCHANGED <<busVars, diskVars, chainVars, outcomes, timeouts>>

-------------------------------------------------------------------------------
(* The chain *)

\* The Safe recovers the signers from the hash it computes itself: from the
\* calldata it is given and its own nonce.
SafeAccepts(b) ==
  LET hash == TxHash(b.draft.swap, b.permit, SafeNonce)
  IN  Cardinality(Signers({m \in b.signatures : m.hash = hash})) >= Threshold

\* The executor's transactions are mined in the order of its account nonce.
\* One the Safe accepts may still revert in the swap, and then consumes nothing.
MineTx(i) ==
  /\ txs[i].status = "pending"
  /\ \A j \in 1..(i - 1) : txs[j].status # "pending"
  /\ \/ /\ SafeAccepts(txs[i].bundle)
        /\ txs' = [txs EXCEPT ![i].status = "ok"]
        /\ executed' = Append(executed, txs[i].bundle)
     \/ /\ txs' = [txs EXCEPT ![i].status = "reverted"]
        /\ UNCHANGED executed
  /\ UNCHANGED <<minted, permit, busVars, p3Vars, diskVars, outcomes, faults, timeouts>>

\* The allowance Permit2 reports changes (spent, expired, renewed).
PermitChanges ==
  /\ Live /\ permit < MaxPermits
  /\ permit' = permit + 1
  /\ UNCHANGED <<minted, txs, executed, busVars, p3Vars, diskVars, outcomes, faults, timeouts>>

-------------------------------------------------------------------------------
Publishers ==
  \/ \E p \in ProposalId, s \in Swap : QuantPropose(p, s)
  \/ \E d \in drafts : QuantSign(d) \/ PatriarchClear(d) \/ PatriarchSign(d)
  \/ ClearNetwork \/ TenMinutesPass

StartSettlement(p) == RejectReplay(p) \/ ExecuteMock(p) \/ SubmitTx(p) \/ SendFails(p)

FinishSettlement ==
  \/ AwaitSuccess \/ AwaitRevert \/ AwaitTimeout \/ ArchiveFailure
  \/ Mark \/ ArchiveReceipt \/ MintReceipt \/ PublishSuccess

Daemon ==
  \/ DrainSignatures \/ DrainCleared \/ EndPass
  \/ \E p \in todo : StartSettlement(p)
  \/ FinishSettlement

Chain == (\E i \in 1..Len(txs) : MineTx(i)) \/ PermitChanges

Next == Publishers \/ Daemon \/ DaemonError \/ Crash \/ Chain

Spec == Init /\ [][Next]_vars

\* The daemon loops for ever and the chain keeps producing blocks.
FairSpec ==
  /\ Spec
  /\ WF_vars(Daemon)
  /\ WF_vars(\E i \in 1..Len(txs) : MineTx(i))

-------------------------------------------------------------------------------
(* Properties *)

Kinds == {"success", "REVERT", "dedupe-replay", "SBT", "ExecutionReceipt", "ExecutionFailure"}
Notes == [kind : Kinds, id : ProposalId, nonce : Nat]

\* The messages on the bus.
BusTypeOK ==
  /\ drafts \subseteq Drafts
  /\ sigLog \in Seq(Signatures) /\ clearedLog \in Seq(Drafts)
  /\ floor \in [sigs : Nat, cleared : Nat]
  /\ staleUpTo \in Nat /\ clears \in Nat /\ pauses \in Nat

\* P3's memory: it settles a slot exactly between taking one up and letting it go.
P3TypeOK ==
  /\ pc \in Places /\ todo \subseteq ProposalId
  /\ cur \in ProposalId \cup {None}
  /\ (cur = None) <=> pc \in {"sigs", "cleared", "settle"}
  /\ pending \in [ProposalId -> Slots]
  /\ cursor \in [sigs : Nat, cleared : Nat]

\* What P3 has written and published.
NotesTypeOK ==
  /\ ledger \subseteq [nonce : Nat, id : ProposalId]
  /\ receipts \subseteq Notes /\ outcomes \subseteq Notes /\ minted \subseteq Notes

\* The executor's transactions and what the Safe has executed.
ChainTypeOK ==
  /\ txs \in Seq(Txs) /\ executed \in Seq(Bundles)
  /\ permit \in Nat

\* Types, and that the slot being settled is set exactly while one is: an
\* exception or a crash between two steps leaves no half settled slot behind in
\* cur (execution_process.py, lines 169-273 and 281-283).
TypeOK == BusTypeOK /\ P3TypeOK /\ NotesTypeOK /\ ChainTypeOK
          /\ faults \in Nat /\ timeouts \in Nat

\* Owners that have published a signature over d.
Consenting(d) == {o \in Owner : \E i \in 1..Len(sigLog) : sigLog[i] = Signature(d, o)}

\* Whatever executed was cleared by the firewall, and at least Threshold distinct
\* owners had published a signature over its very transaction hash: signatures of
\* another proposal in the same slot, or published twice, never make up the
\* number (execution_process.py, lines 176-189).
OwnersConsent ==
  \A n \in 1..Len(executed) :
    /\ Cardinality(Consenting(executed[n].draft)) >= Threshold
    /\ \E i \in 1..Len(clearedLog) : clearedLog[i] = executed[n].draft

\* A transaction consumes the nonce it was signed for, with the calldata it was
\* signed for.  In LIVE mode the Safe sees to it; in MOCK mode nothing does but
\* the ledger, and this holds as long as P3 does not fail half way.
ExecutedAsSigned ==
  \A n \in 1..Len(executed) :
    /\ executed[n].draft.nonce = n - 1
    /\ executed[n].draft.permit = executed[n].permit

\* No signed transaction executes twice.
NoDoubleExecution ==
  \A m, n \in 1..Len(executed) :
    SafeTxHash(executed[m].draft) = SafeTxHash(executed[n].draft) => m = n

\* A ledger row names the proposal that consumed that nonce.
LedgerIsTrue ==
  \A row \in ledger :
    /\ row.nonce < SafeNonce
    /\ executed[row.nonce + 1].draft.id = row.id

\* EXECUTION_SUCCESS is only published for what executed, after the ledger row
\* and the receipt that a verifier will look for.
SuccessIsBacked ==
  \A o \in outcomes : o.kind = "success" =>
    /\ [nonce |-> o.nonce, id |-> o.id] \in ledger
    /\ [o EXCEPT !.kind = "ExecutionReceipt"] \in receipts
    /\ \E n \in 1..Len(executed) : executed[n].draft.id = o.id /\ executed[n].draft.nonce = o.nonce

\* Quant has repeated neither an id nor a signature.
QuantIsFresh ==
  /\ \A d, e \in drafts : d.id = e.id => d = e
  /\ \A i, j \in 1..Len(sigLog) : sigLog[i] = sigLog[j] /\ i # j => sigLog[i].signer # Quant

\* As long as P3 has not failed, no wait has timed out and Quant has not repeated
\* itself, a REVERT failure is the truth: the proposal did not execute, and never
\* will.
RevertIsFinal ==
  faults = 0 /\ timeouts = 0 /\ QuantIsFresh =>
    \A o \in outcomes : o.kind = "REVERT" =>
      \A n \in 1..Len(executed) : executed[n].draft.id # o.id

\* A row of the ledger is never replaced, although mark would replace it.
LedgerOnlyGrows == [][ledger \subseteq ledger']_vars

\* The Safe is driven as the abstract treasury says.
signedBar   == {<<sigLog[i].signer, sigLog[i].hash>> : i \in 1..Len(sigLog)}
consumedBar == [n \in 1..Len(executed) |->
                  [swap |-> executed[n].draft.swap, permit |-> executed[n].permit, nonce |-> n - 1]]

\* Sets of owners that meet the threshold.
Quorums == {S \in SUBSET Owner : Cardinality(S) >= Threshold}

T == INSTANCE Treasury WITH signed <- signedBar, consumed <- consumedBar, Hash <- Hashes

ImplementsTreasury == T!TSpec

\* The last clearance of p on the bus and enough signatures over it.
Complete(p) ==
  \E i \in 1..Len(clearedLog) :
    /\ clearedLog[i].id = p
    /\ \A j \in (i + 1)..Len(clearedLog) : clearedLog[j].id # p
    /\ Cardinality(Consenting(clearedLog[i])) >= Threshold

Answered(p) == \E o \in outcomes : o.id = p

\* A proposal that is cleared and signed is answered, by a success or a failure,
\* even if P3 crashes on the way: it drains the bus from the start again.  Only
\* signatures that age, or a wiped bus, may leave it without an answer.
CompleteIsAnswered ==
  \A p \in ProposalId : Complete(p) ~> Answered(p) \/ pauses > 0 \/ clears > 0

===============================================================================
