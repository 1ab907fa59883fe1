--------------------------- MODULE SettlementProofs ---------------------------
(* Theorems about Settlement, for every value of its constants. *)
EXTENDS Settlement, FiniteSetTheorems, TLAPS

(* Records and sequences the actions build have the types TypeOK gives. *)

LEMMA SignatureType ==
  ASSUME NEW d \in Drafts, NEW o \in Owner
  PROVE  Signature(d, o) \in Signatures
BY DEF Signature, Signatures, SafeTxHash, TxHash, Hashes, Drafts

\* What P3 hands to the Safe for a slot that holds a proposal.
LEMMA BundleType ==
  ASSUME TypeOK, NEW p \in ProposalId, pending[p].proposal # None
  PROVE  Bundle(p) \in Bundles
BY DEF TypeOK, P3TypeOK, ChainTypeOK, Slots, Bundle, Bundles, ValidSignatures

\* What it publishes or archives for such a slot.
LEMMA OutcomeType ==
  ASSUME TypeOK, NEW p \in ProposalId, pending[p].proposal # None, NEW k \in Kinds
  PROVE  Outcome(k, p) \in Notes
BY DEF TypeOK, P3TypeOK, Slots, Drafts, Outcome, Notes

-------------------------------------------------------------------------------
(* The slots.  What a slot holds was published under the slot's id; every slot
   the pass has left to do meets the threshold, the one being settled too. *)

Published(m)  == \E i \in 1..Len(sigLog) : sigLog[i] = m
WasCleared(d) == \E i \in 1..Len(clearedLog) : clearedLog[i] = d

SlotIsPublished(p) ==
  /\ pending[p].proposal # None =>
       pending[p].proposal.id = p /\ WasCleared(pending[p].proposal)
  /\ \A m \in pending[p].signatures : m.id = p /\ Published(m)

SlotsArePublished == \A p \in ProposalId : SlotIsPublished(p)

PassIsReady ==
  /\ \A p \in todo : ThresholdMet(p)
  /\ cur # None => cur \in todo
  /\ pc \in {"sigs", "cleared"} => todo = {}

SlotInv == SlotsArePublished /\ PassIsReady

-------------------------------------------------------------------------------
(* Type correctness *)

LEMMA LogTypes ==
  ASSUME TypeOK
  PROVE  /\ Len(sigLog) \in Nat /\ Len(clearedLog) \in Nat
         /\ Len(txs) \in Nat /\ Len(executed) \in Nat
         /\ \A i \in 1..Len(sigLog) : sigLog[i] \in Signatures
         /\ \A i \in 1..Len(clearedLog) : clearedLog[i] \in Drafts
         /\ \A i \in 1..Len(txs) : txs[i] \in Txs
         /\ \A n \in 1..Len(executed) : executed[n] \in Bundles
<1> Len(sigLog) \in Nat /\ \A i \in 1..Len(sigLog) : sigLog[i] \in Signatures
  BY DEF TypeOK, BusTypeOK
<1> Len(clearedLog) \in Nat /\ \A i \in 1..Len(clearedLog) : clearedLog[i] \in Drafts
  BY DEF TypeOK, BusTypeOK
<1> Len(txs) \in Nat /\ \A i \in 1..Len(txs) : txs[i] \in Txs
  BY DEF TypeOK, ChainTypeOK
<1> Len(executed) \in Nat /\ \A n \in 1..Len(executed) : executed[n] \in Bundles
  BY DEF TypeOK, ChainTypeOK
<1> QED
  OBVIOUS

\* A part of the state that a step leaves alone keeps its types.
LEMMA Untouched ==
  ASSUME TypeOK
  PROVE  /\ UNCHANGED busVars => BusTypeOK'
         /\ UNCHANGED p3Vars => P3TypeOK'
         /\ UNCHANGED <<diskVars, minted, outcomes>> => NotesTypeOK'
         /\ UNCHANGED <<txs, executed, permit>> => ChainTypeOK'
<1> UNCHANGED busVars => BusTypeOK'
  BY DEF TypeOK, BusTypeOK, busVars
<1> UNCHANGED p3Vars => P3TypeOK'
  BY DEF TypeOK, P3TypeOK, p3Vars
<1> UNCHANGED <<diskVars, minted, outcomes>> => NotesTypeOK'
  BY DEF TypeOK, NotesTypeOK, diskVars
<1> UNCHANGED <<txs, executed, permit>> => ChainTypeOK'
  BY DEF TypeOK, ChainTypeOK
<1> QED
  OBVIOUS

\* The steps of the publishers keep the types.
LEMMA PublishersType == TypeOK /\ Publishers => TypeOK'
<1> SUFFICES ASSUME TypeOK, Publishers PROVE TypeOK'
  OBVIOUS
<1>1. /\ UNCHANGED <<p3Vars, diskVars, chainVars, outcomes, faults, timeouts>>
  BY DEF Publishers, QuantPropose, QuantSign, PatriarchClear, PatriarchSign, PublishSignature,
         ClearNetwork, TenMinutesPass
<1>2. BusTypeOK'
  <2> USE DEF TypeOK, BusTypeOK
  <2>1. ASSUME NEW p \in ProposalId, NEW s \in Swap, QuantPropose(p, s) PROVE BusTypeOK'
    <3>1. [id |-> p, swap |-> s, nonce |-> SafeNonce,
           permit |-> IF Live THEN permit ELSE 0] \in Drafts
      BY LogTypes DEF Drafts, SafeNonce, ChainTypeOK
    <3> QED
      BY <2>1, <3>1 DEF QuantPropose
  <2>2. ASSUME NEW d \in drafts, NEW o \in Owner, PublishSignature(d, o) PROVE BusTypeOK'
    <3>1. sigLog' = Append(sigLog, Signature(d, o)) /\ Signature(d, o) \in Signatures
      BY <2>2, SignatureType DEF PublishSignature
    <3>2. sigLog' \in Seq(Signatures)
      BY <3>1
    <3> QED
      BY <2>2, <3>2 DEF PublishSignature
  <2>3. ASSUME NEW d \in drafts, PatriarchClear(d) PROVE BusTypeOK'
    <3>1. clearedLog' = Append(clearedLog, d) /\ d \in Drafts
      BY <2>3 DEF PatriarchClear
    <3>2. clearedLog' \in Seq(Drafts)
      BY <3>1
    <3> QED
      BY <2>3, <3>2 DEF PatriarchClear
  <2>4. CASE ClearNetwork
    <3>1. floor' \in [sigs : Nat, cleared : Nat]
      BY <2>4, LogTypes DEF ClearNetwork
    <3> QED
      BY <2>4, <3>1 DEF ClearNetwork
  <2>5. CASE TenMinutesPass
    <3>1. staleUpTo' \in Nat
      BY <2>5, LogTypes DEF TenMinutesPass
    <3> QED
      BY <2>5, <3>1 DEF TenMinutesPass
  <2> QED
    <3>1. Quant \in Owner /\ Patriarch \in Owner
      BY SettlementAssumption
    <3> HIDE DEF BusTypeOK, TypeOK
    <3> QED
      BY <2>1, <2>2, <2>3, <2>4, <2>5, <3>1 DEF Publishers, QuantSign, PatriarchSign
<1> QED
  BY <1>1, <1>2, Untouched DEF TypeOK, chainVars

\* The drains keep the types.
LEMMA DrainsType ==
  TypeOK /\ (DrainSignatures \/ DrainCleared \/ EndPass) => TypeOK'
<1> SUFFICES ASSUME TypeOK, DrainSignatures \/ DrainCleared \/ EndPass PROVE TypeOK'
  OBVIOUS
<1>1. UNCHANGED <<busVars, diskVars, chainVars, outcomes, faults, timeouts>>
  BY DEF DrainSignatures, DrainCleared, EndPass
<1>2. CASE DrainSignatures
  <2>1. \A p \in ProposalId :
          {sigLog[i] : i \in {j \in Unread("sigs", sigLog) :
                               j > staleUpTo /\ sigLog[j].id = p}} \subseteq Signatures
    BY LogTypes DEF Unread
  <2>2. \A p \in ProposalId, S \in SUBSET Signatures :
          [pending[p] EXCEPT !.signatures = @ \cup S] \in Slots
    BY DEF TypeOK, P3TypeOK, Slots
  <2>3. pending' \in [ProposalId -> Slots]
    BY <1>2, <2>1, <2>2 DEF DrainSignatures
  <2>4. P3TypeOK'
    BY <1>2, <2>3, LogTypes DEF DrainSignatures, TypeOK, P3TypeOK, Places
  <2> QED
    BY <1>1, <2>4, Untouched DEF TypeOK, chainVars
<1>3. CASE DrainCleared
  <2>1. PICK latest \in [ProposalId -> 0..Len(clearedLog)] :
          pending' = [p \in ProposalId |->
             [pending[p] EXCEPT !.proposal =
                IF latest[p] = 0 THEN @ ELSE clearedLog[latest[p]]]]
    BY <1>3 DEF DrainCleared
  <2>2. \A p \in ProposalId :
          (IF latest[p] = 0 THEN pending[p].proposal ELSE clearedLog[latest[p]])
            \in Drafts \cup {None}
    BY LogTypes DEF TypeOK, P3TypeOK, Slots
  <2>3. \A p \in ProposalId, d \in Drafts \cup {None} :
          [pending[p] EXCEPT !.proposal = d] \in Slots
    BY DEF TypeOK, P3TypeOK, Slots
  <2>4. pending' \in [ProposalId -> Slots]
    BY <2>1, <2>2, <2>3
  <2>5. P3TypeOK'
    BY <1>3, <2>4, LogTypes DEF DrainCleared, TypeOK, P3TypeOK, Places
  <2> QED
    BY <1>1, <2>5, Untouched DEF TypeOK, chainVars
<1>4. CASE EndPass
  <2>1. P3TypeOK'
    BY <1>4 DEF EndPass, TypeOK, P3TypeOK, Places
  <2> QED
    BY <1>1, <2>1, Untouched DEF TypeOK, chainVars
<1> QED
  BY <1>2, <1>3, <1>4

\* So do the steps that settle a slot.
LEMMA StartType ==
  ASSUME TypeOK, PassIsReady, NEW p \in todo, StartSettlement(p)
  PROVE  TypeOK'
<1>1. p \in ProposalId /\ pending[p].proposal # None /\ p # None
  BY SettlementAssumption DEF PassIsReady, ThresholdMet, TypeOK, P3TypeOK
<1>2. Bundle(p) \in Bundles /\ \A k \in Kinds : Outcome(k, p) \in Notes
  BY <1>1, BundleType, OutcomeType
<1>3. [bundle |-> Bundle(p), status |-> "pending"] \in Txs
  BY <1>2 DEF Txs
<1>4. P3TypeOK'
  BY <1>1 DEF StartSettlement, RejectReplay, ExecuteMock, SubmitTx, SendFails, PublishFailure,
              TypeOK, P3TypeOK, Places
<1>5. NotesTypeOK'
  BY <1>2 DEF StartSettlement, RejectReplay, ExecuteMock, SubmitTx, SendFails, PublishFailure,
              TypeOK, NotesTypeOK, diskVars, chainVars, Kinds
<1>6. ChainTypeOK'
  <2>1. executed' \in {executed, Append(executed, Bundle(p))}
    BY DEF StartSettlement, RejectReplay, ExecuteMock, SubmitTx, SendFails, chainVars
  <2>2. txs' \in {txs, Append(txs, [bundle |-> Bundle(p), status |-> "pending"])}
    BY DEF StartSettlement, RejectReplay, ExecuteMock, SubmitTx, SendFails, chainVars
  <2>3. permit' = permit
    BY DEF StartSettlement, RejectReplay, ExecuteMock, SubmitTx, SendFails, chainVars
  <2>4. Append(executed, Bundle(p)) \in Seq(Bundles)
    BY <1>2 DEF TypeOK, ChainTypeOK
  <2>5. Append(txs, [bundle |-> Bundle(p), status |-> "pending"]) \in Seq(Txs)
    BY <1>3 DEF TypeOK, ChainTypeOK
  <2> QED
    BY <2>1, <2>2, <2>3, <2>4, <2>5 DEF TypeOK, ChainTypeOK
<1>7. UNCHANGED <<busVars, faults, timeouts>>
  BY DEF StartSettlement, RejectReplay, ExecuteMock, SubmitTx, SendFails
<1> QED
  BY <1>4, <1>5, <1>6, <1>7, Untouched DEF TypeOK

\* And the steps that finish one.
LEMMA FinishType == TypeOK /\ PassIsReady /\ FinishSettlement => TypeOK'
<1> SUFFICES ASSUME TypeOK, PassIsReady, FinishSettlement PROVE TypeOK'
  OBVIOUS
<1> USE DEF FinishSettlement, AwaitSuccess, AwaitRevert, AwaitTimeout, ArchiveFailure,
            Mark, ArchiveReceipt, MintReceipt, PublishSuccess
<1>1. cur \in ProposalId /\ cur # None /\ pending[cur].proposal # None
  BY DEF TypeOK, P3TypeOK, PassIsReady, ThresholdMet
<1>2. pending[cur].proposal.nonce \in Nat /\ \A k \in Kinds : Outcome(k, cur) \in Notes
  BY <1>1, OutcomeType DEF TypeOK, P3TypeOK, Slots, Drafts
<1>3. P3TypeOK'
  <2>1. [pending EXCEPT ![cur] = EmptySlot] \in [ProposalId -> Slots]
    BY <1>1 DEF TypeOK, P3TypeOK, EmptySlot, Slots
  <2>2. CASE ArchiveFailure \/ PublishSuccess
    BY <1>1, <2>1, <2>2 DEF Close, TypeOK, P3TypeOK, Places
  <2> QED
    BY <1>1, <2>2 DEF PublishFailure, TypeOK, P3TypeOK, Places
<1>4. NotesTypeOK'
  <2>1. ledger' = ledger \/ Mark
    BY DEF diskVars
  <2>2. Mark => ledger' \subseteq [nonce : Nat, id : ProposalId]
    BY <1>1, <1>2 DEF TypeOK, NotesTypeOK
  <2>3. /\ receipts' \in {receipts} \cup {receipts \cup {Outcome(k, cur)} : k \in Kinds}
        /\ outcomes' \in {outcomes} \cup {outcomes \cup {Outcome(k, cur)} : k \in Kinds}
        /\ minted' \in {minted} \cup {minted \cup {Outcome(k, cur)} : k \in Kinds}
    BY DEF PublishFailure, diskVars, chainVars, Kinds
  <2> QED
    BY <1>2, <2>1, <2>2, <2>3 DEF TypeOK, NotesTypeOK
<1>5. UNCHANGED <<busVars, txs, executed, permit, faults>> /\ timeouts' \in {timeouts, timeouts + 1}
  BY DEF chainVars
<1> QED
  BY <1>3, <1>4, <1>5, Untouched DEF TypeOK

\* And those of the chain, and the failures.
LEMMA ChainType == TypeOK /\ Chain => TypeOK'
<1> SUFFICES ASSUME TypeOK, Chain PROVE TypeOK'
  OBVIOUS
<1>1. UNCHANGED <<busVars, p3Vars, diskVars, minted, outcomes, faults, timeouts>>
  BY DEF Chain, MineTx, PermitChanges
<1>2. ChainTypeOK'
  <2>1. ASSUME NEW i \in 1..Len(txs), MineTx(i) PROVE ChainTypeOK'
    <3>1. txs[i] \in Txs
      BY LogTypes
    <3>2. \A st \in {"ok", "reverted"} : [txs[i] EXCEPT !.status = st] \in Txs
      BY <3>1 DEF Txs
    <3>3. \A e \in Txs : [txs EXCEPT ![i] = e] \in Seq(Txs)
      BY DEF TypeOK, ChainTypeOK
    <3>4. \E st \in {"ok", "reverted"} : txs' = [txs EXCEPT ![i] = [txs[i] EXCEPT !.status = st]]
      BY <2>1 DEF MineTx
    <3>5. txs' \in Seq(Txs)
      BY <3>2, <3>3, <3>4
    <3>6. txs[i].bundle \in Bundles
      BY <3>1 DEF Txs
    <3>7. executed' \in {executed, Append(executed, txs[i].bundle)} /\ permit' = permit
      BY <2>1 DEF MineTx
    <3>8. Append(executed, txs[i].bundle) \in Seq(Bundles)
      BY <3>6 DEF TypeOK, ChainTypeOK
    <3> QED
      BY <3>5, <3>7, <3>8 DEF TypeOK, ChainTypeOK
  <2>2. CASE PermitChanges
    BY <2>2 DEF PermitChanges, TypeOK, ChainTypeOK
  <2> QED
    BY <2>1, <2>2 DEF Chain
<1> QED
  BY <1>1, <1>2, Untouched DEF TypeOK

\* An exception or a crash empties memory, and the types stay.
LEMMA FailureType == TypeOK /\ (DaemonError \/ Crash) => TypeOK'
<1> SUFFICES ASSUME TypeOK, DaemonError \/ Crash PROVE TypeOK'
  OBVIOUS
<1>1. P3TypeOK'
  BY DEF DaemonError, Crash, TypeOK, P3TypeOK, Places, Slots, EmptySlot
<1>2. UNCHANGED <<busVars, diskVars, chainVars, outcomes, timeouts>> /\ faults' = faults + 1
  BY DEF DaemonError, Crash
<1> QED
  BY <1>1, <1>2, Untouched DEF TypeOK, chainVars

\* Every step keeps the types, given that the slots of the pass hold proposals.
LEMMA TypeStep == TypeOK /\ PassIsReady /\ [Next]_vars => TypeOK'
<1>1. TypeOK /\ UNCHANGED vars => TypeOK'
  BY Untouched DEF vars, TypeOK, chainVars
<1> QED
  BY <1>1, PublishersType, DrainsType, StartType, FinishType, ChainType, FailureType
  DEF Next, Daemon

-------------------------------------------------------------------------------
(* The invariant of the slots *)

\* A sequence that grows keeps what it holds.
LEMMA GrowsByOne ==
  ASSUME NEW S, NEW seq \in Seq(S), NEW e \in S
  PROVE  /\ Len(Append(seq, e)) = Len(seq) + 1
         /\ \A n \in 1..Len(seq) : Append(seq, e)[n] = seq[n]
         /\ Append(seq, e)[Len(seq) + 1] = e
OBVIOUS

\* A step appends at most one signature to CONSENSUS_SIGNATURES.
LEMMA SigLogChanges ==
  ASSUME TypeOK, [Next]_vars
  PROVE  sigLog' = sigLog \/ \E m \in Signatures : sigLog' = Append(sigLog, m)
<1>1. ASSUME NEW d \in drafts, NEW o \in Owner, PublishSignature(d, o)
      PROVE  \E m \in Signatures : sigLog' = Append(sigLog, m)
  <2>1. Signature(d, o) \in Signatures
    BY SignatureType DEF TypeOK, BusTypeOK
  <2> QED
    BY <1>1, <2>1 DEF PublishSignature
<1>2. CASE sigLog' # sigLog
  <2>1. \E d \in drafts : QuantSign(d) \/ PatriarchSign(d)
    BY <1>2 DEF Next, vars, busVars, Publishers, QuantPropose, PatriarchClear,
       ClearNetwork, TenMinutesPass, Daemon, DrainSignatures, DrainCleared, EndPass,
       StartSettlement, RejectReplay, ExecuteMock, SubmitTx, SendFails, FinishSettlement,
       AwaitSuccess, AwaitRevert, AwaitTimeout, ArchiveFailure, Mark, ArchiveReceipt,
       MintReceipt, PublishSuccess, DaemonError, Crash, Chain, MineTx, PermitChanges
  <2> QED
    BY <1>1, <2>1, SettlementAssumption DEF QuantSign, PatriarchSign
<1> QED
  BY <1>2

\* The two logs only grow: what was published stays published.
LEMMA LogsGrow ==
  ASSUME TypeOK, [Next]_vars
  PROVE  /\ \A m : Published(m) => Published(m)'
         /\ \A d : WasCleared(d) => WasCleared(d)'
<1>1. \/ clearedLog' = clearedLog
      \/ \E d \in Drafts : clearedLog' = Append(clearedLog, d)
  <2>1. CASE clearedLog' # clearedLog
    <3>1. \E d \in drafts : PatriarchClear(d)
      BY <2>1 DEF Next, vars, busVars, Publishers, QuantPropose, QuantSign, PatriarchSign,
         PublishSignature, ClearNetwork, TenMinutesPass, Daemon, DrainSignatures, DrainCleared,
         EndPass, StartSettlement, RejectReplay, ExecuteMock, SubmitTx, SendFails,
         FinishSettlement, AwaitSuccess, AwaitRevert, AwaitTimeout, ArchiveFailure, Mark,
         ArchiveReceipt, MintReceipt, PublishSuccess, DaemonError, Crash, Chain, MineTx,
         PermitChanges
    <3> QED
      BY <3>1 DEF PatriarchClear, TypeOK, BusTypeOK
  <2> QED
    BY <2>1
<1>2. ASSUME NEW m, Published(m) PROVE Published(m)'
  <2> sigLog' = sigLog \/ \E e \in Signatures : sigLog' = Append(sigLog, e)
    BY SigLogChanges
  <2>1. PICK i \in 1..Len(sigLog) : sigLog[i] = m
    BY <1>2 DEF Published
  <2>2. i \in 1..Len(sigLog') /\ sigLog'[i] = m
    <3>1. sigLog \in Seq(Signatures) /\ Len(sigLog) \in Nat
      BY DEF TypeOK, BusTypeOK
    <3>2. CASE sigLog' = sigLog
      BY <2>1, <3>2
    <3>3. ASSUME NEW e \in Signatures, sigLog' = Append(sigLog, e)
          PROVE  i \in 1..Len(sigLog') /\ sigLog'[i] = m
      BY <2>1, <3>1, <3>3, GrowsByOne
    <3> QED
      BY <3>2, <3>3
  <2> QED
    BY <2>2 DEF Published
<1>3. ASSUME NEW d, WasCleared(d) PROVE WasCleared(d)'
  <2>1. PICK i \in 1..Len(clearedLog) : clearedLog[i] = d
    BY <1>3 DEF WasCleared
  <2>2. i \in 1..Len(clearedLog') /\ clearedLog'[i] = d
    <3>1. clearedLog \in Seq(Drafts) /\ Len(clearedLog) \in Nat
      BY DEF TypeOK, BusTypeOK
    <3>2. CASE clearedLog' = clearedLog
      BY <2>1, <3>2
    <3>3. ASSUME NEW e \in Drafts, clearedLog' = Append(clearedLog, e)
          PROVE  i \in 1..Len(clearedLog') /\ clearedLog'[i] = d
      BY <2>1, <3>1, <3>3, GrowsByOne
    <3> QED
      BY <1>1, <3>2, <3>3
  <2> QED
    BY <2>2 DEF WasCleared
<1> QED
  BY <1>2, <1>3

\* How a step may change the slots.
LEMMA SlotChanges ==
  ASSUME [Next]_vars
  PROVE  \/ UNCHANGED pending
         \/ DrainSignatures \/ DrainCleared \/ Crash
         \/ pc \notin {"sigs", "cleared", "settle"} /\ Close(cur)
BY DEF Next, vars, p3Vars, Publishers, QuantPropose, QuantSign, PatriarchSign,
   PublishSignature, PatriarchClear, ClearNetwork, TenMinutesPass, Daemon, EndPass,
   StartSettlement, RejectReplay, ExecuteMock, SubmitTx, SendFails, PublishFailure,
   FinishSettlement, AwaitSuccess, AwaitRevert, AwaitTimeout, ArchiveFailure, Mark,
   ArchiveReceipt, MintReceipt, PublishSuccess, DaemonError, Chain, MineTx, PermitChanges

\* The drains fill slots only with what was published under their id.
LEMMA SlotsStep == TypeOK /\ SlotsArePublished /\ [Next]_vars => SlotsArePublished'
<1> SUFFICES ASSUME TypeOK, SlotsArePublished, [Next]_vars, NEW p \in ProposalId
             PROVE  SlotIsPublished(p)'
  BY DEF SlotsArePublished
<1> DEFINE clearedNext(d) == \E i \in 1..Len(clearedLog') : clearedLog'[i] = d
           publishedNext(m) == \E i \in 1..Len(sigLog') : sigLog'[i] = m
<1>0. /\ \A m : Published(m) => publishedNext(m)
      /\ \A d : WasCleared(d) => clearedNext(d)
  BY LogsGrow DEF Published, WasCleared
<1>1. /\ pending[p].proposal # None =>
           pending[p].proposal.id = p /\ clearedNext(pending[p].proposal)
      /\ \A m \in pending[p].signatures : m.id = p /\ publishedNext(m)
  BY <1>0 DEF SlotsArePublished, SlotIsPublished
<1>2. SUFFICES /\ pending'[p].proposal # None =>
                    pending'[p].proposal.id = p /\ clearedNext(pending'[p].proposal)
               /\ \A m \in pending'[p].signatures : m.id = p /\ publishedNext(m)
  BY DEF SlotIsPublished, Published, WasCleared
<1>3. pending[p] \in Slots
  BY DEF TypeOK, P3TypeOK
<1> HIDE DEF clearedNext, publishedNext
<1>4. CASE UNCHANGED pending
  BY <1>1, <1>4
<1>5. CASE DrainSignatures
  <2>1. /\ pending'[p].proposal = pending[p].proposal
        /\ pending'[p].signatures = pending[p].signatures \cup
             {sigLog[i] : i \in {j \in Unread("sigs", sigLog) : j > staleUpTo /\ sigLog[j].id = p}}
    BY <1>3, <1>5 DEF DrainSignatures, Slots
  <2>2. \A i \in Unread("sigs", sigLog) : publishedNext(sigLog[i])
    BY <1>0 DEF Unread, Published
  <2> QED
    BY <1>1, <2>1, <2>2
<1>6. CASE DrainCleared
  <2>1. PICK latest \in [ProposalId -> 0..Len(clearedLog)] :
          /\ \A q \in ProposalId : latest[q] # 0 =>
               latest[q] \in 1..Len(clearedLog) /\ clearedLog[latest[q]].id = q
          /\ pending' = [q \in ProposalId |->
               [pending[q] EXCEPT !.proposal =
                  IF latest[q] = 0 THEN @ ELSE clearedLog[latest[q]]]]
    BY <1>6 DEF DrainCleared, Unread
  <2>2. /\ pending'[p].signatures = pending[p].signatures
        /\ pending'[p].proposal = IF latest[p] = 0 THEN pending[p].proposal
                                                   ELSE clearedLog[latest[p]]
    BY <1>3, <2>1 DEF Slots
  <2>3. latest[p] # 0 => clearedNext(clearedLog[latest[p]])
    BY <1>0, <2>1 DEF WasCleared
  <2> QED
    <3>1. latest[p] # 0 => clearedLog[latest[p]].id = p
      BY <2>1
    <3> HIDE DEF clearedNext, publishedNext
    <3>2. CASE latest[p] = 0
      BY <1>1, <2>2, <3>2
    <3>3. CASE latest[p] # 0
      BY <1>1, <2>2, <2>3, <3>1, <3>3
    <3> QED
      BY <3>2, <3>3
<1>7. CASE Crash
  BY <1>7 DEF Crash, EmptySlot
<1>8. CASE Close(cur)
  BY <1>1, <1>8 DEF Close, EmptySlot, TypeOK, P3TypeOK
<1> QED
  BY <1>4, <1>5, <1>6, <1>7, <1>8, SlotChanges

\* Slots other than the one that closes stay as they are until the pass ends.
LEMMA PassStep == TypeOK /\ PassIsReady /\ [Next]_vars => PassIsReady'
<1> SUFFICES ASSUME TypeOK, PassIsReady, [Next]_vars PROVE PassIsReady'
  OBVIOUS
<1>1. CASE UNCHANGED <<pc, cur, todo, pending>>
  BY <1>1 DEF PassIsReady, ThresholdMet, ValidSignatures
<1>2. CASE DrainSignatures
  BY <1>2 DEF DrainSignatures, PassIsReady, TypeOK, P3TypeOK
<1>3. CASE DrainCleared
  BY <1>3 DEF DrainCleared, PassIsReady, TypeOK, P3TypeOK
<1>4. CASE EndPass
  BY <1>4 DEF EndPass, PassIsReady
<1>5. ASSUME NEW p \in todo, StartSettlement(p) PROVE PassIsReady'
  <2>1. UNCHANGED <<todo, pending>> /\ cur' = p /\ pc' \notin {"sigs", "cleared"}
    BY <1>5 DEF StartSettlement, RejectReplay, ExecuteMock, SubmitTx, SendFails, PublishFailure
  <2> QED
    BY <2>1 DEF PassIsReady, ThresholdMet, ValidSignatures
<1>6. CASE FinishSettlement
  <2>1. CASE Close(cur)
    <3>1. \A p \in todo' : ThresholdMet(p) /\ p # cur /\ p \in ProposalId
      BY <2>1 DEF Close, PassIsReady, TypeOK, P3TypeOK
    <3>2. \A p \in todo' : pending'[p] = pending[p]
      BY <2>1, <3>1 DEF Close, TypeOK, P3TypeOK
    <3>3. \A p \in todo' : ThresholdMet(p)'
      BY <3>1, <3>2 DEF ThresholdMet, ValidSignatures
    <3> QED
      BY <2>1, <3>3 DEF Close, PassIsReady
  <2>2. CASE UNCHANGED <<todo, pending>> /\ cur' = cur /\ pc' \notin {"sigs", "cleared"}
    BY <2>2 DEF PassIsReady, ThresholdMet, ValidSignatures
  <2> QED
    BY <1>6, <2>1, <2>2 DEF FinishSettlement, AwaitSuccess, AwaitRevert, AwaitTimeout,
       ArchiveFailure, Mark, ArchiveReceipt, MintReceipt, PublishSuccess, PublishFailure
<1>7. CASE DaemonError \/ Crash
  BY <1>7 DEF DaemonError, Crash, PassIsReady
<1> QED
  BY <1>1, <1>2, <1>3, <1>4, <1>5, <1>6, <1>7
  DEF Next, vars, p3Vars, Publishers, QuantPropose, QuantSign, PatriarchSign, PublishSignature,
      PatriarchClear, ClearNetwork, TenMinutesPass, Daemon, Chain, MineTx, PermitChanges

\* The slots are empty at first.
LEMMA SlotInvInit == Init => TypeOK /\ SlotInv
<1> SUFFICES ASSUME Init PROVE TypeOK /\ SlotInv
  OBVIOUS
<1>1. TypeOK
  BY DEF Init, TypeOK, BusTypeOK, P3TypeOK, NotesTypeOK, ChainTypeOK, Slots, EmptySlot, Places
<1>2. SlotInv
  BY SettlementAssumption DEF Init, SlotInv, SlotsArePublished, SlotIsPublished, PassIsReady, EmptySlot
<1> QED
  BY <1>1, <1>2

\* The slot invariant holds in every behaviour.
LEMMA SlotInvariance == Spec => [](TypeOK /\ SlotInv)
<1>1. TypeOK /\ SlotInv /\ [Next]_vars => TypeOK' /\ SlotInv'
  BY TypeStep, SlotsStep, PassStep DEF SlotInv
<1> QED
  BY <1>1, SlotInvInit, PTL DEF Spec

\* Every variable keeps its type.
THEOREM TypeCorrect == Spec => []TypeOK
BY SlotInvariance, PTL

-------------------------------------------------------------------------------
(* Consent *)

\* The bundle carries the signatures of enough owners, each published and over
\* the bundle's proposal, and the proposal was cleared.
Consented(b) ==
  /\ Cardinality(Signers(b.signatures)) >= Threshold
  /\ \A m \in b.signatures : m = Signature(b.draft, m.signer) /\ Published(m)
  /\ WasCleared(b.draft)

ConsentInv ==
  /\ \A i \in 1..Len(txs) : Consented(txs[i].bundle)
  /\ \A n \in 1..Len(executed) : Consented(executed[n])

\* What P3 builds from a slot that meets the threshold has the owners' consent.
LEMMA BundleConsented ==
  ASSUME TypeOK, SlotInv, NEW p \in todo
  PROVE  Bundle(p) \in Bundles /\ Consented(Bundle(p))
<1>1. p \in ProposalId /\ pending[p].proposal # None /\ ThresholdMet(p)
  BY DEF SlotInv, PassIsReady, ThresholdMet, TypeOK, P3TypeOK
<1>2. Bundle(p) \in Bundles
  BY <1>1, BundleType
<1>3. pending[p] \in Slots /\ pending[p].proposal \in Drafts
  BY <1>1 DEF TypeOK, P3TypeOK, Slots
<1>4. SlotIsPublished(p)
  BY <1>1 DEF SlotInv, SlotsArePublished
<1>5. ASSUME NEW m \in ValidSignatures(p)
      PROVE  m = Signature(pending[p].proposal, m.signer) /\ Published(m)
  <2>1. m \in pending[p].signatures /\ m.hash = SafeTxHash(pending[p].proposal)
    BY DEF ValidSignatures
  <2>2. m \in Signatures /\ m.id = pending[p].proposal.id /\ Published(m)
    BY <1>1, <1>3, <1>4, <2>1 DEF Slots, SlotIsPublished
  <2> QED
    BY <2>1, <2>2 DEF Signature, Signatures
<1> QED
  BY <1>1, <1>2, <1>4, <1>5 DEF Consented, Bundle, ThresholdMet, SlotIsPublished

\* How a step may change what is on chain.
LEMMA ChainChanges ==
  ASSUME [Next]_vars
  PROVE  \/ UNCHANGED <<txs, executed>>
         \/ \E p \in todo : ExecuteMock(p) \/ SubmitTx(p)
         \/ \E i \in 1..Len(txs) : MineTx(i)
BY DEF Next, vars, chainVars, Publishers, QuantPropose, QuantSign, PatriarchSign,
   PublishSignature, PatriarchClear, ClearNetwork, TenMinutesPass, Daemon, DrainSignatures,
   DrainCleared, EndPass, StartSettlement, RejectReplay, SendFails, PublishFailure,
   FinishSettlement, AwaitSuccess, AwaitRevert, AwaitTimeout, ArchiveFailure, Mark,
   ArchiveReceipt, MintReceipt, PublishSuccess, DaemonError, Crash, Chain, PermitChanges

\* MineTx settles one transaction, and leaves every bundle as it is.
LEMMA MineChanges ==
  ASSUME TypeOK, NEW i \in 1..Len(txs), MineTx(i)
  PROVE  /\ Len(txs') = Len(txs)
         /\ \A j \in 1..Len(txs) : txs'[j].bundle = txs[j].bundle
         /\ \A j \in 1..Len(txs) : j # i => txs'[j] = txs[j]
         /\ \/ txs'[i].status = "ok" /\ SafeAccepts(txs[i].bundle)
               /\ executed' = Append(executed, txs[i].bundle)
            \/ txs'[i].status = "reverted" /\ executed' = executed
<1>1. txs \in Seq(Txs) /\ txs[i] \in Txs
  BY LogTypes DEF TypeOK, ChainTypeOK
<1>2. ASSUME NEW st \in {"ok", "reverted"}, txs' = [txs EXCEPT ![i].status = st]
      PROVE  /\ Len(txs') = Len(txs)
             /\ \A j \in 1..Len(txs) : j # i => txs'[j] = txs[j]
             /\ txs'[i].bundle = txs[i].bundle /\ txs'[i].status = st
  BY <1>1, <1>2 DEF Txs
<1> QED
  BY <1>2 DEF MineTx

\* Only consented bundles are sent, mined and executed.
LEMMA ConsentStep ==
  TypeOK /\ SlotInv /\ ConsentInv /\ [Next]_vars => ConsentInv'
<1> SUFFICES ASSUME TypeOK, SlotInv, ConsentInv, [Next]_vars PROVE ConsentInv'
  OBVIOUS
<1> DEFINE clearedNext(d) == \E i \in 1..Len(clearedLog') : clearedLog'[i] = d
           publishedNext(m) == \E i \in 1..Len(sigLog') : sigLog'[i] = m
           consentedNext(b) == /\ Cardinality(Signers(b.signatures)) >= Threshold
                               /\ \A m \in b.signatures :
                                    m = Signature(b.draft, m.signer) /\ publishedNext(m)
                               /\ clearedNext(b.draft)
<1>1. ASSUME NEW b, Consented(b) PROVE consentedNext(b)
  <2>1. /\ \A m : Published(m) => publishedNext(m)
        /\ \A d : WasCleared(d) => clearedNext(d)
    BY LogsGrow DEF Published, WasCleared
  <2> QED
    BY <1>1, <2>1 DEF Consented
<1>2. SUFFICES /\ \A i \in 1..Len(txs') : consentedNext(txs'[i].bundle)
               /\ \A n \in 1..Len(executed') : consentedNext(executed'[n])
  BY DEF ConsentInv, Consented, Published, WasCleared
<1>3. /\ \A i \in 1..Len(txs) : consentedNext(txs[i].bundle)
      /\ \A n \in 1..Len(executed) : consentedNext(executed[n])
  BY <1>1 DEF ConsentInv
<1> HIDE DEF consentedNext
<1>4. CASE UNCHANGED <<txs, executed>>
  BY <1>3, <1>4
<1>5. ASSUME NEW p \in todo, ExecuteMock(p) \/ SubmitTx(p)
      PROVE  /\ \A i \in 1..Len(txs') : consentedNext(txs'[i].bundle)
             /\ \A n \in 1..Len(executed') : consentedNext(executed'[n])
  <2> DEFINE tx == [bundle |-> Bundle(p), status |-> "pending"]
  <2>1. Bundle(p) \in Bundles /\ consentedNext(Bundle(p)) /\ tx \in Txs /\ tx.bundle = Bundle(p)
    BY <1>1, BundleConsented DEF Txs
  <2>2. txs \in Seq(Txs) /\ executed \in Seq(Bundles)
    BY DEF TypeOK, ChainTypeOK
  <2>3. \/ txs' = txs /\ executed' = Append(executed, Bundle(p))
        \/ txs' = Append(txs, tx) /\ executed' = executed
    BY <1>5 DEF ExecuteMock, SubmitTx
  <2> HIDE DEF tx
  <2>4. txs' = Append(txs, tx) => \A i \in 1..Len(txs') : consentedNext(txs'[i].bundle)
    BY <1>3, <2>1, <2>2, GrowsByOne
  <2>5. executed' = Append(executed, Bundle(p)) =>
          \A n \in 1..Len(executed') : consentedNext(executed'[n])
    BY <1>3, <2>1, <2>2, GrowsByOne
  <2> QED
    BY <1>3, <2>3, <2>4, <2>5
<1>6. ASSUME NEW i \in 1..Len(txs), MineTx(i)
      PROVE  /\ \A j \in 1..Len(txs') : consentedNext(txs'[j].bundle)
             /\ \A n \in 1..Len(executed') : consentedNext(executed'[n])
  <2>1. \A j \in 1..Len(txs') : consentedNext(txs'[j].bundle)
    BY <1>3, <1>6, MineChanges
  <2>2. txs[i].bundle \in Bundles /\ executed \in Seq(Bundles)
    BY LogTypes DEF TypeOK, ChainTypeOK, Txs
  <2>3. executed' = Append(executed, txs[i].bundle) =>
          \A n \in 1..Len(executed') : consentedNext(executed'[n])
    BY <1>3, <2>2, GrowsByOne
  <2> QED
    BY <1>3, <1>6, <2>1, <2>3, MineChanges
<1> QED
  BY <1>4, <1>5, <1>6, ChainChanges

\* Consent holds of every transaction, in every behaviour.
LEMMA ConsentInvariance == Spec => [](TypeOK /\ SlotInv /\ ConsentInv)
<1>1. Init => ConsentInv
  BY DEF Init, ConsentInv
<1> QED
  BY <1>1, SlotInvariance, ConsentStep, PTL DEF Spec

\* The signers of a bundle are among the owners that consent to its proposal.
LEMMA ConsentOfBundle ==
  ASSUME NEW b \in Bundles, Consented(b)
  PROVE  /\ Signers(b.signatures) \subseteq Consenting(b.draft)
         /\ Cardinality(Consenting(b.draft)) >= Threshold
<1>1. Signers(b.signatures) \subseteq Owner
  BY DEF Bundles, Signatures, Signers
<1>2. Signers(b.signatures) \subseteq Consenting(b.draft) /\ Consenting(b.draft) \subseteq Owner
  BY <1>1 DEF Consented, Consenting, Published, Signers
<1>3. IsFiniteSet(Consenting(b.draft)) /\ IsFiniteSet(Signers(b.signatures))
  BY <1>1, <1>2, FS_Subset, SettlementAssumption
<1>4. Cardinality(Signers(b.signatures)) <= Cardinality(Consenting(b.draft))
  BY <1>2, <1>3, FS_Subset
<1> QED
  BY <1>2, <1>3, <1>4, FS_CardinalityType, SettlementAssumption DEF Consented

\* Whatever the Safe executes, enough owners published a signature over it and
\* the firewall's clearance of it was published.
THEOREM Consent == Spec => []OwnersConsent
<1>1. TypeOK /\ ConsentInv => OwnersConsent
  <2> SUFFICES ASSUME TypeOK, ConsentInv, NEW n \in 1..Len(executed)
               PROVE  /\ Cardinality(Consenting(executed[n].draft)) >= Threshold
                      /\ WasCleared(executed[n].draft)
    BY DEF OwnersConsent, WasCleared
  <2>1. executed[n] \in Bundles /\ Consented(executed[n])
    BY LogTypes DEF ConsentInv
  <2> QED
    BY <2>1, ConsentOfBundle DEF Consented
<1> QED
  BY <1>1, ConsentInvariance, PTL

-------------------------------------------------------------------------------
(* The ledger *)

\* P3 only reaches mark with a nonce the ledger does not have.
NotYetMarked ==
  pc \in {"waiting", "executed"} => ~AlreadyExecuted(pending[cur].proposal.nonce)

\* Only dedupe.mark writes the ledger.
LEMMA LedgerChanges ==
  ASSUME [Next]_vars
  PROVE  UNCHANGED ledger \/ Mark
BY DEF Next, vars, diskVars, Publishers, QuantPropose, QuantSign, PatriarchSign,
   PublishSignature, PatriarchClear, ClearNetwork, TenMinutesPass, Daemon, DrainSignatures,
   DrainCleared, EndPass, StartSettlement, RejectReplay, ExecuteMock, SubmitTx, SendFails,
   PublishFailure, FinishSettlement, AwaitSuccess, AwaitRevert, AwaitTimeout, ArchiveFailure,
   ArchiveReceipt, MintReceipt, PublishSuccess, DaemonError, Crash, Chain, MineTx, PermitChanges

\* How a step may bring P3 to wait or to mark, or keep it there.
LEMMA WaitChanges ==
  ASSUME [Next]_vars, pc' \in {"waiting", "executed"}
  PROVE  /\ UNCHANGED <<ledger, pending>>
         /\ \/ pc \in {"waiting", "executed"} /\ UNCHANGED cur
            \/ \E p \in todo : /\ ExecuteMock(p) \/ SubmitTx(p)
                               /\ cur' = p
                               /\ ~AlreadyExecuted(pending[p].proposal.nonce)
<1>1. CASE UNCHANGED <<pc, cur, pending, ledger>>
  BY <1>1
<1>2. CASE Publishers \/ Chain
  BY <1>2 DEF p3Vars, diskVars, Publishers, QuantPropose, QuantSign, PatriarchSign,
   PublishSignature, PatriarchClear, ClearNetwork, TenMinutesPass, Chain, MineTx, PermitChanges
<1>3. CASE \E p \in todo : StartSettlement(p)
  BY <1>3 DEF StartSettlement, RejectReplay, ExecuteMock, SubmitTx, SendFails, PublishFailure,
     diskVars
<1>4. CASE FinishSettlement
  BY <1>4 DEF FinishSettlement, AwaitSuccess, AwaitRevert, AwaitTimeout, ArchiveFailure, Mark,
     ArchiveReceipt, MintReceipt, PublishSuccess, PublishFailure, Close, diskVars
<1>5. CASE DrainSignatures \/ DrainCleared \/ EndPass \/ DaemonError \/ Crash
  BY <1>5 DEF DrainSignatures, DrainCleared, EndPass, DaemonError, Crash
<1> QED
  BY <1>1, <1>2, <1>3, <1>4, <1>5 DEF Next, Daemon, vars, p3Vars, diskVars

\* From the check of the ledger to the mark, no row for the nonce appears.
LEMMA NotYetMarkedStep == NotYetMarked /\ [Next]_vars => NotYetMarked'
BY WaitChanges DEF NotYetMarked, AlreadyExecuted

\* dedupe.mark never replaces a row, although INSERT OR REPLACE would.
THEOREM LedgerGrows == Spec => LedgerOnlyGrows
<1>1. Init => NotYetMarked
  BY DEF Init, NotYetMarked
<1>2. NotYetMarked /\ [Next]_vars => ledger \subseteq ledger'
  BY LedgerChanges DEF NotYetMarked, Mark, AlreadyExecuted
<1>3. NotYetMarked /\ [Next]_vars => [ledger \subseteq ledger']_vars
  BY <1>2
<1> QED
  BY <1>1, <1>3, NotYetMarkedStep, PTL DEF Spec, LedgerOnlyGrows

-------------------------------------------------------------------------------
(* What P3 says after an execution *)

\* The proposal has executed (once or more).
Settled(d) == \E n \in 1..Len(executed) : executed[n].draft = d

Row(d) == [nonce |-> d.nonce, id |-> d.id]

\* Settled, of the state after the step.
SettledNext(d) == \E n \in 1..Len(executed') : executed'[n].draft = d

\* What P3 waits for is the transaction of its slot, and every step it takes
\* after the execution finds the ones before it done.
SettledInv ==
  /\ \A i \in 1..Len(txs) : txs[i].status = "ok" => Settled(txs[i].bundle.draft)
  /\ pc = "waiting" => txs # <<>> /\ txs[Len(txs)].bundle.draft = pending[cur].proposal
  /\ pc \in {"executed", "marked", "archived", "minted"} => Settled(pending[cur].proposal)
  /\ pc \in {"marked", "archived", "minted"} => Row(pending[cur].proposal) \in ledger
  /\ pc \in {"archived", "minted"} => Outcome("ExecutionReceipt", cur) \in receipts
  /\ \A row \in ledger : \E d \in Drafts : Settled(d) /\ row = Row(d)

\* How a step may move P3 between the execution and the end of the settlement.
LEMMA PlaceChanges ==
  ASSUME [Next]_vars, pc' \in {"waiting", "executed", "marked", "archived", "minted"}
  PROVE  /\ UNCHANGED pending
         /\ \/ UNCHANGED <<pc, cur, ledger, receipts>>
            \/ \E p \in todo : ExecuteMock(p) \/ SubmitTx(p)
            \/ AwaitSuccess \/ Mark \/ ArchiveReceipt \/ MintReceipt
<1>1. CASE UNCHANGED vars
  BY <1>1 DEF vars, p3Vars, diskVars
<1>2. CASE Publishers \/ Chain
  BY <1>2 DEF p3Vars, diskVars, Publishers, QuantPropose, QuantSign, PatriarchSign,
   PublishSignature, PatriarchClear, ClearNetwork, TenMinutesPass, Chain, MineTx, PermitChanges
<1>3. CASE \E p \in todo : StartSettlement(p)
  BY <1>3 DEF StartSettlement, RejectReplay, SendFails, PublishFailure, ExecuteMock, SubmitTx
<1>4. CASE FinishSettlement
  BY <1>4 DEF FinishSettlement, AwaitRevert, AwaitTimeout, ArchiveFailure,
     PublishSuccess, PublishFailure, Close, AwaitSuccess, Mark, ArchiveReceipt, MintReceipt
<1>5. CASE DrainSignatures \/ DrainCleared \/ EndPass \/ DaemonError \/ Crash
  BY <1>5 DEF DrainSignatures, DrainCleared, EndPass, DaemonError, Crash
<1> QED
  BY <1>1, <1>2, <1>3, <1>4, <1>5 DEF Next, Daemon

\* P3 takes back nothing it has written.
LEMMA NotesGrow ==
  ASSUME NotYetMarked, [Next]_vars
  PROVE  ledger \subseteq ledger' /\ receipts \subseteq receipts' /\ outcomes \subseteq outcomes'
<1>1. ledger \subseteq ledger'
  BY LedgerChanges DEF NotYetMarked, Mark, AlreadyExecuted
<1>2. receipts \subseteq receipts'
  BY DEF Next, vars, diskVars, Publishers, QuantPropose, QuantSign, PatriarchSign,
   PublishSignature, PatriarchClear, ClearNetwork, TenMinutesPass, Daemon, DrainSignatures,
   DrainCleared, EndPass, StartSettlement, RejectReplay, ExecuteMock, SubmitTx, SendFails,
   PublishFailure, FinishSettlement, AwaitSuccess, AwaitRevert, AwaitTimeout, ArchiveFailure,
   Mark, ArchiveReceipt, MintReceipt, PublishSuccess, DaemonError, Crash, Chain, MineTx, PermitChanges
<1>3. outcomes \subseteq outcomes'
  BY DEF Next, vars, Publishers, QuantPropose, QuantSign, PatriarchSign,
   PublishSignature, PatriarchClear, ClearNetwork, TenMinutesPass, Daemon, DrainSignatures,
   DrainCleared, EndPass, StartSettlement, RejectReplay, ExecuteMock, SubmitTx, SendFails,
   PublishFailure, FinishSettlement, AwaitSuccess, AwaitRevert, AwaitTimeout, ArchiveFailure,
   Mark, ArchiveReceipt, MintReceipt, PublishSuccess, DaemonError, Crash, Chain, MineTx, PermitChanges
<1> QED
  BY <1>1, <1>2, <1>3

\* A step appends at most one bundle to what has executed.
LEMMA ExecutedGrows ==
  ASSUME TypeOK, SlotInv, [Next]_vars
  PROVE  executed' = executed \/ \E b \in Bundles : executed' = Append(executed, b)
<1>1. ASSUME NEW p \in todo, ExecuteMock(p)
      PROVE  \E b \in Bundles : executed' = Append(executed, b)
  BY <1>1, BundleConsented DEF ExecuteMock
<1>2. ASSUME NEW i \in 1..Len(txs), MineTx(i)
      PROVE  executed' = executed \/ \E b \in Bundles : executed' = Append(executed, b)
  <2>1. txs[i].bundle \in Bundles
    BY LogTypes DEF Txs
  <2> QED
    BY <1>2, <2>1, MineChanges
<1>3. ASSUME NEW p \in todo, SubmitTx(p) PROVE executed' = executed
  BY <1>3 DEF SubmitTx
<1> QED
  BY <1>1, <1>2, <1>3, ChainChanges

\* What has executed has executed for good.
LEMMA SettledStays ==
  ASSUME TypeOK, SlotInv, [Next]_vars, NEW d, Settled(d)
  PROVE  SettledNext(d)
<1>1. PICK n \in 1..Len(executed) : executed[n].draft = d
  BY DEF Settled
<1>2. n \in 1..Len(executed') /\ executed'[n] = executed[n]
  BY ExecutedGrows, GrowsByOne DEF TypeOK, ChainTypeOK
<1> QED
  BY <1>1, <1>2 DEF SettledNext

\* The part of SettledInv about transactions: a mined one has executed.
LEMMA MinedAreSettled ==
  ASSUME TypeOK, SlotInv, [Next]_vars,
         \A i \in 1..Len(txs) : txs[i].status = "ok" => Settled(txs[i].bundle.draft)
  PROVE  \A i \in 1..Len(txs') : txs'[i].status = "ok" => SettledNext(txs'[i].bundle.draft)
<1> DEFINE After == \A i \in 1..Len(txs') : txs'[i].status = "ok" => SettledNext(txs'[i].bundle.draft)
<1>0. \A d : Settled(d) => SettledNext(d)
  BY SettledStays
<1>2. txs \in Seq(Txs) /\ executed \in Seq(Bundles)
  BY DEF TypeOK, ChainTypeOK
<1>3. CASE UNCHANGED txs
  BY <1>0, <1>3
<1>4. ASSUME NEW p \in todo, SubmitTx(p) PROVE After
  <2> DEFINE tx == [bundle |-> Bundle(p), status |-> "pending"]
  <2>1. tx \in Txs /\ tx.status # "ok" /\ txs' = Append(txs, tx)
    BY <1>4, BundleConsented DEF SubmitTx, Txs
  <2> HIDE DEF tx
  <2> QED
    BY <1>0, <1>2, <2>1, GrowsByOne
<1>5. ASSUME NEW i \in 1..Len(txs), MineTx(i) PROVE After
  <2>1. txs[i].bundle \in Bundles
    BY LogTypes DEF Txs
  <2>2. txs'[i].status = "ok" => executed' = Append(executed, txs[i].bundle)
    BY <1>5, MineChanges
  <2>3. txs'[i].status = "ok" => SettledNext(txs[i].bundle.draft)
    BY <1>2, <2>1, <2>2, GrowsByOne DEF SettledNext
  <2> QED
    BY <1>0, <1>5, <2>3, MineChanges
<1>6. ASSUME NEW p \in todo, ExecuteMock(p) PROVE txs' = txs
  BY <1>6 DEF ExecuteMock
<1> QED
  BY <1>3, <1>4, <1>5, <1>6, ChainChanges

\* The part about the places: one step per way to get there.
LEMMA PlacesStep ==
  ASSUME TypeOK, SlotInv, NotYetMarked, SettledInv, [Next]_vars
  PROVE  /\ pc' = "waiting" => txs' # <<>> /\ txs'[Len(txs')].bundle.draft = pending'[cur'].proposal
         /\ pc' \in {"executed", "marked", "archived", "minted"} =>
              SettledNext(pending'[cur'].proposal) /\ UNCHANGED pending
         /\ pc' \in {"marked", "archived", "minted"} => Row(pending'[cur'].proposal) \in ledger'
         /\ pc' \in {"archived", "minted"} => Outcome("ExecutionReceipt", cur)' \in receipts'
<1> DEFINE After == /\ pc' = "waiting" => txs' # <<>> /\ txs'[Len(txs')].bundle.draft = pending'[cur'].proposal
                    /\ pc' \in {"executed", "marked", "archived", "minted"} =>
                         SettledNext(pending'[cur'].proposal) /\ UNCHANGED pending
                    /\ pc' \in {"marked", "archived", "minted"} => Row(pending'[cur'].proposal) \in ledger'
                    /\ pc' \in {"archived", "minted"} => Outcome("ExecutionReceipt", cur)' \in receipts'
<1>0. \A d : Settled(d) => SettledNext(d)
  BY SettledStays
<1>1. SUFFICES ASSUME pc' \in {"waiting", "executed", "marked", "archived", "minted"} PROVE After
  OBVIOUS
<1>2. txs \in Seq(Txs) /\ executed \in Seq(Bundles)
  BY DEF TypeOK, ChainTypeOK
<1>3. UNCHANGED pending /\ ledger \subseteq ledger' /\ receipts \subseteq receipts'
  BY <1>1, PlaceChanges, NotesGrow
<1>4. CASE UNCHANGED <<pc, cur, ledger, receipts>>
  <2>1. pc = "waiting" => txs' # <<>> /\ txs'[Len(txs')].bundle = txs[Len(txs)].bundle
    <3>1. CASE UNCHANGED txs
      BY <3>1 DEF SettledInv
    <3>2. ASSUME NEW i \in 1..Len(txs), MineTx(i) PROVE <2>1
      BY <1>2, <3>2, MineChanges DEF SettledInv
    <3>3. ASSUME NEW p \in todo, SubmitTx(p) \/ ExecuteMock(p) PROVE pc # "waiting"
      BY <3>3 DEF SubmitTx, ExecuteMock
    <3> QED
      BY <3>1, <3>2, <3>3, ChainChanges
  <2> QED
    BY <1>0, <1>3, <1>4, <2>1 DEF SettledInv, Outcome
<1>5. ASSUME NEW p \in todo, SubmitTx(p) PROVE After
  <2> DEFINE tx == [bundle |-> Bundle(p), status |-> "pending"]
  <2>1. tx \in Txs /\ txs' = Append(txs, tx) /\ tx.bundle.draft = pending[p].proposal
    BY <1>5, BundleConsented DEF SubmitTx, Txs, Bundle
  <2>2. pc' = "waiting" /\ cur' = p
    BY <1>5 DEF SubmitTx
  <2> HIDE DEF tx
  <2>3. txs' # <<>> /\ txs'[Len(txs')] = tx
    BY <1>2, <2>1
  <2> QED
    BY <1>3, <2>1, <2>2, <2>3
<1>6. ASSUME NEW p \in todo, ExecuteMock(p) PROVE After
  <2>1. pc' = "executed" /\ cur' = p /\ executed' = Append(executed, Bundle(p))
    BY <1>6 DEF ExecuteMock
  <2>2. Bundle(p) \in Bundles /\ Bundle(p).draft = pending[p].proposal
    BY BundleConsented DEF Bundle
  <2>3. SettledNext(pending[p].proposal)
    BY <1>2, <2>1, <2>2, GrowsByOne DEF SettledNext
  <2> QED
    BY <1>3, <2>1, <2>3
<1>7. CASE AwaitSuccess
  <2>1. /\ pc = "waiting" /\ txs # <<>> /\ txs[Len(txs)].status = "ok"
        /\ txs[Len(txs)].bundle.draft = pending[cur].proposal
        /\ pc' = "executed" /\ cur' = cur
    BY <1>7 DEF AwaitSuccess, SettledInv
  <2>2. Len(txs) \in 1..Len(txs)
    BY <1>2, <2>1
  <2>3. Settled(pending[cur].proposal)
    BY <2>1, <2>2 DEF SettledInv
  <2> QED
    BY <1>0, <1>3, <2>1, <2>3
<1>8. CASE Mark
  <2>1. /\ pc = "executed" /\ pc' = "marked" /\ cur' = cur
        /\ [nonce |-> pending[cur].proposal.nonce, id |-> cur] \in ledger'
    BY <1>8 DEF Mark
  <2>2. pending[cur].proposal.id = cur
    BY <2>1 DEF SlotInv, SlotsArePublished, SlotIsPublished, PassIsReady, ThresholdMet,
       TypeOK, P3TypeOK
  <2> QED
    BY <1>0, <1>3, <2>1, <2>2 DEF SettledInv, Row
<1>9. CASE ArchiveReceipt
  BY <1>0, <1>3, <1>9 DEF ArchiveReceipt, SettledInv, Outcome
<1>10. CASE MintReceipt
  BY <1>0, <1>3, <1>10 DEF MintReceipt, SettledInv, Outcome
<1> QED
  BY <1>1, <1>4, <1>5, <1>6, <1>7, <1>8, <1>9, <1>10, PlaceChanges

\* A row is written for the proposal that P3 has just executed.
LEMMA RowsStep ==
  ASSUME TypeOK, SlotInv, SettledInv, [Next]_vars
  PROVE  \A row \in ledger' : \E d \in Drafts : SettledNext(d) /\ row = Row(d)
<1>1. \A row \in ledger : \E d \in Drafts : SettledNext(d) /\ row = Row(d)
  BY SettledStays DEF SettledInv
<1>2. CASE Mark
  <2>1. /\ Settled(pending[cur].proposal) /\ cur \in ProposalId
        /\ pending[cur].proposal # None
    BY <1>2 DEF Mark, SettledInv, SlotInv, PassIsReady, ThresholdMet, TypeOK, P3TypeOK
  <2>2. pending[cur].proposal \in Drafts /\ pending[cur].proposal.id = cur
    BY <2>1 DEF TypeOK, P3TypeOK, Slots, SlotInv, SlotsArePublished, SlotIsPublished
  <2>3. ledger' \subseteq ledger \cup {Row(pending[cur].proposal)}
    BY <1>2, <2>2 DEF Mark, Row
  <2> QED
    BY <1>1, <2>1, <2>2, <2>3, SettledStays
<1> QED
  BY <1>1, <1>2, LedgerChanges

\* The settlement invariant is inductive: one lemma above per part.
LEMMA SettledStep ==
  TypeOK /\ SlotInv /\ NotYetMarked /\ SettledInv /\ [Next]_vars => SettledInv'
<1> SUFFICES ASSUME TypeOK, SlotInv, NotYetMarked, SettledInv, [Next]_vars PROVE SettledInv'
  OBVIOUS
<1>1. \A i \in 1..Len(txs') : txs'[i].status = "ok" => SettledNext(txs'[i].bundle.draft)
  BY MinedAreSettled DEF SettledInv
<1>2. \A row \in ledger' : \E d \in Drafts : SettledNext(d) /\ row = Row(d)
  BY RowsStep
<1> QED
  BY <1>1, <1>2, PlacesStep DEF SettledInv, SettledNext, Settled, Row

\* P3 publishes a success at one place only.
LEMMA OutcomeChanges ==
  ASSUME [Next]_vars
  PROVE  \/ UNCHANGED outcomes
         \/ \E p, k : k # "success" /\ outcomes' = outcomes \cup {Outcome(k, p)}
         \/ PublishSuccess
<1>1. ASSUME NEW p, NEW k, k # "success", PublishFailure(k, p)
      PROVE  \E q, l : l # "success" /\ outcomes' = outcomes \cup {Outcome(l, q)}
  BY <1>1 DEF PublishFailure
<1> QED
  BY <1>1 DEF Next, vars, Publishers, QuantPropose, QuantSign, PatriarchSign,
   PublishSignature, PatriarchClear, ClearNetwork, TenMinutesPass, Daemon, DrainSignatures,
   DrainCleared, EndPass, StartSettlement, RejectReplay, ExecuteMock, SubmitTx, SendFails,
   FinishSettlement, AwaitSuccess, AwaitRevert, AwaitTimeout, ArchiveFailure,
   Mark, ArchiveReceipt, MintReceipt, DaemonError, Crash, Chain, MineTx, PermitChanges

\* The body of SuccessIsBacked, of one outcome, before a step and after it.
Backed(o) ==
  /\ [nonce |-> o.nonce, id |-> o.id] \in ledger
  /\ [o EXCEPT !.kind = "ExecutionReceipt"] \in receipts
  /\ \E d \in Drafts : Settled(d) /\ Row(d) = [nonce |-> o.nonce, id |-> o.id]

BackedNext(o) ==
  /\ [nonce |-> o.nonce, id |-> o.id] \in ledger'
  /\ [o EXCEPT !.kind = "ExecutionReceipt"] \in receipts'
  /\ \E d \in Drafts : SettledNext(d) /\ Row(d) = [nonce |-> o.nonce, id |-> o.id]

AllBacked == \A o \in outcomes : o.kind = "success" => Backed(o)

\* A success is published only with its row and its receipt.
LEMMA BackedStep ==
  TypeOK /\ SlotInv /\ NotYetMarked /\ SettledInv /\ AllBacked /\ [Next]_vars => AllBacked'
<1> SUFFICES ASSUME TypeOK, SlotInv, NotYetMarked, SettledInv, AllBacked, [Next]_vars
             PROVE  \A o \in outcomes' : o.kind = "success" => BackedNext(o)
  BY DEF AllBacked, Backed, BackedNext, Settled, SettledNext, Row
<1>1. ASSUME NEW o, Backed(o) PROVE BackedNext(o)
  BY <1>1, NotesGrow, SettledStays DEF Backed, BackedNext
<1>2. \A o \in outcomes : o.kind = "success" => BackedNext(o)
  BY <1>1 DEF AllBacked
<1>3. ASSUME NEW p, NEW k, k # "success", outcomes' = outcomes \cup {Outcome(k, p)}
      PROVE  \A o \in outcomes' : o.kind = "success" => BackedNext(o)
  BY <1>2, <1>3 DEF Outcome
<1>4. CASE PublishSuccess
  <2>1. /\ pc = "minted" /\ outcomes' = outcomes \cup {Outcome("success", cur)}
    BY <1>4 DEF PublishSuccess
  <2>2. /\ Settled(pending[cur].proposal) /\ Row(pending[cur].proposal) \in ledger
        /\ Outcome("ExecutionReceipt", cur) \in receipts
    BY <2>1 DEF SettledInv
  <2>3. cur \in ProposalId /\ pending[cur].proposal # None
    BY <2>1 DEF SlotInv, PassIsReady, ThresholdMet, TypeOK, P3TypeOK
  <2>4. pending[cur].proposal \in Drafts /\ pending[cur].proposal.id = cur
    BY <2>3 DEF TypeOK, P3TypeOK, Slots, SlotInv, SlotsArePublished, SlotIsPublished
  <2>5. Backed(Outcome("success", cur))
    BY <2>2, <2>4 DEF Backed, Row, Outcome
  <2> QED
    BY <1>1, <1>2, <2>1, <2>5
<1> QED
  BY <1>2, <1>3, <1>4, OutcomeChanges

\* The settlement invariant holds in every behaviour.
LEMMA SettledInvariance ==
  Spec => [](TypeOK /\ SlotInv /\ NotYetMarked /\ SettledInv /\ AllBacked)
<1>1. Init => NotYetMarked /\ SettledInv /\ AllBacked
  BY DEF Init, NotYetMarked, SettledInv, AllBacked
<1> QED
  BY <1>1, SlotInvariance, NotYetMarkedStep, SettledStep, BackedStep, PTL DEF Spec

\* EXECUTION_SUCCESS is only published for what executed and is on record, in
\* both modes, whatever fails and restarts.
THEOREM SuccessBacked == Spec => []SuccessIsBacked
<1>1. AllBacked => SuccessIsBacked
  <2> SUFFICES ASSUME AllBacked, NEW o \in outcomes, o.kind = "success"
               PROVE  /\ [nonce |-> o.nonce, id |-> o.id] \in ledger
                      /\ [o EXCEPT !.kind = "ExecutionReceipt"] \in receipts
                      /\ \E n \in 1..Len(executed) : /\ executed[n].draft.id = o.id
                                                     /\ executed[n].draft.nonce = o.nonce
    BY DEF SuccessIsBacked
  <2>1. /\ [nonce |-> o.nonce, id |-> o.id] \in ledger
        /\ [o EXCEPT !.kind = "ExecutionReceipt"] \in receipts
        /\ \E d \in Drafts : Settled(d) /\ Row(d) = [nonce |-> o.nonce, id |-> o.id]
    BY DEF AllBacked, Backed
  <2>2. PICK d \in Drafts : Settled(d) /\ Row(d) = [nonce |-> o.nonce, id |-> o.id]
    BY <2>1
  <2>3. d.nonce = o.nonce /\ d.id = o.id
    BY <2>2 DEF Row
  <2>4. PICK n \in 1..Len(executed) : executed[n].draft = d
    BY <2>2 DEF Settled
  <2> QED
    BY <2>1, <2>3, <2>4
<1> QED
  BY <1>1, SettledInvariance, PTL

-------------------------------------------------------------------------------
(* Nonces.  In LIVE mode the Safe itself keeps the promise of Treasury; in MOCK
   mode the ledger does, and only as long as P3 does not fail half way. *)

Reliable == Live \/ MaxFaults = 0

\* What is cleared was proposed, for a nonce the Safe had by then.
ProposedInv ==
  /\ \A d \in drafts : d.nonce <= SafeNonce /\ (~Live => d.permit = 0)
  /\ \A d : WasCleared(d) => d \in drafts

\* MOCK mode sends nothing, and every nonce used so far has its row, except the
\* one P3 is about to mark.
MockInv ==
  ~Live => /\ txs = <<>>
           /\ \A n \in 0..(SafeNonce - 1) :
                \/ AlreadyExecuted(n)
                \/ pc = "executed" /\ pending[cur].proposal.nonce = n

NonceInv == ProposedInv /\ MockInv /\ ExecutedAsSigned

\* The Safe nonce never goes back.
LEMMA SafeNonceGrows ==
  ASSUME TypeOK, SlotInv, [Next]_vars
  PROVE  SafeNonce \in Nat /\ SafeNonce' \in Nat /\ SafeNonce <= SafeNonce'
BY ExecutedGrows, GrowsByOne, LogTypes DEF SafeNonce, TypeOK, ChainTypeOK

\* No proposal is ever ahead of the Safe nonce, in drafts, slots or transactions.
LEMMA ProposedStep ==
  ASSUME TypeOK, SlotInv, ProposedInv, [Next]_vars
  PROVE  ProposedInv'
<1>1. \A d \in drafts : d.nonce \in Nat
  BY DEF TypeOK, BusTypeOK, Drafts
<1>2. \A d \in drafts' : d.nonce <= SafeNonce' /\ (~Live => d.permit = 0)
  <2>1. CASE drafts' = drafts
    BY <1>1, <2>1, SafeNonceGrows DEF ProposedInv
  <2>2. ASSUME NEW p \in ProposalId, NEW s \in Swap, QuantPropose(p, s) PROVE <1>2
    <3>1. executed' = executed
      BY <2>2 DEF QuantPropose, chainVars
    <3> QED
      BY <2>2, <3>1, SafeNonceGrows DEF QuantPropose, ProposedInv, SafeNonce
  <2> QED
    BY <2>1, <2>2 DEF Next, vars, busVars, Publishers, QuantSign, PatriarchSign,
     PublishSignature, PatriarchClear, ClearNetwork, TenMinutesPass, Daemon, DrainSignatures,
     DrainCleared, EndPass, StartSettlement, RejectReplay, ExecuteMock, SubmitTx, SendFails,
     FinishSettlement, AwaitSuccess, AwaitRevert, AwaitTimeout, ArchiveFailure, Mark,
     ArchiveReceipt, MintReceipt, PublishSuccess, DaemonError, Crash, Chain, MineTx, PermitChanges
<1>3. drafts \subseteq drafts'
  BY DEF Next, vars, busVars, Publishers, QuantPropose, QuantSign, PatriarchSign,
     PublishSignature, PatriarchClear, ClearNetwork, TenMinutesPass, Daemon, DrainSignatures,
     DrainCleared, EndPass, StartSettlement, RejectReplay, ExecuteMock, SubmitTx, SendFails,
     FinishSettlement, AwaitSuccess, AwaitRevert, AwaitTimeout, ArchiveFailure, Mark,
     ArchiveReceipt, MintReceipt, PublishSuccess, DaemonError, Crash, Chain, MineTx, PermitChanges
<1>4. ASSUME NEW d, WasCleared(d)' PROVE d \in drafts'
  <2>1. CASE clearedLog' = clearedLog
    BY <1>3, <1>4, <2>1 DEF WasCleared, ProposedInv
  <2>2. ASSUME NEW e \in drafts, PatriarchClear(e) PROVE d \in drafts'
    <3>1. clearedLog' = Append(clearedLog, e) /\ e \in Drafts /\ clearedLog \in Seq(Drafts)
      BY <2>2 DEF PatriarchClear, TypeOK, BusTypeOK
    <3>2. d = e \/ WasCleared(d)
      BY <1>4, <3>1, GrowsByOne DEF WasCleared
    <3> QED
      BY <1>3, <3>2 DEF ProposedInv
  <2> QED
    BY <2>1, <2>2 DEF Next, vars, busVars, Publishers, QuantPropose, QuantSign, PatriarchSign,
     PublishSignature, ClearNetwork, TenMinutesPass, Daemon, DrainSignatures,
     DrainCleared, EndPass, StartSettlement, RejectReplay, ExecuteMock, SubmitTx, SendFails,
     FinishSettlement, AwaitSuccess, AwaitRevert, AwaitTimeout, ArchiveFailure, Mark,
     ArchiveReceipt, MintReceipt, PublishSuccess, DaemonError, Crash, Chain, MineTx, PermitChanges
<1> QED
  BY <1>2, <1>4 DEF ProposedInv

\* MOCK mode: the slot that executes has exactly the nonce of the nonce file.
LEMMA MockNonce ==
  ASSUME TypeOK, SlotInv, ProposedInv, MockInv, NEW p \in todo, ExecuteMock(p)
  PROVE  /\ pending[p].proposal \in Drafts
         /\ pending[p].proposal.nonce = SafeNonce /\ pending[p].proposal.permit = 0
<1>1. ~Live /\ pc = "settle" /\ ~AlreadyExecuted(pending[p].proposal.nonce)
  BY DEF ExecuteMock
<1>2. p \in ProposalId /\ pending[p].proposal # None
  BY DEF SlotInv, PassIsReady, ThresholdMet, TypeOK, P3TypeOK
<1>3. pending[p].proposal \in Drafts /\ pending[p].proposal \in drafts
  BY <1>2 DEF SlotInv, SlotsArePublished, SlotIsPublished, ProposedInv, TypeOK, P3TypeOK, Slots
<1>4. pending[p].proposal.nonce \in Nat /\ pending[p].proposal.nonce <= SafeNonce
  BY <1>3 DEF ProposedInv, Drafts
<1>5. SafeNonce \in Nat
  BY LogTypes DEF SafeNonce
<1>6. pending[p].proposal.nonce \notin 0..(SafeNonce - 1)
  BY <1>1 DEF MockInv
<1> QED
  BY <1>1, <1>3, <1>4, <1>5, <1>6 DEF ProposedInv

\* Unless it fails, P3 leaves "executed" for "marked" only.
LEMMA MarkFollows ==
  ASSUME [Next]_vars, pc = "executed", ~(DaemonError \/ Crash)
  PROVE  UNCHANGED <<pc, cur, pending>> \/ Mark
<1>1. CASE UNCHANGED vars \/ Publishers \/ Chain
  BY <1>1 DEF vars, p3Vars, Publishers, QuantPropose, QuantSign, PatriarchSign,
     PublishSignature, PatriarchClear, ClearNetwork, TenMinutesPass, Chain, MineTx, PermitChanges
<1>2. CASE Daemon
  BY <1>2 DEF Daemon, DrainSignatures, DrainCleared, EndPass, StartSettlement, RejectReplay,
     ExecuteMock, SubmitTx, SendFails, FinishSettlement, AwaitSuccess, AwaitRevert, AwaitTimeout,
     ArchiveFailure, ArchiveReceipt, MintReceipt, PublishSuccess
<1> QED
  BY <1>1, <1>2 DEF Next

\* MOCK mode without failures: the ledger holds every nonce below the Safe nonce.
LEMMA MockStep ==
  ASSUME MaxFaults = 0, TypeOK, SlotInv, NotYetMarked, ProposedInv, MockInv, [Next]_vars
  PROVE  MockInv'
<1> SUFFICES ASSUME ~Live PROVE MockInv'
  BY DEF MockInv
<1>1. ~(DaemonError \/ Crash)
  BY DEF DaemonError, Crash, TypeOK
<1>2. txs = <<>> /\ ~\E i \in 1..Len(txs) : MineTx(i)
  BY DEF MockInv
<1>3. \A n : AlreadyExecuted(n) => \E row \in ledger' : row.nonce = n
  BY NotesGrow DEF AlreadyExecuted
<1>4. ASSUME NEW p \in todo, ExecuteMock(p) PROVE MockInv'
  <2>1. executed' = Append(executed, Bundle(p)) /\ Bundle(p) \in Bundles /\ executed \in Seq(Bundles)
    BY <1>4, BundleConsented DEF ExecuteMock, TypeOK, ChainTypeOK
  <2>2. SafeNonce' = SafeNonce + 1 /\ SafeNonce \in Nat
    BY <2>1, GrowsByOne, LogTypes DEF SafeNonce
  <2>3. /\ pc = "settle" /\ pc' = "executed" /\ cur' = p /\ UNCHANGED <<pending, txs, ledger>>
    BY <1>4 DEF ExecuteMock, diskVars
  <2>4. \A n \in 0..(SafeNonce - 1) : AlreadyExecuted(n)
    BY <2>3 DEF MockInv
  <2>5. pending[p].proposal.nonce = SafeNonce
    BY <1>4, MockNonce
  <2> QED
    BY <1>2, <1>3, <2>2, <2>3, <2>4, <2>5 DEF MockInv, AlreadyExecuted
<1>5. CASE UNCHANGED <<txs, executed>>
  <2>1. ASSUME NEW n \in 0..(SafeNonce - 1)
        PROVE  \/ \E row \in ledger' : row.nonce = n
               \/ pc' = "executed" /\ pending'[cur'].proposal.nonce = n
    <3>1. CASE AlreadyExecuted(n)
      BY <1>3, <3>1
    <3>2. CASE pc = "executed" /\ pending[cur].proposal.nonce = n
      <4>1. CASE UNCHANGED <<pc, cur, pending>>
        BY <3>2, <4>1
      <4>2. CASE Mark
        <5>1. [nonce |-> n, id |-> cur] \in ledger'
          BY <3>2, <4>2 DEF Mark
        <5> QED
          BY <5>1
      <4> QED
        BY <1>1, <3>2, <4>1, <4>2, MarkFollows
    <3> QED
      BY <3>1, <3>2 DEF MockInv
  <2> QED
    BY <1>2, <1>5, <2>1 DEF MockInv, SafeNonce, AlreadyExecuted
<1>6. ASSUME NEW p \in todo, SubmitTx(p) PROVE FALSE
  BY <1>6 DEF SubmitTx
<1> QED
  BY <1>2, <1>4, <1>5, <1>6, ChainChanges

\* A bundle of one proposal's signatures only passes the Safe's check if the Safe
\* hashes what the owners hashed.
LEMMA AcceptedAsSigned ==
  ASSUME NEW b \in Bundles, Consented(b), SafeAccepts(b)
  PROVE  b.draft.nonce = SafeNonce /\ b.draft.permit = b.permit
<1> DEFINE hash == TxHash(b.draft.swap, b.permit, SafeNonce)
           accepted == {m \in b.signatures : m.hash = hash}
<1>1. Signers(accepted) # {}
  <2>1. Cardinality(Signers(accepted)) >= Threshold
    BY DEF SafeAccepts
  <2> QED
    BY <2>1, FS_EmptySet, SettlementAssumption
<1>2. PICK m \in b.signatures : m.hash = hash
  BY <1>1 DEF Signers
<1>3. hash = SafeTxHash(b.draft)
  BY <1>2 DEF Consented, Signature
<1> QED
  BY <1>3 DEF SafeTxHash, TxHash

\* A transaction that executes has the nonce and the calldata it was signed for.
LEMMA ExecutedStep ==
  ASSUME TypeOK, SlotInv, ConsentInv, ProposedInv, MockInv, ExecutedAsSigned, [Next]_vars
  PROVE  ExecutedAsSigned'
<1> DEFINE signedFor(b, n) == b.draft.nonce = n - 1 /\ b.draft.permit = b.permit
<1>1. ASSUME NEW b \in Bundles, executed' = Append(executed, b), signedFor(b, Len(executed) + 1)
      PROVE  ExecutedAsSigned'
  <2>1. executed \in Seq(Bundles)
    BY DEF TypeOK, ChainTypeOK
  <2> HIDE DEF signedFor
  <2>2. \A n \in 1..Len(executed') : signedFor(executed'[n], n)
    BY <1>1, <2>1, GrowsByOne DEF ExecutedAsSigned, signedFor
  <2> QED
    BY <2>2 DEF ExecutedAsSigned, signedFor
<1>2. CASE executed' = executed
  BY <1>2 DEF ExecutedAsSigned
<1>3. ASSUME NEW p \in todo, ExecuteMock(p) PROVE ExecutedAsSigned'
  <2>1. Bundle(p) \in Bundles /\ executed' = Append(executed, Bundle(p)) /\ ~Live
    BY <1>3, BundleConsented DEF ExecuteMock
  <2>2. signedFor(Bundle(p), Len(executed) + 1)
    BY <1>3, <2>1, MockNonce, LogTypes DEF Bundle, SafeNonce
  <2> QED
    BY <1>1, <2>1, <2>2
<1>4. ASSUME NEW i \in 1..Len(txs), MineTx(i) PROVE ExecutedAsSigned'
  <2>1. txs[i].bundle \in Bundles
    BY LogTypes DEF Txs
  <2>2. SafeAccepts(txs[i].bundle) => signedFor(txs[i].bundle, Len(executed) + 1)
    BY <2>1, AcceptedAsSigned, LogTypes DEF ConsentInv, SafeNonce
  <2> QED
    BY <1>1, <1>2, <1>4, <2>1, <2>2, MineChanges
<1>5. ASSUME NEW p \in todo, SubmitTx(p) PROVE executed' = executed
  BY <1>5 DEF SubmitTx
<1> QED
  BY <1>2, <1>3, <1>4, <1>5, ChainChanges

\* In LIVE mode the mock part of the invariant says nothing.
LEMMA NonceStep ==
  ASSUME Reliable, TypeOK, SlotInv, ConsentInv, NotYetMarked, NonceInv, [Next]_vars
  PROVE  NonceInv'
<1>1. MockInv'
  BY MockStep DEF Reliable, NonceInv, MockInv
<1> QED
  BY <1>1, ProposedStep, ExecutedStep DEF NonceInv

\* The nonce invariant holds in every reliable behaviour.
LEMMA NonceInvariance ==
  ASSUME Reliable
  PROVE  Spec => [](TypeOK /\ SlotInv /\ SettledInv /\ NonceInv)
<1>1. Init => NonceInv
  BY DEF Init, NonceInv, ProposedInv, MockInv, ExecutedAsSigned, WasCleared, SafeNonce
<1>2. TypeOK /\ SlotInv /\ ConsentInv /\ NotYetMarked /\ NonceInv /\ [Next]_vars => NonceInv'
  BY NonceStep
<1> QED
  BY <1>1, <1>2, ConsentInvariance, SettledInvariance, PTL DEF Spec

\* A transaction consumes the nonce, and carries the calldata, it was signed
\* for: in LIVE mode always, in MOCK mode as long as P3 does not fail.
THEOREM NoncesAreKept == Reliable => (Spec => []ExecutedAsSigned)
<1> SUFFICES ASSUME Reliable PROVE Spec => []ExecutedAsSigned
  OBVIOUS
<1>1. NonceInv => ExecutedAsSigned
  BY DEF NonceInv
<1> QED
  BY <1>1, NonceInvariance, PTL

\* No signed transaction executes twice, under the same condition.
THEOREM ExecutesOnce == Reliable => (Spec => []NoDoubleExecution)
<1> SUFFICES ASSUME Reliable PROVE Spec => []NoDoubleExecution
  OBVIOUS
<1>1. ExecutedAsSigned => NoDoubleExecution
  BY DEF ExecutedAsSigned, NoDoubleExecution, SafeTxHash, TxHash
<1> QED
  BY <1>1, NoncesAreKept, PTL

\* A ledger row names the proposal that consumed its nonce, under the same
\* condition.
THEOREM LedgerCorrect == Reliable => (Spec => []LedgerIsTrue)
<1> SUFFICES ASSUME Reliable PROVE Spec => []LedgerIsTrue
  OBVIOUS
<1>1. TypeOK /\ SettledInv /\ ExecutedAsSigned => LedgerIsTrue
  <2> SUFFICES ASSUME TypeOK, SettledInv, ExecutedAsSigned, NEW row \in ledger
               PROVE  row.nonce < SafeNonce /\ executed[row.nonce + 1].draft.id = row.id
    BY DEF LedgerIsTrue
  <2>1. PICK d \in Drafts : Settled(d) /\ row = Row(d)
    BY DEF SettledInv
  <2>2. PICK n \in 1..Len(executed) : executed[n].draft = d
    BY <2>1 DEF Settled
  <2>3. d.nonce = n - 1 /\ row.nonce = d.nonce /\ row.id = d.id
    BY <2>1, <2>2 DEF ExecutedAsSigned, Row
  <2> QED
    BY <2>2, <2>3, LogTypes DEF SafeNonce
<1>2. NonceInv => ExecutedAsSigned
  BY DEF NonceInv
<1> QED
  BY <1>1, <1>2, NonceInvariance, PTL

-------------------------------------------------------------------------------
(* Settlement implements Treasury: every step is a Sign, a Consume or a stutter
   of the abstract treasury. *)

\* A step cannot publish a signature and execute at once.
LEMMA OneAtATime ==
  ASSUME [Next]_vars
  PROVE  UNCHANGED sigLog \/ UNCHANGED executed
BY DEF Next, vars, busVars, chainVars, Publishers, QuantPropose, QuantSign, PatriarchSign,
   PublishSignature, PatriarchClear, ClearNetwork, TenMinutesPass, Daemon, DrainSignatures,
   DrainCleared, EndPass, StartSettlement, RejectReplay, ExecuteMock, SubmitTx, SendFails,
   FinishSettlement, AwaitSuccess, AwaitRevert, AwaitTimeout, ArchiveFailure, Mark,
   ArchiveReceipt, MintReceipt, PublishSuccess, DaemonError, Crash, Chain, MineTx, PermitChanges

\* Publishing a signature is the abstract Sign.
LEMMA SignStep ==
  ASSUME TypeOK, NEW m \in Signatures, sigLog' = Append(sigLog, m), executed' = executed
  PROVE  T!Sign
<1>1. sigLog \in Seq(Signatures)
  BY DEF TypeOK, BusTypeOK
<1>2. signedBar' = signedBar \cup {<<m.signer, m.hash>>}
  <2>1. /\ Len(sigLog') = Len(sigLog) + 1 /\ sigLog'[Len(sigLog) + 1] = m
        /\ \A i \in 1..Len(sigLog) : sigLog'[i] = sigLog[i]
        /\ 1..Len(sigLog') = 1..Len(sigLog) \cup {Len(sigLog) + 1}
    BY <1>1, GrowsByOne
  <2> QED
    BY <2>1 DEF signedBar
<1>3. m.signer \in Owner /\ m.hash \in Hashes
  BY DEF Signatures
<1>4. UNCHANGED consumedBar
  BY DEF consumedBar
<1>5. <<m.signer, m.hash>> \in signedBar' /\ <<m.signer, m.hash>> \in Owner \X Hashes
  BY <1>2, <1>3
<1> QED
  BY <1>2, <1>4, <1>5 DEF T!Sign

\* Executing a bundle is the abstract Consume.
LEMMA ConsumeStep ==
  ASSUME TypeOK, NEW b \in Bundles, executed' = Append(executed, b), sigLog' = sigLog,
         ConsentInv', ExecutedAsSigned'
  PROVE  T!Consume
<1> DEFINE h == [swap |-> b.draft.swap, permit |-> b.permit, nonce |-> Len(executed)]
           n == Len(executed) + 1
<1>1. executed \in Seq(Bundles) /\ Len(executed) \in Nat
  BY LogTypes DEF TypeOK, ChainTypeOK
<1>2. Len(executed') = n /\ executed'[n] = b /\ n \in 1..Len(executed')
  BY <1>1, GrowsByOne
<1>3. h \in Hashes
  BY <1>1 DEF Hashes, Bundles, Drafts
<1>4. h = SafeTxHash(b.draft)
  BY <1>1, <1>2 DEF ExecutedAsSigned, SafeTxHash, TxHash
<1>5. consumedBar' = Append(consumedBar, h)
  <2>1. consumedBar \in Seq(Hashes) /\ Len(consumedBar) = Len(executed)
    <3>1. \A k \in 1..Len(executed) :
            [swap |-> executed[k].draft.swap, permit |-> executed[k].permit, nonce |-> k - 1] \in Hashes
      BY LogTypes DEF Bundles, Drafts, Hashes
    <3> QED
      BY <1>1, <3>1 DEF consumedBar
  <2>2. consumedBar' = [k \in 1..n |->
           [swap |-> executed'[k].draft.swap, permit |-> executed'[k].permit, nonce |-> k - 1]]
    BY <1>2 DEF consumedBar
  <2>3. \A k \in 1..Len(executed) : executed'[k] = executed[k]
    BY <1>1, GrowsByOne
  <2>4. \A k \in 1..Len(executed) : consumedBar'[k] = consumedBar[k]
    BY <1>1, <2>2, <2>3 DEF consumedBar
  <2>5. consumedBar'[n] = h
    BY <1>1, <1>2, <2>2
  <2>6. Append(consumedBar, h) = [k \in 1..n |-> IF k = n THEN h ELSE consumedBar[k]]
    BY <1>1, <1>3, <2>1
  <2>7. \A k \in 1..n : k = n \/ k \in 1..Len(executed)
    BY <1>1
  <2> HIDE DEF h
  <2> QED
    BY <2>2, <2>4, <2>5, <2>6, <2>7
<1>6. Signers(b.signatures) \in Quorums /\ Signers(b.signatures) \subseteq T!SignersOf(h)
  <2>1. /\ Cardinality(Signers(b.signatures)) >= Threshold
        /\ Signers(b.signatures) \subseteq Owner
    BY <1>2 DEF ConsentInv, Consented, Bundles, Signatures, Signers
  <2>2. ASSUME NEW m \in b.signatures PROVE <<m.signer, h>> \in signedBar
    <3>1. PICK i \in 1..Len(sigLog) : sigLog[i] = m
      BY <1>2 DEF ConsentInv, Consented, Published
    <3>2. m.hash = h
      BY <1>2, <1>4 DEF ConsentInv, Consented, Signature
    <3> QED
      BY <3>1, <3>2 DEF signedBar
  <2> QED
    BY <2>1, <2>2 DEF T!SignersOf, Quorums, Signers
<1>7. consumedBar'[n] = h /\ n \in DOMAIN consumedBar' /\ Len(consumedBar) = Len(executed)
  BY <1>1, <1>2 DEF consumedBar
<1>8. UNCHANGED signedBar
  BY DEF signedBar
<1>9. h.nonce = Len(consumedBar)
  BY <1>7
<1> HIDE DEF h, n
<1>10. /\ consumedBar'[n] \in Hashes /\ consumedBar'[n].nonce = Len(consumedBar)
       /\ Signers(b.signatures) \in Quorums
       /\ Signers(b.signatures) \subseteq T!SignersOf(consumedBar'[n])
       /\ consumedBar' = Append(consumedBar, consumedBar'[n])
  BY <1>3, <1>5, <1>6, <1>7, <1>9
<1> QED
  BY <1>7, <1>8, <1>10 DEF T!Consume

\* Every other step stutters.
LEMMA RefinesStep ==
  ASSUME TypeOK, SlotInv, ConsentInv', ExecutedAsSigned', [Next]_vars
  PROVE  [T!TNext]_(T!tvars)
<1>1. CASE UNCHANGED <<sigLog, executed>>
  BY <1>1 DEF signedBar, consumedBar, T!tvars
<1>2. CASE sigLog' # sigLog
  BY <1>2, SigLogChanges, OneAtATime, SignStep DEF T!TNext
<1>3. CASE executed' # executed
  BY <1>3, ExecutedGrows, OneAtATime, ConsumeStep DEF T!TNext
<1> QED
  BY <1>1, <1>2, <1>3

\* The Safe is driven as the abstract treasury says, for any number of owners,
\* proposals and messages: in LIVE mode always, in MOCK mode unless P3 fails.
THEOREM SettlementImplementsTreasury == Reliable => (Spec => ImplementsTreasury)
<1> SUFFICES ASSUME Reliable PROVE Spec => T!TSpec
  BY DEF ImplementsTreasury
<1>1. Init => T!TInit
  BY DEF Init, T!TInit, signedBar, consumedBar
<1>2. TypeOK /\ SlotInv /\ ConsentInv' /\ ExecutedAsSigned' /\ [Next]_vars => [T!TNext]_(T!tvars)
  BY RefinesStep
<1>3. NonceInv => ExecutedAsSigned
  BY DEF NonceInv
<1> QED
  BY <1>1, <1>2, <1>3, NonceInvariance, ConsentInvariance, PTL DEF Spec, T!TSpec

-------------------------------------------------------------------------------
(* A REVERT failure is final.  A slot is settled once: closing it lets go of Quant's
   signature, which Quant does not repeat, and without it there is no threshold of two. *)

\* Only Quant and Patriarch sign, and what a slot holds P3 has read.
SignaturesAreRead ==
  /\ \A i \in 1..Len(sigLog) : \E d \in drafts :
       sigLog[i] = Signature(d, Quant) \/ sigLog[i] = Signature(d, Patriarch)
  /\ \A p \in ProposalId : \A m \in pending[p].signatures :
       \E i \in 1..Len(sigLog) : i <= cursor.sigs /\ sigLog[i] = m

ExecutedId(p) == \E n \in 1..Len(executed) : executed[n].draft.id = p
SentId(p)     == \E i \in 1..Len(txs) : txs[i].bundle.draft.id = p
RevertedId(p) == \E o \in outcomes : o.kind = "REVERT" /\ o.id = p

\* P3 has tried to execute the proposal.
Attempted(p) == ExecutedId(p) \/ SentId(p) \/ RevertedId(p)

\* P3 has read Quant's signature of the proposal, and let go of it.
QuantIsSpent(p) ==
  /\ \E i \in 1..Len(sigLog) : i <= cursor.sigs /\ sigLog[i].id = p /\ sigLog[i].signer = Quant
  /\ \A m \in pending[p].signatures : m.signer # Quant

AttemptedOnce == \A p \in ProposalId : Attempted(p) => cur = p \/ QuantIsSpent(p)

\* The transaction P3 waits for is the only one of its proposal.
WaitsForOne ==
  pc = "waiting" =>
    /\ \A i \in 1..Len(txs) : txs[i].bundle.draft.id = cur => i = Len(txs)
    /\ ExecutedId(cur) => txs[Len(txs)].status = "ok"

\* What has reverted has not executed, and is not waiting to be mined.
RevertsStand ==
  \A p \in ProposalId : RevertedId(p) =>
    /\ ~ExecutedId(p)
    /\ \A i \in 1..Len(txs) : txs[i].bundle.draft.id = p => txs[i].status # "pending"

RevertInv == AttemptedOnce /\ WaitsForOne /\ RevertsStand

Undisturbed == faults = 0 /\ timeouts = 0 /\ QuantIsFresh

\* How a step may change what SignaturesAreRead looks at.
LEMMA SignsOwn ==
  ASSUME [Next]_vars
  PROVE  /\ drafts \subseteq drafts'
         /\ \/ sigLog' = sigLog
            \/ \E d \in drafts : \/ sigLog' = Append(sigLog, Signature(d, Quant))
                                 \/ sigLog' = Append(sigLog, Signature(d, Patriarch))
BY DEF Next, vars, busVars, Publishers, QuantPropose, QuantSign, PatriarchSign, PublishSignature,
   PatriarchClear, ClearNetwork, TenMinutesPass, Daemon, DrainSignatures, DrainCleared, EndPass,
   StartSettlement, RejectReplay, ExecuteMock, SubmitTx, SendFails, FinishSettlement,
   AwaitSuccess, AwaitRevert, AwaitTimeout, ArchiveFailure, Mark, ArchiveReceipt, MintReceipt,
   PublishSuccess, DaemonError, Crash, Chain, MineTx, PermitChanges

LEMMA CursorChanges ==
  ASSUME [Next]_vars
  PROVE  \/ UNCHANGED cursor
         \/ DrainSignatures \/ DrainCleared \/ Crash
BY DEF Next, vars, p3Vars, Publishers, QuantPropose, QuantSign, PatriarchSign,
   PublishSignature, PatriarchClear, ClearNetwork, TenMinutesPass, Daemon, EndPass,
   StartSettlement, RejectReplay, ExecuteMock, SubmitTx, SendFails, PublishFailure,
   FinishSettlement, AwaitSuccess, AwaitRevert, AwaitTimeout, ArchiveFailure, Mark,
   ArchiveReceipt, MintReceipt, PublishSuccess, Close, DaemonError, Chain, MineTx, PermitChanges

LEMMA SigLogLonger ==
  ASSUME TypeOK, [Next]_vars
  PROVE  /\ Len(sigLog) \in Nat /\ Len(sigLog') \in Nat
         /\ \A i \in 1..Len(sigLog) : i \in 1..Len(sigLog') /\ sigLog'[i] = sigLog[i]
<1>1. sigLog \in Seq(Signatures) /\ Len(sigLog) \in Nat
  BY LogTypes DEF TypeOK, BusTypeOK
<1>2. CASE sigLog' = sigLog
  BY <1>1, <1>2
<1>3. ASSUME NEW m \in Signatures, sigLog' = Append(sigLog, m)
      PROVE  /\ Len(sigLog') \in Nat
             /\ \A i \in 1..Len(sigLog) : i \in 1..Len(sigLog') /\ sigLog'[i] = sigLog[i]
  <2>1. Len(sigLog') = Len(sigLog) + 1 /\ \A i \in 1..Len(sigLog) : sigLog'[i] = sigLog[i]
    BY <1>1, <1>3, GrowsByOne
  <2> QED
    BY <1>1, <2>1
<1> QED
  BY <1>1, <1>2, <1>3, SigLogChanges

\* What is new in a slot after a step was unread before it.
LEMMA SlotReads ==
  ASSUME TypeOK, [Next]_vars, NEW p \in ProposalId, NEW m \in pending'[p].signatures
  PROVE  \/ m \in pending[p].signatures
         \/ /\ DrainSignatures
            /\ \E j \in 1..Len(sigLog) : j > cursor.sigs /\ sigLog[j].id = p /\ sigLog[j] = m
<1>1. pending[p] \in Slots
  BY DEF TypeOK, P3TypeOK
<1>2. CASE DrainSignatures
  <2>1. pending'[p].signatures = pending[p].signatures \cup
          {sigLog[i] : i \in {j \in Unread("sigs", sigLog) : j > staleUpTo /\ sigLog[j].id = p}}
    BY <1>1, <1>2 DEF DrainSignatures, Slots
  <2> QED
    BY <1>2, <2>1 DEF Unread
<1>3. CASE DrainCleared
  <2>1. pending'[p].signatures = pending[p].signatures
    <3>1. PICK latest : pending' = [q \in ProposalId |->
            [pending[q] EXCEPT !.proposal =
               IF latest[q] = 0 THEN @ ELSE clearedLog[latest[q]]]]
      BY <1>3 DEF DrainCleared
    <3>2. pending'[p] = [pending[p] EXCEPT !.proposal =
                           IF latest[p] = 0 THEN @ ELSE clearedLog[latest[p]]]
      BY <3>1
    <3> QED
      BY <1>1, <3>2 DEF Slots
  <2> QED
    BY <2>1
<1>4. CASE Crash
  <2>1. pending'[p].signatures = {}
    BY <1>4 DEF Crash, EmptySlot
  <2> QED
    BY <2>1
<1>5. CASE pc \notin {"sigs", "cleared", "settle"} /\ Close(cur)
  <2>1. pending' = [pending EXCEPT ![cur] = EmptySlot] /\ EmptySlot.signatures = {}
    BY <1>5 DEF Close, EmptySlot
  <2>2. pending'[p] = EmptySlot \/ pending'[p] = pending[p]
    BY <2>1 DEF TypeOK, P3TypeOK
  <2> QED
    BY <2>1, <2>2
<1>6. CASE UNCHANGED pending
  BY <1>6
<1> QED
  BY <1>2, <1>3, <1>4, <1>5, <1>6, SlotChanges

\* P3's cursor only goes back when it crashes.
LEMMA CursorAdvances ==
  ASSUME TypeOK, [Next]_vars, ~Crash
  PROVE  /\ cursor.sigs \in Nat /\ cursor'.sigs \in Nat
         /\ DrainSignatures => cursor'.sigs = Len(sigLog)
         /\ \A i \in 1..Len(sigLog) : i <= cursor.sigs => i <= cursor'.sigs
<1>1. cursor \in [sigs : Nat, cleared : Nat] /\ Len(sigLog) \in Nat
  BY LogTypes DEF TypeOK, P3TypeOK
<1>2. CASE DrainSignatures
  <2>1. cursor'.sigs = Len(sigLog)
    BY <1>1, <1>2 DEF DrainSignatures
  <2> QED
    BY <1>1, <2>1
<1>3. CASE DrainCleared
  <2>1. cursor'.sigs = cursor.sigs /\ pc = "cleared"
    BY <1>1, <1>3 DEF DrainCleared
  <2>2. ~DrainSignatures
    BY <2>1 DEF DrainSignatures
  <2> QED
    BY <1>1, <2>1, <2>2
<1>4. CASE UNCHANGED cursor /\ ~DrainSignatures
  BY <1>1, <1>4
<1> QED
  BY <1>2, <1>3, <1>4, CursorChanges

LEMMA SignaturesInit == Init => SignaturesAreRead
<1> SUFFICES ASSUME Init PROVE SignaturesAreRead
  OBVIOUS
<1>1. Len(<<>>) = 0 /\ sigLog = <<>> /\ \A p \in ProposalId : pending[p].signatures = {}
  BY DEF Init, EmptySlot
<1> QED
  BY <1>1 DEF SignaturesAreRead

LEMMA SignaturesStep == TypeOK /\ SignaturesAreRead /\ [Next]_vars => SignaturesAreRead'
<1> SUFFICES ASSUME TypeOK, SignaturesAreRead, [Next]_vars PROVE SignaturesAreRead'
  OBVIOUS
<1>1. ASSUME NEW i \in 1..Len(sigLog')
      PROVE  \E d \in drafts' : sigLog'[i] = Signature(d, Quant) \/ sigLog'[i] = Signature(d, Patriarch)
  <2>1. ASSUME NEW d \in drafts, NEW o \in {Quant, Patriarch}, sigLog' = Append(sigLog, Signature(d, o))
        PROVE  i \in 1..Len(sigLog) \/ sigLog'[i] = Signature(d, o)
    <3>1. Signature(d, o) \in Signatures /\ sigLog \in Seq(Signatures) /\ Len(sigLog) \in Nat
      BY SignatureType, SettlementAssumption, LogTypes DEF TypeOK, BusTypeOK
    <3>2. Len(sigLog') = Len(sigLog) + 1 /\ sigLog'[Len(sigLog) + 1] = Signature(d, o)
      BY <2>1, <3>1, GrowsByOne
    <3> QED
      BY <3>1, <3>2
  <2>2. CASE i \in 1..Len(sigLog)
    BY <2>2, SignsOwn, SigLogLonger DEF SignaturesAreRead
  <2>3. CASE i \notin 1..Len(sigLog)
    BY <2>1, <2>3, SignsOwn
  <2> QED
    BY <2>2, <2>3
<1>2. ASSUME NEW p \in ProposalId, NEW m \in pending'[p].signatures
      PROVE  \E i \in 1..Len(sigLog') : i <= cursor'.sigs /\ sigLog'[i] = m
  <2>1. ~Crash
    BY <1>2 DEF Crash, EmptySlot
  <2>2. CASE m \in pending[p].signatures
    <3>1. PICK i \in 1..Len(sigLog) : i <= cursor.sigs /\ sigLog[i] = m
      BY <2>2 DEF SignaturesAreRead
    <3> QED
      BY <2>1, <3>1, SigLogLonger, CursorAdvances
  <2>3. CASE DrainSignatures /\ \E j \in 1..Len(sigLog) : sigLog[j] = m
    <3>1. PICK j \in 1..Len(sigLog) : sigLog[j] = m
      BY <2>3
    <3>2. j <= cursor'.sigs
      BY <2>1, <2>3, CursorAdvances, SigLogLonger
    <3> QED
      BY <3>1, <3>2, SigLogLonger
  <2> QED
    BY <2>2, <2>3, SlotReads
<1> QED
  BY <1>1, <1>2 DEF SignaturesAreRead, Signature, SafeTxHash, TxHash

\* Quant's signatures are those of its drafts.
LEMMA QuantSigned ==
  ASSUME SignaturesAreRead, NEW i \in 1..Len(sigLog), sigLog[i].signer = Quant
  PROVE  \E d \in drafts : d.id = sigLog[i].id /\ sigLog[i] = Signature(d, Quant)
<1>1. PICK d \in drafts : sigLog[i] = Signature(d, Quant) \/ sigLog[i] = Signature(d, Patriarch)
  BY DEF SignaturesAreRead
<1>2. \A o : Signature(d, o).signer = o /\ Signature(d, o).id = d.id
  BY DEF Signature
<1>3. Signature(d, Patriarch).signer = Quant => Patriarch = Quant
  BY <1>2
<1>4. sigLog[i] = Signature(d, Quant)
  BY <1>1, <1>3
<1> QED
  BY <1>2, <1>4

\* A slot that meets a threshold of two holds a signature of Quant.
LEMMA QuantIsNeeded ==
  ASSUME TypeOK, SlotInv, SignaturesAreRead, Threshold >= 2, NEW p \in todo
  PROVE  /\ p \in ProposalId
         /\ \E m \in pending[p].signatures : m.signer = Quant
         /\ \E i \in 1..Len(sigLog) :
              i <= cursor.sigs /\ sigLog[i].id = p /\ sigLog[i].signer = Quant
         /\ ~QuantIsSpent(p)
<1> DEFINE s == Signers(ValidSignatures(p))
<1>1. p \in ProposalId /\ Cardinality(s) >= Threshold
  BY DEF SlotInv, PassIsReady, ThresholdMet, TypeOK, P3TypeOK
<1>2. s \subseteq {Quant, Patriarch} /\ \A o \in s : \E m \in pending[p].signatures : m.signer = o
  <2>1. ASSUME NEW m \in pending[p].signatures PROVE m.signer \in {Quant, Patriarch}
    <3>1. PICK i \in 1..Len(sigLog) : sigLog[i] = m
      BY <1>1 DEF SignaturesAreRead
    <3>2. \A d, o : Signature(d, o).signer = o
      BY DEF Signature
    <3> QED
      BY <3>1, <3>2 DEF SignaturesAreRead
  <2> QED
    BY <2>1 DEF Signers, ValidSignatures
<1> HIDE DEF s
<1>3. Quant \in s
  <2> SUFFICES ASSUME Quant \notin s PROVE FALSE
    OBVIOUS
  <2>1. s \subseteq {Patriarch}
    BY <1>2
  <2>2. IsFiniteSet({Patriarch}) /\ Cardinality({Patriarch}) = 1
    BY FS_Singleton
  <2>3. Cardinality(s) <= 1 /\ Cardinality(s) \in Nat
    BY <2>1, <2>2, FS_Subset, FS_CardinalityType
  <2> QED
    BY <1>1, <2>3, SettlementAssumption
<1>4. PICK m \in pending[p].signatures : m.signer = Quant
  BY <1>2, <1>3
<1>5. m.id = p
  BY <1>1 DEF SlotInv, SlotsArePublished, SlotIsPublished
<1>6. PICK i \in 1..Len(sigLog) : i <= cursor.sigs /\ sigLog[i] = m
  BY <1>1 DEF SignaturesAreRead
<1> QED
  BY <1>1, <1>4, <1>5, <1>6 DEF QuantIsSpent

\* A signature that is spent is not read again, since Quant does not repeat it.
LEMMA SpentStays ==
  ASSUME TypeOK, SignaturesAreRead, QuantIsFresh, [Next]_vars, ~Crash,
         NEW p \in ProposalId, QuantIsSpent(p)
  PROVE  QuantIsSpent(p)'
<1>1. PICK i \in 1..Len(sigLog) : /\ i <= cursor.sigs /\ sigLog[i].id = p
                                  /\ sigLog[i].signer = Quant
  BY DEF QuantIsSpent
<1>2. i \in 1..Len(sigLog') /\ sigLog'[i] = sigLog[i] /\ i <= cursor'.sigs
  BY <1>1, SigLogLonger, CursorAdvances
<1>3. ASSUME NEW m \in pending'[p].signatures, m.signer = Quant PROVE FALSE
  <2>1. PICK j \in 1..Len(sigLog) : j > cursor.sigs /\ sigLog[j].id = p /\ sigLog[j] = m
    BY <1>3, SlotReads DEF QuantIsSpent
  <2>2. i # j
    BY <1>1, <2>1, CursorAdvances, SigLogLonger
  <2>3. PICK d \in drafts : d.id = p /\ sigLog[i] = Signature(d, Quant)
    BY <1>1, QuantSigned
  <2>4. PICK e \in drafts : e.id = p /\ sigLog[j] = Signature(e, Quant)
    BY <1>3, <2>1, QuantSigned
  <2>5. sigLog[i] = sigLog[j]
    BY <2>3, <2>4 DEF QuantIsFresh
  <2> QED
    BY <1>1, <2>2, <2>5 DEF QuantIsFresh
<1> QED
  BY <1>1, <1>2, <1>3 DEF QuantIsSpent

\* Up to now nothing had been disturbed either.
LEMMA UndisturbedBefore ==
  ASSUME TypeOK, [Next]_vars, Undisturbed'
  PROVE  Undisturbed /\ ~Crash /\ ~DaemonError /\ ~AwaitTimeout
<1>1. faults \in Nat /\ timeouts \in Nat /\ faults' = 0 /\ timeouts' = 0
  BY DEF TypeOK, Undisturbed
<1>2. ~Crash /\ ~DaemonError /\ ~AwaitTimeout
  BY <1>1 DEF Crash, DaemonError, AwaitTimeout
<1>3. faults' = faults /\ timeouts' = timeouts
  BY <1>2 DEF Next, vars, Publishers, QuantPropose, QuantSign, PatriarchSign, PublishSignature,
     PatriarchClear, ClearNetwork, TenMinutesPass, Daemon, DrainSignatures, DrainCleared, EndPass,
     StartSettlement, RejectReplay, ExecuteMock, SubmitTx, SendFails, FinishSettlement,
     AwaitSuccess, AwaitRevert, ArchiveFailure, Mark, ArchiveReceipt, MintReceipt,
     PublishSuccess, Chain, MineTx, PermitChanges
<1>4. QuantIsFresh
  BY SignsOwn, SigLogLonger DEF Undisturbed, QuantIsFresh
<1> QED
  BY <1>1, <1>2, <1>3, <1>4 DEF Undisturbed

\* A step makes an attempt only at the slot it takes up, or goes on with.
LEMMA AttemptChanges ==
  ASSUME TypeOK, SlotInv, [Next]_vars, NEW q \in ProposalId
  PROVE  /\ ExecutedId(q)' => ExecutedId(q) \/ SentId(q) \/ \E p \in todo : p = q /\ ExecuteMock(p)
         /\ SentId(q)' => SentId(q) \/ \E p \in todo : p = q /\ SubmitTx(p)
         /\ RevertedId(q)' => RevertedId(q) \/ (\E p \in todo : p = q /\ SendFails(p))
                                \/ (q = cur /\ (AwaitRevert \/ AwaitTimeout))
<1>1. /\ txs \in Seq(Txs) /\ executed \in Seq(Bundles) /\ Len(txs) \in Nat /\ Len(executed) \in Nat
      /\ \A i \in 1..Len(txs) : txs[i] \in Txs
  BY LogTypes DEF TypeOK, ChainTypeOK
<1>2. \A p \in todo : /\ Bundle(p) \in Bundles /\ Bundle(p).draft.id = p
                      /\ [bundle |-> Bundle(p), status |-> "pending"] \in Txs
  <2> SUFFICES ASSUME NEW p \in todo
               PROVE  /\ Bundle(p) \in Bundles /\ Bundle(p).draft.id = p
                      /\ [bundle |-> Bundle(p), status |-> "pending"] \in Txs
    OBVIOUS
  <2>1. Bundle(p) \in Bundles
    BY BundleConsented
  <2>2. p \in ProposalId /\ pending[p].proposal # None
    BY DEF SlotInv, PassIsReady, ThresholdMet, TypeOK, P3TypeOK
  <2>3. Bundle(p).draft.id = p
    BY <2>2 DEF SlotInv, SlotsArePublished, SlotIsPublished, Bundle
  <2> QED
    BY <2>1, <2>3 DEF Txs
<1>3. ASSUME NEW b \in Bundles, executed' = Append(executed, b), ExecutedId(q)'
      PROVE  ExecutedId(q) \/ b.draft.id = q
  <2>1. PICK n \in 1..Len(executed') : executed'[n].draft.id = q
    BY <1>3 DEF ExecutedId
  <2>2. /\ Len(executed') = Len(executed) + 1 /\ executed'[Len(executed) + 1] = b
        /\ \A k \in 1..Len(executed) : executed'[k] = executed[k]
    BY <1>1, <1>3, GrowsByOne
  <2>3. CASE n \in 1..Len(executed)
    BY <2>1, <2>2, <2>3 DEF ExecutedId
  <2>4. CASE n = Len(executed) + 1
    BY <2>1, <2>2, <2>4
  <2> QED
    BY <1>1, <2>2, <2>3, <2>4
<1>4. ASSUME NEW t \in Txs, txs' = Append(txs, t), SentId(q)'
      PROVE  SentId(q) \/ t.bundle.draft.id = q
  <2>1. PICK n \in 1..Len(txs') : txs'[n].bundle.draft.id = q
    BY <1>4 DEF SentId
  <2>2. /\ Len(txs') = Len(txs) + 1 /\ txs'[Len(txs) + 1] = t
        /\ \A k \in 1..Len(txs) : txs'[k] = txs[k]
    BY <1>1, <1>4, GrowsByOne
  <2>3. CASE n \in 1..Len(txs)
    BY <2>1, <2>2, <2>3 DEF SentId
  <2>4. CASE n = Len(txs) + 1
    BY <2>1, <2>2, <2>4
  <2> QED
    BY <1>1, <2>2, <2>3, <2>4
<1>5. UNCHANGED <<txs, executed>> =>
        (ExecutedId(q)' => ExecutedId(q)) /\ (SentId(q)' => SentId(q))
  BY DEF ExecutedId, SentId
<1>6. ASSUME NEW p \in todo, ExecuteMock(p)
      PROVE  /\ ExecutedId(q)' => ExecutedId(q) \/ p = q
             /\ SentId(q)' => SentId(q)
  <2>1. executed' = Append(executed, Bundle(p)) /\ txs' = txs
    BY <1>6 DEF ExecuteMock
  <2> QED
    BY <1>2, <1>3, <2>1 DEF SentId
<1>7. ASSUME NEW p \in todo, SubmitTx(p)
      PROVE  /\ ExecutedId(q)' => ExecutedId(q)
             /\ SentId(q)' => SentId(q) \/ p = q
  <2> DEFINE t == [bundle |-> Bundle(p), status |-> "pending"]
  <2>1. txs' = Append(txs, t) /\ executed' = executed /\ t \in Txs /\ t.bundle.draft.id = p
    BY <1>2, <1>7 DEF SubmitTx
  <2> HIDE DEF t
  <2> QED
    BY <1>4, <2>1 DEF ExecutedId
<1>8. ASSUME NEW i \in 1..Len(txs), MineTx(i)
      PROVE  /\ ExecutedId(q)' => ExecutedId(q) \/ SentId(q)
             /\ SentId(q)' => SentId(q)
  <2>1. txs[i].bundle \in Bundles
    BY <1>1 DEF Txs
  <2>2. /\ Len(txs') = Len(txs)
        /\ \A j \in 1..Len(txs) : txs'[j].bundle = txs[j].bundle
        /\ executed' = Append(executed, txs[i].bundle) \/ executed' = executed
    BY <1>8, MineChanges
  <2> QED
    BY <1>3, <2>1, <2>2 DEF SentId, ExecutedId
<1>9. RevertedId(q)' => RevertedId(q) \/ (\E p \in todo : p = q /\ SendFails(p))
                                \/ (q = cur /\ (AwaitRevert \/ AwaitTimeout))
  <2>1. ASSUME NEW p, NEW k, PublishFailure(k, p), RevertedId(q)'
        PROVE  RevertedId(q) \/ (k = "REVERT" /\ p = q)
    BY <2>1 DEF PublishFailure, Outcome, RevertedId
  <2>2. CASE PublishSuccess
    BY <2>2 DEF PublishSuccess, Outcome, RevertedId
  <2>3. CASE UNCHANGED outcomes
    BY <2>3 DEF RevertedId
  <2>4. CASE \E p \in todo : RejectReplay(p)
    BY <2>1, <2>4 DEF RejectReplay
  <2>5. CASE \E p \in todo : SendFails(p)
    BY <2>1, <2>5 DEF SendFails
  <2>6. CASE AwaitRevert \/ AwaitTimeout
    BY <2>1, <2>6 DEF AwaitRevert, AwaitTimeout
  <2> QED
    BY <2>2, <2>3, <2>4, <2>5, <2>6 DEF Next, vars, Publishers, QuantPropose, QuantSign,
       PatriarchSign, PublishSignature, PatriarchClear, ClearNetwork, TenMinutesPass, Daemon,
       DrainSignatures, DrainCleared, EndPass, StartSettlement, ExecuteMock, SubmitTx,
       FinishSettlement, AwaitSuccess, ArchiveFailure, Mark, ArchiveReceipt, MintReceipt,
       DaemonError, Crash, Chain, MineTx, PermitChanges
<1> QED
  BY <1>5, <1>6, <1>7, <1>8, <1>9, ChainChanges

\* How a step moves P3 from slot to slot, when nothing fails.
LEMMA CurChanges ==
  ASSUME [Next]_vars, ~Crash, ~DaemonError
  PROVE  \/ UNCHANGED cur
         \/ \E p \in todo : StartSettlement(p) /\ cur' = p /\ pc = "settle"
         \/ pc \in {"failed", "minted"} /\ Close(cur)
<1>1. CASE \E p \in todo : StartSettlement(p)
  BY <1>1 DEF StartSettlement, RejectReplay, ExecuteMock, SubmitTx, SendFails, PublishFailure
<1>2. CASE ~\E p \in todo : StartSettlement(p)
  BY <1>2 DEF Next, vars, p3Vars, Publishers, QuantPropose, QuantSign, PatriarchSign,
     PublishSignature, PatriarchClear, ClearNetwork, TenMinutesPass, Daemon, DrainSignatures,
     DrainCleared, EndPass, FinishSettlement, AwaitSuccess, AwaitRevert, AwaitTimeout,
     ArchiveFailure, Mark, ArchiveReceipt, MintReceipt, PublishSuccess, PublishFailure, Chain,
     MineTx, PermitChanges
<1> QED
  BY <1>1, <1>2

\* Each proposal is attempted once.
LEMMA AttemptedStep ==
  TypeOK /\ SlotInv /\ SignaturesAreRead /\ AttemptedOnce /\ Threshold >= 2 /\ [Next]_vars
    /\ Undisturbed' => AttemptedOnce'
<1> SUFFICES ASSUME TypeOK, SlotInv, SignaturesAreRead, AttemptedOnce, Threshold >= 2, [Next]_vars,
                    Undisturbed', NEW q \in ProposalId, Attempted(q)'
             PROVE  cur' = q \/ QuantIsSpent(q)'
  BY DEF AttemptedOnce
<1>1. QuantIsFresh /\ ~Crash /\ ~DaemonError
  BY UndisturbedBefore DEF Undisturbed
<1>2. QuantIsSpent(q) => QuantIsSpent(q)'
  BY <1>1, SpentStays
<1>3. Attempted(q) \/ cur' = q
  <2>1. \A p \in todo : ExecuteMock(p) \/ SubmitTx(p) \/ SendFails(p) => cur' = p
    BY DEF ExecuteMock, SubmitTx, SendFails, PublishFailure
  <2>2. AwaitRevert \/ AwaitTimeout => cur' = cur
    BY DEF AwaitRevert, AwaitTimeout, PublishFailure
  <2> QED
    BY <2>1, <2>2, AttemptChanges DEF Attempted
<1>4. CASE Attempted(q) /\ cur = q /\ cur' # cur
  <2>1. cur # None
    BY <1>4, SettlementAssumption
  <2>2. pc \notin {"sigs", "cleared", "settle"} /\ cur \in todo
    BY <2>1 DEF TypeOK, P3TypeOK, SlotInv, PassIsReady
  <2>3. Close(cur)
    BY <1>1, <1>4, <2>2, CurChanges
  <2>4. PICK i \in 1..Len(sigLog) :
          i <= cursor.sigs /\ sigLog[i].id = q /\ sigLog[i].signer = Quant
    BY <1>4, <2>2, QuantIsNeeded
  <2>5. i \in 1..Len(sigLog') /\ sigLog'[i] = sigLog[i] /\ cursor' = cursor
    BY <2>3, SigLogLonger DEF Close
  <2>6. pending'[q].signatures = {}
    BY <1>4, <2>3 DEF Close, EmptySlot, TypeOK, P3TypeOK
  <2> QED
    BY <2>4, <2>5, <2>6 DEF QuantIsSpent
<1> QED
  BY <1>2, <1>3, <1>4 DEF AttemptedOnce

\* What P3 takes up it has not attempted before.
LEMMA NotAttempted ==
  ASSUME TypeOK, SlotInv, SignaturesAreRead, AttemptedOnce, Threshold >= 2, pc = "settle",
         NEW p \in todo
  PROVE  p \in ProposalId /\ ~Attempted(p)
BY QuantIsNeeded, SettlementAssumption DEF AttemptedOnce, TypeOK, P3TypeOK

\* P3 comes to wait by sending a transaction.
LEMMA AwaitChanges ==
  ASSUME [Next]_vars, pc' = "waiting"
  PROVE  (pc = "waiting" /\ cur' = cur) \/ \E p \in todo : SubmitTx(p)
BY DEF Next, vars, p3Vars, Publishers, QuantPropose, QuantSign, PatriarchSign,
   PublishSignature, PatriarchClear, ClearNetwork, TenMinutesPass, Daemon, DrainSignatures,
   DrainCleared, EndPass, StartSettlement, RejectReplay, ExecuteMock, SendFails, PublishFailure,
   FinishSettlement, AwaitSuccess, AwaitRevert, AwaitTimeout, ArchiveFailure, Mark, ArchiveReceipt,
   MintReceipt, PublishSuccess, Close, DaemonError, Crash, Chain, MineTx, PermitChanges

\* P3 waits for the only transaction of its proposal.
LEMMA WaitsStep ==
  TypeOK /\ SlotInv /\ SettledInv /\ SignaturesAreRead /\ AttemptedOnce /\ WaitsForOne
    /\ Threshold >= 2 /\ [Next]_vars => WaitsForOne'
<1> SUFFICES ASSUME TypeOK, SlotInv, SettledInv, SignaturesAreRead, AttemptedOnce, WaitsForOne,
                    Threshold >= 2, [Next]_vars, pc' = "waiting"
             PROVE  /\ \A i \in 1..Len(txs') : txs'[i].bundle.draft.id = cur' => i = Len(txs')
                    /\ ExecutedId(cur)' => txs'[Len(txs')].status = "ok"
  BY DEF WaitsForOne
<1>1. /\ txs \in Seq(Txs) /\ executed \in Seq(Bundles) /\ Len(txs) \in Nat /\ Len(executed) \in Nat
      /\ \A i \in 1..Len(txs) : txs[i] \in Txs
  BY LogTypes DEF TypeOK, ChainTypeOK
<1>2. \/ pc = "waiting" /\ cur' = cur
      \/ \E p \in todo : SubmitTx(p)
  BY AwaitChanges
<1>3. ASSUME NEW p \in todo, SubmitTx(p)
      PROVE  /\ \A i \in 1..Len(txs') : txs'[i].bundle.draft.id = cur' => i = Len(txs')
             /\ ExecutedId(cur)' => txs'[Len(txs')].status = "ok"
  <2> DEFINE t == [bundle |-> Bundle(p), status |-> "pending"]
  <2>1. /\ txs' = Append(txs, t) /\ executed' = executed /\ cur' = p /\ pc = "settle"
        /\ t \in Txs
    BY <1>3, BundleConsented DEF SubmitTx, Txs
  <2> HIDE DEF t
  <2>2. /\ Len(txs') = Len(txs) + 1 /\ \A k \in 1..Len(txs) : txs'[k] = txs[k]
    BY <1>1, <2>1, GrowsByOne
  <2>3. ~ExecutedId(p) /\ ~SentId(p)
    BY <2>1, NotAttempted DEF Attempted
  <2>4. \A i \in 1..Len(txs) : txs'[i].bundle.draft.id # cur'
    BY <2>1, <2>2, <2>3 DEF SentId
  <2>5. ~ExecutedId(cur)'
    BY <2>1, <2>3 DEF ExecutedId
  <2> QED
    BY <1>1, <2>2, <2>4, <2>5
<1>4. CASE pc = "waiting" /\ cur' = cur /\ UNCHANGED <<txs, executed>>
  BY <1>4 DEF WaitsForOne, ExecutedId
<1>5. ASSUME pc = "waiting", cur' = cur, NEW i \in 1..Len(txs), MineTx(i)
      PROVE  /\ \A j \in 1..Len(txs') : txs'[j].bundle.draft.id = cur' => j = Len(txs')
             /\ ExecutedId(cur)' => txs'[Len(txs')].status = "ok"
  <2>1. /\ Len(txs') = Len(txs)
        /\ \A j \in 1..Len(txs) : txs'[j].bundle = txs[j].bundle
        /\ \A j \in 1..Len(txs) : j # i => txs'[j] = txs[j]
        /\ \/ txs'[i].status = "ok" /\ executed' = Append(executed, txs[i].bundle)
           \/ txs'[i].status = "reverted" /\ executed' = executed
    BY <1>5, MineChanges
  <2>2. txs[i].status = "pending" /\ txs[i].bundle \in Bundles
    BY <1>1, <1>5 DEF MineTx, Txs
  <2>3. \A j \in 1..Len(txs') : txs'[j].bundle.draft.id = cur' => j = Len(txs')
    BY <1>5, <2>1 DEF WaitsForOne
  <2>4. CASE ExecutedId(cur)
    <3>1. txs[Len(txs)].status = "ok"
      BY <1>5, <2>4 DEF WaitsForOne
    <3>2. txs'[Len(txs)] = txs[Len(txs)]
      BY <1>1, <2>1, <2>2, <3>1
    <3> QED
      BY <2>1, <2>3, <3>1, <3>2
  <2>5. ASSUME ~ExecutedId(cur), ExecutedId(cur)'
        PROVE  txs'[Len(txs')].status = "ok"
    <3>1. executed' = Append(executed, txs[i].bundle) /\ txs'[i].status = "ok"
      BY <1>5, <2>1, <2>5 DEF ExecutedId
    <3>2. PICK n \in 1..Len(executed') : executed'[n].draft.id = cur
      BY <1>5, <2>5 DEF ExecutedId
    <3>3. /\ Len(executed') = Len(executed) + 1 /\ executed'[Len(executed) + 1] = txs[i].bundle
          /\ \A k \in 1..Len(executed) : executed'[k] = executed[k]
      BY <1>1, <2>2, <3>1, GrowsByOne
    <3>4. n = Len(executed) + 1
      <4>1. n \notin 1..Len(executed)
        BY <2>5, <3>2, <3>3 DEF ExecutedId
      <4>2. Len(executed) \in Nat
        BY <1>1
      <4> QED
        BY <3>2, <3>3, <4>1, <4>2
    <3>5. txs[i].bundle.draft.id = cur
      BY <3>2, <3>3, <3>4
    <3>6. i = Len(txs)
      BY <1>5, <3>5 DEF WaitsForOne
    <3> QED
      BY <2>1, <3>1, <3>6
  <2> QED
    BY <2>3, <2>4, <2>5
<1>6. CASE pc = "waiting" /\ cur' = cur /\ ~\E i \in 1..Len(txs) : MineTx(i)
  <2>1. ~\E p \in todo : ExecuteMock(p) \/ SubmitTx(p)
    BY <1>6 DEF ExecuteMock, SubmitTx
  <2> QED
    BY <1>4, <1>6, <2>1, ChainChanges
<1> QED
  BY <1>2, <1>3, <1>5, <1>6

\* A failure is published as REVERT only for what has not executed and will not.
LEMMA RevertsStep ==
  TypeOK /\ SlotInv /\ SettledInv /\ SignaturesAreRead /\ RevertInv /\ Threshold >= 2 /\ [Next]_vars
    /\ Undisturbed' => RevertsStand'
<1> SUFFICES ASSUME TypeOK, SlotInv, SettledInv, SignaturesAreRead, RevertInv, Threshold >= 2,
                    [Next]_vars, Undisturbed', NEW q \in ProposalId, RevertedId(q)'
             PROVE  /\ ~ExecutedId(q)'
                    /\ \A i \in 1..Len(txs') : txs'[i].bundle.draft.id = q => txs'[i].status # "pending"
  BY DEF RevertsStand
<1>1. /\ txs \in Seq(Txs) /\ executed \in Seq(Bundles) /\ Len(txs) \in Nat /\ Len(executed) \in Nat
      /\ \A i \in 1..Len(txs) : txs[i] \in Txs
  BY LogTypes DEF TypeOK, ChainTypeOK
<1>2. ~AwaitTimeout
  BY UndisturbedBefore
<1>3. ASSUME NEW p \in todo, ExecuteMock(p) \/ SubmitTx(p) \/ SendFails(p)
      PROVE  p \in ProposalId /\ ~Attempted(p)
  <2>1. pc = "settle"
    BY <1>3 DEF ExecuteMock, SubmitTx, SendFails
  <2> QED
    BY <2>1, NotAttempted DEF RevertInv
<1>4. CASE \E p \in todo : SendFails(p)
  <2>1. PICK p \in todo : SendFails(p)
    BY <1>4
  <2>2. UNCHANGED <<txs, executed>>
    BY <2>1 DEF SendFails, chainVars
  <2>3. RevertedId(q) \/ ~Attempted(q)
    <3>1. pc = "settle" /\ ~AwaitRevert
      BY <2>1 DEF SendFails, AwaitRevert
    <3>2. RevertedId(q) \/ \E r \in todo : r = q /\ SendFails(r)
      BY <1>2, <3>1, AttemptChanges
    <3> QED
      BY <1>3, <3>2
  <2> QED
    BY <2>2, <2>3 DEF RevertInv, RevertsStand, Attempted, ExecutedId, SentId
<1>5. CASE AwaitRevert
  <2>1. /\ pc = "waiting" /\ txs[Len(txs)].status = "reverted" /\ UNCHANGED <<txs, executed>>
    BY <1>5 DEF AwaitRevert, chainVars
  <2>2. ~\E p \in todo : SendFails(p)
    BY <2>1 DEF SendFails
  <2>3. RevertedId(q) \/ q = cur
    BY <2>2, AttemptChanges
  <2>4. CASE q = cur
    <3>1. ~ExecutedId(q)
      BY <2>1, <2>4 DEF RevertInv, WaitsForOne
    <3>2. \A i \in 1..Len(txs) : txs[i].bundle.draft.id = q => txs[i].status # "pending"
      BY <2>1, <2>4 DEF RevertInv, WaitsForOne
    <3> QED
      BY <2>1, <3>1, <3>2 DEF ExecutedId
  <2>5. CASE RevertedId(q)
    BY <2>1, <2>5 DEF RevertInv, RevertsStand, ExecutedId
  <2> QED
    BY <2>3, <2>4, <2>5
<1>6. CASE ~AwaitRevert /\ ~\E p \in todo : SendFails(p)
  <2>1. RevertedId(q)
    BY <1>2, <1>6, AttemptChanges
  <2>2. ~ExecutedId(q) /\ \A i \in 1..Len(txs) : txs[i].bundle.draft.id = q => txs[i].status # "pending"
    BY <2>1 DEF RevertInv, RevertsStand
  <2>3. CASE UNCHANGED <<txs, executed>>
    BY <2>2, <2>3 DEF ExecutedId
  <2>4. ASSUME NEW p \in todo, ExecuteMock(p) \/ SubmitTx(p)
        PROVE  /\ ~ExecutedId(q)'
               /\ \A i \in 1..Len(txs') : txs'[i].bundle.draft.id = q => txs'[i].status # "pending"
    <3>1. p # q /\ p \in ProposalId
      BY <1>3, <2>1, <2>4 DEF Attempted
    <3>2. Bundle(p) \in Bundles /\ Bundle(p).draft.id = p
      <4>1. pending[p].proposal # None
        BY DEF SlotInv, PassIsReady, ThresholdMet
      <4>2. Bundle(p).draft.id = p
        BY <3>1, <4>1 DEF SlotInv, SlotsArePublished, SlotIsPublished, Bundle
      <4> QED
        BY <4>2, BundleConsented
    <3>3. CASE ExecuteMock(p)
      <4>1. executed' = Append(executed, Bundle(p)) /\ txs' = txs
        BY <3>3 DEF ExecuteMock
      <4>2. /\ Len(executed') = Len(executed) + 1 /\ executed'[Len(executed) + 1] = Bundle(p)
            /\ \A k \in 1..Len(executed) : executed'[k] = executed[k]
        BY <1>1, <3>2, <4>1, GrowsByOne
      <4>3. ASSUME NEW n \in 1..Len(executed') PROVE executed'[n].draft.id # q
        <5>1. CASE n \in 1..Len(executed)
          BY <2>2, <4>2, <5>1 DEF ExecutedId
        <5>2. CASE n = Len(executed) + 1
          BY <3>1, <3>2, <4>2, <5>2
        <5> QED
          BY <1>1, <4>2, <5>1, <5>2
      <4> QED
        BY <2>2, <4>1, <4>3 DEF ExecutedId
    <3>4. CASE SubmitTx(p)
      <4> DEFINE t == [bundle |-> Bundle(p), status |-> "pending"]
      <4>1. txs' = Append(txs, t) /\ executed' = executed /\ t \in Txs /\ t.bundle.draft.id = p
        BY <3>2, <3>4 DEF SubmitTx, Txs
      <4> HIDE DEF t
      <4>2. /\ Len(txs') = Len(txs) + 1 /\ txs'[Len(txs) + 1] = t
            /\ \A k \in 1..Len(txs) : txs'[k] = txs[k]
        BY <1>1, <4>1, GrowsByOne
      <4>3. ASSUME NEW n \in 1..Len(txs'), txs'[n].bundle.draft.id = q
            PROVE  txs'[n].status # "pending"
        <5>1. CASE n \in 1..Len(txs)
          BY <2>2, <4>2, <4>3, <5>1
        <5>2. CASE n = Len(txs) + 1
          BY <3>1, <4>1, <4>2, <4>3, <5>2
        <5> QED
          BY <1>1, <4>2, <5>1, <5>2
      <4> QED
        BY <2>2, <4>1, <4>3 DEF ExecutedId
    <3> QED
      BY <2>4, <3>3, <3>4
  <2>5. ASSUME NEW i \in 1..Len(txs), MineTx(i)
        PROVE  /\ ~ExecutedId(q)'
               /\ \A j \in 1..Len(txs') : txs'[j].bundle.draft.id = q => txs'[j].status # "pending"
    <3>1. txs[i].status = "pending" /\ txs[i].bundle \in Bundles
      BY <1>1, <2>5 DEF MineTx, Txs
    <3>2. txs[i].bundle.draft.id # q
      BY <2>2, <3>1
    <3>3. /\ Len(txs') = Len(txs)
          /\ \A j \in 1..Len(txs) : txs'[j].bundle = txs[j].bundle
          /\ \A j \in 1..Len(txs) : j # i => txs'[j] = txs[j]
          /\ executed' = Append(executed, txs[i].bundle) \/ executed' = executed
      BY <2>5, MineChanges
    <3>4. \A j \in 1..Len(txs') : txs'[j].bundle.draft.id = q => txs'[j].status # "pending"
      BY <2>2, <3>2, <3>3
    <3>5. CASE executed' = executed
      BY <2>2, <3>4, <3>5 DEF ExecutedId
    <3>6. CASE executed' = Append(executed, txs[i].bundle)
      <4>1. /\ Len(executed') = Len(executed) + 1 /\ executed'[Len(executed) + 1] = txs[i].bundle
            /\ \A k \in 1..Len(executed) : executed'[k] = executed[k]
        BY <1>1, <3>1, <3>6, GrowsByOne
      <4>2. ASSUME NEW n \in 1..Len(executed') PROVE executed'[n].draft.id # q
        <5>1. CASE n \in 1..Len(executed)
          BY <2>2, <4>1, <5>1 DEF ExecutedId
        <5>2. CASE n = Len(executed) + 1
          BY <3>2, <4>1, <5>2
        <5> QED
          BY <1>1, <4>1, <5>1, <5>2
      <4> QED
        BY <3>4, <4>2 DEF ExecutedId
    <3> QED
      BY <3>3, <3>5, <3>6
  <2> QED
    BY <2>3, <2>4, <2>5, ChainChanges
<1> QED
  BY <1>4, <1>5, <1>6

LEMMA RevertInit == Init => RevertInv
<1> SUFFICES ASSUME Init PROVE RevertInv
  OBVIOUS
<1>1. Len(<<>>) = 0 /\ txs = <<>> /\ executed = <<>> /\ outcomes = {} /\ pc = "sigs"
  BY DEF Init
<1> QED
  BY <1>1 DEF RevertInv, AttemptedOnce, Attempted, ExecutedId, SentId, RevertedId, WaitsForOne,
     RevertsStand

\* With a threshold of two or more a REVERT failure is the truth, as long as nothing
\* disturbs P3 and Quant has not repeated itself: the proposal did not execute and never
\* will, although Patriarch may clear and sign it again (execution_process.py, lines
\* 114-117, 169-190, 223-239 and 272-273).
THEOREM RevertsAreFinal == Threshold >= 2 => (Spec => []RevertIsFinal)
<1> SUFFICES ASSUME Threshold >= 2 PROVE Spec => []RevertIsFinal
  OBVIOUS
<1>1. Init => SignaturesAreRead /\ (Undisturbed => RevertInv)
  BY SignaturesInit, RevertInit
<1>2. TypeOK /\ SlotInv /\ SettledInv /\ SignaturesAreRead /\ (Undisturbed => RevertInv) /\ [Next]_vars
        => (SignaturesAreRead /\ (Undisturbed => RevertInv))'
  <2> SUFFICES ASSUME TypeOK, SlotInv, SettledInv, SignaturesAreRead, Undisturbed => RevertInv,
                      [Next]_vars
               PROVE  SignaturesAreRead' /\ (Undisturbed' => RevertInv')
    OBVIOUS
  <2>1. Undisturbed' => RevertInv
    BY UndisturbedBefore
  <2> QED
    BY <2>1, SignaturesStep, AttemptedStep, WaitsStep, RevertsStep DEF RevertInv
<1>3. TypeOK /\ (Undisturbed => RevertInv) => RevertIsFinal
  <2> SUFFICES ASSUME TypeOK, Undisturbed, RevertInv, NEW o \in outcomes, o.kind = "REVERT",
                      NEW n \in 1..Len(executed)
               PROVE  executed[n].draft.id # o.id
    BY DEF RevertIsFinal, Undisturbed
  <2>1. o.id \in ProposalId
    BY DEF TypeOK, NotesTypeOK, Notes
  <2> QED
    BY <2>1 DEF RevertInv, RevertsStand, RevertedId, ExecutedId
<1> QED
  BY <1>1, <1>2, <1>3, SettledInvariance, PTL DEF Spec
===============================================================================
