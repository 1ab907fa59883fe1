----------------------------- MODULE ArbiterProofs -----------------------------
(* Theorems about Arbiter, for every value of its constants. *)
EXTENDS Arbiter, NegotiationProofs

-------------------------------------------------------------------------------
(* Settlement, with what is proved of it.  P is the instance P3 of Arbiter again;
   each step of P3 is one of P. *)

P == INSTANCE SettlementProofs WITH
  Swap <- [market : Market, iteration : Iterations],
  Owner <- {Quant, Patriarch}, Threshold <- 2, FreshIds <- FALSE, MaxClears <- MaxMarket,
  sigLog <- signatures, clearedLog <- clearances,
  floor <- [sigs |-> floor.sigs, cleared |-> floor.cleared], clears <- wipes

LEMMA CardinalitiesAgree == \A X : /\ P3!Cardinality(X) = Cardinality(X)
                                   /\ P!Cardinality(X) = Cardinality(X)
BY DEF P3!Cardinality, P!Cardinality, Cardinality

LEMMA SameInit == P3!Init => P!Init
BY DEF P3!Init, P!Init, P3!EmptySlot, P!EmptySlot

LEMMA SameAssumption == P3!SettlementAssumption => P!SettlementAssumption
BY DEF P3!SettlementAssumption, P!SettlementAssumption, P3!IsFiniteSet, P!IsFiniteSet

LEMMA SameVars == UNCHANGED P3!vars => UNCHANGED P!vars
BY DEF P3!vars, P!vars, P3!busVars, P!busVars, P3!p3Vars, P!p3Vars, P3!diskVars, P!diskVars,
  P3!chainVars, P!chainVars

LEMMA SamePublishers == P3!Publishers => P!Publishers
<1>1. ASSUME NEW p, NEW s, P3!QuantPropose(p, s) PROVE P!QuantPropose(p, s)
  BY <1>1, CardinalitiesAgree DEF P3!QuantPropose, P!QuantPropose, P3!SafeNonce, P!SafeNonce, P3!p3Vars,
     P!p3Vars, P3!diskVars, P!diskVars, P3!chainVars, P!chainVars
<1>2. \A d, o : P3!Signature(d, o) = P!Signature(d, o)
  BY DEF P3!Signature, P!Signature, P3!SafeTxHash, P!SafeTxHash, P3!TxHash, P!TxHash
<1>3. ASSUME NEW d, NEW o, P3!PublishSignature(d, o) PROVE P!PublishSignature(d, o)
  BY <1>2, <1>3 DEF P3!PublishSignature, P!PublishSignature, P3!p3Vars,
     P!p3Vars, P3!diskVars, P!diskVars, P3!chainVars, P!chainVars
<1>4. ASSUME NEW d, P3!QuantSign(d) \/ P3!PatriarchSign(d) \/ P3!PatriarchClear(d)
      PROVE  P!QuantSign(d) \/ P!PatriarchSign(d) \/ P!PatriarchClear(d)
  BY <1>3, <1>4 DEF P3!QuantSign, P!QuantSign, P3!PatriarchSign, P!PatriarchSign,
     P3!PatriarchClear, P!PatriarchClear, P3!p3Vars,
     P!p3Vars, P3!diskVars, P!diskVars, P3!chainVars, P!chainVars
<1>5. P3!ClearNetwork \/ P3!TenMinutesPass => P!ClearNetwork \/ P!TenMinutesPass
  BY DEF P3!ClearNetwork, P!ClearNetwork, P3!TenMinutesPass, P!TenMinutesPass, P3!p3Vars,
     P!p3Vars, P3!diskVars, P!diskVars, P3!chainVars, P!chainVars
<1> QED
  BY <1>1, <1>4, <1>5 DEF P3!Publishers, P!Publishers

LEMMA SameSlots ==
  /\ \A p : P3!ValidSignatures(p) = P!ValidSignatures(p) /\ P3!Bundle(p) = P!Bundle(p)
  /\ \A p : (P3!ThresholdMet(p) <=> P!ThresholdMet(p))
BY CardinalitiesAgree
DEF P3!ThresholdMet, P!ThresholdMet, P3!ValidSignatures, P!ValidSignatures, P3!Signers, P!Signers,
    P3!SafeTxHash, P!SafeTxHash, P3!TxHash, P!TxHash, P3!Bundle, P!Bundle

LEMMA SameSlotsNext == \A p : (P3!ThresholdMet(p)' <=> P!ThresholdMet(p)')
BY CardinalitiesAgree
DEF P3!ThresholdMet, P!ThresholdMet, P3!ValidSignatures, P!ValidSignatures, P3!Signers, P!Signers,
    P3!SafeTxHash, P!SafeTxHash, P3!TxHash, P!TxHash

LEMMA SameDrains == P3!DrainSignatures \/ P3!DrainCleared => P!DrainSignatures \/ P!DrainCleared
<1>1. P3!DrainSignatures => P!DrainSignatures
  BY DEF P3!DrainSignatures, P!DrainSignatures, P3!Unread, P!Unread, P3!busVars, P!busVars,
     P3!diskVars, P!diskVars, P3!chainVars, P!chainVars
<1>2. P3!DrainCleared => P!DrainCleared
  BY SameSlotsNext DEF P3!DrainCleared, P!DrainCleared, P3!Unread, P!Unread, P3!busVars, P!busVars,
     P3!diskVars, P!diskVars, P3!chainVars, P!chainVars
<1> QED
  BY <1>1, <1>2

LEMMA SameSettlement ==
  /\ \A p : P3!StartSettlement(p) => P!StartSettlement(p)
  /\ P3!FinishSettlement \/ P3!EndPass => P!FinishSettlement \/ P!EndPass
<1> USE DEF P3!busVars, P!busVars, P3!diskVars, P!diskVars, P3!chainVars, P!chainVars,
    P3!PublishFailure, P!PublishFailure, P3!Outcome, P!Outcome, P3!Close, P!Close,
    P3!EmptySlot, P!EmptySlot
<1>1. \A n : P3!AlreadyExecuted(n) <=> P!AlreadyExecuted(n)
  BY DEF P3!AlreadyExecuted, P!AlreadyExecuted
<1>2. ASSUME NEW p, P3!RejectReplay(p) \/ P3!SendFails(p)
      PROVE  P!RejectReplay(p) \/ P!SendFails(p)
  BY <1>1, <1>2 DEF P3!RejectReplay, P!RejectReplay, P3!SendFails, P!SendFails
<1>3. ASSUME NEW p, P3!ExecuteMock(p) \/ P3!SubmitTx(p)
      PROVE  P!ExecuteMock(p) \/ P!SubmitTx(p)
  BY <1>1, <1>3, SameSlots DEF P3!ExecuteMock, P!ExecuteMock, P3!SubmitTx, P!SubmitTx
<1>4. P3!AwaitSuccess \/ P3!AwaitRevert \/ P3!AwaitTimeout
        => P!AwaitSuccess \/ P!AwaitRevert \/ P!AwaitTimeout
  BY DEF P3!AwaitSuccess, P!AwaitSuccess, P3!AwaitRevert, P!AwaitRevert, P3!AwaitTimeout,
     P!AwaitTimeout
<1>5. P3!Mark \/ P3!ArchiveReceipt \/ P3!EndPass => P!Mark \/ P!ArchiveReceipt \/ P!EndPass
  BY DEF P3!Mark, P!Mark, P3!ArchiveReceipt, P!ArchiveReceipt, P3!EndPass, P!EndPass
<1>6. P3!ArchiveFailure \/ P3!MintReceipt \/ P3!PublishSuccess
        => P!ArchiveFailure \/ P!MintReceipt \/ P!PublishSuccess
  BY DEF P3!ArchiveFailure, P!ArchiveFailure, P3!MintReceipt, P!MintReceipt, P3!PublishSuccess,
     P!PublishSuccess
<1> QED
  BY <1>2, <1>3, <1>4, <1>5, <1>6
  DEF P3!StartSettlement, P!StartSettlement, P3!FinishSettlement, P!FinishSettlement

LEMMA SameFaults == P3!DaemonError \/ P3!Crash => P!DaemonError \/ P!Crash
BY DEF P3!DaemonError, P!DaemonError, P3!Crash, P!Crash, P3!EmptySlot, P!EmptySlot,
   P3!busVars, P!busVars, P3!diskVars, P!diskVars, P3!chainVars, P!chainVars

LEMMA SameChain == P3!Chain => P!Chain
<1>1. \A b : P3!SafeAccepts(b) <=> P!SafeAccepts(b)
  BY CardinalitiesAgree DEF P3!SafeAccepts, P!SafeAccepts, P3!TxHash, P!TxHash, P3!Signers, P!Signers,
     P3!SafeNonce, P!SafeNonce
<1>2. ASSUME NEW i, P3!MineTx(i) PROVE P!MineTx(i)
  BY <1>1, <1>2 DEF P3!MineTx, P!MineTx, P3!busVars, P!busVars, P3!p3Vars, P!p3Vars,
     P3!diskVars, P!diskVars
<1>3. P3!PermitChanges => P!PermitChanges
  BY DEF P3!PermitChanges, P!PermitChanges, P3!busVars, P!busVars, P3!p3Vars, P!p3Vars,
     P3!diskVars, P!diskVars
<1> QED
  BY <1>2, <1>3 DEF P3!Chain, P!Chain

LEMMA SameNext == [P3!Next]_P3!vars => [P!Next]_P!vars
<1>1. P3!Daemon => P!Daemon
  BY SameDrains, SameSettlement DEF P3!Daemon, P!Daemon
<1> QED
  BY <1>1, SameVars, SamePublishers, SameFaults, SameChain DEF P3!Next, P!Next

-------------------------------------------------------------------------------
(* What the negotiation tells P3 *)

Terms  == [permit : Nat, nonce : Nat]

RawSignatures == [id : ProposalId, signer : {Quant, Patriarch},
                  hash : [swap : [market : Market, iteration : Iterations], permit : {0},
                          nonce : {0}]]

\* The messages carry their terms, and Quant has signed what it publishes and what
\* Patriarch clears.
TermsInv ==
  /\ held \in Terms
  /\ terms \in Seq(Terms) /\ Len(terms) = Len(proposals)
  /\ sigLog \in Seq(RawSignatures)
  /\ sigTerms \in Seq(Terms) /\ Len(sigTerms) = Len(sigLog)
  /\ hand # None => WithTerms(hand, held) \in drafts
  /\ \A n \in 1..Len(proposals) : proposals[n].signed => Order(n) \in drafts
  /\ \A i \in 1..Len(clearedLog) : proposals[clearedLog[i]].signed

LEMMA TermsInit == ArbiterInit => TermsInv
<1> SUFFICES ASSUME ArbiterInit PROVE TermsInv
  OBVIOUS
<1>1. /\ held \in Terms /\ terms = <<>> /\ sigLog = <<>> /\ sigTerms = <<>> /\ hand = None
      /\ proposals = <<>> /\ clearedLog = <<>>
  BY DEF ArbiterInit, Init, Terms
<1>2. Len(<<>>) = 0 /\ \A T : <<>> \in Seq(T)
  OBVIOUS
<1> QED
  BY <1>1, <1>2 DEF TermsInv

\* What P3 sees of a proposal, a signature.
LEMMA TermsAreSet ==
  ASSUME NEW p, NEW t
  PROVE  WithTerms(p, t) = [id |-> p.id, swap |-> [market |-> p.market, iteration |-> p.iteration],
                            permit |-> t.permit, nonce |-> t.nonce]
BY DEF WithTerms, OrderOf

LEMMA SignatureBinds ==
  ASSUME NEW p \in Proposals, NEW t \in Terms, NEW o \in {Quant, Patriarch}
  PROVE  /\ SignatureOf(p, o) \in RawSignatures
         /\ Over(SignatureOf(p, o), t) = P3!Signature(WithTerms(p, t), o)
<1>1. p.id \in ProposalId /\ p.market \in Market /\ p.iteration \in Iterations
  BY DEF Proposals
<1> QED
  BY <1>1, TermsAreSet DEF SignatureOf, HashOf, OrderOf, RawSignatures, Over, P3!Signature,
     P3!SafeTxHash, P3!TxHash

LEMMA ClearancesSeen ==
  ASSUME NegotiationInv
  PROVE  /\ Len(clearances) = Len(clearedLog)
         /\ \A i \in 1..Len(clearedLog) : clearances[i] = Order(clearedLog[i])
<1>1. Len(clearedLog) \in Nat
  BY QuantFacts
<1> QED
  BY <1>1 DEF clearances

LEMMA SignaturesSeen ==
  ASSUME TermsInv
  PROVE  /\ Len(signatures) = Len(sigLog)
         /\ \A i \in 1..Len(sigLog) : signatures[i] = Over(sigLog[i], sigTerms[i])
<1>1. Len(sigLog) \in Nat
  BY DEF TermsInv
<1> QED
  BY <1>1 DEF signatures

\* Append as a function.
LEMMA AppendIs ==
  ASSUME NEW T, NEW s \in Seq(T), NEW e \in T
  PROVE  Append(s, e) = [i \in 1..(Len(s) + 1) |-> IF i = Len(s) + 1 THEN e ELSE s[i]]
<1> DEFINE t == Append(s, e)
<1>1. /\ t \in Seq(T) /\ Len(s) \in Nat /\ Len(t) = Len(s) + 1
      /\ \A i \in 1..Len(s) : t[i] = s[i]
      /\ t[Len(s) + 1] = e
  BY GrowsByOne
<1> HIDE DEF t
<1>2. t = [i \in 1..Len(t) |-> t[i]]
  BY <1>1
<1>3. \A i \in 1..(Len(s) + 1) : t[i] = IF i = Len(s) + 1 THEN e ELSE s[i]
  BY <1>1
<1>4. t = [i \in 1..(Len(s) + 1) |-> IF i = Len(s) + 1 THEN e ELSE s[i]]
  BY <1>1, <1>2, <1>3
<1> QED
  BY <1>4 DEF t

\* A log with one message more.
LEMMA TermsGrow ==
  ASSUME NEW T, NEW U, NEW s \in Seq(T), NEW e \in T, NEW u \in Seq(U), NEW f \in U,
         Len(u) = Len(s)
  PROVE  /\ Append(s, e) \in Seq(T) /\ Append(u, f) \in Seq(U)
         /\ Len(Append(s, e)) = Len(s) + 1 /\ Len(Append(u, f)) = Len(s) + 1 /\ Len(s) \in Nat
         /\ \A i \in 1..Len(s) : Append(s, e)[i] = s[i] /\ Append(u, f)[i] = u[i]
         /\ Append(s, e)[Len(s) + 1] = e /\ Append(u, f)[Len(s) + 1] = f
         /\ 1..(Len(s) + 1) = 1..Len(s) \cup {Len(s) + 1}
<1>1. /\ Append(s, e) \in Seq(T) /\ Len(s) \in Nat /\ Len(Append(s, e)) = Len(s) + 1
      /\ \A i \in 1..Len(s) : Append(s, e)[i] = s[i]
      /\ Append(s, e)[Len(s) + 1] = e
  BY GrowsByOne
<1>2. /\ Append(u, f) \in Seq(U) /\ Len(Append(u, f)) = Len(s) + 1
      /\ \A i \in 1..Len(s) : Append(u, f)[i] = u[i]
      /\ Append(u, f)[Len(s) + 1] = f
  BY GrowsByOne
<1>3. \A n \in Nat : 1..(n + 1) = 1..n \cup {n + 1}
  OBVIOUS
<1> QED
  BY <1>1, <1>2, <1>3

\* A step of the negotiation leaves P3 alone, which sees no more of it than this.
LEMMA P3Rests ==
  ASSUME UNCHANGED settleVars
  PROVE  /\ UNCHANGED <<P3!p3Vars, P3!diskVars, P3!chainVars, outcomes, faults, timeouts,
                        staleUpTo, pauses>>
         /\ UNCHANGED <<drafts, signatures, clearances, floor, wipes>> => UNCHANGED P3!vars
BY DEF settleVars, P3!vars, P3!busVars, P3!p3Vars, P3!diskVars, P3!chainVars

\* What P3 sees of the proposals and the signatures only depends on them.
LEMMA ViewsStay ==
  ASSUME UNCHANGED <<proposals, terms, sigLog, sigTerms>>
  PROVE  /\ UNCHANGED signatures
         /\ \A n : UNCHANGED Order(n)
         /\ clearedLog' = clearedLog => UNCHANGED clearances
BY DEF signatures, Order, clearances

\* Quant reads the nonce and the allowance, and P3 sees a proposal.
LEMMA QuantDraftsStep ==
  ASSUME NegotiationInv, TermsInv, P!TypeOK, QuantDrafts, UNCHANGED settleVars
  PROVE  P3!Next /\ TermsInv'
<1>1. /\ UNCHANGED <<logs, busVars>> /\ hand = None /\ hand' # None
      /\ Next
  BY QuantFacts DEF QuantDrafts, Analyze, ReadFeedback, Next, QuantDaemon
<1>2. NegotiationInv'
  BY <1>1, NextInv
<1>3. PICK h \in Proposals : h = hand'
  BY <1>1, <1>2 DEF NegotiationInv, TypeOK, QuantTypeOK
<1>4. /\ h.id \in ProposalId
      /\ [market |-> h.market, iteration |-> h.iteration] \in [market : Market, iteration : Iterations]
  BY DEF Proposals
<1>5. PICK t \in Terms : /\ t = held' /\ t.permit = (IF Live THEN permit ELSE 0)
                         /\ t.nonce = P3!SafeNonce
  <2>1. permit \in Nat /\ Len(executed) \in Nat
    BY DEF P!TypeOK, P!ChainTypeOK
  <2>2. held' = [permit |-> IF Live THEN permit ELSE 0, nonce |-> P3!SafeNonce]
    BY DEF QuantDrafts
  <2> QED
    BY <2>1, <2>2 DEF Terms, P3!SafeNonce
<1>6. /\ drafts' = drafts \cup {WithTerms(h, t)} /\ Cardinality(drafts) < MaxDrafts
      /\ UNCHANGED <<proposals, terms, sigLog, sigTerms, clearedLog, floor, wipes>>
  BY <1>1, <1>3, <1>5 DEF QuantDrafts, logs, busVars
<1>7. UNCHANGED <<signatures, clearances>> /\ \A n : UNCHANGED Order(n)
  BY <1>6, ViewsStay
<1>8. P3!QuantPropose(h.id, [market |-> h.market, iteration |-> h.iteration])
  <2>1. WithTerms(h, t) = [id |-> h.id, swap |-> [market |-> h.market, iteration |-> h.iteration],
                           nonce |-> P3!SafeNonce, permit |-> IF Live THEN permit ELSE 0]
    BY <1>5, TermsAreSet
  <2> QED
    BY <1>6, <1>7, <2>1, P3Rests, CardinalitiesAgree DEF P3!QuantPropose
<1>9. TermsInv'
  BY <1>3, <1>5, <1>6, <1>7 DEF TermsInv
<1> QED
  BY <1>4, <1>8, <1>9 DEF P3!Next, P3!Publishers

\* A proposal is published: P3 sees nothing of it until it is cleared.
LEMMA ProposalStep ==
  ASSUME NegotiationInv, TermsInv, NEW p \in Proposals, NEW t \in Terms,
         proposals' = Append(proposals, p), terms' = Append(terms, t),
         UNCHANGED <<sigLog, clearedLog, floor, wipes, hand, drafts, held, sigTerms, settleVars>>,
         p.signed => WithTerms(p, t) \in drafts
  PROVE  UNCHANGED P3!vars /\ TermsInv'
<1>1. /\ terms' \in Seq(Terms) /\ Len(terms') = Len(proposals')
      /\ Len(proposals) \in Nat /\ 1..Len(proposals') = 1..Len(proposals) \cup {Len(proposals) + 1}
      /\ \A n \in 1..Len(proposals) : proposals'[n] = proposals[n] /\ terms'[n] = terms[n]
      /\ proposals'[Len(proposals) + 1] = p /\ terms'[Len(proposals) + 1] = t
  <2>1. proposals \in Seq(Proposals) /\ terms \in Seq(Terms) /\ Len(terms) = Len(proposals)
    BY QuantFacts DEF TermsInv, LogTypeOK
  <2> QED
    BY <2>1, TermsGrow
<1>2. \A i \in 1..Len(clearedLog) : clearedLog[i] \in 1..Len(proposals)
  BY Messages, QuantFacts
<1>3. \A n \in 1..Len(proposals) : UNCHANGED Order(n)
  BY <1>1 DEF Order
<1>4. UNCHANGED <<signatures, clearances>>
  <2>1. UNCHANGED signatures
    BY DEF signatures
  <2>2. \A i \in 1..Len(clearedLog) : Order(clearedLog[i])' = Order(clearedLog[i])
    BY <1>1, <1>2 DEF Order
  <2>3. UNCHANGED clearances
    BY <2>2 DEF clearances
  <2> QED
    BY <2>1, <2>3
<1>5. \A n \in 1..Len(proposals') : proposals'[n].signed => Order(n)' \in drafts
  <2>1. ASSUME NEW n \in 1..Len(proposals), proposals'[n].signed PROVE Order(n)' \in drafts
    BY <1>1, <1>3, <2>1 DEF TermsInv
  <2>2. ASSUME NEW n, n = Len(proposals) + 1, proposals'[n].signed PROVE Order(n)' \in drafts
    <3>1. proposals'[n] = p /\ terms'[n] = t
      BY <1>1, <2>2
    <3>2. Order(n)' = WithTerms(p, t)
      BY <3>1 DEF Order, WithTerms, OrderOf
    <3> QED
      BY <2>2, <3>1, <3>2
  <2> QED
    BY <1>1, <2>1, <2>2
<1>6. TermsInv'
  BY <1>1, <1>2, <1>5 DEF TermsInv
<1> QED
  BY <1>4, <1>6, P3Rests

LEMMA ProposeSteps ==
  ASSUME NegotiationInv, TermsInv, QuantProposes \/ OthersPropose, UNCHANGED settleVars
  PROVE  Next /\ UNCHANGED P3!vars /\ TermsInv'
<1>1. CASE QuantProposes
  <2>1. /\ hand \in Proposals /\ hand # None /\ held \in Terms
        /\ proposals' = Append(proposals, hand) /\ terms' = Append(terms, held)
        /\ UNCHANGED <<sigLog, clearedLog, floor, wipes, hand, drafts, held, sigTerms>>
    BY <1>1, QuantFacts DEF QuantProposes, PublishProposal, busVars, TermsInv
  <2>2. WithTerms(hand, held) \in drafts
    BY <2>1 DEF TermsInv
  <2>3. Next
    BY <1>1 DEF QuantProposes, Next, QuantDaemon
  <2> QED
    BY <2>1, <2>2, <2>3, ProposalStep
<1>2. CASE OthersPropose
  <2>1. PICK p \in ProposalId, m \in Market : ForeignProposal(p, m)
    BY <1>2 DEF OthersPropose
  <2> DEFINE f == [id |-> p, market |-> m, iteration |-> 1, event |-> 0, signed |-> FALSE]
             z == [permit |-> 0, nonce |-> 0]
  <2>2. f \in Proposals /\ ~f.signed /\ z \in Terms
    BY DEF Proposals, Iterations, MaxIterations, Terms
  <2>3. /\ proposals' = Append(proposals, f) /\ terms' = Append(terms, z)
        /\ UNCHANGED <<sigLog, clearedLog, floor, wipes, hand, drafts, held, sigTerms>>
    BY <1>2, <2>1 DEF OthersPropose, ForeignProposal, quantVars, busVars
  <2>4. Next
    BY <2>1 DEF Next
  <2> HIDE DEF f, z
  <2> QED
    BY <2>2, <2>3, <2>4, ProposalStep
<1> QED
  BY <1>1, <1>2

\* A signature is published, and P3 sees it over the terms of its proposal.
LEMMA SignatureStep ==
  ASSUME NegotiationInv, TermsInv, NEW p \in Proposals, NEW t \in Terms,
         NEW o \in {Quant, Patriarch},
         Len(sigLog) < MaxSignatures,
         sigLog' = Append(sigLog, SignatureOf(p, o)), sigTerms' = Append(sigTerms, t),
         UNCHANGED <<proposals, clearedLog, floor, wipes, drafts, held, terms, settleVars>>,
         hand' \in {hand, None}
  PROVE  P3!PublishSignature(WithTerms(p, t), o) /\ TermsInv'
<1> DEFINE m == SignatureOf(p, o)
<1>1. m \in RawSignatures /\ Over(m, t) = P3!Signature(WithTerms(p, t), o)
  BY SignatureBinds
<1>2. sigLog \in Seq(RawSignatures) /\ sigTerms \in Seq(Terms) /\ Len(sigTerms) = Len(sigLog)
      /\ sigLog' = Append(sigLog, m)
  BY DEF TermsInv
<1> HIDE DEF m
<1>3. /\ sigLog' \in Seq(RawSignatures) /\ sigTerms' \in Seq(Terms)
      /\ Len(sigTerms') = Len(sigLog') /\ Len(sigLog) \in Nat /\ Len(sigLog') = Len(sigLog) + 1
      /\ \A i \in 1..Len(sigLog) : sigLog'[i] = sigLog[i] /\ sigTerms'[i] = sigTerms[i]
      /\ sigLog'[Len(sigLog) + 1] = m /\ sigTerms'[Len(sigLog) + 1] = t
      /\ 1..Len(sigLog') = 1..Len(sigLog) \cup {Len(sigLog) + 1}
  BY <1>1, <1>2, TermsGrow
<1>4. signatures' = Append(signatures, Over(m, t))
  <2>1. signatures' = [i \in 1..(Len(sigLog) + 1) |-> Over(sigLog'[i], sigTerms'[i])]
    BY <1>3 DEF signatures, Over
  <2>2. Append(signatures, Over(m, t)) =
          [i \in 1..(Len(sigLog) + 1) |-> IF i = Len(sigLog) + 1 THEN Over(m, t) ELSE signatures[i]]
    <3> DEFINE b == Over(m, t)
               U == {Over(sigLog[i], sigTerms[i]) : i \in 1..Len(sigLog)} \cup {b}
    <3>1. Len(signatures) = Len(sigLog) /\ signatures \in Seq(U) /\ b \in U
      BY <1>3, SignaturesSeen DEF signatures
    <3> HIDE DEF U, b
    <3>2. Append(signatures, b) =
            [i \in 1..(Len(signatures) + 1) |-> IF i = Len(signatures) + 1 THEN b ELSE signatures[i]]
      BY <3>1, AppendIs
    <3> QED
      BY <3>1, <3>2 DEF b
  <2>3. ASSUME NEW i \in 1..(Len(sigLog) + 1)
        PROVE  Over(sigLog'[i], sigTerms'[i])
                 = IF i = Len(sigLog) + 1 THEN Over(m, t) ELSE signatures[i]
    <3>1. CASE i = Len(sigLog) + 1
      BY <1>3, <3>1
    <3>2. CASE i # Len(sigLog) + 1
      <4>1. i \in 1..Len(sigLog)
        BY <1>3, <3>2
      <4> QED
        BY <1>3, <3>2, <4>1, SignaturesSeen
    <3> QED
      BY <3>1, <3>2
  <2> QED
    BY <2>1, <2>2, <2>3
<1>5. UNCHANGED clearances /\ \A n : UNCHANGED Order(n)
  BY DEF clearances, Order
<1>6. P3!PublishSignature(WithTerms(p, t), o)
  <2>1. Len(signatures) < MaxSignatures
    BY SignaturesSeen
  <2> QED
    BY <1>1, <1>4, <1>5, <2>1, P3Rests DEF P3!PublishSignature
<1>7. TermsInv'
  BY <1>3, <1>5 DEF TermsInv
<1> QED
  BY <1>6, <1>7

LEMMA SignSteps ==
  ASSUME NegotiationInv, TermsInv, QuantSigns \/ PatriarchSigns, UNCHANGED settleVars
  PROVE  Next /\ P3!Next /\ TermsInv'
<1>1. CASE QuantSigns
  <2>1. /\ hand \in Proposals /\ hand # None /\ held \in Terms
        /\ Len(sigLog) < MaxSignatures /\ hand' = None
        /\ sigLog' = Append(sigLog, SignatureOf(hand, Quant)) /\ sigTerms' = Append(sigTerms, held)
        /\ UNCHANGED <<proposals, clearedLog, floor, wipes, drafts, held, terms>>
    BY <1>1, QuantFacts DEF QuantSigns, QuantSign, busVars, TermsInv
  <2>2. WithTerms(hand, held) \in drafts
    BY <2>1 DEF TermsInv
  <2>3. P3!PublishSignature(WithTerms(hand, held), Quant) /\ TermsInv'
    BY <2>1, SignatureStep
  <2>4. P3!QuantSign(WithTerms(hand, held))
    BY <2>3 DEF P3!QuantSign
  <2>5. Next
    BY <1>1 DEF QuantSigns, Next, QuantDaemon
  <2> QED
    BY <2>2, <2>3, <2>4, <2>5 DEF P3!Next, P3!Publishers
<1>2. CASE PatriarchSigns
  <2>1. ppc = "sign" /\ PatriarchSign
    BY <1>2 DEF PatriarchSigns, PatriarchSign
  <2>2. /\ This \in 1..Len(proposals) /\ proposals[This].signed /\ proposals[This] \in Proposals
    BY <2>1, PatriarchFacts
  <2>3. terms[This] \in Terms
    BY <2>2 DEF TermsInv
  <2>4. /\ Len(sigLog) < MaxSignatures /\ hand' = hand
        /\ sigLog' = Append(sigLog, SignatureOf(proposals[This], Patriarch))
        /\ sigTerms' = Append(sigTerms, terms[This])
        /\ UNCHANGED <<proposals, clearedLog, floor, wipes, drafts, held, terms>>
    BY <1>2 DEF PatriarchSigns, PatriarchSign, quantVars, busVars
  <2>5. P3!PublishSignature(Order(This), Patriarch) /\ TermsInv'
    <3>1. P3!PublishSignature(WithTerms(proposals[This], terms[This]), Patriarch) /\ TermsInv'
      BY <2>2, <2>3, <2>4, SignatureStep
    <3> QED
      BY <3>1 DEF Order
  <2>6. Order(This) \in drafts
    BY <2>2 DEF TermsInv
  <2>7. PICK i \in 1..Len(clearedLog) : clearedLog[i] = This
    BY <2>1 DEF NegotiationInv, PatriarchReads
  <2>8. P3!PatriarchSign(Order(This))
    <3>1. i \in 1..Len(clearances) /\ clearances[i] = Order(This)
      BY <2>7, ClearancesSeen
    <3> QED
      BY <2>5, <3>1 DEF P3!PatriarchSign
  <2>9. Next
    BY <2>1 DEF Next, PatriarchDaemon
  <2> QED
    BY <2>5, <2>6, <2>8, <2>9 DEF P3!Next, P3!Publishers
<1> QED
  BY <1>1, <1>2

\* Of the other steps P3 sees a clearance, and a wipe of the bus.
LEMMA ClearIsPublished ==
  ASSUME NegotiationInv, TermsInv, Clear, UNCHANGED <<proposals, sigLog, termVars, settleVars>>
  PROVE  P3!PatriarchClear(Order(This)) /\ Order(This) \in drafts /\ TermsInv'
<1>1. /\ ppc = "firewall" /\ Len(clearedLog) < MaxClearances
      /\ clearedLog' = Append(clearedLog, This) /\ UNCHANGED <<floor, wipes, hand>>
  BY DEF Clear, busVars, quantVars
<1>2. This \in 1..Len(proposals) /\ proposals[This].signed
  BY <1>1, PatriarchFacts
<1>3. /\ Len(clearedLog) \in Nat /\ Len(clearedLog') = Len(clearedLog) + 1
      /\ \A i \in 1..Len(clearedLog) : clearedLog'[i] = clearedLog[i]
      /\ clearedLog'[Len(clearedLog) + 1] = This
      /\ 1..Len(clearedLog') = 1..Len(clearedLog) \cup {Len(clearedLog) + 1}
  <2>1. clearedLog \in Seq(1..Len(proposals))
    BY QuantFacts DEF LogTypeOK
  <2>2. \A n \in Nat : 1..(n + 1) = 1..n \cup {n + 1}
    OBVIOUS
  <2> QED
    BY <1>1, <1>2, <2>1, <2>2, GrowsByOne
<1>4. UNCHANGED signatures /\ \A n : UNCHANGED Order(n)
  BY ViewsStay DEF termVars
<1>5. PICK d : d = Order(This)
  OBVIOUS
<1>6. clearances' = Append(clearances, d)
  <2> DEFINE U == {Order(clearedLog[i]) : i \in 1..Len(clearedLog)} \cup {d}
  <2>1. Len(clearances) = Len(clearedLog) /\ clearances \in Seq(U) /\ d \in U
    BY <1>3, ClearancesSeen DEF clearances
  <2> HIDE DEF U
  <2>2. Append(clearances, d) =
          [i \in 1..(Len(clearances) + 1) |-> IF i = Len(clearances) + 1 THEN d ELSE clearances[i]]
    BY <2>1, AppendIs
  <2>3. clearances' = [i \in 1..(Len(clearedLog) + 1) |-> Order(clearedLog'[i])]
    BY <1>3, <1>4 DEF clearances, Order, termVars
  <2>4. ASSUME NEW i \in 1..(Len(clearedLog) + 1)
        PROVE  Order(clearedLog'[i]) = IF i = Len(clearedLog) + 1 THEN d ELSE clearances[i]
    <3>1. CASE i = Len(clearedLog) + 1
      BY <1>3, <1>5, <3>1
    <3>2. CASE i # Len(clearedLog) + 1
      <4>1. i \in 1..Len(clearedLog)
        BY <1>3, <3>2
      <4> QED
        BY <1>3, <3>2, <4>1, ClearancesSeen
    <3> QED
      BY <3>1, <3>2
  <2> QED
    BY <2>1, <2>2, <2>3, <2>4
<1>7. P3!PatriarchClear(d)
  <2>1. Len(clearances) < MaxClearances /\ drafts' = drafts
    BY <1>1, ClearancesSeen DEF termVars
  <2> QED
    BY <1>1, <1>4, <1>6, <2>1, P3Rests DEF P3!PatriarchClear
<1>8. TermsInv'
  BY <1>1, <1>2, <1>3, <1>4 DEF TermsInv, termVars
<1> QED
  BY <1>2, <1>5, <1>7, <1>8 DEF TermsInv

LEMMA WipeIsPublished ==
  ASSUME NegotiationInv, TermsInv, Wipe, UNCHANGED <<proposals, sigLog, termVars, settleVars>>
  PROVE  P3!ClearNetwork
<1>1. /\ Len(marketLog) < MaxMarket /\ wipes' = wipes + 1 /\ wipes = Len(marketLog)
      /\ UNCHANGED clearedLog
      /\ floor'.sigs = Len(sigLog) /\ floor'.cleared = Len(clearedLog)
  BY DEF Wipe, logs, NegotiationInv, BusIsWiped
<1>2. UNCHANGED <<signatures, clearances, drafts>>
  BY <1>1, ViewsStay DEF termVars
<1>3. Len(signatures) = Len(sigLog) /\ Len(clearances) = Len(clearedLog)
  BY ClearancesSeen, SignaturesSeen
<1> QED
  BY <1>1, <1>2, <1>3, P3Rests DEF P3!ClearNetwork

LEMMA OtherStepsStep ==
  ASSUME NegotiationInv, TermsInv, OtherSteps, UNCHANGED settleVars
  PROVE  [P3!Next]_P3!vars /\ TermsInv'
<1>1. Next /\ UNCHANGED <<proposals, sigLog, termVars, settleVars>> /\ hand' \in {hand, None}
  BY DEF OtherSteps
<1>2. CASE Clear
  BY <1>1, <1>2, ClearIsPublished DEF P3!Next, P3!Publishers
<1>3. CASE UNCHANGED clearedLog
  <2>1. UNCHANGED <<signatures, clearances>> /\ \A n : UNCHANGED Order(n)
    BY <1>1, <1>3, ViewsStay DEF termVars
  <2>2. TermsInv'
    BY <1>1, <1>3, <2>1 DEF TermsInv, termVars
  <2>3. CASE Wipe
    BY <1>1, <2>2, <2>3, WipeIsPublished DEF P3!Next, P3!Publishers
  <2>4. CASE UNCHANGED <<floor, wipes>>
    BY <1>1, <2>1, <2>2, <2>4, P3Rests DEF termVars
  <2>5. Next => Wipe \/ UNCHANGED <<floor, wipes>>
    BY DEF Next, QuantDaemon, PatriarchDaemon, Injector, Inject, DrainMarket, Analyze,
       PublishSnapshot, PublishProposal, QuantSign, DrainFeedback, ReadFeedback, EndQuantPass,
       QuantError, QuantCrash, ForeignProposal, DrainSnapshots, DrainProposals, RejectUnsigned,
       Review, Simulate, Clear, FirewallRejects, PatriarchSign, SaveDecision, Tell,
       EndPatriarchPass, PatriarchError, PatriarchCrash, busVars
  <2> QED
    BY <1>1, <2>3, <2>4, <2>5
<1>4. Next => Clear \/ UNCHANGED clearedLog
  BY DEF Next, QuantDaemon, PatriarchDaemon, Injector, Wipe, Inject, DrainMarket, Analyze,
     PublishSnapshot, PublishProposal, QuantSign, DrainFeedback, ReadFeedback, EndQuantPass,
     QuantError, QuantCrash, ForeignProposal, DrainSnapshots, DrainProposals, RejectUnsigned,
     Review, Simulate, FirewallRejects, PatriarchSign, SaveDecision, Tell,
     EndPatriarchPass, PatriarchError, PatriarchCrash, logs
<1> QED
  BY <1>1, <1>2, <1>3, <1>4

-------------------------------------------------------------------------------
(* The invariant of the whole *)

ArbiterInv == NegotiationInv /\ TermsInv /\ P!TypeOK /\ P!SlotInv

\* A step of any daemon is one of the negotiation or none, and one of Settlement or none.
LEMMA ArbiterStep ==
  ArbiterInv /\ [ArbiterNext]_arbiterVars
    => [Next]_vars /\ [P3!Next]_P3!vars /\ TermsInv'
<1> SUFFICES ASSUME ArbiterInv, [ArbiterNext]_arbiterVars
             PROVE  [Next]_vars /\ [P3!Next]_P3!vars /\ TermsInv'
  OBVIOUS
<1> USE DEF ArbiterInv
<1>1. CASE DaemonsNegotiate
  <2>1. UNCHANGED settleVars
    BY <1>1 DEF DaemonsNegotiate
  <2>2. CASE QuantDrafts
    BY <2>1, <2>2, QuantDraftsStep DEF QuantDrafts, Next, QuantDaemon
  <2>3. CASE QuantProposes \/ OthersPropose
    BY <2>1, <2>3, ProposeSteps
  <2>4. CASE QuantSigns \/ PatriarchSigns
    BY <2>1, <2>4, SignSteps
  <2>5. CASE OtherSteps
    BY <2>1, <2>5, OtherStepsStep DEF OtherSteps
  <2> QED
    BY <1>1, <2>2, <2>3, <2>4, <2>5 DEF DaemonsNegotiate
<1>2. ASSUME UNCHANGED <<vars, termVars>> PROVE TermsInv'
  <2>1. UNCHANGED <<proposals, terms, sigLog, sigTerms, clearedLog, hand, held, drafts>>
    BY <1>2 DEF vars, logs, quantVars, termVars
  <2>2. \A n : UNCHANGED Order(n)
    BY <2>1, ViewsStay
  <2> QED
    BY <2>1, <2>2 DEF TermsInv
<1>3. CASE P3Settles
  <2>1. UNCHANGED <<vars, termVars>> /\ P3!Next
    BY <1>3 DEF P3Settles, P3!Next, P3!Publishers
  <2> QED
    BY <1>2, <2>1
<1>4. CASE UNCHANGED arbiterVars
  <2>1. UNCHANGED <<vars, termVars, settleVars>>
    BY <1>4 DEF arbiterVars
  <2>2. UNCHANGED <<proposals, terms, sigLog, sigTerms, clearedLog, floor, wipes, drafts>>
    BY <2>1 DEF vars, logs, busVars, termVars
  <2>3. UNCHANGED P3!vars
    BY <2>1, <2>2, ViewsStay, P3Rests
  <2> QED
    BY <1>2, <2>1, <2>3
<1> QED
  BY <1>1, <1>3, <1>4 DEF ArbiterNext

LEMMA ArbiterInvInit == P!SettlementAssumption /\ ArbiterInit => ArbiterInv
<1> SUFFICES ASSUME P!SettlementAssumption, ArbiterInit PROVE ArbiterInv
  OBVIOUS
<1>1. NegotiationInv /\ TermsInv
  BY InitInv, TermsInit DEF ArbiterInit
<1>2. P!TypeOK /\ P!SlotInv
  BY SameInit, P!SlotInvInit DEF ArbiterInit
<1> QED
  BY <1>1, <1>2 DEF ArbiterInv

LEMMA ArbiterInvNext ==
  P!SettlementAssumption /\ ArbiterInv /\ [ArbiterNext]_arbiterVars => ArbiterInv'
<1> SUFFICES ASSUME P!SettlementAssumption, ArbiterInv, [ArbiterNext]_arbiterVars PROVE ArbiterInv'
  OBVIOUS
<1>1. [Next]_vars /\ [P!Next]_P!vars /\ TermsInv'
  BY ArbiterStep, SameNext
<1>2. NegotiationInv'
  BY <1>1, NextInv DEF ArbiterInv
<1>3. P!TypeOK' /\ P!SlotInv'
  BY <1>1, P!TypeStep, P!SlotsStep, P!PassStep DEF ArbiterInv, P!SlotInv
<1> QED
  BY <1>1, <1>2, <1>3 DEF ArbiterInv

LEMMA ArbiterInvariance == P!SettlementAssumption => (ArbiterSpec => []ArbiterInv)
<1> SUFFICES ASSUME P!SettlementAssumption PROVE ArbiterSpec => []ArbiterInv
  OBVIOUS
<1>1. ArbiterInit => ArbiterInv
  BY ArbiterInvInit
<1>2. ArbiterInv /\ [ArbiterNext]_arbiterVars => ArbiterInv'
  BY ArbiterInvNext
<1> QED
  BY <1>1, <1>2, PTL DEF ArbiterSpec

LEMMA ArbiterNegotiates == P!SettlementAssumption => (ArbiterSpec => Spec)
<1>1. ArbiterInit => Init
  BY DEF ArbiterInit
<1> QED
  BY <1>1, ArbiterInvariance, ArbiterStep, PTL DEF ArbiterSpec, Spec

LEMMA ArbiterSettles ==
  P!SettlementAssumption => (ArbiterSpec => P3!Spec /\ P!Spec)
<1>1. ArbiterInit => P3!Init /\ P!Init
  BY SameInit DEF ArbiterInit
<1>2. ArbiterInv /\ [ArbiterNext]_arbiterVars => [P3!Next]_P3!vars /\ [P!Next]_P!vars
  BY ArbiterStep, SameNext
<1> QED
  BY <1>1, <1>2, ArbiterInvariance, PTL DEF ArbiterSpec, P3!Spec, P!Spec

\* Behind Quant and Patriarch as they are, with forged proposals, injections, exceptions
\* and restarts, P3 behaves as Settlement says, so that all that is proved of Settlement
\* holds of it (execution_process.py, lines 132-283; quant_process.py, lines 65-81 and
\* 115-127; patriarch_process.py, lines 243-270).
THEOREM SettlesAsSpecified == P3!SettlementAssumption => (ArbiterSpec => ImplementsSettlement)
BY SameAssumption, ArbiterSettles, PTL DEF ImplementsSettlement

-------------------------------------------------------------------------------
(* What is traded *)

\* The proposal that executed, and what the owners have said of it.
LEMMA AgreedInv ==
  ASSUME ArbiterInv, P!OwnersConsent
  PROVE  TradesAreAgreed
<1> SUFFICES ASSUME NEW k \in 1..Len(executed)
             PROVE  \E n \in 1..Len(proposals) :
                      /\ executed[k].draft = Order(n)
                      /\ proposals[n].signed
                      /\ \E i \in 1..Len(clearedLog) : clearedLog[i] = n
                      /\ {Quant, Patriarch} \subseteq P3!Consenting(Order(n))
  BY DEF TradesAreAgreed
<1>1. /\ Cardinality(P!Consenting(executed[k].draft)) >= 2
      /\ \E i \in 1..Len(clearances) : clearances[i] = executed[k].draft
  BY CardinalitiesAgree DEF P!OwnersConsent
<1>2. PICK i \in 1..Len(clearedLog) : executed[k].draft = Order(clearedLog[i])
  BY <1>1, ClearancesSeen DEF ArbiterInv
<1>3. PICK n \in 1..Len(proposals) : n = clearedLog[i] /\ proposals[n].signed
  BY Messages, QuantFacts DEF ArbiterInv, TermsInv
<1>4. P3!Consenting(Order(n)) = P!Consenting(Order(n))
  BY DEF P3!Consenting, P!Consenting, P3!Signature, P!Signature, P3!SafeTxHash, P!SafeTxHash,
     P3!TxHash, P!TxHash
<1>5. {Quant, Patriarch} \subseteq P!Consenting(Order(n))
  <2> DEFINE Both == P!Consenting(Order(n))
  <2>1. Both \subseteq {Quant, Patriarch} /\ Cardinality(Both) >= 2
    BY <1>1, <1>2, <1>3 DEF P!Consenting
  <2> HIDE DEF Both
  <2>2. ASSUME NEW o PROVE ~(Both \subseteq {o})
    <3>1. Cardinality({o}) = 1 /\ IsFiniteSet({o})
      BY FS_Singleton
    <3>2. Both \subseteq {o} => Cardinality(Both) <= Cardinality({o}) /\ Cardinality(Both) \in Nat
      BY <3>1, FS_Subset, FS_CardinalityType
    <3> QED
      BY <2>1, <3>1, <3>2
  <2>3. ~(Both \subseteq {Quant}) /\ ~(Both \subseteq {Patriarch})
    BY <2>2
  <2>4. {Quant, Patriarch} \subseteq Both
    BY <2>1, <2>3
  <2> QED
    BY <2>4 DEF Both
<1> QED
  BY <1>2, <1>3, <1>4, <1>5

\* What the Safe executes is a proposal on the bus that Quant has signed and the firewall
\* has cleared, and both owners have published a signature over its very hash, whatever
\* fails or restarts (execution_process.py, lines 176-189; patriarch_process.py, lines
\* 100-172 and 243-270).
THEOREM Agreed == P3!SettlementAssumption => (ArbiterSpec => []TradesAreAgreed)
<1> SUFFICES ASSUME P3!SettlementAssumption PROVE ArbiterSpec => []TradesAreAgreed
  OBVIOUS
<1>1. P!SettlementAssumption
  BY SameAssumption
<1>2. ArbiterSpec => []ArbiterInv
  BY <1>1, ArbiterInvariance
<1>3. ArbiterSpec => P!Spec
  BY <1>1, ArbiterSettles
<1>4. P!Spec => []P!OwnersConsent
  BY <1>1, P!Consent
<1>5. ArbiterInv /\ P!OwnersConsent => TradesAreAgreed
  BY AgreedInv
<1> QED
  BY <1>2, <1>3, <1>4, <1>5, PTL

-------------------------------------------------------------------------------
(* One trade per market message, at the Safe *)

\* A signed proposal is known by its id, so by what P3 sees of it.
LEMMA OrdersDiffer ==
  ASSUME IdsDiffer, NEW m \in 1..Len(proposals), NEW n \in 1..Len(proposals),
         proposals[m].signed, proposals[n].signed, Order(m) = Order(n)
  PROVE  m = n
<1>1. \A i \in 1..Len(proposals) : Order(i).id = proposals[i].id
  BY TermsAreSet DEF Order
<1> QED
  BY <1>1 DEF IdsDiffer

\* A round of the event e that has executed was cleared.
LEMMA TradedWasCleared ==
  ASSUME ArbiterInv, FreshInv, TradesAreAgreed, NEW e \in 1..Len(marketLog), NEW k \in TradesOf(e)
  PROVE  \E n \in RoundsOf(e) : /\ executed[k].draft = Order(n)
                                /\ \E i \in 1..Len(clearedLog) : clearedLog[i] = n
<1>1. PICK m \in RoundsOf(e) : k \in 1..Len(executed) /\ executed[k].draft = Order(m)
  BY DEF TradesOf
<1>2. PICK n \in 1..Len(proposals) : /\ executed[k].draft = Order(n) /\ proposals[n].signed
                                     /\ \E i \in 1..Len(clearedLog) : clearedLog[i] = n
  BY <1>1 DEF TradesAreAgreed
<1>3. m \in 1..Len(proposals) /\ proposals[m].signed
  <2>1. m \in 1..Len(proposals) /\ proposals[m].event = e /\ e # 0
    BY QuantFacts DEF RoundsOf, ArbiterInv
  <2> QED
    BY <2>1 DEF FreshInv, EventsKnown
<1>4. m = n
  BY <1>1, <1>2, <1>3, OrdersDiffer DEF FreshInv
<1> QED
  BY <1>2, <1>4

LEMMA OnlyElement ==
  ASSUME NEW A, IsFiniteSet(A), Cardinality(A) <= 1, NEW x \in A, NEW y \in A
  PROVE  x = y
<1> SUFFICES ASSUME x # y PROVE FALSE
  OBVIOUS
<1>1. Cardinality({x, y}) = 2
  <2>1. /\ IsFiniteSet({x}) /\ Cardinality({x}) = 1 /\ y \notin {x}
    BY FS_Singleton
  <2>2. Cardinality({x} \cup {y}) = Cardinality({x}) + 1
    BY <2>1, FS_AddElement
  <2>3. {x} \cup {y} = {x, y}
    OBVIOUS
  <2> QED
    BY <2>1, <2>2, <2>3
<1>2. Cardinality({x, y}) <= Cardinality(A) /\ Cardinality(A) \in Nat
  <2>1. {x, y} \subseteq A
    OBVIOUS
  <2> QED
    BY <2>1, FS_Subset, FS_CardinalityType
<1> QED
  BY <1>1, <1>2

LEMMA OneTradeInvExecuted ==
  ASSUME ArbiterInv, FreshInv, TradesAreAgreed, OneTradePerEvent, P!NoDoubleExecution
  PROVE  OneTradeExecuted
<1>1. ASSUME NEW k \in 1..Len(executed) PROVE \E e \in 1..Len(marketLog) : k \in TradesOf(e)
  <2>1. PICK n \in 1..Len(proposals) : executed[k].draft = Order(n) /\ proposals[n].signed
    BY DEF TradesAreAgreed
  <2>2. proposals[n].event \in 1..Len(marketLog)
    BY <2>1, SignedFacts DEF ArbiterInv
  <2>3. k \in TradesOf(proposals[n].event)
    BY <2>1 DEF TradesOf, RoundsOf
  <2> QED
    BY <2>2, <2>3
<1>2. ASSUME NEW e \in 1..Len(marketLog), NEW k \in TradesOf(e), NEW l \in TradesOf(e)
      PROVE  k = l
  <2>1. PICK m \in RoundsOf(e), i \in 1..Len(clearedLog) :
               executed[k].draft = Order(m) /\ clearedLog[i] = m
    BY TradedWasCleared
  <2>2. PICK n \in RoundsOf(e), j \in 1..Len(clearedLog) :
               executed[l].draft = Order(n) /\ clearedLog[j] = n
    BY TradedWasCleared
  <2>3. i = j
    <3> DEFINE Clearings == {c \in 1..Len(clearedLog) : clearedLog[c] \in RoundsOf(e)}
    <3>1. i \in Clearings /\ j \in Clearings /\ Cardinality(Clearings) <= 1
      BY <2>1, <2>2 DEF OneTradePerEvent
    <3>2. IsFiniteSet(Clearings)
      <4>1. Len(clearedLog) \in Nat
        BY QuantFacts DEF ArbiterInv
      <4> QED
        BY <4>1, IntervalSize, FS_Subset
    <3> HIDE DEF Clearings
    <3> QED
      BY <3>1, <3>2, OnlyElement
  <2>4. executed[k].draft = executed[l].draft /\ k \in 1..Len(executed) /\ l \in 1..Len(executed)
    BY <2>1, <2>2, <2>3 DEF TradesOf
  <2> QED
    BY <2>4 DEF P!NoDoubleExecution
<1>3. ASSUME NEW e \in 1..Len(marketLog) PROVE Cardinality(TradesOf(e)) <= 1
  BY <1>2, AtMostOneElement
<1> QED
  BY <1>1, <1>3 DEF OneTradeExecuted

\* From the market message to the Safe: until Quant or Patriarch restarts, each execution
\* goes back to a market message of its own, so that no message is traded on twice,
\* whatever exceptions they meet and, in LIVE mode, however often P3 restarts
\* (quant_process.py, lines 52-145; patriarch_process.py, lines 73-304;
\* execution_process.py, lines 169-273).
THEOREM OneExecution ==
  P3!SettlementAssumption /\ FreshIds /\ (Live \/ MaxFaults = 0)
    => (ArbiterSpec => [](crashes = 0 => OneTradeExecuted))
<1> SUFFICES ASSUME P3!SettlementAssumption, FreshIds, Live \/ MaxFaults = 0
             PROVE  ArbiterSpec => [](crashes = 0 => OneTradeExecuted)
  OBVIOUS
<1>1. P!SettlementAssumption /\ P!Reliable
  BY SameAssumption DEF P!Reliable
<1>2. ArbiterSpec => []ArbiterInv /\ Spec /\ P!Spec
  BY <1>1, ArbiterInvariance, ArbiterNegotiates, ArbiterSettles, PTL
<1>3. Spec => []FreshInv /\ [](crashes = 0 => OneTradePerEvent)
  BY FreshNegotiations, OneTradeUntilRestart, PTL
<1>4. P!Spec => []P!NoDoubleExecution
  BY <1>1, P!ExecutesOnce
<1>5. ArbiterSpec => []TradesAreAgreed
  BY Agreed
<1>6. ArbiterInv /\ FreshInv /\ TradesAreAgreed /\ (crashes = 0 => OneTradePerEvent)
        /\ P!NoDoubleExecution => (crashes = 0 => OneTradeExecuted)
  BY OneTradeInvExecuted
<1> QED
  BY <1>2, <1>3, <1>4, <1>5, <1>6, PTL
===============================================================================
