-------------------------------- MODULE Arbiter --------------------------------
(***************************************************************************)
(* The three daemons together, from the market message to the Safe: Quant  *)
(* and Patriarch (Negotiation), and P3 with what it settles against        *)
(* (Settlement), over the topics they share.                               *)
(*                                                                         *)
(* Negotiation leaves out what a proposal's hash binds beside the swap;    *)
(* here Quant reads the nonce of the Safe and the state of the Permit2     *)
(* allowance when it drafts (sign_proposal), and the proposal, its         *)
(* clearance and both signatures carry these terms.                        *)
(***************************************************************************)
EXTENDS Negotiation

CONSTANTS
  Live,         \* the rest of Settlement's constants: the mode, and bounds
  MaxDrafts, MaxPermits, MaxFaults, MaxTimeouts, MaxStale

VARIABLES
  drafts,       \* what Quant has signed, published or not
  held,         \* the terms it has read for the proposal in hand
  terms,        \* the terms of each message on PROPOSALS
  sigTerms,     \* and of each on CONSENSUS_SIGNATURES
  staleUpTo, pauses,
  pc, cur, todo, pending, cursor, ledger, receipts, outcomes, minted, txs,
  executed, permit, faults, timeouts  \* as in Settlement

termVars   == <<drafts, held, terms, sigTerms>>
settleVars == <<staleUpTo, pauses, pc, cur, todo, pending, cursor, ledger, receipts,
                outcomes, minted, txs, executed, permit, faults, timeouts>>
arbiterVars == <<vars, termVars, settleVars>>

-------------------------------------------------------------------------------
(* What P3 sees of the topics *)

\* A proposal with its terms, as P3 knows it.
WithTerms(p, t) == [id |-> p.id, swap |-> OrderOf(p).swap, permit |-> t.permit, nonce |-> t.nonce]

\* A signature over these terms.
Over(m, t) == [id |-> m.id, signer |-> m.signer,
               hash |-> [swap |-> m.hash.swap, permit |-> t.permit, nonce |-> t.nonce]]

Order(n) == WithTerms(proposals[n], terms[n])

clearances == [i \in 1..Len(clearedLog) |-> Order(clearedLog[i])]
signatures == [i \in 1..Len(sigLog) |-> Over(sigLog[i], sigTerms[i])]

P3 == INSTANCE Settlement WITH
  Swap <- [market : Market, iteration : Iterations],
  Owner <- {Quant, Patriarch}, Threshold <- 2, FreshIds <- FALSE, MaxClears <- MaxMarket,
  sigLog <- signatures, clearedLog <- clearances,
  floor <- [sigs |-> floor.sigs, cleared |-> floor.cleared], clears <- wipes

ArbiterInit ==
  /\ Init /\ drafts = {} /\ held = [permit |-> 0, nonce |-> 0]
  /\ terms = <<>> /\ sigTerms = <<>>
  /\ P3!Init

-------------------------------------------------------------------------------
(* Quant and Patriarch *)

\* sign_proposal: the nonce is read, and calldata generated.
QuantDrafts ==
  /\ Analyze \/ ReadFeedback
  /\ hand' # hand
  /\ Cardinality(drafts) < MaxDrafts
  /\ held' = [permit |-> IF Live THEN permit ELSE 0, nonce |-> P3!SafeNonce]
  /\ drafts' = drafts \cup {WithTerms(hand', held')}
  /\ UNCHANGED <<terms, sigTerms>>

QuantProposes ==
  /\ PublishProposal
  /\ terms' = Append(terms, held)
  /\ UNCHANGED <<drafts, held, sigTerms>>

OthersPropose ==
  /\ \E p \in ProposalId, m \in Market : ForeignProposal(p, m)
  /\ terms' = Append(terms, [permit |-> 0, nonce |-> 0])
  /\ UNCHANGED <<drafts, held, sigTerms>>

QuantSigns ==
  /\ QuantSign
  /\ sigTerms' = Append(sigTerms, held)
  /\ UNCHANGED <<drafts, held, terms>>

\* Over the hash in the proposal.
PatriarchSigns ==
  /\ PatriarchSign
  /\ sigTerms' = Append(sigTerms, terms[This])
  /\ UNCHANGED <<drafts, held, terms>>

\* All else that the two, and the injector, do.
OtherSteps ==
  /\ Next
  /\ hand' \in {hand, None}
  /\ UNCHANGED <<proposals, sigLog, termVars>>

DaemonsNegotiate ==
  /\ \/ QuantDrafts \/ QuantProposes \/ OthersPropose \/ QuantSigns \/ PatriarchSigns
     \/ OtherSteps
  /\ UNCHANGED settleVars

P3Settles ==
  /\ UNCHANGED <<vars, termVars>>
  /\ P3!Daemon \/ P3!DaemonError \/ P3!Crash \/ P3!Chain \/ P3!TenMinutesPass

ArbiterNext == DaemonsNegotiate \/ P3Settles

ArbiterSpec == ArbiterInit /\ [][ArbiterNext]_arbiterVars

-------------------------------------------------------------------------------
(* Properties *)

\* P3 and what is on the topics behave as in Settlement.
ImplementsSettlement == P3!Spec

\* What the Safe executes is a proposal that Quant signed and the firewall cleared, and
\* both owners have published a signature over its very hash.
TradesAreAgreed ==
  \A k \in 1..Len(executed) : \E n \in 1..Len(proposals) :
    /\ executed[k].draft = Order(n)
    /\ proposals[n].signed
    /\ \E i \in 1..Len(clearedLog) : clearedLog[i] = n
    /\ {Quant, Patriarch} \subseteq P3!Consenting(Order(n))

\* The executions that go back to the market message e.
TradesOf(e) == {k \in 1..Len(executed) : \E n \in RoundsOf(e) : executed[k].draft = Order(n)}

\* Every execution goes back to a market message, and no two to the same one.
OneTradeExecuted ==
  /\ \A k \in 1..Len(executed) : \E e \in 1..Len(marketLog) : k \in TradesOf(e)
  /\ \A e \in 1..Len(marketLog) : Cardinality(TradesOf(e)) <= 1

===============================================================================
