----------------------------- MODULE Negotiation -----------------------------
(***************************************************************************)
(* Quant (apps/quant_process.py, agents/quant.py) and Patriarch            *)
(* (apps/patriarch_process.py, agents/patriarch.py) negotiating over the   *)
(* bus about what the market injector publishes: Quant proposes, Patriarch *)
(* evaluates and clears and signs or rejects, and Quant revises what was   *)
(* rejected.                                                               *)
(*                                                                         *)
(* Each daemon is one loop over two drains.  A drain fetches what is       *)
(* unread then; its messages are handled one by one, with a step for each  *)
(* message published, since the other daemon may run and either may fail   *)
(* between two of them.  What an LLM, the simulation and the firewall say  *)
(* is any of the answers they can give.                                    *)
(***************************************************************************)
EXTENDS Integers, Sequences, FiniteSets

CONSTANTS
  ProposalId,     \* values of proposal_id; Quant's LLM chooses them
  Market,         \* market data, identified by its snapshot hash
  Quant, Patriarch,
  FreshIds,       \* TRUE: the LLM never repeats a proposal_id
  None,
  MaxMarket,      \* bound: market data injected
  MaxProposals,   \* bound: messages on PROPOSALS
  MaxForeign,     \* bound: those of them that Quant has not signed
  MaxSignatures,  \* bound: messages on CONSENSUS_SIGNATURES
  MaxClearances,  \* bound: messages on FIREWALL_CLEARED
  MaxErrors,      \* bound: exceptions that reach a daemon's outer handler
  MaxCrashes      \* bound: daemons killed and started again

ASSUME NegotiationAssumption ==
  /\ Quant # Patriarch
  /\ FreshIds \in BOOLEAN
  /\ None \notin ProposalId
  /\ None \notin [id : ProposalId, market : Market, iteration : Nat, event : Nat,
                  signed : BOOLEAN]
  /\ \A b \in {MaxMarket, MaxProposals, MaxForeign, MaxSignatures, MaxClearances,
               MaxErrors, MaxCrashes} : b \in Nat

VARIABLES
  marketLog, snapLog, proposals, evals,   \* MARKET_DATA, MARKET_SNAPSHOTS,
                                          \* PROPOSALS, PROPOSAL_EVALUATIONS
  sigLog, clearedLog,                     \* CONSENSUS_SIGNATURES, FIREWALL_CLEARED
  attacks,     \* the proposals reported on ATTACK_REJECTED
  floor,       \* per topic, how many of its messages clear_network has deleted
  injecting,   \* the injector has wiped the bus and not yet published
  qpc,         \* where Quant is in its loop
  qcursor,     \* last_market_id and last_feedback_id
  qend,        \* the last message of the drain Quant is handling
  hand,        \* the proposal Quant is publishing, or None
  history,     \* proposal_history
  ppc,         \* where Patriarch is in its loop
  pcursor,     \* last_snapshot_id and last_proposal_id
  pend,        \* the last message of the drain Patriarch is handling
  cache,       \* snapshot_cache
  status,      \* reviewed_proposal.consensus_status
  missed,      \* history: the proposals rejected for want of their snapshot
  wipes, errors, crashes

logs      == <<marketLog, snapLog, proposals, evals, sigLog, clearedLog, attacks>>
quantVars == <<qpc, qcursor, qend, hand, history>>
patVars   == <<ppc, pcursor, pend, cache, status>>
busVars   == <<floor, injecting, wipes>>
faultVars == <<errors, crashes>>
vars == <<logs, quantVars, patVars, busVars, faultVars, missed>>

-------------------------------------------------------------------------------
(* Data *)

MaxIterations == 3
Iterations    == 1..MaxIterations

\* event is history: the market message the proposal goes back to, 0 for none.
Rounds    == [market : Market, iteration : Iterations, event : Nat]
Proposals == [id : ProposalId, market : Market, iteration : Iterations, event : Nat,
              signed : BOOLEAN]
Statuses  == {"ACCEPTED", "REJECTED"}

\* of is history: the proposal the evaluation is about.
Evaluations == [id : ProposalId, status : Statuses, of : Nat]

EmptyHistory == [p \in ProposalId |-> None]

\* A message is there for a drain when neither a former one nor a wipe has
\* taken it.
After(cursor, deleted) == IF cursor < deleted THEN deleted ELSE cursor

Init ==
  /\ marketLog = <<>> /\ snapLog = <<>> /\ proposals = <<>> /\ evals = <<>>
  /\ sigLog = <<>> /\ clearedLog = <<>> /\ attacks = {}
  /\ floor = [market |-> 0, snaps |-> 0, proposals |-> 0, evals |-> 0, sigs |-> 0, cleared |-> 0]
  /\ injecting = FALSE
  /\ qpc = "market" /\ qcursor = [market |-> 0, evals |-> 0] /\ qend = 0
  /\ hand = None /\ history = EmptyHistory
  /\ ppc = "snapshots" /\ pcursor = [snaps |-> 0, proposals |-> 0] /\ pend = 0
  /\ cache = {} /\ status = "REJECTED"
  /\ missed = {} /\ wipes = 0 /\ errors = 0 /\ crashes = 0

-------------------------------------------------------------------------------
(* The injector, and other writers to PROPOSALS *)

\* inject: the bus is wiped first...
Wipe ==
  /\ ~injecting /\ Len(marketLog) < MaxMarket
  /\ injecting' = TRUE /\ wipes' = wipes + 1
  /\ floor' = [market |-> Len(marketLog), snaps |-> Len(snapLog),
               proposals |-> Len(proposals), evals |-> Len(evals),
               sigs |-> Len(sigLog), cleared |-> Len(clearedLog)]
  /\ UNCHANGED <<logs, quantVars, patVars, faultVars, missed>>

\* ...and then the market data is published.
Inject(m) ==
  /\ injecting
  /\ injecting' = FALSE
  /\ marketLog' = Append(marketLog, m)
  /\ UNCHANGED <<snapLog, proposals, evals, sigLog, clearedLog, attacks, quantVars,
                 patVars, floor, wipes, faultVars, missed>>

UsedIds == {proposals[i].id : i \in 1..Len(proposals)}

\* The ids the LLM may choose.  Which of the fresh ones it is makes no difference.
NextIds ==
  IF FreshIds THEN {p \in ProposalId \ UsedIds : p = CHOOSE q \in ProposalId \ UsedIds : TRUE}
  ELSE ProposalId

\* A proposal that Quant has not signed: a Quant without its key, or the watchdog.
ForeignProposal(p, m) ==
  /\ Len(proposals) < MaxProposals /\ p \in UsedIds \cup NextIds
  /\ Cardinality({i \in 1..Len(proposals) : ~proposals[i].signed}) < MaxForeign
  /\ proposals' = Append(proposals, [id |-> p, market |-> m, iteration |-> 1,
                                     event |-> 0, signed |-> FALSE])
  /\ UNCHANGED <<marketLog, snapLog, evals, sigLog, clearedLog, attacks, quantVars,
                 patVars, busVars, faultVars, missed>>

-------------------------------------------------------------------------------
(* Quant *)

DrainMarket ==
  /\ qpc = "market"
  /\ qcursor' = [qcursor EXCEPT !.market = After(@, floor.market)]
  /\ qend' = Len(marketLog)
  /\ qpc' = "analyze"
  /\ UNCHANGED <<logs, hand, history, patVars, busVars, faultVars, missed>>

\* The proposal that generate_proposal returns for the round r, with an id of
\* the LLM's choice.
Draft(r) ==
  \E p \in NextIds :
    hand' = [id |-> p, market |-> r.market, iteration |-> r.iteration,
             event |-> r.event, signed |-> TRUE]

\* The next market message: the analysis may suggest nothing, the LLM may fail.
Analyze ==
  LET n == qcursor.market + 1
  IN
  /\ qpc = "analyze" /\ n <= qend
  /\ qcursor' = [qcursor EXCEPT !.market = n]
  /\ \/ /\ Draft([market |-> marketLog[n], iteration |-> 1, event |-> n])
        /\ qpc' = "snapshot"
     \/ UNCHANGED <<hand, qpc>>
  /\ UNCHANGED <<logs, qend, history, patVars, busVars, faultVars, missed>>

\* Patriarch can only recompute the analysis from the snapshot.
PublishSnapshot ==
  /\ qpc = "snapshot"
  /\ snapLog' = Append(snapLog, hand.market)
  /\ qpc' = "propose"
  /\ UNCHANGED <<marketLog, proposals, evals, sigLog, clearedLog, attacks, qcursor,
                 qend, hand, history, patVars, busVars, faultVars, missed>>

PublishProposal ==
  /\ qpc = "propose" /\ Len(proposals) < MaxProposals
  /\ proposals' = Append(proposals, hand)
  /\ qpc' = "sign"
  /\ UNCHANGED <<marketLog, snapLog, evals, sigLog, clearedLog, attacks, qcursor,
                 qend, hand, history, patVars, busVars, faultVars, missed>>

\* What P3 knows of a proposal, and the hash its owners sign.
OrderOf(p) == [id |-> p.id, swap |-> [market |-> p.market, iteration |-> p.iteration],
               permit |-> 0, nonce |-> 0]
HashOf(p)  == [swap |-> OrderOf(p).swap, permit |-> 0, nonce |-> 0]

SignatureOf(p, o) == [id |-> p.id, signer |-> o, hash |-> HashOf(p)]

\* proposal_history gets the round under the id the LLM chose.
Record ==
  history' = [history EXCEPT ![hand.id] =
                [market |-> hand.market, iteration |-> hand.iteration, event |-> hand.event]]

\* A second later Quant publishes its signature and remembers the round; then it
\* goes on with the drain it was in.
QuantSign ==
  /\ qpc = "sign" /\ Len(sigLog) < MaxSignatures
  /\ sigLog' = Append(sigLog, SignatureOf(hand, Quant))
  /\ Record
  /\ hand' = None
  /\ qpc' = IF hand.iteration = 1 THEN "analyze" ELSE "feedback"
  /\ UNCHANGED <<marketLog, snapLog, proposals, evals, clearedLog, attacks, qcursor,
                 qend, patVars, busVars, faultVars, missed>>

DrainFeedback ==
  /\ qpc = "analyze" /\ qcursor.market >= qend
  /\ qcursor' = [qcursor EXCEPT !.evals = After(@, floor.evals)]
  /\ qend' = Len(evals)
  /\ qpc' = "feedback"
  /\ UNCHANGED <<logs, hand, history, patVars, busVars, faultVars, missed>>

\* Mutant: any evaluation of a proposal on record is taken for a rejection.
AnyOnRecord(e) ==
  /\ history[e.id] # None
  /\ history[e.id].iteration < MaxIterations

\* Quant revises what was rejected, is on record and has rounds left.
Revisable(e) ==
  /\ e.status = "REJECTED"
  /\ history[e.id] # None
  /\ history[e.id].iteration < MaxIterations

\* The next evaluation: Quant publishes a revision, or concedes.
ReadFeedback ==
  LET n == qcursor.evals + 1
      r == history[evals[n].id]
  IN
  /\ qpc = "feedback" /\ n <= qend
  /\ qcursor' = [qcursor EXCEPT !.evals = n]
  /\ \/ /\ Revisable(evals[n])
        /\ Draft([r EXCEPT !.iteration = @ + 1])
        /\ qpc' = "snapshot"
     \/ UNCHANGED <<hand, qpc>>
  /\ UNCHANGED <<logs, qend, history, patVars, busVars, faultVars, missed>>

EndQuantPass ==
  /\ qpc = "feedback" /\ qcursor.evals >= qend
  /\ qpc' = "market"
  /\ UNCHANGED <<logs, qcursor, qend, hand, history, patVars, busVars, faultVars, missed>>

\* Mutant: what Quant was publishing outlives the exception.
QuantErrorKeepsHand ==
  /\ errors < MaxErrors
  /\ errors' = errors + 1
  /\ qpc' = "market"
  /\ UNCHANGED <<logs, qcursor, qend, hand, history, patVars, busVars, crashes, missed>>

\* An exception in the handling of a message: its cursor has passed it, what was
\* not published yet will not be, and the round is not on record.
QuantError ==
  /\ errors < MaxErrors
  /\ errors' = errors + 1
  /\ qpc' = "market" /\ hand' = None
  /\ \/ UNCHANGED qcursor
     \/ /\ qpc = "analyze" /\ qcursor.market < qend
        /\ qcursor' = [qcursor EXCEPT !.market = @ + 1]
     \/ /\ qpc = "feedback" /\ qcursor.evals < qend
        /\ qcursor' = [qcursor EXCEPT !.evals = @ + 1]
  /\ UNCHANGED <<logs, qend, history, patVars, busVars, crashes, missed>>

\* Quant's cursors and its record of the negotiations are in memory only.
QuantCrash ==
  /\ crashes < MaxCrashes
  /\ crashes' = crashes + 1
  /\ qpc' = "market" /\ hand' = None /\ qend' = 0
  /\ qcursor' = [market |-> 0, evals |-> 0]
  /\ history' = EmptyHistory
  /\ UNCHANGED <<logs, patVars, busVars, errors, missed>>

-------------------------------------------------------------------------------
(* Patriarch *)

\* Mutant: the cache forgets what earlier passes drained.
CacheLast ==
  /\ ppc = "snapshots"
  /\ cache' = {snapLog[i] : i \in (After(pcursor.snaps, floor.snaps) + 1)..Len(snapLog)}
  /\ pcursor' = [pcursor EXCEPT !.snaps = Len(snapLog)]
  /\ ppc' = "proposals"
  /\ UNCHANGED <<logs, quantVars, pend, status, busVars, faultVars, missed>>

DrainSnapshots ==
  /\ ppc = "snapshots"
  /\ cache' = cache \cup
       {snapLog[i] : i \in (After(pcursor.snaps, floor.snaps) + 1)..Len(snapLog)}
  /\ pcursor' = [pcursor EXCEPT !.snaps = Len(snapLog)]
  /\ ppc' = "proposals"
  /\ UNCHANGED <<logs, quantVars, pend, status, busVars, faultVars, missed>>

DrainProposals ==
  /\ ppc = "proposals"
  /\ pcursor' = [pcursor EXCEPT !.proposals = After(@, floor.proposals)]
  /\ pend' = Len(proposals)
  /\ ppc' = "next"
  /\ UNCHANGED <<logs, quantVars, cache, status, busVars, faultVars, missed>>

\* The proposal being handled.
This == pcursor.proposals

\* The next proposal of the drain is taken up, its cursor moves at once.  A payload
\* that does not validate is passed over at this place with no other effect: such a
\* one is no message here.
TakeNext ==
  /\ ppc = "next" /\ This < pend
  /\ pcursor' = [pcursor EXCEPT !.proposals = @ + 1]

\* Mutant: signatures are not looked at.
SignatureIgnored(n) == TRUE

\* Both of Quant's signatures recover to QUANT_ADDR.
SignatureOK(n) == proposals[n].signed

RejectUnsigned ==
  /\ TakeNext /\ ~SignatureOK(This')
  /\ attacks' = attacks \cup {This'}
  /\ UNCHANGED <<marketLog, snapLog, proposals, evals, sigLog, clearedLog, quantVars,
                 ppc, pend, cache, status, busVars, faultVars, missed>>

\* deterministic_recheck: with the snapshot Quant's analysis is recomputed, and
\* agrees; without it there is nothing to compute from.
Rechecks(n) == proposals[n].market \in cache

\* evaluate_proposal: the LLM's verdict; one that fails is a rejection.
\* consult_sim_oracle: an unsigned, untrusted or failed simulation, or a revert,
\* turns an acceptance into a rejection.
SimVerdicts == {"success", "revert", "untrusted"}

Reviewed(llm, sim) ==
  IF llm = "ACCEPTED" /\ sim = "success" THEN "ACCEPTED" ELSE "REJECTED"

\* patriarch_app: recheck, evaluate, consult the simulation.
Review ==
  /\ TakeNext /\ SignatureOK(This')
  /\ IF Rechecks(This')
     THEN /\ \E llm \in Statuses, sim \in SimVerdicts : status' = Reviewed(llm, sim)
          /\ UNCHANGED missed
     ELSE /\ status' = "REJECTED"
          /\ missed' = missed \cup {This'}
  /\ ppc' = IF status' = "ACCEPTED" THEN "simulate" ELSE "tell"
  /\ UNCHANGED <<logs, quantVars, pend, cache, busVars, faultVars>>

\* The daemon simulates once more: a revert, or an attestor it does not know, is
\* reported and rejected.  No attestation, or an unsigned one, counts as success.
Simulate ==
  /\ ppc = "simulate"
  /\ \E sim \in SimVerdicts :
       IF sim = "success"
       THEN ppc' = "firewall" /\ UNCHANGED <<attacks, status>>
       ELSE ppc' = "tell" /\ status' = "REJECTED" /\ attacks' = attacks \cup {This}
  /\ UNCHANGED <<marketLog, snapLog, proposals, evals, sigLog, clearedLog, quantVars,
                 pcursor, pend, cache, busVars, faultVars, missed>>

\* The firewall passes it: FIREWALL_CLEARED is published before anything is signed.
Clear ==
  /\ ppc = "firewall" /\ Len(clearedLog) < MaxClearances
  /\ clearedLog' = Append(clearedLog, This)
  /\ ppc' = "sign"
  /\ UNCHANGED <<marketLog, snapLog, proposals, evals, sigLog, attacks, quantVars,
                 pcursor, pend, cache, status, busVars, faultVars, missed>>

\* The firewall raises ValueError: the proposal is reported, but keeps the status
\* ACCEPTED, and that is what Quant is told.
FirewallRejects ==
  /\ ppc = "firewall"
  /\ attacks' = attacks \cup {This}
  /\ ppc' = "tell"
  /\ UNCHANGED <<marketLog, snapLog, proposals, evals, sigLog, clearedLog, quantVars,
                 pcursor, pend, cache, status, busVars, faultVars, missed>>

\* Patriarch's own signature, a second after the clearance.
PatriarchSign ==
  /\ ppc = "sign" /\ Len(sigLog) < MaxSignatures
  /\ sigLog' = Append(sigLog, SignatureOf(proposals[This], Patriarch))
  /\ ppc' = "save"
  /\ UNCHANGED <<marketLog, snapLog, proposals, evals, clearedLog, attacks, quantVars,
                 pcursor, pend, cache, status, busVars, faultVars, missed>>

\* save_decision: a head of the receipt log that does not parse raises a
\* ValueError too, and the cleared and signed proposal is reported as rejected.
SaveDecision ==
  /\ ppc = "save"
  /\ attacks' \in {attacks, attacks \cup {This}}
  /\ ppc' = "tell"
  /\ UNCHANGED <<marketLog, snapLog, proposals, evals, sigLog, clearedLog, quantVars,
                 pcursor, pend, cache, status, busVars, faultVars, missed>>

\* PROPOSAL_EVALUATIONS: the reviewed proposal, by its id.
Tell ==
  /\ ppc = "tell"
  /\ evals' = Append(evals, [id |-> proposals[This].id, status |-> status, of |-> This])
  /\ ppc' = "next"
  /\ UNCHANGED <<marketLog, snapLog, proposals, sigLog, clearedLog, attacks, quantVars,
                 pcursor, pend, cache, status, busVars, faultVars, missed>>

EndPatriarchPass ==
  /\ ppc = "next" /\ This >= pend
  /\ ppc' = "snapshots"
  /\ UNCHANGED <<logs, quantVars, pcursor, pend, cache, status, busVars, faultVars, missed>>

\* An exception other than a ValueError in the handling of a proposal, the second
\* simulation's included: the cursor has passed the proposal, nobody is told.
PatriarchError ==
  /\ errors < MaxErrors
  /\ errors' = errors + 1
  /\ \/ ppc = "next" /\ TakeNext
     \/ ppc \notin {"snapshots", "next"} /\ UNCHANGED pcursor
  /\ ppc' = "snapshots"
  /\ UNCHANGED <<logs, quantVars, pend, cache, status, busVars, crashes, missed>>

\* Mutant: the cursors survive the restart.
PatriarchCrashKeepsCursors ==
  /\ crashes < MaxCrashes
  /\ crashes' = crashes + 1
  /\ ppc' = "snapshots" /\ pend' = 0 /\ cache' = {} /\ status' = "REJECTED"
  /\ UNCHANGED <<logs, quantVars, pcursor, busVars, errors, missed>>

\* Patriarch's cursors and snapshots are in memory only: every proposal on the bus
\* is evaluated again.
PatriarchCrash ==
  /\ crashes < MaxCrashes
  /\ crashes' = crashes + 1
  /\ ppc' = "snapshots" /\ pend' = 0 /\ cache' = {} /\ status' = "REJECTED"
  /\ pcursor' = [snaps |-> 0, proposals |-> 0]
  /\ UNCHANGED <<logs, quantVars, busVars, errors, missed>>

-------------------------------------------------------------------------------
QuantDaemon ==
  \/ DrainMarket \/ Analyze \/ PublishSnapshot \/ PublishProposal \/ QuantSign
  \/ DrainFeedback \/ ReadFeedback \/ EndQuantPass

PatriarchDaemon ==
  \/ DrainSnapshots \/ DrainProposals \/ RejectUnsigned \/ Review \/ Simulate
  \/ Clear \/ FirewallRejects \/ PatriarchSign \/ SaveDecision \/ Tell
  \/ EndPatriarchPass

Injector == Wipe \/ \E m \in Market : Inject(m)

Next ==
  \/ QuantDaemon \/ PatriarchDaemon \/ Injector
  \/ \E p \in ProposalId, m \in Market : ForeignProposal(p, m)
  \/ QuantError \/ QuantCrash \/ PatriarchError \/ PatriarchCrash

Spec == Init /\ [][Next]_vars

\* Both daemons loop for ever.
FairSpec == Spec /\ WF_vars(QuantDaemon) /\ WF_vars(PatriarchDaemon)

-------------------------------------------------------------------------------
(* Properties *)

\* Quant's part of TypeOK: it holds a proposal exactly while it publishes one.
QuantTypeOK ==
  /\ qpc \in {"market", "analyze", "snapshot", "propose", "sign", "feedback"}
  /\ qcursor \in [market : Nat, evals : Nat] /\ qend \in Nat
  /\ hand \in Proposals \cup {None}
  /\ hand # None <=> qpc \in {"snapshot", "propose", "sign"}
  /\ history \in [ProposalId -> Rounds \cup {None}]

\* Patriarch's part of TypeOK: what it handles is on the bus.
PatriarchTypeOK ==
  /\ ppc \in {"snapshots", "proposals", "next", "simulate", "firewall", "sign", "save", "tell"}
  /\ pcursor \in [snaps : Nat, proposals : Nat] /\ pend \in Nat
  /\ cache \subseteq Market /\ status \in Statuses
  /\ ppc \in {"simulate", "firewall", "sign", "save", "tell"} => This \in 1..Len(proposals)

\* The messages on the bus, and what is said of proposals is said of published ones.
LogTypeOK ==
  /\ marketLog \in Seq(Market) /\ snapLog \in Seq(Market)
  /\ proposals \in Seq(Proposals)
  /\ evals \in Seq(Evaluations)
  /\ clearedLog \in Seq(1..Len(proposals))
  /\ attacks \subseteq 1..Len(proposals) /\ missed \subseteq 1..Len(proposals)

\* Types, and that a daemon holds a message exactly while it handles one.
TypeOK == LogTypeOK /\ QuantTypeOK /\ PatriarchTypeOK

\* The proposals that go back to the market message e.
RoundsOf(e) == {n \in 1..Len(proposals) : proposals[n].event = e}

\* A market message leads to at most three proposals, and at most one of them is
\* cleared: Patriarch clears one only if it tells Quant so, and Quant goes on
\* only with what was rejected.  This needs fresh ids and daemons that do not
\* restart; an exception may stop a negotiation but never doubles one.
OneTradePerEvent ==
  \A e \in 1..Len(marketLog) :
    /\ Cardinality(RoundsOf(e)) <= MaxIterations
    /\ Cardinality({i \in 1..Len(clearedLog) : clearedLog[i] \in RoundsOf(e)}) <= 1

\* Patriarch drains snapshots before proposals, so a proposal published between
\* the two drains is rejected for want of its snapshot.  Until the bus is wiped
\* again that happens to a market message once at most, and once more for each
\* restart: by the time of the revision the snapshot is there.
MissedOnce ==
  \A e \in 1..Len(marketLog) :
    e = wipes => Cardinality(missed \cap RoundsOf(e)) <= 1 + crashes

\* Quant and Patriarch publish what Settlement assumes of them: clearances only of
\* what Quant proposed and signed, and Patriarch's signature only after its
\* clearance.  P3 takes no part in this module.
draftsBar  == {OrderOf(proposals[n]) : n \in {i \in 1..Len(proposals) : proposals[i].signed}}
clearedBar == [i \in 1..Len(clearedLog) |-> OrderOf(proposals[clearedLog[i]])]

S == INSTANCE Settlement WITH
  Swap <- [market : Market, iteration : Iterations],
  Owner <- {Quant, Patriarch}, Threshold <- 2, FreshIds <- FALSE, Live <- TRUE,
  MaxDrafts <- MaxProposals, MaxPermits <- 0, MaxFaults <- 0, MaxTimeouts <- 0,
  MaxClears <- MaxMarket, MaxStale <- 0,
  drafts <- draftsBar, clearedLog <- clearedBar,
  floor <- [sigs |-> floor.sigs, cleared |-> floor.cleared],
  clears <- wipes, staleUpTo <- 0, pauses <- 0,
  pc <- "sigs", cur <- None, todo <- {},
  pending <- [p \in ProposalId |-> [proposal |-> None, signatures |-> {}]],
  cursor <- [sigs |-> 0, cleared |-> 0],
  ledger <- {}, receipts <- {}, outcomes <- {}, minted <- {}, txs <- <<>>,
  executed <- <<>>, permit <- 0, faults <- 0, timeouts <- 0

PublishesAsAssumed == S!Init /\ [][S!Publishers]_(S!busVars)

Answered(n) == n \in attacks \/ \E i \in 1..Len(evals) : evals[i].of = n

\* Every proposal is evaluated or reported, unless it was wiped from the bus:
\* a Patriarch that crashes starts from the first message again.  (An exception
\* does lose the proposal it is raised for, and a payload that does not validate is
\* never answered: it is none of the proposals here.)
EveryProposalIsAnswered ==
  \A n \in 1..MaxProposals :
    n <= Len(proposals) ~> Answered(n) \/ n <= floor.proposals
===============================================================================
