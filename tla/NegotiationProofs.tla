--------------------------- MODULE NegotiationProofs ---------------------------
(* Theorems about Negotiation, for every value of its constants. *)
EXTENDS Negotiation, FiniteSetTheorems, TLAPS

\* Where a daemon is while it publishes a proposal, or handles one.
Drafting == {"snapshot", "propose"}
Handling == {"simulate", "firewall", "sign", "save", "tell"}

-------------------------------------------------------------------------------
(* What holds of every negotiation: the invariant of the types and of what is
   published. *)

\* What clear_network has deleted was on the bus, and it runs before each injection.
BusIsWiped ==
  /\ floor \in [market : Nat, snaps : Nat, proposals : Nat, evals : Nat, sigs : Nat,
                cleared : Nat]
  /\ floor.market <= Len(marketLog) /\ floor.snaps <= Len(snapLog)
  /\ floor.proposals <= Len(proposals) /\ floor.evals <= Len(evals)
  /\ injecting \in BOOLEAN
  /\ wipes = IF injecting THEN Len(marketLog) + 1 ELSE Len(marketLog)

\* The drain Quant is in, which it resumes when it has published a proposal, does not
\* go past its topic.
QuantReads ==
  /\ qcursor.market <= Len(marketLog)
  /\ qpc = "analyze" => qend <= Len(marketLog)
  /\ qpc = "feedback" => qend <= Len(evals)
  /\ hand # None => /\ hand.signed
                    /\ hand.iteration = 1 => qend <= Len(marketLog)
                    /\ hand.iteration # 1 => qend <= Len(evals)
  /\ qpc = "sign" => \E n \in 1..Len(proposals) : proposals[n] = hand

\* Patriarch goes on with a proposal only if Quant has signed it, signs it only when it
\* has cleared it, and answers it by its id.
PatriarchReads ==
  /\ pend <= Len(proposals) /\ This <= Len(proposals)
  /\ ppc \in Handling => proposals[This].signed
  /\ ppc = "sign" => \E i \in 1..Len(clearedLog) : clearedLog[i] = This
  /\ \A i \in 1..Len(evals) : /\ evals[i].of \in 1..Len(proposals)
                              /\ proposals[evals[i].of].signed
                              /\ evals[i].id = proposals[evals[i].of].id

NegotiationInv ==
  TypeOK /\ crashes \in Nat /\ BusIsWiped /\ QuantReads /\ PatriarchReads

-------------------------------------------------------------------------------
(* With fresh ids: what Quant signs has an id of its own, so an evaluation is read as
   that of the proposal it is about. *)

IdsDiffer ==
  /\ \A m, n \in 1..Len(proposals) :
       proposals[m].signed /\ proposals[n].signed /\ proposals[m].id = proposals[n].id => m = n
  /\ qpc \in Drafting => \A n \in 1..Len(proposals) :
                           proposals[n].signed => proposals[n].id # hand.id

RoundOf(p) == [market |-> p.market, iteration |-> p.iteration, event |-> p.event]

\* proposal_history has the rounds of what was published.
OnRecord ==
  \A p \in ProposalId : history[p] # None =>
    \E n \in 1..Len(proposals) : /\ proposals[n].signed /\ proposals[n].id = p
                                 /\ history[p] = RoundOf(proposals[n])

\* Some proposal of the event e has been evaluated.
Evaluated(e) == \E i \in 1..Len(evals) : proposals[evals[i].of].event = e

\* What Quant makes of the event it goes back to: a first round from its market data, a
\* later one from an evaluation.
Founded(p) ==
  /\ p.event \in 1..Len(marketLog) /\ p.market = marketLog[p.event]
  /\ p.iteration # 1 => Evaluated(p.event)

EventsKnown ==
  /\ \A n \in 1..Len(proposals) :
       IF proposals[n].signed THEN Founded(proposals[n])
       ELSE proposals[n].event = 0 /\ proposals[n].iteration = 1
  /\ hand # None => Founded(hand)

FreshInv == IdsDiffer /\ OnRecord /\ EventsKnown

-------------------------------------------------------------------------------
(* One trade per event: with fresh ids, and daemons that do not restart. *)

\* Patriarch takes up a proposal once, so it clears and evaluates it once; what it has
\* cleared it evaluates as accepted.
EvaluatedOnce ==
  /\ \A i \in 1..Len(evals) : evals[i].of <= This /\ (ppc \in Handling => evals[i].of # This)
  /\ \A i, j \in 1..Len(evals) : evals[i].of = evals[j].of => i = j

ClearedOnce ==
  /\ \A i \in 1..Len(clearedLog) :
       /\ clearedLog[i] <= This
       /\ ppc \in {"simulate", "firewall"} => clearedLog[i] # This
       /\ ppc = "tell" /\ clearedLog[i] = This => status = "ACCEPTED"
       /\ \A j \in 1..Len(evals) : evals[j].of = clearedLog[i] => evals[j].status = "ACCEPTED"
  /\ \A i, j \in 1..Len(clearedLog) : clearedLog[i] = clearedLog[j] => i = j
  /\ ppc \in {"simulate", "firewall", "sign", "save"} => status = "ACCEPTED"

\* Quant has read that the proposal m is rejected.
Refused(m) == \E i \in 1..Len(evals) :
                i <= qcursor.evals /\ evals[i].of = m /\ evals[i].status = "REJECTED"

\* The rounds before p's were published and refused, one after the other.
Follows(p) ==
  /\ p.event <= qcursor.market
  /\ \A k \in 1..(p.iteration - 1) : \E m \in RoundsOf(p.event) :
       proposals[m].signed /\ proposals[m].iteration = k /\ Refused(m)

MadeByQuant(p) == p = hand \/ \E n \in 1..Len(proposals) : p = proposals[n] /\ p.signed

SameRound(m, n) == /\ proposals[m].event = proposals[n].event
                   /\ proposals[m].iteration = proposals[n].iteration

RoundsFollow ==
  /\ \A p \in Proposals : MadeByQuant(p) => Follows(p)
  /\ \A m, n \in 1..Len(proposals) :
       proposals[m].signed /\ proposals[n].signed /\ SameRound(m, n) => m = n
  /\ qpc \in Drafting => \A n \in 1..Len(proposals) :
       proposals[n].signed /\ proposals[n].event = hand.event
         => proposals[n].iteration # hand.iteration

OneTradeInv == EvaluatedOnce /\ ClearedOnce /\ RoundsFollow

-------------------------------------------------------------------------------
(* Missed once: with fresh ids, whatever restarts. *)

\* Quant starts on a market message once, and again when it has restarted.
FirstRounds(e) == {n \in RoundsOf(e) : proposals[n].iteration = 1}

Starting(e) == qpc \in Drafting /\ hand.event = e /\ hand.iteration = 1

StartsOnce ==
  \A e \in Nat \ {0} :
    Cardinality(FirstRounds(e)) + (IF Starting(e) THEN 1 ELSE 0)
      <= crashes + (IF e <= qcursor.market THEN 1 ELSE 0)

\* The market data injected last, once Quant has published its snapshot.
Current    == marketLog[wipes]
SnapIsHere == \E i \in 1..Len(snapLog) : i > floor.snaps /\ snapLog[i] = Current

SnapshotsPublished ==
  /\ \A n \in 1..Len(proposals) : proposals[n].signed /\ proposals[n].event = wipes => SnapIsHere
  /\ qpc \in {"propose", "sign"} /\ hand.event = wipes => SnapIsHere

\* The snapshots of the last injection that Patriarch has drained are in its cache, and
\* it has drained them when it comes to a proposal that Quant has revised.
SnapshotsDrained ==
  /\ pcursor.snaps <= Len(snapLog)
  /\ \A i \in 1..Len(snapLog) :
       i > floor.snaps /\ i <= pcursor.snaps => snapLog[i] \in cache
  /\ ppc = "proposals" /\ wipes # 0 /\ Evaluated(wipes) => Current \in cache
  /\ ppc \notin {"snapshots", "proposals"} =>
       \A n \in 1..pend :
         proposals[n].event = wipes /\ proposals[n].iteration # 1 => Current \in cache

\* Only first rounds are missed.
FirstsMissed ==
  \A n \in missed : proposals[n].event = wipes /\ wipes # 0 => proposals[n].iteration = 1

SnapshotsInv == SnapshotsPublished /\ SnapshotsDrained /\ FirstsMissed

MissedInv == StartsOnce /\ SnapshotsInv

-------------------------------------------------------------------------------
(* Logs that grow *)

Longer(s, t) == Len(s) <= Len(t) /\ \A n \in 1..Len(s) : t[n] = s[n]

LEMMA GrowsByOne ==
  ASSUME NEW T, NEW s \in Seq(T), NEW e \in T
  PROVE  /\ Append(s, e) \in Seq(T)
         /\ Len(s) \in Nat /\ Len(Append(s, e)) = Len(s) + 1
         /\ \A i \in 1..Len(s) : Append(s, e)[i] = s[i]
         /\ Append(s, e)[Len(s) + 1] = e
OBVIOUS

LEMMA Appended ==
  ASSUME NEW T, NEW s \in Seq(T), NEW e \in T
  PROVE  Longer(s, Append(s, e))
BY GrowsByOne DEF Longer

LEMMA TheSame ==
  ASSUME NEW T, NEW s \in Seq(T)
  PROVE  Longer(s, s) /\ Len(s) \in Nat
BY DEF Longer

LEMMA WiderRange ==
  ASSUME NEW m \in Nat, NEW n \in Nat, m <= n, NEW s \in Seq(1..m)
  PROVE  s \in Seq(1..n)
<1>1. Len(s) \in Nat /\ \A i \in 1..Len(s) : s[i] \in 1..n
  OBVIOUS
<1>2. s = [i \in 1..Len(s) |-> s[i]]
  OBVIOUS
<1> QED
  BY <1>1, <1>2

\* What the types say of the messages.
LEMMA Messages ==
  ASSUME LogTypeOK
  PROVE  /\ Len(marketLog) \in Nat /\ Len(snapLog) \in Nat /\ Len(proposals) \in Nat
         /\ Len(evals) \in Nat /\ Len(clearedLog) \in Nat
         /\ \A i \in 1..Len(marketLog) : marketLog[i] \in Market
         /\ \A i \in 1..Len(snapLog) : snapLog[i] \in Market
         /\ \A i \in 1..Len(proposals) : proposals[i] \in Proposals
         /\ \A i \in 1..Len(evals) : /\ evals[i].id \in ProposalId /\ evals[i].of \in Nat
                                     /\ evals[i].status \in Statuses
         /\ \A i \in 1..Len(clearedLog) : clearedLog[i] \in 1..Len(proposals)
<1>1. Len(marketLog) \in Nat /\ \A i \in 1..Len(marketLog) : marketLog[i] \in Market
  BY DEF LogTypeOK
<1>2. Len(snapLog) \in Nat /\ \A i \in 1..Len(snapLog) : snapLog[i] \in Market
  BY DEF LogTypeOK
<1>3. Len(proposals) \in Nat /\ \A i \in 1..Len(proposals) : proposals[i] \in Proposals
  BY DEF LogTypeOK
<1>4. /\ Len(evals) \in Nat
      /\ \A i \in 1..Len(evals) : evals[i] \in Evaluations
  BY DEF LogTypeOK
<1>5. /\ Len(clearedLog) \in Nat
      /\ \A i \in 1..Len(clearedLog) : clearedLog[i] \in 1..Len(proposals)
  BY DEF LogTypeOK
<1>6. \A e \in Evaluations : e.id \in ProposalId /\ e.of \in Nat /\ e.status \in Statuses
  BY DEF Evaluations
<1> QED
  BY <1>1, <1>2, <1>3, <1>4, <1>5, <1>6

\* A proposal is not the absence of one.
LEMMA NoneIsNone == None \notin Proposals
BY NegotiationAssumption DEF Proposals, Iterations, MaxIterations

-------------------------------------------------------------------------------
(* Type correctness *)

\* Quant's part of the invariant only looks at what Quant changes and at logs that grow.
LEMMA QuantUndisturbed ==
  ASSUME NegotiationInv, UNCHANGED quantVars, Longer(marketLog, marketLog'),
         Longer(evals, evals'), Longer(proposals, proposals')
  PROVE  QuantTypeOK' /\ QuantReads'
<1>1. QuantTypeOK'
  BY DEF NegotiationInv, TypeOK, QuantTypeOK, quantVars
<1>2. /\ qcursor.market \in Nat /\ qend \in Nat /\ Len(marketLog) \in Nat /\ Len(evals) \in Nat
      /\ Len(proposals) \in Nat
  BY Messages DEF NegotiationInv, TypeOK, QuantTypeOK
<1>3. QuantReads'
  <2>1. /\ qcursor' = qcursor /\ qend' = qend /\ qpc' = qpc /\ hand' = hand
    BY DEF quantVars
  <2>2. /\ Len(marketLog) <= Len(marketLog') /\ Len(evals) <= Len(evals')
    BY DEF Longer
  <2>3. QuantReads
    BY DEF NegotiationInv
  <2> QED
    <3>1. /\ qcursor.market <= Len(marketLog')
          /\ qend <= Len(marketLog) => qend <= Len(marketLog')
          /\ qend <= Len(evals) => qend <= Len(evals')
      BY <1>2, <2>2, <2>3 DEF QuantReads
    <3>2. (\E n \in 1..Len(proposals) : proposals[n] = hand)
            => \E n \in 1..Len(proposals') : proposals'[n] = hand
      BY <1>2 DEF Longer
    <3> QED
      BY <2>1, <2>3, <3>1, <3>2 DEF QuantReads
<1> QED
  BY <1>1, <1>3

\* So does Patriarch's.
LEMMA PatriarchUndisturbed ==
  ASSUME NegotiationInv, LogTypeOK', UNCHANGED <<patVars, evals, clearedLog>>,
         Longer(proposals, proposals')
  PROVE  PatriarchTypeOK' /\ PatriarchReads'
<1>1. /\ This \in Nat /\ pend \in Nat /\ Len(proposals) \in Nat /\ Len(proposals') \in Nat
      /\ Len(proposals) <= Len(proposals')
      /\ \A n \in 1..Len(proposals) : n \in 1..Len(proposals') /\ proposals'[n] = proposals[n]
  BY Messages DEF NegotiationInv, TypeOK, PatriarchTypeOK, This, Longer, LogTypeOK
<1>2. PatriarchTypeOK'
  BY <1>1 DEF NegotiationInv, TypeOK, PatriarchTypeOK, patVars, This
<1>3. ppc \in Handling => This \in 1..Len(proposals)
  BY DEF NegotiationInv, TypeOK, PatriarchTypeOK, Handling
<1>4. PatriarchReads'
  <2>1. PatriarchReads /\ UNCHANGED <<patVars, evals, clearedLog>> /\ This' = This
    BY DEF NegotiationInv, patVars, This
  <2>2. /\ pend <= Len(proposals) => pend <= Len(proposals')
        /\ This <= Len(proposals) => This <= Len(proposals')
    BY <1>1
  <2> QED
    BY <1>1, <1>3, <2>1, <2>2 DEF PatriarchReads, patVars
<1> QED
  BY <1>2, <1>4

LEMMA BusUndisturbed ==
  ASSUME NegotiationInv, LogTypeOK', UNCHANGED <<busVars, marketLog>>, Longer(snapLog, snapLog'),
         Longer(proposals, proposals'), Longer(evals, evals')
  PROVE  BusIsWiped'
<1>1. /\ Len(marketLog) \in Nat /\ Len(snapLog) \in Nat /\ Len(proposals) \in Nat /\ Len(evals) \in Nat
      /\ Len(snapLog') \in Nat /\ Len(proposals') \in Nat /\ Len(evals') \in Nat
      /\ Len(snapLog) <= Len(snapLog') /\ Len(proposals) <= Len(proposals')
      /\ Len(evals) <= Len(evals')
  BY Messages DEF NegotiationInv, TypeOK, Longer, LogTypeOK
<1>2. /\ floor.market \in Nat /\ floor.snaps \in Nat /\ floor.proposals \in Nat
      /\ floor.evals \in Nat
  BY DEF NegotiationInv, BusIsWiped
<1> QED
  <2>1. BusIsWiped /\ UNCHANGED <<busVars, marketLog>>
    BY DEF NegotiationInv
  <2>2. /\ floor.snaps <= Len(snapLog) => floor.snaps <= Len(snapLog')
        /\ floor.proposals <= Len(proposals) => floor.proposals <= Len(proposals')
        /\ floor.evals <= Len(evals) => floor.evals <= Len(evals')
    BY <1>1, <1>2
  <2> QED
    BY <2>1, <2>2 DEF BusIsWiped, busVars

LEMMA InitInv == Init => NegotiationInv
<1> SUFFICES ASSUME Init PROVE NegotiationInv
  OBVIOUS
<1>1. Len(<<>>) = 0
  OBVIOUS
<1>2. LogTypeOK
  BY <1>1 DEF Init, LogTypeOK
<1>3. QuantTypeOK
  BY DEF Init, QuantTypeOK, EmptyHistory
<1>4. PatriarchTypeOK
  BY DEF Init, PatriarchTypeOK, Statuses
<1>5. BusIsWiped
  <2>1. /\ wipes = 0 /\ injecting = FALSE /\ marketLog = <<>> /\ snapLog = <<>>
        /\ proposals = <<>> /\ evals = <<>>
    BY DEF Init
  <2>2. /\ floor \in [market : Nat, snaps : Nat, proposals : Nat, evals : Nat, sigs : Nat,
                      cleared : Nat]
        /\ floor.market = 0 /\ floor.snaps = 0 /\ floor.proposals = 0 /\ floor.evals = 0
    BY DEF Init
  <2>3. wipes = IF injecting THEN Len(marketLog) + 1 ELSE Len(marketLog)
    BY <1>1, <2>1
  <2>4. injecting \in BOOLEAN
    BY <2>1
  <2>5. /\ floor.market <= Len(marketLog) /\ floor.snaps <= Len(snapLog)
        /\ floor.proposals <= Len(proposals) /\ floor.evals <= Len(evals)
    BY <1>1, <2>1, <2>2
  <2>6. floor \in [market : Nat, snaps : Nat, proposals : Nat, evals : Nat, sigs : Nat,
                   cleared : Nat]
    BY <2>2
  <2> QED
    BY <2>3, <2>4, <2>5, <2>6 DEF BusIsWiped
<1>6. QuantReads
  BY <1>1 DEF Init, QuantReads
<1>7. PatriarchReads
  BY <1>1 DEF Init, PatriarchReads, This, Handling
<1> QED
  BY <1>2, <1>3, <1>4, <1>5, <1>6, <1>7 DEF Init, NegotiationInv, TypeOK

\* The injector wipes the bus and publishes market data.
LEMMA InjectorInv == NegotiationInv /\ Injector => NegotiationInv'
<1> SUFFICES ASSUME NegotiationInv, Injector PROVE NegotiationInv'
  OBVIOUS
<1>1. UNCHANGED <<snapLog, proposals, evals, sigLog, clearedLog, attacks, quantVars, patVars,
                  faultVars, missed>>
  BY DEF Injector, Wipe, Inject, logs
<1>2. LogTypeOK
  BY DEF NegotiationInv, TypeOK
<1>3. /\ Len(marketLog) \in Nat /\ Len(snapLog) \in Nat /\ Len(proposals) \in Nat
      /\ Len(evals) \in Nat /\ Len(clearedLog) \in Nat /\ Len(sigLog) \in Nat
  BY <1>2, Messages
<1>4. LogTypeOK' /\ Longer(marketLog, marketLog')
  <2>1. CASE Wipe
    <3>1. marketLog' = marketLog
      BY <2>1 DEF Wipe, logs
    <3>2. LogTypeOK'
      BY <1>1, <1>2, <3>1 DEF LogTypeOK
    <3> QED
      BY <1>2, <3>1, <3>2, TheSame DEF LogTypeOK
  <2>2. ASSUME NEW m \in Market, Inject(m) PROVE LogTypeOK' /\ Longer(marketLog, marketLog')
    <3>1. marketLog' = Append(marketLog, m)
      BY <2>2 DEF Inject
    <3>2. marketLog \in Seq(Market)
      BY <1>2 DEF LogTypeOK
    <3>3. marketLog' \in Seq(Market) /\ Longer(marketLog, marketLog')
      BY <3>1, <3>2, GrowsByOne, Appended
    <3> QED
      BY <1>1, <1>2, <3>3 DEF LogTypeOK
  <2> QED
    BY <2>1, <2>2 DEF Injector
<1>5. Longer(evals, evals') /\ Longer(proposals, proposals')
  BY <1>1, <1>2, TheSame DEF LogTypeOK
<1>6. QuantTypeOK' /\ QuantReads'
  BY <1>1, <1>4, <1>5, QuantUndisturbed
<1>7. PatriarchTypeOK' /\ PatriarchReads'
  BY <1>1, <1>4, <1>5, PatriarchUndisturbed
<1>8. BusIsWiped'
  <2>1. CASE Wipe
    <3>1. /\ injecting = FALSE /\ injecting' = TRUE /\ wipes' = wipes + 1
          /\ marketLog' = marketLog
      BY <2>1 DEF Wipe, logs, NegotiationInv, BusIsWiped
    <3>2. floor' = [market |-> Len(marketLog), snaps |-> Len(snapLog),
                    proposals |-> Len(proposals), evals |-> Len(evals),
                    sigs |-> Len(sigLog), cleared |-> Len(clearedLog)]
      BY <2>1 DEF Wipe
    <3>3. /\ floor' \in [market : Nat, snaps : Nat, proposals : Nat, evals : Nat, sigs : Nat,
                         cleared : Nat]
          /\ floor'.market = Len(marketLog) /\ floor'.snaps = Len(snapLog)
          /\ floor'.proposals = Len(proposals) /\ floor'.evals = Len(evals)
      BY <1>3, <3>2
    <3>4. wipes = Len(marketLog)
      BY <3>1 DEF NegotiationInv, BusIsWiped
    <3> QED
      BY <1>1, <1>3, <3>1, <3>3, <3>4 DEF BusIsWiped
  <2>2. ASSUME NEW m \in Market, Inject(m) PROVE BusIsWiped'
    <3>1. /\ injecting = TRUE /\ injecting' = FALSE /\ wipes' = wipes /\ floor' = floor
          /\ Len(marketLog') = Len(marketLog) + 1
      BY <1>2, <2>2, GrowsByOne DEF Inject, NegotiationInv, BusIsWiped, LogTypeOK
    <3>2. wipes = Len(marketLog) + 1
      BY <3>1 DEF NegotiationInv, BusIsWiped
    <3>3. /\ floor.market \in Nat /\ floor.market <= Len(marketLog)
      BY DEF NegotiationInv, BusIsWiped
    <3>4. floor.market <= Len(marketLog')
      BY <1>3, <3>1, <3>3
    <3>5. injecting' \in BOOLEAN
          /\ wipes' = IF injecting' THEN Len(marketLog') + 1 ELSE Len(marketLog')
      BY <3>1, <3>2
    <3> QED
      BY <1>1, <3>1, <3>4, <3>5 DEF BusIsWiped, NegotiationInv
  <2> QED
    BY <2>1, <2>2 DEF Injector
<1> QED
  BY <1>1, <1>4, <1>6, <1>7, <1>8 DEF NegotiationInv, TypeOK, faultVars

\* What is appended to PROPOSALS is a proposal; the messages before it stay.
LEMMA ProposalsGrow ==
  ASSUME LogTypeOK, NEW p \in Proposals, proposals' = Append(proposals, p),
         UNCHANGED <<marketLog, snapLog, evals, clearedLog, attacks, missed>>
  PROVE  /\ LogTypeOK' /\ Longer(proposals, proposals')
         /\ Len(proposals') = Len(proposals) + 1 /\ proposals'[Len(proposals')] = p
<1>1. /\ proposals' \in Seq(Proposals) /\ Longer(proposals, proposals')
      /\ Len(proposals) \in Nat /\ Len(proposals') = Len(proposals) + 1
      /\ proposals'[Len(proposals')] = p
  BY GrowsByOne, Appended DEF LogTypeOK
<1>2. clearedLog \in Seq(1..Len(proposals'))
  BY <1>1, WiderRange DEF LogTypeOK
<1>3. 1..Len(proposals) \subseteq 1..Len(proposals')
  BY <1>1
<1> QED
  BY <1>1, <1>2, <1>3 DEF LogTypeOK

\* Some other writer publishes a proposal.
LEMMA ForeignInv ==
  ASSUME NegotiationInv, NEW p \in ProposalId, NEW m \in Market, ForeignProposal(p, m)
  PROVE  NegotiationInv'
<1>1. UNCHANGED <<marketLog, snapLog, evals, sigLog, clearedLog, attacks, quantVars, patVars,
                  busVars, faultVars, missed>>
  BY DEF ForeignProposal
<1>2. LogTypeOK /\ [id |-> p, market |-> m, iteration |-> 1, event |-> 0, signed |-> FALSE]
                    \in Proposals
  BY DEF NegotiationInv, TypeOK, Proposals, Iterations, MaxIterations
<1>3. LogTypeOK' /\ Longer(proposals, proposals')
  BY <1>1, <1>2, ProposalsGrow DEF ForeignProposal
<1>4. Longer(evals, evals') /\ Longer(marketLog, marketLog') /\ Longer(snapLog, snapLog')
  BY <1>1, <1>2, TheSame DEF LogTypeOK
<1>5. QuantTypeOK' /\ QuantReads'
  BY <1>1, <1>3, <1>4, QuantUndisturbed
<1>6. PatriarchTypeOK' /\ PatriarchReads'
  BY <1>1, <1>3, PatriarchUndisturbed
<1>7. BusIsWiped'
  BY <1>1, <1>3, <1>4, BusUndisturbed
<1> QED
  BY <1>1, <1>3, <1>5, <1>6, <1>7 DEF NegotiationInv, TypeOK, faultVars

\* A step of Quant that publishes nothing.
LEMMA QuantAlone ==
  ASSUME NegotiationInv, UNCHANGED <<logs, patVars, busVars, missed>>, crashes' \in Nat,
         QuantTypeOK', QuantReads'
  PROVE  NegotiationInv'
<1>1. /\ UNCHANGED <<marketLog, snapLog, proposals, evals, sigLog, clearedLog, attacks, missed>>
      /\ LogTypeOK
  BY DEF logs, NegotiationInv, TypeOK
<1>2. LogTypeOK'
  BY <1>1 DEF LogTypeOK
<1>3. Longer(snapLog, snapLog') /\ Longer(proposals, proposals') /\ Longer(evals, evals')
  BY <1>1, TheSame DEF LogTypeOK
<1>4. PatriarchTypeOK' /\ PatriarchReads'
  BY <1>1, <1>2, <1>3, PatriarchUndisturbed
<1>5. BusIsWiped'
  BY <1>1, <1>2, <1>3, BusUndisturbed
<1> QED
  BY <1>2, <1>4, <1>5 DEF NegotiationInv, TypeOK

\* One in which Quant holds nothing before and after.
LEMMA QuantIdles ==
  ASSUME NegotiationInv, UNCHANGED <<logs, patVars, busVars, missed>>, crashes' \in Nat,
         hand' = None, qpc' \in {"market", "analyze", "feedback"}, qend' \in Nat,
         qcursor' \in [market : Nat, evals : Nat], history' \in [ProposalId -> Rounds \cup {None}],
         qcursor'.market <= Len(marketLog),
         qpc' = "analyze" => qend' <= Len(marketLog),
         qpc' = "feedback" => qend' <= Len(evals)
  PROVE  NegotiationInv'
<1>1. QuantTypeOK'
  BY DEF QuantTypeOK
<1>2. UNCHANGED <<marketLog, evals, proposals>>
  BY DEF logs
<1>3. QuantReads'
  BY <1>2 DEF QuantReads
<1> QED
  BY <1>1, <1>3, QuantAlone

\* A cursor that skips what was wiped stays in its topic.
LEMMA AfterType ==
  ASSUME NEW c \in Nat, NEW f \in Nat
  PROVE  /\ After(c, f) \in Nat /\ c <= After(c, f) /\ f <= After(c, f)
         /\ \A l \in Nat : c <= l /\ f <= l => After(c, f) <= l
BY DEF After

\* The facts about Quant that its steps need.
LEMMA QuantFacts ==
  ASSUME NegotiationInv
  PROVE  /\ LogTypeOK /\ crashes \in Nat /\ qend \in Nat
         /\ qcursor \in [market : Nat, evals : Nat]
         /\ qcursor.market \in Nat /\ qcursor.evals \in Nat
         /\ qcursor.market <= Len(marketLog)
         /\ history \in [ProposalId -> Rounds \cup {None}]
         /\ Len(marketLog) \in Nat /\ Len(proposals) \in Nat /\ Len(evals) \in Nat
         /\ Len(snapLog) \in Nat /\ Len(clearedLog) \in Nat
         /\ floor.market \in Nat /\ floor.evals \in Nat
         /\ floor.market <= Len(marketLog) /\ floor.evals <= Len(evals)
         /\ qpc \in {"market", "analyze", "feedback"} => hand = None
         /\ qpc \in {"snapshot", "propose", "sign"} =>
              /\ hand \in Proposals /\ hand # None /\ hand.signed
              /\ hand.id \in ProposalId /\ hand.market \in Market
              /\ hand.iteration \in Iterations /\ hand.event \in Nat
<1>1. hand # None => hand \in Proposals
  BY DEF NegotiationInv, TypeOK, QuantTypeOK
<1>2. \A p \in Proposals : /\ p.id \in ProposalId /\ p.market \in Market
                           /\ p.iteration \in Iterations /\ p.event \in Nat
  BY DEF Proposals
<1>3. /\ Len(marketLog) \in Nat /\ Len(proposals) \in Nat /\ Len(evals) \in Nat
      /\ Len(snapLog) \in Nat /\ Len(clearedLog) \in Nat
  BY Messages DEF NegotiationInv, TypeOK
<1>4. hand # None <=> qpc \in {"snapshot", "propose", "sign"}
  BY DEF NegotiationInv, TypeOK, QuantTypeOK
<1>5. /\ qpc \in {"market", "analyze", "feedback"} => hand = None
      /\ qpc \in {"snapshot", "propose", "sign"} =>
           hand # None /\ hand \in Proposals /\ hand.signed
  BY <1>1, <1>4 DEF NegotiationInv, QuantReads
<1>6. /\ qend \in Nat /\ qcursor \in [market : Nat, evals : Nat]
      /\ history \in [ProposalId -> Rounds \cup {None}]
  BY DEF NegotiationInv, TypeOK, QuantTypeOK
<1>7. /\ floor.market \in Nat /\ floor.evals \in Nat
      /\ floor.market <= Len(marketLog) /\ floor.evals <= Len(evals)
  BY DEF NegotiationInv, BusIsWiped
<1> QED
  BY <1>2, <1>3, <1>5, <1>6, <1>7 DEF NegotiationInv, TypeOK, QuantReads

LEMMA NextIdsType == NextIds \subseteq ProposalId
BY DEF NextIds

\* What Quant drafts for a round.
LEMMA DraftType ==
  ASSUME NEW r \in Rounds, Draft(r)
  PROVE  /\ hand' \in Proposals /\ hand' # None /\ hand'.signed
         /\ hand'.market = r.market /\ hand'.iteration = r.iteration /\ hand'.event = r.event
         /\ hand'.id \in NextIds
<1>1. PICK p \in NextIds : hand' = [id |-> p, market |-> r.market, iteration |-> r.iteration,
                                    event |-> r.event, signed |-> TRUE]
  BY DEF Draft
<1>2. hand' \in Proposals
  BY <1>1, NextIdsType DEF Proposals, Rounds
<1>3. hand'.signed = TRUE
  BY <1>1
<1>4. /\ hand'.market = r.market /\ hand'.iteration = r.iteration /\ hand'.event = r.event
      /\ hand'.id = p
  BY <1>1
<1> QED
  BY <1>2, <1>3, <1>4, NoneIsNone

\* Quant drains a topic, or goes on to the next.
LEMMA QuantDrains ==
  NegotiationInv /\ (DrainMarket \/ DrainFeedback \/ EndQuantPass) => NegotiationInv'
<1> SUFFICES ASSUME NegotiationInv, DrainMarket \/ DrainFeedback \/ EndQuantPass
             PROVE  NegotiationInv'
  OBVIOUS
<1>1. /\ UNCHANGED <<logs, patVars, busVars, missed, crashes, hand, history>>
  BY DEF DrainMarket, DrainFeedback, EndQuantPass, faultVars
<1>2. hand = None
  BY QuantFacts DEF DrainMarket, DrainFeedback, EndQuantPass
<1>3. CASE DrainMarket
  <2>1. /\ qcursor' = [qcursor EXCEPT !.market = After(qcursor.market, floor.market)]
        /\ qend' = Len(marketLog) /\ qpc' = "analyze"
    BY <1>3 DEF DrainMarket
  <2>2. /\ After(qcursor.market, floor.market) \in Nat
        /\ After(qcursor.market, floor.market) <= Len(marketLog)
    BY QuantFacts, AfterType
  <2>3. qcursor' \in [market : Nat, evals : Nat] /\ qcursor'.market <= Len(marketLog)
    BY <2>1, <2>2, QuantFacts
  <2> QED
    BY <1>1, <1>2, <2>1, <2>3, QuantFacts, QuantIdles
<1>4. CASE DrainFeedback
  <2>1. /\ qcursor' = [qcursor EXCEPT !.evals = After(qcursor.evals, floor.evals)]
        /\ qend' = Len(evals) /\ qpc' = "feedback"
    BY <1>4 DEF DrainFeedback
  <2>2. After(qcursor.evals, floor.evals) \in Nat
    BY QuantFacts, AfterType
  <2>3. qcursor' \in [market : Nat, evals : Nat] /\ qcursor'.market = qcursor.market
    BY <2>1, <2>2, QuantFacts
  <2> QED
    BY <1>1, <1>2, <2>1, <2>3, QuantFacts, QuantIdles
<1>5. CASE EndQuantPass
  <2>1. qpc' = "market" /\ qend' = qend /\ qcursor' = qcursor
    BY <1>5 DEF EndQuantPass
  <2> QED
    BY <1>1, <1>2, <2>1, QuantFacts, QuantIdles
<1> QED
  BY <1>3, <1>4, <1>5

\* Quant takes up a market message.
LEMMA AnalyzeInv == NegotiationInv /\ Analyze => NegotiationInv'
<1> SUFFICES ASSUME NegotiationInv, Analyze PROVE NegotiationInv'
  OBVIOUS
<1> DEFINE n == qcursor.market + 1
           r == [market |-> marketLog[n], iteration |-> 1, event |-> n]
<1>1. /\ qpc = "analyze" /\ n <= qend /\ qcursor' = [qcursor EXCEPT !.market = n]
      /\ (Draft(r) /\ qpc' = "snapshot") \/ UNCHANGED <<hand, qpc>>
      /\ UNCHANGED <<logs, patVars, busVars, missed, crashes, qend, history>>
  BY DEF Analyze, faultVars
<1>2. qend <= Len(marketLog) /\ n \in 1..Len(marketLog) /\ hand = None
  <2>1. /\ qcursor.market \in Nat /\ qend \in Nat /\ Len(marketLog) \in Nat
        /\ qpc \in {"market", "analyze", "feedback"} => hand = None
    BY QuantFacts
  <2>2. qpc = "analyze" => qend <= Len(marketLog)
    BY DEF NegotiationInv, QuantReads
  <2> QED
    BY <1>1, <2>1, <2>2
<1>3. /\ qcursor' \in [market : Nat, evals : Nat] /\ qcursor'.market = n
  <2>1. qcursor \in [market : Nat, evals : Nat] /\ n \in Nat
    BY QuantFacts
  <2> QED
    BY <1>1, <2>1
<1>4. CASE UNCHANGED <<hand, qpc>>
  BY <1>1, <1>2, <1>3, <1>4, QuantFacts, QuantIdles
<1>5. CASE Draft(r) /\ qpc' = "snapshot"
  <2>1. r \in Rounds
    BY <1>2, Messages, QuantFacts DEF Rounds, Iterations, MaxIterations
  <2>2. /\ hand' \in Proposals /\ hand' # None /\ hand'.signed /\ hand'.iteration = 1
    BY <1>5, <2>1, DraftType
  <2>3. QuantTypeOK'
    BY <1>1, <1>3, <1>5, <2>2, QuantFacts DEF QuantTypeOK
  <2>4. UNCHANGED <<marketLog, evals, proposals>>
    BY <1>1 DEF logs
  <2>5. QuantReads'
    BY <1>1, <1>2, <1>3, <1>5, <2>2, <2>4 DEF QuantReads
  <2> QED
    BY <1>1, <2>3, <2>5, QuantAlone, QuantFacts
<1> QED
  BY <1>1, <1>4, <1>5

\* Quant reads an evaluation, and revises what it rejects.
LEMMA ReadFeedbackInv == NegotiationInv /\ ReadFeedback => NegotiationInv'
<1> SUFFICES ASSUME NegotiationInv, ReadFeedback PROVE NegotiationInv'
  OBVIOUS
<1> DEFINE n == qcursor.evals + 1
           old == history[evals[n].id]
           r == [old EXCEPT !.iteration = old.iteration + 1]
<1>1. /\ qpc = "feedback" /\ n <= qend /\ qcursor' = [qcursor EXCEPT !.evals = n]
      /\ (Revisable(evals[n]) /\ Draft(r) /\ qpc' = "snapshot") \/ UNCHANGED <<hand, qpc>>
      /\ UNCHANGED <<logs, patVars, busVars, missed, crashes, qend, history>>
  BY DEF ReadFeedback, faultVars
<1>2. qend <= Len(evals) /\ n \in 1..Len(evals) /\ hand = None
  <2>1. /\ qcursor.evals \in Nat /\ qend \in Nat /\ Len(evals) \in Nat
        /\ qpc \in {"market", "analyze", "feedback"} => hand = None
    BY QuantFacts
  <2>2. qpc = "feedback" => qend <= Len(evals)
    BY DEF NegotiationInv, QuantReads
  <2> QED
    BY <1>1, <2>1, <2>2
<1>3. /\ qcursor' \in [market : Nat, evals : Nat] /\ qcursor'.market = qcursor.market
  <2>1. qcursor \in [market : Nat, evals : Nat] /\ n \in Nat
    BY QuantFacts
  <2> QED
    BY <1>1, <2>1
<1>4. CASE UNCHANGED <<hand, qpc>>
  BY <1>1, <1>2, <1>3, <1>4, QuantFacts, QuantIdles
<1>5. CASE Revisable(evals[n]) /\ Draft(r) /\ qpc' = "snapshot"
  <2>1. old \in Rounds /\ old.iteration < MaxIterations
    BY <1>2, <1>5, Messages, QuantFacts DEF Revisable
  <2>2. /\ r \in Rounds /\ r.iteration # 1
    BY <2>1 DEF Rounds, Iterations, MaxIterations
  <2>3. /\ hand' \in Proposals /\ hand' # None /\ hand'.signed /\ hand'.iteration # 1
    BY <1>5, <2>2, DraftType
  <2>4. QuantTypeOK'
    BY <1>1, <1>3, <1>5, <2>3, QuantFacts DEF QuantTypeOK
  <2>5. UNCHANGED <<marketLog, evals, proposals>>
    BY <1>1 DEF logs
  <2>6. QuantReads'
    BY <1>1, <1>2, <1>3, <1>5, <2>3, <2>5, QuantFacts DEF QuantReads
  <2> QED
    BY <1>1, <2>4, <2>6, QuantAlone, QuantFacts
<1> QED
  BY <1>1, <1>4, <1>5

\* Quant publishes the snapshot, the proposal, its signature.
LEMMA PublishSnapshotInv == NegotiationInv /\ PublishSnapshot => NegotiationInv'
<1> SUFFICES ASSUME NegotiationInv, PublishSnapshot PROVE NegotiationInv'
  OBVIOUS
<1>1. /\ qpc = "snapshot" /\ qpc' = "propose" /\ snapLog' = Append(snapLog, hand.market)
      /\ UNCHANGED <<marketLog, proposals, evals, sigLog, clearedLog, attacks, qcursor, qend,
                     hand, history, patVars, busVars, crashes, missed>>
  BY DEF PublishSnapshot, faultVars
<1>2. hand.market \in Market /\ snapLog \in Seq(Market)
  BY <1>1, QuantFacts DEF LogTypeOK
<1>3. snapLog' \in Seq(Market) /\ Longer(snapLog, snapLog')
  BY <1>1, <1>2, GrowsByOne, Appended
<1>4. LogTypeOK'
  BY <1>1, <1>3, QuantFacts DEF LogTypeOK
<1>5. Longer(proposals, proposals') /\ Longer(evals, evals')
  BY <1>1, QuantFacts, TheSame DEF LogTypeOK
<1>6. QuantTypeOK'
  BY <1>1, QuantFacts DEF QuantTypeOK
<1>7. QuantReads'
  BY <1>1, QuantFacts DEF QuantReads, NegotiationInv
<1>8. PatriarchTypeOK' /\ PatriarchReads'
  BY <1>1, <1>4, <1>5, PatriarchUndisturbed
<1>9. BusIsWiped'
  BY <1>1, <1>3, <1>4, <1>5, BusUndisturbed
<1> QED
  BY <1>1, <1>4, <1>6, <1>7, <1>8, <1>9, QuantFacts DEF NegotiationInv, TypeOK

LEMMA PublishProposalInv == NegotiationInv /\ PublishProposal => NegotiationInv'
<1> SUFFICES ASSUME NegotiationInv, PublishProposal PROVE NegotiationInv'
  OBVIOUS
<1>1. /\ qpc = "propose" /\ qpc' = "sign" /\ proposals' = Append(proposals, hand)
      /\ UNCHANGED <<marketLog, snapLog, evals, sigLog, clearedLog, attacks, qcursor, qend,
                     hand, history, patVars, busVars, crashes, missed>>
  BY DEF PublishProposal, faultVars
<1>2. hand \in Proposals /\ LogTypeOK
  BY <1>1, QuantFacts
<1>3. /\ LogTypeOK' /\ Longer(proposals, proposals')
      /\ Len(proposals') = Len(proposals) + 1 /\ proposals'[Len(proposals')] = hand
  BY <1>1, <1>2, ProposalsGrow
<1>4. Longer(snapLog, snapLog') /\ Longer(evals, evals')
  BY <1>1, <1>2, TheSame DEF LogTypeOK
<1>5. QuantTypeOK'
  BY <1>1, QuantFacts DEF QuantTypeOK
<1>6. QuantReads'
  <2>1. Len(proposals') \in 1..Len(proposals')
    BY <1>3, QuantFacts
  <2> QED
    BY <1>1, <1>3, <2>1, QuantFacts DEF QuantReads, NegotiationInv
<1>7. PatriarchTypeOK' /\ PatriarchReads'
  BY <1>1, <1>3, PatriarchUndisturbed
<1>8. BusIsWiped'
  BY <1>1, <1>3, <1>4, BusUndisturbed
<1> QED
  BY <1>1, <1>3, <1>5, <1>6, <1>7, <1>8, QuantFacts DEF NegotiationInv, TypeOK

LEMMA QuantSignInv == NegotiationInv /\ QuantSign => NegotiationInv'
<1> SUFFICES ASSUME NegotiationInv, QuantSign PROVE NegotiationInv'
  OBVIOUS
<1>1. /\ qpc = "sign" /\ hand' = None /\ Record
      /\ qpc' = IF hand.iteration = 1 THEN "analyze" ELSE "feedback"
      /\ UNCHANGED <<marketLog, snapLog, proposals, evals, clearedLog, attacks, qcursor, qend,
                     patVars, busVars, crashes, missed>>
  BY DEF QuantSign, faultVars
<1>2. LogTypeOK' /\ LogTypeOK
  BY <1>1, QuantFacts DEF LogTypeOK
<1>3. Longer(snapLog, snapLog') /\ Longer(proposals, proposals') /\ Longer(evals, evals')
  BY <1>1, <1>2, TheSame DEF LogTypeOK
<1>4. history' \in [ProposalId -> Rounds \cup {None}]
  <2>1. [market |-> hand.market, iteration |-> hand.iteration, event |-> hand.event] \in Rounds
    BY <1>1, QuantFacts DEF Rounds
  <2> QED
    BY <1>1, <2>1, QuantFacts DEF Record
<1>5. QuantTypeOK'
  BY <1>1, <1>4, QuantFacts DEF QuantTypeOK
<1>6. QuantReads'
  BY <1>1, QuantFacts DEF QuantReads, NegotiationInv
<1>7. PatriarchTypeOK' /\ PatriarchReads'
  BY <1>1, <1>2, <1>3, PatriarchUndisturbed
<1>8. BusIsWiped'
  BY <1>1, <1>2, <1>3, BusUndisturbed
<1> QED
  BY <1>1, <1>2, <1>5, <1>6, <1>7, <1>8, QuantFacts DEF NegotiationInv, TypeOK

\* Quant fails, or restarts.
LEMMA QuantFailsInv == NegotiationInv /\ (QuantError \/ QuantCrash) => NegotiationInv'
<1> SUFFICES ASSUME NegotiationInv, QuantError \/ QuantCrash PROVE NegotiationInv'
  OBVIOUS
<1>1. UNCHANGED <<logs, patVars, busVars, missed>> /\ hand' = None /\ qpc' = "market"
  BY DEF QuantError, QuantCrash
<1>2. CASE QuantError
  <2>1. UNCHANGED <<crashes, qend, history>>
    BY <1>2 DEF QuantError
  <2>2. qcursor' \in [market : Nat, evals : Nat] /\ qcursor'.market <= Len(marketLog)
    <3>1. CASE UNCHANGED qcursor
      BY <3>1, QuantFacts
    <3>2. CASE /\ qpc = "analyze" /\ qcursor.market < qend
               /\ qcursor' = [qcursor EXCEPT !.market = @ + 1]
      <4>1. /\ qcursor \in [market : Nat, evals : Nat] /\ qcursor.market \in Nat
            /\ qend \in Nat /\ Len(marketLog) \in Nat
        BY QuantFacts
      <4>2. qend <= Len(marketLog)
        BY <3>2 DEF NegotiationInv, QuantReads
      <4> QED
        BY <3>2, <4>1, <4>2
    <3>3. CASE /\ qpc = "feedback" /\ qcursor.evals < qend
               /\ qcursor' = [qcursor EXCEPT !.evals = @ + 1]
      <4>1. /\ qcursor \in [market : Nat, evals : Nat] /\ qcursor.evals \in Nat
            /\ qcursor.market <= Len(marketLog)
        BY QuantFacts
      <4> QED
        BY <3>3, <4>1
    <3> QED
      BY <1>2, <3>1, <3>2, <3>3 DEF QuantError
  <2> QED
    BY <1>1, <2>1, <2>2, QuantFacts, QuantIdles
<1>3. CASE QuantCrash
  <2>1. /\ crashes' = crashes + 1 /\ qend' = 0 /\ qcursor' = [market |-> 0, evals |-> 0]
        /\ history' = EmptyHistory
    BY <1>3 DEF QuantCrash
  <2>2. /\ history' \in [ProposalId -> Rounds \cup {None}] /\ crashes' \in Nat
        /\ qcursor' \in [market : Nat, evals : Nat] /\ qcursor'.market <= Len(marketLog)
    BY <2>1, QuantFacts DEF EmptyHistory
  <2> QED
    BY <1>1, <2>1, <2>2, QuantIdles
<1> QED
  BY <1>2, <1>3

\* Every step of Quant.
LEMMA QuantInv == NegotiationInv /\ (QuantDaemon \/ QuantError \/ QuantCrash) => NegotiationInv'
BY QuantDrains, AnalyzeInv, PublishSnapshotInv, PublishProposalInv, QuantSignInv,
   ReadFeedbackInv, QuantFailsInv DEF QuantDaemon

\* The facts about Patriarch that its steps need.
LEMMA PatriarchFacts ==
  ASSUME NegotiationInv
  PROVE  /\ LogTypeOK /\ crashes \in Nat /\ pend \in Nat /\ pend <= Len(proposals)
         /\ pcursor \in [snaps : Nat, proposals : Nat]
         /\ pcursor.snaps \in Nat /\ pcursor.proposals \in Nat
         /\ pcursor.proposals <= Len(proposals)
         /\ cache \subseteq Market /\ status \in Statuses
         /\ Len(proposals) \in Nat /\ Len(evals) \in Nat
         /\ Len(snapLog) \in Nat /\ Len(clearedLog) \in Nat
         /\ floor.snaps \in Nat /\ floor.snaps <= Len(snapLog)
         /\ floor.proposals \in Nat /\ floor.proposals <= Len(proposals)
         /\ ppc \in {"simulate", "firewall", "sign", "save", "tell"} =>
              /\ This \in 1..Len(proposals) /\ proposals[This].signed
              /\ proposals[This] \in Proposals /\ proposals[This].id \in ProposalId
<1>1. /\ Len(proposals) \in Nat /\ Len(evals) \in Nat
      /\ Len(snapLog) \in Nat /\ Len(clearedLog) \in Nat
      /\ \A n \in 1..Len(proposals) : proposals[n] \in Proposals
  BY Messages DEF NegotiationInv, TypeOK
<1>2. \A p \in Proposals : p.id \in ProposalId
  BY DEF Proposals
<1>3. /\ floor.snaps \in Nat /\ floor.snaps <= Len(snapLog)
      /\ floor.proposals \in Nat /\ floor.proposals <= Len(proposals)
  BY DEF NegotiationInv, BusIsWiped
<1>4. /\ pend \in Nat /\ pcursor \in [snaps : Nat, proposals : Nat]
      /\ cache \subseteq Market /\ status \in Statuses
      /\ ppc \in {"simulate", "firewall", "sign", "save", "tell"} => This \in 1..Len(proposals)
  BY DEF NegotiationInv, TypeOK, PatriarchTypeOK
<1>5. /\ pend <= Len(proposals) /\ This <= Len(proposals)
      /\ ppc \in {"simulate", "firewall", "sign", "save", "tell"} => proposals[This].signed
  BY DEF NegotiationInv, PatriarchReads, Handling
<1> QED
  BY <1>1, <1>2, <1>3, <1>4, <1>5 DEF NegotiationInv, TypeOK, This

\* A step of Patriarch that publishes no clearance and no evaluation.
LEMMA PatriarchAlone ==
  ASSUME NegotiationInv,
         UNCHANGED <<marketLog, snapLog, proposals, evals, clearedLog, quantVars, busVars>>,
         crashes' \in Nat,
         attacks' \subseteq 1..Len(proposals), missed' \subseteq 1..Len(proposals),
         PatriarchTypeOK', pend' <= Len(proposals), This' <= Len(proposals),
         ppc' \in Handling => proposals[This'].signed,
         ppc' = "sign" => \E i \in 1..Len(clearedLog) : clearedLog[i] = This'
  PROVE  NegotiationInv'
<1>1. LogTypeOK'
  BY DEF NegotiationInv, TypeOK, LogTypeOK
<1>2. /\ Longer(marketLog, marketLog') /\ Longer(snapLog, snapLog')
      /\ Longer(proposals, proposals') /\ Longer(evals, evals')
  BY TheSame DEF NegotiationInv, TypeOK, LogTypeOK
<1>3. QuantTypeOK' /\ QuantReads'
  BY <1>2, QuantUndisturbed
<1>4. BusIsWiped'
  BY <1>1, <1>2, BusUndisturbed
<1>5. PatriarchReads'
  BY DEF NegotiationInv, PatriarchReads
<1> QED
  BY <1>1, <1>3, <1>4, <1>5 DEF NegotiationInv, TypeOK

LEMMA PatriarchDrains ==
  NegotiationInv /\ (DrainSnapshots \/ DrainProposals \/ EndPatriarchPass) => NegotiationInv'
<1> SUFFICES ASSUME NegotiationInv, DrainSnapshots \/ DrainProposals \/ EndPatriarchPass
             PROVE  NegotiationInv'
  OBVIOUS
<1>1. UNCHANGED <<marketLog, snapLog, proposals, evals, clearedLog, attacks, missed, quantVars,
                  busVars, crashes, status>>
  BY DEF DrainSnapshots, DrainProposals, EndPatriarchPass, logs, faultVars
<1>2. attacks' \subseteq 1..Len(proposals) /\ missed' \subseteq 1..Len(proposals)
  BY <1>1 DEF NegotiationInv, TypeOK, LogTypeOK
<1>3. CASE DrainSnapshots
  <2>1. /\ cache' = cache \cup
             {snapLog[i] : i \in (After(pcursor.snaps, floor.snaps) + 1)..Len(snapLog)}
        /\ pcursor' = [pcursor EXCEPT !.snaps = Len(snapLog)] /\ pend' = pend
        /\ ppc' = "proposals"
    BY <1>3 DEF DrainSnapshots
  <2>2. After(pcursor.snaps, floor.snaps) \in Nat
    BY AfterType, PatriarchFacts
  <2>3. cache' \subseteq Market
    <3>1. /\ LogTypeOK /\ cache \subseteq Market /\ Len(snapLog) \in Nat
      BY PatriarchFacts
    <3>2. \A i \in 1..Len(snapLog) : snapLog[i] \in Market
      BY <3>1, Messages
    <3>3. \A i \in (After(pcursor.snaps, floor.snaps) + 1)..Len(snapLog) : i \in 1..Len(snapLog)
      BY <2>2, <3>1
    <3> HIDE DEF After
    <3> QED
      BY <2>1, <3>1, <3>2, <3>3
  <2>4. pcursor' \in [snaps : Nat, proposals : Nat] /\ This' = This
    BY <2>1, PatriarchFacts DEF This
  <2>5. PatriarchTypeOK'
    BY <1>1, <2>1, <2>3, <2>4, PatriarchFacts DEF PatriarchTypeOK
  <2> QED
    BY <1>1, <1>2, <2>1, <2>4, <2>5, PatriarchFacts, PatriarchAlone DEF Handling, This
<1>4. CASE DrainProposals
  <2>1. /\ pcursor' = [pcursor EXCEPT !.proposals = After(pcursor.proposals, floor.proposals)]
        /\ pend' = Len(proposals) /\ ppc' = "next" /\ cache' = cache
    BY <1>4 DEF DrainProposals
  <2>2. /\ After(pcursor.proposals, floor.proposals) \in Nat
        /\ After(pcursor.proposals, floor.proposals) <= Len(proposals)
    BY AfterType, PatriarchFacts
  <2>3. pcursor' \in [snaps : Nat, proposals : Nat] /\ This' <= Len(proposals)
    BY <2>1, <2>2, PatriarchFacts DEF This
  <2>4. PatriarchTypeOK'
    BY <1>1, <2>1, <2>3, PatriarchFacts DEF PatriarchTypeOK
  <2> QED
    BY <1>1, <1>2, <2>1, <2>3, <2>4, PatriarchFacts, PatriarchAlone DEF Handling
<1>5. CASE EndPatriarchPass
  <2>1. /\ pcursor' = pcursor /\ This' = This /\ pend' = pend /\ ppc' = "snapshots"
        /\ cache' = cache
    BY <1>5 DEF EndPatriarchPass, This
  <2>2. PatriarchTypeOK'
    BY <1>1, <2>1, PatriarchFacts DEF PatriarchTypeOK
  <2> QED
    BY <1>1, <1>2, <2>1, <2>2, PatriarchFacts, PatriarchAlone DEF Handling, This
<1> QED
  BY <1>3, <1>4, <1>5

\* Taking up a proposal.
LEMMA TakeNextFacts ==
  ASSUME NegotiationInv, TakeNext
  PROVE  /\ ppc = "next" /\ This' = This + 1 /\ This' \in 1..Len(proposals) /\ This' <= pend
         /\ pcursor' \in [snaps : Nat, proposals : Nat] /\ pcursor'.snaps = pcursor.snaps
<1>1. /\ pcursor \in [snaps : Nat, proposals : Nat] /\ pcursor.proposals \in Nat
      /\ pend \in Nat /\ pend <= Len(proposals) /\ Len(proposals) \in Nat
  BY PatriarchFacts
<1>2. /\ ppc = "next" /\ pcursor.proposals < pend
      /\ pcursor' = [pcursor EXCEPT !.proposals = @ + 1]
  BY DEF TakeNext, This
<1>3. /\ pcursor'.proposals = pcursor.proposals + 1 /\ pcursor'.snaps = pcursor.snaps
      /\ pcursor' \in [snaps : Nat, proposals : Nat]
  BY <1>1, <1>2
<1> QED
  BY <1>1, <1>2, <1>3 DEF This

LEMMA TakesUp ==
  NegotiationInv /\ (RejectUnsigned \/ Review) => NegotiationInv'
<1> SUFFICES ASSUME NegotiationInv, RejectUnsigned \/ Review PROVE NegotiationInv'
  OBVIOUS
<1>1. /\ UNCHANGED <<marketLog, snapLog, proposals, evals, clearedLog, quantVars, busVars, crashes,
                     pend, cache>>
      /\ TakeNext
  BY DEF RejectUnsigned, Review, logs, faultVars
<1>2. /\ attacks \subseteq 1..Len(proposals) /\ missed \subseteq 1..Len(proposals)
  BY DEF NegotiationInv, TypeOK, LogTypeOK
<1>3. /\ ppc = "next" /\ This' \in 1..Len(proposals) /\ This' <= Len(proposals)
      /\ pcursor' \in [snaps : Nat, proposals : Nat]
  BY <1>1, TakeNextFacts, PatriarchFacts
<1>4. CASE RejectUnsigned
  <2>1. attacks' = attacks \cup {This'} /\ missed' = missed /\ ppc' = ppc /\ status' = status
    BY <1>4 DEF RejectUnsigned
  <2>2. PatriarchTypeOK'
    BY <1>1, <1>3, <2>1, PatriarchFacts DEF PatriarchTypeOK
  <2> QED
    BY <1>1, <1>2, <1>3, <2>1, <2>2, PatriarchFacts, PatriarchAlone DEF Handling
<1>5. CASE Review
  <2>1. /\ attacks' = attacks /\ missed' \in {missed, missed \cup {This'}}
        /\ ppc' \in {"simulate", "tell"} /\ status' \in Statuses /\ proposals[This'].signed
    BY <1>1, <1>5 DEF Review, logs, Reviewed, Statuses, SignatureOK
  <2>2. PatriarchTypeOK'
    BY <1>1, <1>3, <2>1, PatriarchFacts DEF PatriarchTypeOK
  <2> QED
    BY <1>1, <1>2, <1>3, <2>1, <2>2, PatriarchFacts, PatriarchAlone DEF Handling
<1> QED
  BY <1>4, <1>5

\* The steps between the review and the answer that clear nothing.
LEMMA Handles ==
  NegotiationInv /\ (Simulate \/ FirewallRejects \/ PatriarchSign \/ SaveDecision)
    => NegotiationInv'
<1> SUFFICES ASSUME NegotiationInv, Simulate \/ FirewallRejects \/ PatriarchSign \/ SaveDecision
             PROVE  NegotiationInv'
  OBVIOUS
<1>1. /\ UNCHANGED <<marketLog, snapLog, proposals, evals, clearedLog, quantVars, busVars, crashes,
                     pcursor, pend, cache, missed>>
      /\ ppc \in {"simulate", "firewall", "sign", "save"}
      /\ ppc' \in {"firewall", "save", "tell"}
      /\ attacks' \in {attacks, attacks \cup {This}} /\ status' \in {status, "REJECTED"}
  BY DEF Simulate, FirewallRejects, PatriarchSign, SaveDecision, faultVars
<1>2. /\ attacks' \subseteq 1..Len(proposals) /\ missed' \subseteq 1..Len(proposals)
      /\ This' = This /\ This \in 1..Len(proposals) /\ proposals[This].signed
  BY <1>1, PatriarchFacts DEF NegotiationInv, TypeOK, LogTypeOK, This
<1>3. PatriarchTypeOK'
  BY <1>1, <1>2, PatriarchFacts DEF PatriarchTypeOK, Statuses
<1> QED
  BY <1>1, <1>2, <1>3, PatriarchFacts, PatriarchAlone

\* Patriarch clears a proposal.
LEMMA ClearInv == NegotiationInv /\ Clear => NegotiationInv'
<1> SUFFICES ASSUME NegotiationInv, Clear PROVE NegotiationInv'
  OBVIOUS
<1>1. /\ UNCHANGED <<marketLog, snapLog, proposals, evals, sigLog, attacks, quantVars, busVars,
                     crashes, pcursor, pend, cache, status, missed>>
      /\ ppc = "firewall" /\ ppc' = "sign" /\ clearedLog' = Append(clearedLog, This)
  BY DEF Clear, faultVars
<1>2. This' = This /\ This \in 1..Len(proposals) /\ proposals[This].signed
  BY <1>1, PatriarchFacts DEF This
<1>3. /\ clearedLog' \in Seq(1..Len(proposals)) /\ Len(clearedLog') = Len(clearedLog) + 1
      /\ clearedLog'[Len(clearedLog) + 1] = This
  BY <1>1, <1>2, PatriarchFacts, GrowsByOne DEF LogTypeOK
<1>4. LogTypeOK'
  BY <1>1, <1>3, PatriarchFacts DEF LogTypeOK
<1>5. /\ Longer(marketLog, marketLog') /\ Longer(snapLog, snapLog')
      /\ Longer(proposals, proposals') /\ Longer(evals, evals')
  BY <1>1, PatriarchFacts, TheSame DEF LogTypeOK
<1>6. QuantTypeOK' /\ QuantReads'
  BY <1>1, <1>5, QuantUndisturbed
<1>7. BusIsWiped'
  BY <1>1, <1>4, <1>5, BusUndisturbed
<1>8. PatriarchTypeOK'
  BY <1>1, <1>2, PatriarchFacts DEF PatriarchTypeOK
<1>9. PatriarchReads'
  <2>1. Len(clearedLog) + 1 \in 1..Len(clearedLog')
    BY <1>3, PatriarchFacts
  <2> QED
    BY <1>1, <1>2, <1>3, <2>1 DEF NegotiationInv, PatriarchReads
<1> QED
  BY <1>1, <1>4, <1>6, <1>7, <1>8, <1>9 DEF NegotiationInv, TypeOK

\* Patriarch answers.
LEMMA TellInv == NegotiationInv /\ Tell => NegotiationInv'
<1> SUFFICES ASSUME NegotiationInv, Tell PROVE NegotiationInv'
  OBVIOUS
<1> DEFINE e == [id |-> proposals[This].id, status |-> status, of |-> This]
<1>1. /\ UNCHANGED <<marketLog, snapLog, proposals, sigLog, clearedLog, attacks, quantVars, busVars,
                     crashes, pcursor, pend, cache, status, missed>>
      /\ ppc = "tell" /\ ppc' = "next" /\ evals' = Append(evals, e)
  BY DEF Tell, faultVars
<1>2. /\ This' = This /\ This \in 1..Len(proposals) /\ proposals[This].signed
      /\ e \in Evaluations /\ e.of = This /\ e.id = proposals[This].id
  BY <1>1, PatriarchFacts DEF This, Evaluations
<1> HIDE DEF e
<1>3. /\ evals' \in Seq(Evaluations) /\ Len(evals') = Len(evals) + 1
      /\ Longer(evals, evals') /\ evals'[Len(evals) + 1] = e
  BY <1>1, <1>2, PatriarchFacts, GrowsByOne, Appended DEF LogTypeOK
<1>4. LogTypeOK'
  BY <1>1, <1>3, PatriarchFacts DEF LogTypeOK
<1>5. /\ Longer(marketLog, marketLog') /\ Longer(snapLog, snapLog')
      /\ Longer(proposals, proposals')
  BY <1>1, PatriarchFacts, TheSame DEF LogTypeOK
<1>6. QuantTypeOK' /\ QuantReads'
  BY <1>1, <1>3, <1>5, QuantUndisturbed
<1>7. BusIsWiped'
  BY <1>1, <1>3, <1>4, <1>5, BusUndisturbed
<1>8. PatriarchTypeOK'
  BY <1>1, <1>2, PatriarchFacts DEF PatriarchTypeOK
<1>9. PatriarchReads'
  <2>1. \A i \in 1..Len(evals') : evals'[i] = e \/ (i \in 1..Len(evals) /\ evals'[i] = evals[i])
    <3>1. Len(evals) \in Nat
      BY PatriarchFacts
    <3> SUFFICES ASSUME NEW i \in 1..Len(evals')
                 PROVE  evals'[i] = e \/ (i \in 1..Len(evals) /\ evals'[i] = evals[i])
      OBVIOUS
    <3>2. CASE i \in 1..Len(evals)
      BY <1>3, <3>2 DEF Longer
    <3>3. CASE i = Len(evals) + 1
      BY <1>3, <3>3
    <3> QED
      BY <1>3, <3>1, <3>2, <3>3
  <2> QED
    BY <1>1, <1>2, <2>1 DEF NegotiationInv, PatriarchReads, Handling
<1> QED
  BY <1>1, <1>4, <1>6, <1>7, <1>8, <1>9, PatriarchFacts DEF NegotiationInv, TypeOK

\* Patriarch fails, or restarts.
LEMMA PatriarchFailsInv ==
  NegotiationInv /\ (PatriarchError \/ PatriarchCrash) => NegotiationInv'
<1> SUFFICES ASSUME NegotiationInv, PatriarchError \/ PatriarchCrash PROVE NegotiationInv'
  OBVIOUS
<1>1. /\ UNCHANGED <<marketLog, snapLog, proposals, evals, sigLog, clearedLog, attacks, quantVars,
                     busVars, missed>>
      /\ ppc' = "snapshots"
  BY DEF PatriarchError, PatriarchCrash, logs
<1>2. /\ attacks' \subseteq 1..Len(proposals) /\ missed' \subseteq 1..Len(proposals)
  BY <1>1 DEF NegotiationInv, TypeOK, LogTypeOK
<1>3. CASE PatriarchError
  <2>1. UNCHANGED <<crashes, pend, cache, status>>
    BY <1>3 DEF PatriarchError
  <2>2. pcursor' \in [snaps : Nat, proposals : Nat] /\ This' <= Len(proposals)
    <3>1. CASE TakeNext
      BY <3>1, TakeNextFacts, PatriarchFacts
    <3>2. CASE UNCHANGED pcursor
      BY <3>2, PatriarchFacts DEF This
    <3> QED
      BY <1>3, <3>1, <3>2 DEF PatriarchError
  <2>3. PatriarchTypeOK'
    BY <1>1, <2>1, <2>2, PatriarchFacts DEF PatriarchTypeOK
  <2> QED
    BY <1>1, <1>2, <2>1, <2>2, <2>3, PatriarchFacts, PatriarchAlone DEF Handling
<1>4. CASE PatriarchCrash
  <2>1. /\ pend' = 0 /\ cache' = {} /\ status' = "REJECTED" /\ crashes' = crashes + 1
        /\ pcursor' = [snaps |-> 0, proposals |-> 0]
    BY <1>4 DEF PatriarchCrash
  <2>2. /\ pcursor' \in [snaps : Nat, proposals : Nat] /\ This' <= Len(proposals)
        /\ crashes' \in Nat /\ pend' <= Len(proposals)
    BY <2>1, PatriarchFacts DEF This
  <2>3. PatriarchTypeOK'
    BY <1>1, <2>1, <2>2 DEF PatriarchTypeOK, Statuses
  <2> QED
    BY <1>1, <1>2, <2>1, <2>2, <2>3, PatriarchAlone DEF Handling
<1> QED
  BY <1>3, <1>4

\* Every step of Patriarch.
LEMMA PatriarchInv ==
  NegotiationInv /\ (PatriarchDaemon \/ PatriarchError \/ PatriarchCrash) => NegotiationInv'
BY PatriarchDrains, TakesUp, Handles, ClearInv, TellInv, PatriarchFailsInv DEF PatriarchDaemon

LEMMA NextInv == NegotiationInv /\ [Next]_vars => NegotiationInv'
<1> SUFFICES ASSUME NegotiationInv, [Next]_vars PROVE NegotiationInv'
  OBVIOUS
<1>1. CASE UNCHANGED vars
  <2>1. UNCHANGED <<logs, patVars, quantVars, busVars, faultVars, missed>>
    BY <1>1 DEF vars
  <2>2. UNCHANGED <<marketLog, evals, proposals, crashes>>
    BY <2>1 DEF logs, faultVars
  <2>3. Longer(marketLog, marketLog') /\ Longer(evals, evals') /\ Longer(proposals, proposals')
    BY <2>2, TheSame DEF NegotiationInv, TypeOK, LogTypeOK
  <2>4. QuantTypeOK' /\ QuantReads'
    BY <2>1, <2>3, QuantUndisturbed
  <2> QED
    BY <2>1, <2>2, <2>4, QuantAlone, QuantFacts
<1>2. ASSUME NEW p \in ProposalId, NEW m \in Market, ForeignProposal(p, m) PROVE NegotiationInv'
  BY <1>2, ForeignInv
<1> QED
  BY <1>1, <1>2, InjectorInv, QuantInv, PatriarchInv DEF Next

\* NegotiationInv is an invariant.
LEMMA Negotiates == Spec => []NegotiationInv
BY InitInv, NextInv, PTL DEF Spec

\* A daemon holds a message exactly while it handles one, whatever fails and restarts, and
\* what is cleared, missed or reported is on the bus (quant_process.py, lines 52-145;
\* patriarch_process.py, lines 73-304).
THEOREM NegotiationTypeCorrect == Spec => []TypeOK
BY Negotiates, PTL DEF NegotiationInv

-------------------------------------------------------------------------------
(* The publishers Settlement assumes *)

LEMMA SameCardinality == \A X : S!Cardinality(X) = Cardinality(X)
BY DEF S!Cardinality, Cardinality

LEMMA IntervalSize ==
  ASSUME NEW k \in Nat
  PROVE  IsFiniteSet(1..k) /\ Cardinality(1..k) = k
<1>1. 1 \in Int /\ k \in Int
  OBVIOUS
<1>2. IsFiniteSet(1..k) /\ Cardinality(1..k) = IF 1 > k THEN 0 ELSE k - 1 + 1
  BY <1>1, FS_Interval
<1> QED
  BY <1>2

\* Of what Quant has signed Settlement sees as many proposals as there are at most.
LEMMA OrdersBounded ==
  ASSUME LogTypeOK
  PROVE  IsFiniteSet(draftsBar) /\ Cardinality(draftsBar) <= Len(proposals)
<1> DEFINE D == {i \in 1..Len(proposals) : proposals[i].signed}
           f == [i \in D |-> OrderOf(proposals[i])]
<1>1. Len(proposals) \in Nat
  BY Messages
<1>2. /\ IsFiniteSet(1..Len(proposals)) /\ Cardinality(1..Len(proposals)) = Len(proposals)
  BY <1>1, IntervalSize
<1>3. /\ IsFiniteSet(D) /\ Cardinality(D) <= Len(proposals)
  BY <1>2, FS_Subset
<1>4. f \in Surjection(D, draftsBar)
  BY DEF Surjection, draftsBar
<1>5. IsFiniteSet(draftsBar) /\ Cardinality(draftsBar) <= Cardinality(D)
  <2> HIDE DEF f, D
  <2> QED
    BY <1>3, <1>4, FS_Surjection
<1>6. Cardinality(D) \in Nat /\ Cardinality(draftsBar) \in Nat
  BY <1>3, <1>5, FS_CardinalityType
<1> QED
  BY <1>1, <1>3, <1>5, <1>6

LEMMA IsSeen ==
  ASSUME NEW n \in 1..Len(proposals), proposals[n].signed
  PROVE  OrderOf(proposals[n]) \in draftsBar
BY DEF draftsBar

\* A proposal that has been published is seen, and what is published after it does not
\* change how it is seen.
LEMMA ProposalsSeen ==
  ASSUME NegotiationInv, NEW p \in Proposals, proposals' = Append(proposals, p),
         UNCHANGED <<clearedLog, evals>>
  PROVE  /\ draftsBar' = IF p.signed THEN draftsBar \cup {OrderOf(p)} ELSE draftsBar
         /\ clearedBar' = clearedBar
<1>1. /\ Len(proposals) \in Nat /\ Len(proposals') = Len(proposals) + 1
      /\ \A n \in 1..Len(proposals) : proposals'[n] = proposals[n]
      /\ proposals'[Len(proposals) + 1] = p
  BY GrowsByOne, QuantFacts DEF LogTypeOK
<1>2. \A i \in 1..Len(clearedLog) : clearedLog[i] \in 1..Len(proposals)
  BY Messages, QuantFacts
<1>3. clearedBar' = clearedBar
  BY <1>1, <1>2 DEF clearedBar, OrderOf
<1>4. 1..Len(proposals') = 1..Len(proposals) \cup {Len(proposals) + 1}
  BY <1>1
<1>5. ASSUME NEW d \in draftsBar' PROVE d \in draftsBar \/ (p.signed /\ d = OrderOf(p))
  <2>1. PICK n \in 1..Len(proposals') : proposals'[n].signed /\ d = OrderOf(proposals'[n])
    BY DEF draftsBar, OrderOf
  <2>2. CASE n \in 1..Len(proposals)
    <3>1. proposals[n].signed /\ d = OrderOf(proposals[n])
      BY <1>1, <2>1, <2>2
    <3> QED
      BY <2>2, <3>1, IsSeen
  <2>3. CASE n = Len(proposals) + 1
    <3>1. proposals'[n] = p
      BY <1>1, <2>3
    <3> QED
      BY <2>1, <3>1, Zenon
  <2> QED
    BY <1>4, <2>2, <2>3
<1>6. ASSUME NEW d \in draftsBar PROVE d \in draftsBar'
  <2>1. PICK n \in 1..Len(proposals) : proposals[n].signed /\ d = OrderOf(proposals[n])
    BY DEF draftsBar
  <2>2. n \in 1..Len(proposals') /\ proposals'[n].signed /\ d = OrderOf(proposals'[n])
    BY <1>1, <1>4, <2>1
  <2> QED
    BY <2>2 DEF draftsBar, OrderOf
<1>7. p.signed => OrderOf(p) \in draftsBar'
  <2>1. Len(proposals) + 1 \in 1..Len(proposals')
    BY <1>1
  <2> QED
    BY <1>1, <2>1 DEF draftsBar, OrderOf
<1> QED
  BY <1>3, <1>5, <1>6, <1>7

\* A step that leaves what Settlement sees alone, or is the one Settlement assumes.
LEMMA Unseen ==
  ASSUME UNCHANGED <<draftsBar, sigLog, clearedBar, floor, wipes>>
  PROVE  [S!Publishers]_(S!busVars)
BY DEF S!busVars

LEMMA ClearedSeen ==
  ASSUME LogTypeOK
  PROVE  /\ clearedBar \in Seq({OrderOf(proposals[n]) : n \in 1..Len(proposals)})
         /\ Len(clearedBar) = Len(clearedLog)
<1>1. Len(clearedLog) \in Nat /\ \A i \in 1..Len(clearedLog) : clearedLog[i] \in 1..Len(proposals)
  BY Messages
<1> QED
  BY <1>1 DEF clearedBar

LEMMA QuantIsAPublisher ==
  NegotiationInv /\ (PublishProposal \/ QuantSign) => [S!Publishers]_(S!busVars)
<1> SUFFICES ASSUME NegotiationInv, PublishProposal \/ QuantSign
             PROVE  [S!Publishers]_(S!busVars)
  OBVIOUS
<1>1. CASE PublishProposal
  <2>1. /\ qpc = "propose" /\ Len(proposals) < MaxProposals /\ proposals' = Append(proposals, hand)
        /\ UNCHANGED <<evals, sigLog, clearedLog, floor, wipes>>
    BY <1>1 DEF PublishProposal, busVars
  <2>2. hand \in Proposals /\ hand.signed /\ hand.id \in ProposalId
        /\ [market |-> hand.market, iteration |-> hand.iteration]
             \in [market : Market, iteration : Iterations]
    BY <2>1, QuantFacts
  <2>3. draftsBar' = draftsBar \cup {OrderOf(hand)} /\ clearedBar' = clearedBar
    BY <2>1, <2>2, ProposalsSeen
  <2>4. Cardinality(draftsBar) < MaxProposals
    <3>1. Cardinality(draftsBar) \in Nat
      BY QuantFacts, OrdersBounded, FS_CardinalityType
    <3> QED
      <4>1. Cardinality(draftsBar) <= Len(proposals)
        BY QuantFacts, OrdersBounded
      <4>2. Len(proposals) \in Nat /\ Len(proposals) < MaxProposals /\ MaxProposals \in Nat
        BY <2>1, QuantFacts, NegotiationAssumption
      <4> QED
        BY <3>1, <4>1, <4>2
  <2>5. S!QuantPropose(hand.id, [market |-> hand.market, iteration |-> hand.iteration])
    <3>1. Len(<<>>) = 0
      OBVIOUS
    <3> QED
      BY <2>1, <2>3, <2>4, <3>1, SameCardinality DEF S!QuantPropose, S!SafeNonce, OrderOf, S!p3Vars, S!diskVars,
         S!chainVars
  <2> QED
    BY <2>2, <2>5 DEF S!Publishers
<1>2. CASE QuantSign
  <2>1. /\ qpc = "sign" /\ Len(sigLog) < MaxSignatures
        /\ sigLog' = Append(sigLog, SignatureOf(hand, Quant))
        /\ UNCHANGED <<proposals, clearedLog, floor, wipes>>
    BY <1>2 DEF QuantSign, busVars
  <2>2. PICK n \in 1..Len(proposals) : proposals[n] = hand
    BY <2>1 DEF NegotiationInv, QuantReads
  <2>3. OrderOf(hand) \in draftsBar
    BY <2>1, <2>2, QuantFacts DEF draftsBar
  <2>4. draftsBar' = draftsBar /\ clearedBar' = clearedBar
    BY <2>1 DEF draftsBar, clearedBar, OrderOf
  <2>5. S!Signature(OrderOf(hand), Quant) = SignatureOf(hand, Quant)
    BY DEF S!Signature, S!SafeTxHash, S!TxHash, SignatureOf, OrderOf, HashOf
  <2>6. S!QuantSign(OrderOf(hand))
    BY <2>1, <2>4, <2>5 DEF S!QuantSign, S!PublishSignature, S!p3Vars, S!diskVars, S!chainVars
  <2> QED
    BY <2>3, <2>6 DEF S!Publishers
<1> QED
  BY <1>1, <1>2

LEMMA PatriarchIsAPublisher ==
  NegotiationInv /\ (Clear \/ PatriarchSign) => [S!Publishers]_(S!busVars)
<1> SUFFICES ASSUME NegotiationInv, Clear \/ PatriarchSign
             PROVE  [S!Publishers]_(S!busVars)
  OBVIOUS
<1>1. /\ ppc \in {"firewall", "sign"} /\ UNCHANGED <<proposals, floor, wipes>>
  BY DEF Clear, PatriarchSign, busVars
<1>2. This \in 1..Len(proposals) /\ OrderOf(proposals[This]) \in draftsBar
  BY <1>1, PatriarchFacts DEF draftsBar
<1>3. draftsBar' = draftsBar
  BY <1>1 DEF draftsBar, OrderOf
<1>4. Len(clearedBar) = Len(clearedLog)
  BY PatriarchFacts, ClearedSeen
<1>5. CASE Clear
  <2>1. /\ Len(clearedLog) < MaxClearances /\ clearedLog' = Append(clearedLog, This)
        /\ sigLog' = sigLog
    BY <1>5 DEF Clear
  <2>2. /\ Len(clearedLog) \in Nat /\ Len(clearedLog') = Len(clearedLog) + 1
        /\ \A i \in 1..Len(clearedLog) : clearedLog'[i] = clearedLog[i]
        /\ clearedLog'[Len(clearedLog) + 1] = This
    BY <1>2, <2>1, PatriarchFacts, GrowsByOne DEF LogTypeOK
  <2>3. clearedBar' = Append(clearedBar, OrderOf(proposals[This]))
    <3>1. \A i \in 1..Len(clearedLog) : clearedLog[i] \in 1..Len(proposals)
      BY Messages, PatriarchFacts
    <3>2. clearedBar' = [i \in 1..(Len(clearedLog) + 1) |-> OrderOf(proposals[clearedLog'[i]])]
      BY <1>1, <2>2 DEF clearedBar, OrderOf
    <3>3. Append(clearedBar, OrderOf(proposals[This])) =
            [i \in 1..(Len(clearedLog) + 1) |->
               IF i = Len(clearedLog) + 1 THEN OrderOf(proposals[This]) ELSE clearedBar[i]]
      <4>1. clearedBar \in Seq({OrderOf(proposals[k]) : k \in 1..Len(proposals)}) /\ Len(clearedBar) = Len(clearedLog)
        BY <1>4, ClearedSeen, PatriarchFacts
      <4> QED
        BY <2>2, <4>1
    <3> QED
      BY <2>2, <3>2, <3>3 DEF clearedBar
  <2>4. S!PatriarchClear(OrderOf(proposals[This]))
    BY <1>1, <1>3, <1>4, <2>1, <2>3 DEF S!PatriarchClear, S!p3Vars, S!diskVars, S!chainVars
  <2> QED
    BY <1>2, <2>4 DEF S!Publishers
<1>6. CASE PatriarchSign
  <2>1. /\ ppc = "sign" /\ Len(sigLog) < MaxSignatures /\ clearedLog' = clearedLog
        /\ sigLog' = Append(sigLog, SignatureOf(proposals[This], Patriarch))
    BY <1>6 DEF PatriarchSign
  <2>2. clearedBar' = clearedBar
    BY <1>1, <2>1 DEF clearedBar, OrderOf
  <2>3. PICK i \in 1..Len(clearedLog) : clearedLog[i] = This
    BY <2>1 DEF NegotiationInv, PatriarchReads
  <2>4. i \in 1..Len(clearedBar) /\ clearedBar[i] = OrderOf(proposals[This])
    BY <1>4, <2>3 DEF clearedBar
  <2>5. S!Signature(OrderOf(proposals[This]), Patriarch) = SignatureOf(proposals[This], Patriarch)
    BY DEF S!Signature, S!SafeTxHash, S!TxHash, SignatureOf, OrderOf, HashOf
  <2>6. S!PatriarchSign(OrderOf(proposals[This]))
    BY <1>1, <1>3, <2>1, <2>2, <2>4, <2>5
       DEF S!PatriarchSign, S!PublishSignature, S!p3Vars, S!diskVars, S!chainVars
  <2> QED
    BY <1>2, <2>6 DEF S!Publishers
<1> QED
  BY <1>5, <1>6

LEMMA WipeIsSeen == NegotiationInv /\ Wipe => [S!Publishers]_(S!busVars)
<1> SUFFICES ASSUME NegotiationInv, Wipe PROVE [S!Publishers]_(S!busVars)
  OBVIOUS
<1>1. /\ Len(marketLog) < MaxMarket /\ wipes' = wipes + 1 /\ injecting = FALSE
      /\ UNCHANGED <<proposals, clearedLog, sigLog>>
      /\ floor'.sigs = Len(sigLog) /\ floor'.cleared = Len(clearedLog)
  BY DEF Wipe, logs, NegotiationInv, BusIsWiped
<1>2. wipes = Len(marketLog)
  BY <1>1 DEF NegotiationInv, BusIsWiped
<1>3. draftsBar' = draftsBar /\ clearedBar' = clearedBar
  BY <1>1 DEF draftsBar, clearedBar, OrderOf
<1>4. Len(clearedBar) = Len(clearedLog)
  BY PatriarchFacts, ClearedSeen
<1>5. S!ClearNetwork
  BY <1>1, <1>2, <1>3, <1>4 DEF S!ClearNetwork, S!p3Vars, S!diskVars, S!chainVars
<1> QED
  BY <1>5 DEF S!Publishers

\* No other step is seen.
LEMMA OthersAreUnseen ==
  ASSUME NegotiationInv, UNCHANGED <<proposals, sigLog, clearedLog, floor, wipes>>
  PROVE  [S!Publishers]_(S!busVars)
<1>1. draftsBar' = draftsBar /\ clearedBar' = clearedBar
  BY DEF draftsBar, clearedBar, OrderOf
<1> QED
  BY <1>1, Unseen

LEMMA StepsAreSeen == NegotiationInv /\ [Next]_vars => [S!Publishers]_(S!busVars)
<1> SUFFICES ASSUME NegotiationInv, [Next]_vars PROVE [S!Publishers]_(S!busVars)
  OBVIOUS
<1>1. CASE UNCHANGED vars
  BY <1>1, OthersAreUnseen DEF vars, logs, busVars
<1>2. CASE \E m \in Market : Inject(m)
  BY <1>2, OthersAreUnseen DEF Inject
<1>3. ASSUME NEW p \in ProposalId, NEW m \in Market, ForeignProposal(p, m)
      PROVE  [S!Publishers]_(S!busVars)
  <2> DEFINE f == [id |-> p, market |-> m, iteration |-> 1, event |-> 0, signed |-> FALSE]
  <2>1. /\ proposals' = Append(proposals, f)
        /\ UNCHANGED <<evals, sigLog, clearedLog, floor, wipes>>
    BY <1>3 DEF ForeignProposal, busVars
  <2>2. f \in Proposals /\ f.signed = FALSE
    BY DEF Proposals, Iterations, MaxIterations
  <2> HIDE DEF f
  <2>3. draftsBar' = draftsBar /\ clearedBar' = clearedBar
    BY <2>1, <2>2, ProposalsSeen
  <2> QED
    BY <2>1, <2>3, Unseen
<1>4. CASE DrainMarket \/ Analyze \/ PublishSnapshot \/ DrainFeedback \/ ReadFeedback
           \/ EndQuantPass \/ QuantError \/ QuantCrash
  BY <1>4, OthersAreUnseen DEF DrainMarket, Analyze, PublishSnapshot, DrainFeedback,
     ReadFeedback, EndQuantPass, QuantError, QuantCrash, logs, busVars
<1>5. CASE DrainSnapshots \/ DrainProposals \/ RejectUnsigned \/ Review \/ Simulate
           \/ FirewallRejects \/ SaveDecision \/ Tell \/ EndPatriarchPass
           \/ PatriarchError \/ PatriarchCrash
  BY <1>5, OthersAreUnseen DEF DrainSnapshots, DrainProposals, RejectUnsigned, Review, Simulate,
     FirewallRejects, SaveDecision, Tell, EndPatriarchPass, PatriarchError, PatriarchCrash, logs,
     busVars
<1> QED
  BY <1>1, <1>2, <1>3, <1>4, <1>5, QuantIsAPublisher, PatriarchIsAPublisher, WipeIsSeen
     DEF Next, QuantDaemon, PatriarchDaemon, Injector

LEMMA StartsAsAssumed == Init => S!Init
<1> SUFFICES ASSUME Init PROVE S!Init
  OBVIOUS
<1>1. /\ Len(<<>>) = 0 /\ proposals = <<>> /\ clearedLog = <<>>
  BY DEF Init
<1>2. draftsBar = {} /\ clearedBar = <<>>
  BY <1>1 DEF draftsBar, clearedBar
<1>3. sigLog = <<>> /\ floor.sigs = 0 /\ floor.cleared = 0 /\ wipes = 0
  BY DEF Init
<1> QED
  BY <1>2, <1>3 DEF S!Init, S!EmptySlot

\* Quant and Patriarch publish what Settlement assumes of them, so what is proved of
\* Settlement holds behind them: a signature of Quant only for what it has proposed, a
\* clearance only of what Quant has signed, Patriarch's signature only after the clearance,
\* with forged proposals on the bus, and whatever fails or restarts between two messages
\* (quant_process.py, lines 65-81 and 115-127; patriarch_process.py, lines 100-172 and
\* 243-270).
THEOREM NegotiationPublishes == Spec => PublishesAsAssumed
<1>1. Spec => S!Init /\ [][S!Publishers]_(S!busVars)
  BY StartsAsAssumed, StepsAreSeen, Negotiates, PTL DEF Spec
<1> QED
  BY <1>1 DEF PublishesAsAssumed

-------------------------------------------------------------------------------
(* Fresh ids *)

LEMMA FreshInit == Init => FreshInv
<1> SUFFICES ASSUME Init PROVE FreshInv
  OBVIOUS
<1>1. /\ Len(<<>>) = 0 /\ proposals = <<>> /\ hand = None /\ qpc = "market"
      /\ \A p \in ProposalId : history[p] = None
  BY DEF Init, EmptyHistory
<1> QED
  BY <1>1 DEF FreshInv, IdsDiffer, OnRecord, EventsKnown, Drafting

\* Steps of others do not disturb it: market data and evaluations are added.
LEMMA FreshUndisturbed ==
  ASSUME NegotiationInv, FreshInv, UNCHANGED <<proposals, quantVars>>,
         Longer(marketLog, marketLog'), Longer(evals, evals'), Len(marketLog') \in Nat,
         Len(evals') \in Nat
  PROVE  FreshInv'
<1>1. /\ hand' = hand /\ qpc' = qpc /\ history' = history
      /\ Len(marketLog) \in Nat /\ Len(evals) \in Nat
  BY QuantFacts DEF quantVars
<1>2. IdsDiffer' /\ OnRecord'
  BY <1>1 DEF FreshInv, IdsDiffer, OnRecord, RoundOf
<1>3. \A e : Evaluated(e) => Evaluated(e)'
  BY <1>1 DEF Evaluated, Longer
<1>4. \A e \in 1..Len(marketLog) : e \in 1..Len(marketLog') /\ marketLog'[e] = marketLog[e]
  BY <1>1 DEF Longer
<1>5. EventsKnown'
  <2>1. ASSUME NEW n \in 1..Len(proposals)
        PROVE  IF proposals[n].signed THEN Founded(proposals[n])'
               ELSE proposals[n].event = 0 /\ proposals[n].iteration = 1
    BY <1>1, <1>3, <1>4 DEF FreshInv, EventsKnown, Founded
  <2>2. hand # None => Founded(hand)'
    BY <1>1, <1>3, <1>4 DEF FreshInv, EventsKnown, Founded
  <2> QED
    BY <1>1, <2>1, <2>2 DEF EventsKnown, Founded
<1> QED
  BY <1>2, <1>5 DEF FreshInv

\* Nor does Quant, when it holds nothing and adds nothing to its record.
LEMMA FreshIdles ==
  ASSUME NegotiationInv, FreshInv, UNCHANGED <<proposals, marketLog, evals>>,
         hand' = None, qpc' \notin Drafting,
         \A p \in ProposalId : history'[p] \in {history[p], None}
  PROVE  FreshInv'
<1>1. IdsDiffer'
  BY DEF FreshInv, IdsDiffer
<1>2. OnRecord'
  BY DEF FreshInv, OnRecord, RoundOf
<1>3. EventsKnown'
  BY DEF FreshInv, EventsKnown, Founded, Evaluated
<1> QED
  BY <1>1, <1>2, <1>3 DEF FreshInv

\* The facts of a published proposal.
LEMMA SignedFacts ==
  ASSUME NegotiationInv, FreshInv, NEW n \in 1..Len(proposals), proposals[n].signed
  PROVE  /\ proposals[n] \in Proposals /\ proposals[n].id \in ProposalId
         /\ proposals[n].event \in 1..Len(marketLog) /\ proposals[n].event \in Nat \ {0}
         /\ proposals[n].market = marketLog[proposals[n].event]
         /\ proposals[n].iteration \in Iterations
         /\ proposals[n].iteration # 1 => Evaluated(proposals[n].event)
<1>1. proposals[n] \in Proposals /\ Len(marketLog) \in Nat
  BY Messages, QuantFacts
<1>2. proposals[n].id \in ProposalId /\ proposals[n].iteration \in Iterations
  BY <1>1 DEF Proposals
<1>3. Founded(proposals[n])
  BY DEF FreshInv, EventsKnown
<1> QED
  BY <1>1, <1>2, <1>3 DEF Founded

\* A draft has an id nobody uses.
LEMMA DraftIsNew ==
  ASSUME FreshIds, NegotiationInv, NEW p \in NextIds
  PROVE  \A n \in 1..Len(proposals) : proposals[n].id # p
BY DEF NextIds, UsedIds

LEMMA FreshDrafts ==
  ASSUME FreshIds, NegotiationInv, FreshInv, NEW r \in Rounds, Draft(r), qpc' = "snapshot",
         UNCHANGED <<proposals, marketLog, evals, history>>, Founded(r)
  PROVE  FreshInv'
<1>1. /\ hand'.market = r.market /\ hand'.iteration = r.iteration /\ hand'.event = r.event
      /\ hand'.id \in NextIds
  BY DraftType
<1>2. \A n \in 1..Len(proposals) : proposals[n].id # hand'.id
  BY <1>1, DraftIsNew
<1>3. IdsDiffer'
  BY <1>2 DEF FreshInv, IdsDiffer
<1>4. OnRecord'
  BY DEF FreshInv, OnRecord, RoundOf
<1>5. EventsKnown'
  BY <1>1 DEF FreshInv, EventsKnown, Founded, Evaluated
<1> QED
  BY <1>3, <1>4, <1>5 DEF FreshInv

\* What is on record of an evaluated proposal is its round.
LEMMA RecordOfEvaluated ==
  ASSUME NegotiationInv, FreshInv, NEW i \in 1..Len(evals), history[evals[i].id] # None
  PROVE  /\ evals[i].of \in 1..Len(proposals) /\ proposals[evals[i].of].signed
         /\ history[evals[i].id] = RoundOf(proposals[evals[i].of])
<1>1. /\ evals[i].of \in 1..Len(proposals) /\ proposals[evals[i].of].signed
      /\ evals[i].id = proposals[evals[i].of].id /\ evals[i].id \in ProposalId
  BY Messages, QuantFacts DEF NegotiationInv, PatriarchReads
<1>2. PICK n \in 1..Len(proposals) : /\ proposals[n].signed /\ proposals[n].id = evals[i].id
                                     /\ history[evals[i].id] = RoundOf(proposals[n])
  BY <1>1 DEF FreshInv, OnRecord
<1>3. n = evals[i].of
  BY <1>1, <1>2 DEF FreshInv, IdsDiffer
<1> QED
  BY <1>1, <1>2, <1>3

\* The round Quant makes of an evaluation it revises.
Revision(i) == [history[evals[i].id] EXCEPT !.iteration = @ + 1]

LEMMA RevisionFacts ==
  ASSUME NegotiationInv, FreshInv, NEW i \in 1..Len(evals), Revisable(evals[i])
  PROVE  LET n == evals[i].of  r == Revision(i)
         IN  /\ r \in Rounds /\ n \in 1..Len(proposals) /\ proposals[n].signed
             /\ r.event = proposals[n].event /\ r.market = proposals[n].market
             /\ r.iteration = proposals[n].iteration + 1 /\ r.iteration # 1
             /\ Founded(r)
<1> DEFINE n == evals[i].of
           r == Revision(i)
           h == history[evals[i].id]
<1>1. /\ h # None /\ h.iteration < MaxIterations /\ evals[i].id \in ProposalId
  BY Messages, QuantFacts DEF Revisable
<1>2. n \in 1..Len(proposals) /\ proposals[n].signed /\ h = RoundOf(proposals[n])
  BY <1>1, RecordOfEvaluated
<1>3. h \in Rounds
  BY <1>1, QuantFacts
<1>4. /\ h.event = proposals[n].event /\ h.market = proposals[n].market
      /\ h.iteration = proposals[n].iteration
  BY <1>2 DEF RoundOf
<1>5. r = [h EXCEPT !.iteration = h.iteration + 1]
  BY DEF Revision
<1>6. /\ r \in Rounds /\ r.iteration = h.iteration + 1 /\ r.iteration # 1
      /\ r.event = h.event /\ r.market = h.market
  BY <1>1, <1>3, <1>5 DEF Rounds, Iterations, MaxIterations
<1>7. Founded(r)
  <2>1. /\ proposals[n].event \in 1..Len(marketLog)
        /\ proposals[n].market = marketLog[proposals[n].event]
    BY <1>2, SignedFacts
  <2>2. Evaluated(proposals[n].event)
    BY DEF Evaluated
  <2> QED
    BY <1>4, <1>6, <2>1, <2>2 DEF Founded
<1> QED
  BY <1>2, <1>4, <1>6, <1>7

\* A proposal is published: a signed one with an id of its own, or a forged one.
LEMMA FreshPublishes ==
  ASSUME NegotiationInv, FreshInv, NEW p \in Proposals, proposals' = Append(proposals, p),
         UNCHANGED <<marketLog, evals, history, hand>>,
         IF p.signed
         THEN /\ Founded(p) /\ qpc' \notin Drafting
              /\ \A n \in 1..Len(proposals) : proposals[n].signed => proposals[n].id # p.id
         ELSE p.event = 0 /\ p.iteration = 1 /\ qpc' = qpc
  PROVE  FreshInv'
<1> DEFINE l == Len(proposals) + 1
<1>1. /\ Len(proposals) \in Nat /\ 1..Len(proposals') = 1..Len(proposals) \cup {l}
      /\ \A n \in 1..Len(proposals) : proposals'[n] = proposals[n]
      /\ proposals'[l] = p /\ Len(proposals') = l
  BY GrowsByOne, QuantFacts DEF LogTypeOK
<1> HIDE DEF l
<1>2. IdsDiffer'
  <2>1. ASSUME NEW m \in 1..Len(proposals'), NEW n \in 1..Len(proposals'),
               proposals'[m].signed, proposals'[n].signed, proposals'[m].id = proposals'[n].id
        PROVE  m = n
    <3>1. CASE m \in 1..Len(proposals) /\ n \in 1..Len(proposals)
      BY <1>1, <2>1, <3>1 DEF FreshInv, IdsDiffer
    <3>2. CASE m = l /\ n \in 1..Len(proposals)
      BY <1>1, <2>1, <3>2
    <3>3. CASE n = l /\ m \in 1..Len(proposals)
      BY <1>1, <2>1, <3>3
    <3> QED
      BY <1>1, <3>1, <3>2, <3>3
  <2>2. ASSUME qpc' \in Drafting, NEW n \in 1..Len(proposals'), proposals'[n].signed
        PROVE  proposals'[n].id # hand.id
    <3>1. ~p.signed /\ qpc' = qpc
      BY <2>2
    <3>2. n \in 1..Len(proposals)
      BY <1>1, <2>2, <3>1
    <3> QED
      BY <1>1, <2>2, <3>1, <3>2 DEF FreshInv, IdsDiffer
  <2> QED
    BY <2>1, <2>2 DEF IdsDiffer
<1>3. OnRecord'
  <2> SUFFICES ASSUME NEW q \in ProposalId, history'[q] # None
               PROVE  \E n \in 1..Len(proposals') :
                        /\ proposals'[n].signed /\ proposals'[n].id = q
                        /\ history'[q] = RoundOf(proposals[n])'
    BY DEF OnRecord
  <2>1. PICK n \in 1..Len(proposals) : /\ proposals[n].signed /\ proposals[n].id = q
                                       /\ history[q] = RoundOf(proposals[n])
    BY DEF FreshInv, OnRecord
  <2>2. n \in 1..Len(proposals') /\ proposals'[n] = proposals[n]
    BY <1>1
  <2>3. history'[q] = RoundOf(proposals[n])'
    BY <2>1, <2>2 DEF RoundOf
  <2> QED
    BY <2>1, <2>2, <2>3
<1>4. \A e : Evaluated(e) => Evaluated(e)'
  <2>1. \A i \in 1..Len(evals) : evals[i].of \in 1..Len(proposals)
    BY DEF NegotiationInv, PatriarchReads
  <2> QED
    BY <1>1, <2>1 DEF Evaluated
<1>5. EventsKnown'
  <2>1. ASSUME NEW n \in 1..Len(proposals')
        PROVE  IF proposals'[n].signed THEN Founded(proposals[n])'
               ELSE proposals'[n].event = 0 /\ proposals'[n].iteration = 1
    <3>1. CASE n \in 1..Len(proposals)
      BY <1>1, <1>4, <3>1 DEF FreshInv, EventsKnown, Founded
    <3>2. CASE n = l
      BY <1>1, <1>4, <3>2 DEF Founded
    <3> QED
      BY <1>1, <3>1, <3>2
  <2>2. hand # None => Founded(hand)'
    BY <1>4 DEF FreshInv, EventsKnown, Founded
  <2> QED
    BY <2>1, <2>2 DEF EventsKnown, Founded
<1> QED
  BY <1>2, <1>3, <1>5 DEF FreshInv

\* The round of a proposal that is on the bus goes on record.
LEMMA FreshSigns == NegotiationInv /\ FreshInv /\ QuantSign => FreshInv'
<1> SUFFICES ASSUME NegotiationInv, FreshInv, QuantSign PROVE FreshInv'
  OBVIOUS
<1>1. /\ qpc = "sign" /\ qpc' \notin Drafting /\ hand' = None /\ Record
      /\ UNCHANGED <<marketLog, proposals, evals>>
  BY DEF QuantSign, Drafting
<1>2. PICK n \in 1..Len(proposals) : proposals[n] = hand
  BY <1>1 DEF NegotiationInv, QuantReads
<1>3. hand.signed /\ hand.id \in ProposalId
  BY <1>1, QuantFacts
<1>4. /\ history'[hand.id] = RoundOf(hand)
      /\ \A p \in ProposalId : p # hand.id => history'[p] = history[p]
  BY <1>1, <1>3, QuantFacts DEF Record, RoundOf
<1>5. OnRecord'
  <2>1. ASSUME NEW p \in ProposalId, history'[p] # None
        PROVE  \E k \in 1..Len(proposals) : /\ proposals[k].signed /\ proposals[k].id = p
                                            /\ history'[p] = RoundOf(proposals[k])
    <3>1. CASE p = hand.id
      BY <1>2, <1>3, <1>4, <3>1
    <3>2. CASE p # hand.id
      BY <1>4, <2>1, <3>2 DEF FreshInv, OnRecord
    <3> QED
      BY <3>1, <3>2
  <2> QED
    BY <1>1, <2>1 DEF OnRecord, RoundOf
<1>6. IdsDiffer'
  BY <1>1 DEF FreshInv, IdsDiffer
<1>7. EventsKnown'
  BY <1>1 DEF FreshInv, EventsKnown, Founded, Evaluated
<1> QED
  BY <1>5, <1>6, <1>7 DEF FreshInv

\* The first round of a market message.
FirstRound(e) == [market |-> marketLog[e], iteration |-> 1, event |-> e]

\* What Analyze and ReadFeedback draft.
LEMMA AnalyzeFacts ==
  ASSUME NegotiationInv, Analyze
  PROVE  LET n == qcursor.market + 1
         IN  /\ qpc = "analyze" /\ hand = None /\ n \in 1..Len(marketLog)
             /\ n \in Nat \ {0}
             /\ qcursor'.market = n /\ qcursor'.evals = qcursor.evals
             /\ FirstRound(n) \in Rounds
             /\ \/ Draft(FirstRound(n)) /\ qpc' = "snapshot"
                \/ UNCHANGED <<hand, qpc>>
             /\ UNCHANGED <<logs, patVars, busVars, missed, faultVars, history>>
<1> DEFINE n == qcursor.market + 1
<1>1. /\ qpc = "analyze" /\ n <= qend /\ qcursor' = [qcursor EXCEPT !.market = n]
      /\ (Draft(FirstRound(n)) /\ qpc' = "snapshot") \/ UNCHANGED <<hand, qpc>>
      /\ UNCHANGED <<logs, patVars, busVars, missed, faultVars, history>>
  BY DEF Analyze, FirstRound
<1>2. qend <= Len(marketLog) /\ n \in 1..Len(marketLog) /\ n \in Nat \ {0} /\ hand = None
  <2>1. /\ qcursor.market \in Nat /\ qend \in Nat /\ Len(marketLog) \in Nat
        /\ qpc \in {"market", "analyze", "feedback"} => hand = None
    BY QuantFacts
  <2>2. qpc = "analyze" => qend <= Len(marketLog)
    BY DEF NegotiationInv, QuantReads
  <2> QED
    BY <1>1, <2>1, <2>2
<1>3. qcursor'.market = n /\ qcursor'.evals = qcursor.evals
  BY <1>1, QuantFacts
<1>4. FirstRound(n) \in Rounds
  BY <1>2, Messages, QuantFacts DEF Rounds, FirstRound, Iterations, MaxIterations
<1> QED
  BY <1>1, <1>2, <1>3, <1>4

LEMMA ReadFeedbackFacts ==
  ASSUME NegotiationInv, ReadFeedback
  PROVE  LET n == qcursor.evals + 1
         IN  /\ qpc = "feedback" /\ hand = None /\ n \in 1..Len(evals)
             /\ qcursor'.evals = n /\ qcursor'.market = qcursor.market
             /\ \/ Revisable(evals[n]) /\ Draft(Revision(n)) /\ qpc' = "snapshot"
                \/ UNCHANGED <<hand, qpc>>
             /\ UNCHANGED <<logs, patVars, busVars, missed, faultVars, history>>
<1> DEFINE n == qcursor.evals + 1
<1>1. /\ qpc = "feedback" /\ n <= qend /\ qcursor' = [qcursor EXCEPT !.evals = n]
      /\ \/ Revisable(evals[n]) /\ Draft(Revision(n)) /\ qpc' = "snapshot"
         \/ UNCHANGED <<hand, qpc>>
      /\ UNCHANGED <<logs, patVars, busVars, missed, faultVars, history>>
  BY DEF ReadFeedback, Revision
<1>2. qend <= Len(evals) /\ n \in 1..Len(evals) /\ hand = None
  BY <1>1, QuantFacts DEF NegotiationInv, QuantReads
<1>3. qcursor'.evals = n /\ qcursor'.market = qcursor.market
  BY <1>1, QuantFacts
<1> QED
  BY <1>1, <1>2, <1>3

LEMMA FreshThinks ==
  FreshIds /\ NegotiationInv /\ FreshInv /\ (Analyze \/ ReadFeedback) => FreshInv'
<1> SUFFICES ASSUME FreshIds, NegotiationInv, FreshInv, Analyze \/ ReadFeedback PROVE FreshInv'
  OBVIOUS
<1>1. UNCHANGED <<marketLog, proposals, evals, history>>
  BY DEF Analyze, ReadFeedback, logs
<1>2. CASE UNCHANGED <<hand, qpc>>
  <2>1. hand' = None /\ qpc' \notin Drafting
    BY <1>2, AnalyzeFacts, ReadFeedbackFacts DEF Drafting
  <2> QED
    BY <1>1, <2>1, FreshIdles
<1>3. CASE Analyze /\ ~UNCHANGED <<hand, qpc>>
  <2> DEFINE n == qcursor.market + 1
  <2>1. /\ n \in 1..Len(marketLog) /\ FirstRound(n) \in Rounds /\ Draft(FirstRound(n))
        /\ qpc' = "snapshot"
    BY <1>3, AnalyzeFacts
  <2>2. Founded(FirstRound(n))
    BY <2>1 DEF Founded, FirstRound
  <2> HIDE DEF n
  <2> QED
    BY <1>1, <2>1, <2>2, FreshDrafts
<1>4. CASE ReadFeedback /\ ~UNCHANGED <<hand, qpc>>
  <2> DEFINE n == qcursor.evals + 1
  <2>1. n \in 1..Len(evals) /\ Revisable(evals[n]) /\ Draft(Revision(n)) /\ qpc' = "snapshot"
    BY <1>4, ReadFeedbackFacts
  <2> HIDE DEF n
  <2>2. Revision(n) \in Rounds /\ Founded(Revision(n))
    BY <2>1, RevisionFacts
  <2> QED
    BY <1>1, <2>1, <2>2, FreshDrafts
<1> QED
  BY <1>2, <1>3, <1>4

LEMMA FreshNext == FreshIds /\ NegotiationInv /\ FreshInv /\ [Next]_vars => FreshInv'
<1> SUFFICES ASSUME FreshIds, NegotiationInv, FreshInv, [Next]_vars PROVE FreshInv'
  OBVIOUS
<1>0. LogTypeOK /\ Len(marketLog) \in Nat /\ Len(evals) \in Nat
  BY QuantFacts
<1>1. CASE UNCHANGED <<proposals, quantVars, marketLog, evals>>
  <2>1. Longer(marketLog, marketLog') /\ Longer(evals, evals')
    BY <1>0, <1>1, TheSame DEF LogTypeOK
  <2> QED
    BY <1>0, <1>1, <2>1, FreshUndisturbed
<1>2. ASSUME NEW m \in Market, Inject(m) PROVE FreshInv'
  <2>1. /\ marketLog' = Append(marketLog, m) /\ UNCHANGED <<proposals, evals, quantVars>>
    BY <1>2 DEF Inject
  <2>2. /\ Longer(marketLog, marketLog') /\ Longer(evals, evals') /\ Len(marketLog') \in Nat
    BY <1>0, <2>1, Appended, TheSame, GrowsByOne DEF LogTypeOK
  <2> QED
    BY <1>0, <2>1, <2>2, FreshUndisturbed
<1>3. CASE Tell
  <2>1. /\ evals' = Append(evals, [id |-> proposals[This].id, status |-> status, of |-> This])
        /\ UNCHANGED <<proposals, marketLog, quantVars>> /\ ppc = "tell"
    BY <1>3 DEF Tell
  <2>2. [id |-> proposals[This].id, status |-> status, of |-> This] \in Evaluations
    BY <2>1, PatriarchFacts DEF Evaluations
  <2>3. /\ Longer(marketLog, marketLog') /\ Longer(evals, evals') /\ Len(evals') \in Nat
    BY <1>0, <2>1, <2>2, Appended, TheSame, GrowsByOne DEF LogTypeOK
  <2> QED
    BY <1>0, <2>1, <2>3, FreshUndisturbed
<1>4. ASSUME NEW p \in ProposalId, NEW m \in Market, ForeignProposal(p, m) PROVE FreshInv'
  <2> DEFINE f == [id |-> p, market |-> m, iteration |-> 1, event |-> 0, signed |-> FALSE]
  <2>1. /\ proposals' = Append(proposals, f)
        /\ UNCHANGED <<marketLog, evals, history, hand, qpc>>
    BY <1>4 DEF ForeignProposal, quantVars
  <2>2. f \in Proposals /\ f.signed = FALSE /\ f.event = 0 /\ f.iteration = 1
    BY DEF Proposals, Iterations, MaxIterations
  <2> HIDE DEF f
  <2> QED
    BY <2>1, <2>2, FreshPublishes
<1>5. CASE PublishProposal
  <2>1. /\ qpc = "propose" /\ qpc' = "sign" /\ proposals' = Append(proposals, hand)
        /\ UNCHANGED <<marketLog, evals, history, hand>>
    BY <1>5 DEF PublishProposal
  <2>2. hand \in Proposals /\ hand # None /\ hand.signed
    BY <2>1, QuantFacts
  <2>3. /\ Founded(hand)
        /\ \A n \in 1..Len(proposals) : proposals[n].signed => proposals[n].id # hand.id
    BY <2>1, <2>2 DEF FreshInv, EventsKnown, IdsDiffer, Drafting
  <2>4. qpc' \notin Drafting
    BY <2>1 DEF Drafting
  <2> QED
    BY <2>1, <2>2, <2>3, <2>4, FreshPublishes
<1>6. CASE PublishSnapshot
  <2>1. /\ qpc = "snapshot" /\ qpc' = "propose"
        /\ UNCHANGED <<proposals, marketLog, evals, history, hand>>
    BY <1>6 DEF PublishSnapshot
  <2> QED
    BY <2>1 DEF FreshInv, IdsDiffer, OnRecord, RoundOf, EventsKnown, Founded, Evaluated, Drafting
<1>7. CASE DrainMarket \/ DrainFeedback \/ EndQuantPass \/ QuantError \/ QuantCrash
  <2>1. /\ UNCHANGED <<proposals, marketLog, evals>> /\ qpc' \notin Drafting
        /\ hand' = None
    BY <1>7, QuantFacts DEF DrainMarket, DrainFeedback, EndQuantPass, QuantError, QuantCrash,
       logs, Drafting
  <2>2. \A p \in ProposalId : history'[p] \in {history[p], None}
    BY <1>7 DEF DrainMarket, DrainFeedback, EndQuantPass, QuantError, QuantCrash, EmptyHistory
  <2> QED
    BY <2>1, <2>2, FreshIdles
<1>8. Wipe \/ UNCHANGED vars => UNCHANGED <<proposals, quantVars, marketLog, evals>>
  BY DEF Wipe, vars, logs
<1>9. PatriarchDaemon \/ PatriarchError \/ PatriarchCrash =>
        Tell \/ UNCHANGED <<proposals, quantVars, marketLog, evals>>
  BY DEF PatriarchDaemon, DrainSnapshots, DrainProposals, RejectUnsigned, Review, Simulate,
     Clear, FirewallRejects, PatriarchSign, SaveDecision, EndPatriarchPass, PatriarchError,
     PatriarchCrash, logs
<1> QED
  BY <1>1, <1>2, <1>3, <1>4, <1>5, <1>6, <1>7, <1>8, <1>9, FreshSigns, FreshThinks
     DEF Next, QuantDaemon, Injector

LEMMA FreshNegotiations == FreshIds => (Spec => []FreshInv)
<1> SUFFICES ASSUME FreshIds PROVE Spec => []FreshInv
  OBVIOUS
<1>1. NegotiationInv /\ FreshInv /\ [Next]_vars => FreshInv'
  BY FreshNext
<1> QED
  BY <1>1, FreshInit, Negotiates, PTL DEF Spec

-------------------------------------------------------------------------------
(* Missed once *)

LEMMA FirstRoundsType ==
  ASSUME NegotiationInv, NEW e
  PROVE  IsFiniteSet(FirstRounds(e)) /\ Cardinality(FirstRounds(e)) \in Nat
         /\ FirstRounds(e) \subseteq 1..Len(proposals)
<1>1. FirstRounds(e) \subseteq 1..Len(proposals) /\ Len(proposals) \in Nat
  BY QuantFacts DEF FirstRounds, RoundsOf
<1>2. IsFiniteSet(1..Len(proposals))
  BY <1>1, IntervalSize
<1> QED
  BY <1>1, <1>2, FS_Subset, FS_CardinalityType

LEMMA StartsUndisturbed ==
  ASSUME NegotiationInv, StartsOnce, proposals' = proposals, crashes' \in Nat,
         qcursor'.market \in Nat,
         \A e \in Nat \ {0} : Starting(e)' => Starting(e),
         \/ crashes' = crashes /\ qcursor.market <= qcursor'.market
         \/ crashes' = crashes + 1
  PROVE  StartsOnce'
<1> SUFFICES ASSUME NEW e \in Nat \ {0}
             PROVE  Cardinality(FirstRounds(e)) + (IF Starting(e)' THEN 1 ELSE 0)
                      <= crashes' + (IF e <= qcursor'.market THEN 1 ELSE 0)
  BY DEF StartsOnce, FirstRounds, RoundsOf
<1> DEFINE f == Cardinality(FirstRounds(e))
           b == IF Starting(e) THEN 1 ELSE 0
           b1 == IF Starting(e)' THEN 1 ELSE 0
<1>1. f \in Nat /\ crashes \in Nat /\ qcursor.market \in Nat
  BY FirstRoundsType, QuantFacts
<1>2. b \in Nat /\ b1 \in Nat /\ b1 <= b
  OBVIOUS
<1>3. f + b <= crashes + (IF e <= qcursor.market THEN 1 ELSE 0)
  BY DEF StartsOnce
<1> HIDE DEF f, b, b1
<1>4. f + b1 <= crashes' + (IF e <= qcursor'.market THEN 1 ELSE 0)
  <2>1. CASE crashes' = crashes /\ qcursor.market <= qcursor'.market
    <3>1. e <= qcursor.market => e <= qcursor'.market
      BY <1>1, <2>1
    <3> QED
      BY <1>1, <1>2, <1>3, <2>1, <3>1
  <2>2. CASE crashes' = crashes + 1
    <3>1. f + b <= crashes + 1
      BY <1>1, <1>2, <1>3
    <3> QED
      BY <1>1, <1>2, <2>2, <3>1
  <2> QED
    BY <2>1, <2>2
<1> QED
  BY <1>4 DEF f, b1

\* Quant starts on its next market message.
LEMMA StartsNext ==
  ASSUME NegotiationInv, StartsOnce, Analyze
  PROVE  StartsOnce'
<1> DEFINE n == qcursor.market + 1
<1>1. /\ hand = None /\ n \in Nat \ {0} /\ qcursor'.market = n /\ crashes' = crashes
      /\ proposals' = proposals /\ qpc = "analyze"
  BY AnalyzeFacts DEF logs, faultVars
<1>2. n = qcursor.market + 1 /\ qcursor.market \in Nat /\ crashes \in Nat
  BY QuantFacts
<1> HIDE DEF n
<1>3. CASE UNCHANGED <<hand, qpc>>
  <2>1. \A e \in Nat \ {0} : Starting(e)' => Starting(e)
    BY <1>3 DEF Starting
  <2> QED
    BY <1>1, <1>2, <2>1, StartsUndisturbed
<1>4. CASE Draft(FirstRound(n)) /\ qpc' = "snapshot"
  <2>1. hand'.event = n
    BY <1>4, AnalyzeFacts, DraftType DEF n, FirstRound
  <2> SUFFICES ASSUME NEW e \in Nat \ {0}
               PROVE  Cardinality(FirstRounds(e)) + (IF Starting(e)' THEN 1 ELSE 0)
                        <= crashes + (IF e <= n THEN 1 ELSE 0)
    BY <1>1 DEF StartsOnce, FirstRounds, RoundsOf
  <2> DEFINE f == Cardinality(FirstRounds(e))
             b1 == IF Starting(e)' THEN 1 ELSE 0
  <2>2. ~Starting(e) /\ f \in Nat
    BY <1>1, FirstRoundsType DEF Starting, Drafting
  <2>3. f <= crashes + (IF e <= qcursor.market THEN 1 ELSE 0)
    BY <1>2, <2>2 DEF StartsOnce
  <2>4. b1 \in Nat /\ b1 <= 1 /\ (e # n => b1 = 0)
    BY <2>1 DEF Starting
  <2> HIDE DEF f, b1
  <2>5. f + b1 <= crashes + (IF e <= n THEN 1 ELSE 0)
    BY <1>2, <2>2, <2>3, <2>4
  <2> QED
    BY <2>5 DEF f, b1
<1> QED
  BY <1>3, <1>4, AnalyzeFacts DEF n

\* A proposal is published: the one Quant has begun, or one with no event.
LEMMA StartsPublish ==
  ASSUME NegotiationInv, StartsOnce, NEW p \in Proposals, proposals' = Append(proposals, p),
         crashes' = crashes, qcursor' = qcursor,
         \/ p.event = 0 /\ UNCHANGED <<hand, qpc>>
         \/ p = hand /\ qpc \in Drafting /\ qpc' \notin Drafting
  PROVE  StartsOnce'
<1> SUFFICES ASSUME NEW e \in Nat \ {0}
             PROVE  Cardinality(FirstRounds(e)') + (IF Starting(e)' THEN 1 ELSE 0)
                      <= crashes + (IF e <= qcursor.market THEN 1 ELSE 0)
  BY DEF StartsOnce, FirstRounds, RoundsOf
<1> DEFINE f == Cardinality(FirstRounds(e))
           l == Len(proposals) + 1
<1>1. /\ Len(proposals) \in Nat /\ Len(proposals') = l
      /\ \A n \in 1..Len(proposals) : proposals'[n] = proposals[n]
      /\ proposals'[l] = p
  BY GrowsByOne, QuantFacts DEF LogTypeOK
<1>2. 1..Len(proposals') = 1..Len(proposals) \cup {l} /\ l \notin 1..Len(proposals)
  BY <1>1
<1> HIDE DEF l
<1>3. f + (IF Starting(e) THEN 1 ELSE 0) <= crashes + (IF e <= qcursor.market THEN 1 ELSE 0)
  BY DEF StartsOnce
<1>4. IsFiniteSet(FirstRounds(e)) /\ f \in Nat /\ l \notin FirstRounds(e)
  BY <1>2, FirstRoundsType
<1>5. FirstRounds(e)' = IF p.event = e /\ p.iteration = 1 THEN FirstRounds(e) \cup {l}
                        ELSE FirstRounds(e)
  BY <1>1, <1>2 DEF FirstRounds, RoundsOf
<1>6. Cardinality(FirstRounds(e) \cup {l}) = f + 1
  BY <1>4, FS_AddElement
<1>7. crashes \in Nat /\ qcursor.market \in Nat
  BY QuantFacts
<1>8. CASE p.event = 0 /\ UNCHANGED <<hand, qpc>>
  <2>1. FirstRounds(e)' = FirstRounds(e) /\ (Starting(e)' <=> Starting(e))
    BY <1>5, <1>8 DEF Starting
  <2> QED
    BY <1>3, <2>1
<1>9. CASE p = hand /\ qpc \in Drafting /\ qpc' \notin Drafting
  <2>1. ~Starting(e)' /\ (Starting(e) <=> p.event = e /\ p.iteration = 1)
    BY <1>9 DEF Starting
  <2>2. CASE Starting(e)
    <3>1. Cardinality(FirstRounds(e)') = f + 1
      BY <1>5, <1>6, <2>1, <2>2
    <3> HIDE DEF f
    <3>2. f + 1 <= crashes + (IF e <= qcursor.market THEN 1 ELSE 0)
      BY <1>3, <2>2
    <3>3. f + 1 + 0 = f + 1
      BY <1>4
    <3> QED
      BY <2>1, <3>1, <3>2, <3>3
  <2>3. CASE ~Starting(e)
    <3>1. FirstRounds(e)' = FirstRounds(e)
      BY <1>5, <2>1, <2>3
    <3> QED
      BY <1>3, <2>1, <2>3, <3>1
  <2> QED
    BY <2>2, <2>3
<1> QED
  BY <1>8, <1>9

LEMMA StartsOnceInit == Init => StartsOnce
<1> SUFFICES ASSUME Init, NEW e \in Nat \ {0} PROVE FirstRounds(e) = {} /\ ~Starting(e) /\ crashes = 0
                                                   /\ qcursor.market = 0
  <2>1. Cardinality({}) = 0
    BY FS_EmptySet
  <2> QED
    BY <2>1 DEF StartsOnce
<1>1. Len(<<>>) = 0 /\ proposals = <<>>
  BY DEF Init
<1> QED
  BY <1>1 DEF Init, FirstRounds, RoundsOf, Starting, Drafting

LEMMA StartsOnceNext == NegotiationInv /\ StartsOnce /\ [Next]_vars => StartsOnce'
<1> SUFFICES ASSUME NegotiationInv, StartsOnce, [Next]_vars PROVE StartsOnce'
  OBVIOUS
<1>0. crashes \in Nat /\ qcursor.market \in Nat /\ qcursor.evals \in Nat
  BY QuantFacts
<1>1. CASE UNCHANGED <<proposals, quantVars>> /\ crashes' \in {crashes, crashes + 1}
  <2>1. \A e \in Nat \ {0} : Starting(e)' => Starting(e)
    BY <1>1 DEF Starting, quantVars
  <2>2. UNCHANGED qcursor
    BY <1>1 DEF quantVars
  <2> QED
    BY <1>0, <1>1, <2>1, <2>2, StartsUndisturbed
<1>2. CASE DrainMarket \/ DrainFeedback \/ EndQuantPass \/ QuantSign \/ QuantError \/ QuantCrash
  <2>1. /\ UNCHANGED proposals /\ qpc' \notin Drafting
    BY <1>2 DEF DrainMarket, DrainFeedback, EndQuantPass, QuantSign, QuantError, QuantCrash, logs,
       Drafting
  <2>2. \A e \in Nat \ {0} : Starting(e)' => Starting(e)
    BY <2>1 DEF Starting
  <2>3. qcursor'.market \in Nat
    BY <1>2, QuantInv, QuantFacts DEF NegotiationInv, TypeOK, QuantTypeOK, QuantDaemon
  <2>4. CASE QuantCrash
    BY <1>0, <2>1, <2>2, <2>3, <2>4, StartsUndisturbed DEF QuantCrash
  <2>5. CASE ~QuantCrash
    <3>1. crashes' = crashes
      BY <1>2, <2>5 DEF DrainMarket, DrainFeedback, EndQuantPass, QuantSign, QuantError, faultVars
    <3>2. qcursor.market <= qcursor'.market
      <4>1. CASE DrainMarket
        BY <1>0, <4>1, QuantFacts, AfterType DEF DrainMarket
      <4>2. CASE DrainFeedback \/ EndQuantPass \/ QuantSign \/ QuantError
        BY <1>0, <4>2, QuantFacts DEF DrainFeedback, EndQuantPass, QuantSign, QuantError
      <4> QED
        BY <1>2, <2>5, <4>1, <4>2
    <3> QED
      BY <1>0, <2>1, <2>2, <2>3, <3>1, <3>2, StartsUndisturbed
  <2> QED
    BY <2>4, <2>5
<1>3. CASE ReadFeedback
  <2>1. /\ UNCHANGED <<proposals, crashes>> /\ qcursor'.market = qcursor.market /\ hand = None
    BY <1>3, ReadFeedbackFacts DEF logs, faultVars
  <2>2. \A e \in Nat \ {0} : ~Starting(e)'
    <3>1. CASE UNCHANGED <<hand, qpc>>
      BY <1>3, <3>1, ReadFeedbackFacts DEF Starting, Drafting
    <3>2. CASE ~UNCHANGED <<hand, qpc>>
      <4> DEFINE n == qcursor.evals + 1
      <4>1. n \in 1..Len(evals) /\ Revisable(evals[n]) /\ Draft(Revision(n))
        BY <1>3, <3>2, ReadFeedbackFacts
      <4> HIDE DEF n
      <4>2. history[evals[n].id] \in Rounds /\ history[evals[n].id].iteration < MaxIterations
        BY <4>1, Messages, QuantFacts DEF Revisable
      <4>3. Revision(n) \in Rounds /\ Revision(n).iteration # 1
        BY <4>2 DEF Revision, Rounds, Iterations, MaxIterations
      <4>4. hand'.iteration # 1
        BY <4>1, <4>3, DraftType
      <4> QED
        BY <4>4 DEF Starting
    <3> QED
      BY <3>1, <3>2
  <2> QED
    BY <1>0, <2>1, <2>2, StartsUndisturbed
<1>4. CASE PublishSnapshot
  <2>1. /\ UNCHANGED <<proposals, qcursor, hand, crashes>> /\ qpc = "snapshot"
    BY <1>4 DEF PublishSnapshot, faultVars
  <2>2. \A e \in Nat \ {0} : Starting(e)' => Starting(e)
    BY <2>1 DEF Starting, Drafting
  <2> QED
    BY <1>0, <2>1, <2>2, StartsUndisturbed
<1>5. CASE PublishProposal
  <2>1. /\ proposals' = Append(proposals, hand) /\ UNCHANGED <<qcursor, hand, crashes>>
        /\ qpc = "propose" /\ qpc' = "sign"
    BY <1>5 DEF PublishProposal, faultVars
  <2>2. hand \in Proposals /\ qpc \in Drafting /\ qpc' \notin Drafting
    BY <2>1, QuantFacts DEF Drafting
  <2> QED
    BY <2>1, <2>2, StartsPublish
<1>6. ASSUME NEW p \in ProposalId, NEW m \in Market, ForeignProposal(p, m) PROVE StartsOnce'
  <2> DEFINE f == [id |-> p, market |-> m, iteration |-> 1, event |-> 0, signed |-> FALSE]
  <2>1. /\ proposals' = Append(proposals, f) /\ UNCHANGED <<hand, qpc, qcursor, crashes>>
    BY <1>6 DEF ForeignProposal, quantVars, faultVars
  <2>2. f \in Proposals /\ f.event = 0
    BY DEF Proposals, Iterations, MaxIterations
  <2> HIDE DEF f
  <2> QED
    BY <2>1, <2>2, StartsPublish
<1>7. Injector \/ UNCHANGED vars =>
        UNCHANGED <<proposals, quantVars>> /\ crashes' \in {crashes, crashes + 1}
  BY DEF Injector, Wipe, Inject, vars, logs, faultVars
<1>8. PatriarchDaemon \/ PatriarchError \/ PatriarchCrash =>
        UNCHANGED <<proposals, quantVars>> /\ crashes' \in {crashes, crashes + 1}
  BY DEF PatriarchDaemon, DrainSnapshots, DrainProposals, RejectUnsigned, Review, Simulate, Tell,
     Clear, FirewallRejects, PatriarchSign, SaveDecision, EndPatriarchPass, PatriarchError,
     PatriarchCrash, logs, faultVars
<1> QED
  BY <1>1, <1>2, <1>3, <1>4, <1>5, <1>6, <1>7, <1>8, StartsNext DEF Next, QuantDaemon

\* A wiped bus has no proposal of the next injection on it.
LEMMA NoneYet ==
  ASSUME NegotiationInv, FreshInv, UNCHANGED <<proposals, evals, quantVars, patVars, missed>>,
         wipes' = Len(marketLog) + 1, Len(snapLog') = Len(snapLog), pcursor.snaps <= Len(snapLog),
         \A i \in 1..Len(snapLog) : /\ snapLog'[i] = snapLog[i]
                                    /\ i > floor'.snaps /\ i <= pcursor.snaps => snapLog[i] \in cache
  PROVE  SnapshotsInv'
<1>1. Len(marketLog) \in Nat /\ hand' = hand /\ qpc' = qpc
  BY QuantFacts DEF quantVars
<1>2. pcursor' = pcursor /\ pend' = pend /\ cache' = cache
  BY DEF patVars
<1>3. \A n \in 1..Len(proposals) : proposals[n].event # wipes'
  BY <1>1, SignedFacts DEF FreshInv, EventsKnown
<1>4. hand # None => hand.event # wipes'
  BY <1>1 DEF FreshInv, EventsKnown, Founded
<1>5. SnapshotsPublished'
  BY <1>1, <1>3, <1>4, QuantFacts DEF SnapshotsPublished
<1>6. ~Evaluated(wipes)'
  BY <1>3 DEF Evaluated, NegotiationInv, PatriarchReads
<1>7. \A n \in 1..pend : proposals[n].event # wipes'
  BY <1>3, PatriarchFacts
<1>8. SnapshotsDrained'
  <2>1. \A i \in 1..Len(snapLog') :
          i > floor'.snaps /\ i <= pcursor'.snaps => snapLog'[i] \in cache'
    BY <1>2
  <2>2. ppc' \notin {"snapshots", "proposals"} =>
          \A n \in 1..pend' :
            proposals'[n].event = wipes' /\ proposals'[n].iteration # 1 => Current' \in cache'
    BY <1>2, <1>7
  <2>3. pcursor'.snaps <= Len(snapLog')
    BY <1>2
  <2> QED
    BY <1>6, <2>1, <2>2, <2>3 DEF SnapshotsDrained
<1>9. FirstsMissed'
  BY <1>3 DEF FirstsMissed, NegotiationInv, TypeOK, LogTypeOK
<1> QED
  BY <1>5, <1>8, <1>9 DEF SnapshotsInv

\* The other steps leave what was wiped, and the market data, alone: then the snapshot stays.
LEMMA SnapStays ==
  ASSUME NegotiationInv, UNCHANGED <<marketLog, wipes, floor>>, Longer(snapLog, snapLog'),
         Len(snapLog') \in Nat, SnapIsHere
  PROVE  SnapIsHere'
<1>1. Current' = Current /\ floor'.snaps = floor.snaps /\ Len(snapLog) \in Nat
  BY QuantFacts DEF Current
<1>2. PICK i \in 1..Len(snapLog) : i > floor.snaps /\ snapLog[i] = Current
  BY DEF SnapIsHere
<1>3. i \in 1..Len(snapLog') /\ snapLog'[i] = snapLog[i]
  BY <1>1 DEF Longer
<1> QED
  BY <1>1, <1>2, <1>3 DEF SnapIsHere

\* Quant's part, when Patriarch does nothing.
LEMMA DrainedUndisturbed ==
  ASSUME NegotiationInv, SnapshotsInv, UNCHANGED <<marketLog, wipes, floor, evals, patVars, missed>>,
         Longer(snapLog, snapLog'), Longer(proposals, proposals'), Len(snapLog') \in Nat,
         Len(proposals') \in Nat
  PROVE  SnapshotsDrained' /\ FirstsMissed'
<1>1. /\ pcursor' = pcursor /\ pend' = pend /\ cache' = cache /\ ppc' = ppc /\ Current' = Current
      /\ pcursor.snaps \in Nat /\ pend \in Nat /\ pend <= Len(proposals)
      /\ Len(snapLog) \in Nat /\ Len(proposals) \in Nat
  BY PatriarchFacts DEF patVars, Current
<1>2. \A n \in 1..Len(proposals) : n \in 1..Len(proposals') /\ proposals'[n] = proposals[n]
  BY <1>1 DEF Longer
<1>3. \A i \in 1..Len(snapLog) : i \in 1..Len(snapLog') /\ snapLog'[i] = snapLog[i]
  BY <1>1 DEF Longer
<1>4. pcursor'.snaps <= Len(snapLog')
  BY <1>1 DEF SnapshotsInv, SnapshotsDrained, Longer
<1>5. \A i \in 1..Len(snapLog') : i > floor'.snaps /\ i <= pcursor'.snaps => snapLog'[i] \in cache'
  <2> SUFFICES ASSUME NEW i \in 1..Len(snapLog'), i > floor.snaps, i <= pcursor.snaps
               PROVE  snapLog'[i] \in cache
    BY <1>1
  <2>1. i \in 1..Len(snapLog)
    BY <1>1 DEF SnapshotsInv, SnapshotsDrained
  <2> QED
    BY <1>3, <2>1 DEF SnapshotsInv, SnapshotsDrained
<1>6. Evaluated(wipes)' <=> Evaluated(wipes)
  BY <1>2 DEF Evaluated, NegotiationInv, PatriarchReads
<1>7. \A n \in 1..pend : n \in 1..Len(proposals) /\ proposals'[n] = proposals[n]
  BY <1>1, <1>2
<1>8. SnapshotsDrained'
  BY <1>1, <1>4, <1>5, <1>6, <1>7 DEF SnapshotsInv, SnapshotsDrained
<1>9. FirstsMissed'
  BY <1>2 DEF SnapshotsInv, FirstsMissed, NegotiationInv, TypeOK, LogTypeOK
<1> QED
  BY <1>8, <1>9

LEMMA SnapshotsQuiet ==
  ASSUME NegotiationInv, SnapshotsInv,
         UNCHANGED <<marketLog, snapLog, proposals, evals, wipes, floor, patVars, missed>>,
         qpc' \in {"propose", "sign"} => qpc \in {"propose", "sign"} /\ hand' = hand
  PROVE  SnapshotsInv'
<1>1. /\ Longer(snapLog, snapLog') /\ Longer(proposals, proposals') /\ Len(snapLog') \in Nat
      /\ Len(proposals') \in Nat
  BY QuantFacts, TheSame DEF LogTypeOK
<1>2. SnapshotsDrained' /\ FirstsMissed'
  BY <1>1, DrainedUndisturbed
<1>3. SnapIsHere' <=> SnapIsHere
  BY DEF SnapIsHere, Current
<1>4. SnapshotsPublished'
  BY <1>3 DEF SnapshotsInv, SnapshotsPublished
<1> QED
  BY <1>2, <1>4 DEF SnapshotsInv

\* Quant publishes the snapshot of the market data it has read last.
LEMMA SnapshotArrives ==
  ASSUME NegotiationInv, FreshInv, SnapshotsInv, PublishSnapshot
  PROVE  SnapshotsInv'
<1>1. /\ qpc = "snapshot" /\ snapLog' = Append(snapLog, hand.market)
      /\ UNCHANGED <<marketLog, proposals, evals, hand, patVars, floor, wipes, missed>>
  BY DEF PublishSnapshot, busVars
<1>2. hand.market \in Market /\ hand # None
  BY <1>1, QuantFacts
<1>3. /\ Longer(snapLog, snapLog') /\ Len(snapLog') \in Nat /\ Len(snapLog) \in Nat
      /\ Len(snapLog') = Len(snapLog) + 1 /\ snapLog'[Len(snapLog) + 1] = hand.market
  <2>1. snapLog \in Seq(Market)
    BY QuantFacts DEF LogTypeOK
  <2> QED
    BY <1>1, <1>2, <2>1, GrowsByOne, Appended
<1>4. Longer(proposals, proposals') /\ Len(proposals') \in Nat
  BY <1>1, TheSame, QuantFacts DEF LogTypeOK
<1>5. SnapshotsDrained' /\ FirstsMissed'
  BY <1>1, <1>3, <1>4, DrainedUndisturbed
<1>6. hand.event = wipes => SnapIsHere'
  <2>1. SUFFICES ASSUME hand.event = wipes PROVE SnapIsHere'
    OBVIOUS
  <2>2. hand.market = Current
    BY <1>2, <2>1 DEF FreshInv, EventsKnown, Founded, Current
  <2>3. Current' = Current /\ floor' = floor
    BY <1>1 DEF Current
  <2>4. Len(snapLog) + 1 \in 1..Len(snapLog') /\ Len(snapLog) + 1 > floor.snaps
    BY <1>3, PatriarchFacts
  <2> QED
    BY <1>3, <2>2, <2>3, <2>4 DEF SnapIsHere
<1>7. SnapIsHere => SnapIsHere'
  BY <1>1, <1>3, SnapStays
<1>8. SnapshotsPublished'
  BY <1>1, <1>6, <1>7 DEF SnapshotsInv, SnapshotsPublished
<1> QED
  BY <1>5, <1>8 DEF SnapshotsInv

\* A proposal comes after its snapshot; a forged one is not looked at.
LEMMA SnapshotsBefore ==
  ASSUME NegotiationInv, SnapshotsInv, NEW p \in Proposals, proposals' = Append(proposals, p),
         UNCHANGED <<marketLog, snapLog, evals, wipes, floor, patVars, missed, hand>>,
         \/ p.signed = FALSE /\ qpc' = qpc
         \/ qpc = "propose" /\ p = hand
  PROVE  SnapshotsInv'
<1>1. /\ Longer(proposals, proposals') /\ Len(proposals) \in Nat
      /\ Len(proposals') = Len(proposals) + 1 /\ proposals'[Len(proposals) + 1] = p
      /\ 1..Len(proposals') = 1..Len(proposals) \cup {Len(proposals) + 1}
  BY GrowsByOne, Appended, QuantFacts DEF LogTypeOK
<1>2. Longer(snapLog, snapLog') /\ Len(snapLog') \in Nat
  BY TheSame, QuantFacts DEF LogTypeOK
<1>3. SnapshotsDrained' /\ FirstsMissed'
  BY <1>1, <1>2, DrainedUndisturbed
<1>4. SnapIsHere' <=> SnapIsHere
  BY DEF SnapIsHere, Current
<1>5. p.signed /\ p.event = wipes => SnapIsHere
  BY DEF SnapshotsInv, SnapshotsPublished
<1>6. ASSUME NEW n \in 1..Len(proposals'), proposals'[n].signed, proposals'[n].event = wipes
      PROVE  SnapIsHere
  <2>1. CASE n = Len(proposals) + 1
    BY <1>1, <1>5, <1>6, <2>1
  <2>2. CASE n \in 1..Len(proposals)
    BY <1>6, <2>2 DEF Longer, SnapshotsInv, SnapshotsPublished
  <2> QED
    BY <1>1, <2>1, <2>2
<1>7. qpc' \in {"propose", "sign"} /\ hand.event = wipes => SnapIsHere
  BY DEF SnapshotsInv, SnapshotsPublished
<1> QED
  BY <1>3, <1>4, <1>6, <1>7 DEF SnapshotsInv, SnapshotsPublished

\* Patriarch's steps leave Quant's part alone.
LEMMA PublishedStays ==
  ASSUME NegotiationInv, SnapshotsInv,
         UNCHANGED <<marketLog, snapLog, proposals, quantVars, floor, wipes>>
  PROVE  SnapshotsPublished'
BY DEF SnapshotsInv, SnapshotsPublished, SnapIsHere, Current, quantVars

\* Patriarch drains the snapshots.
LEMMA SnapshotsAreDrained ==
  ASSUME NegotiationInv, FreshInv, SnapshotsInv, DrainSnapshots
  PROVE  SnapshotsInv'
<1>1. /\ UNCHANGED <<marketLog, snapLog, proposals, evals, quantVars, floor, wipes, pend, missed>>
      /\ cache' = cache \cup
           {snapLog[i] : i \in (After(pcursor.snaps, floor.snaps) + 1)..Len(snapLog)}
      /\ pcursor' = [pcursor EXCEPT !.snaps = Len(snapLog)] /\ ppc' = "proposals"
  BY DEF DrainSnapshots, logs, busVars
<1>2. /\ pcursor'.snaps = Len(snapLog) /\ Current' = Current /\ Len(snapLog) \in Nat
      /\ floor.snaps \in Nat /\ pcursor.snaps \in Nat
  BY <1>1, PatriarchFacts DEF Current
<1>3. \A i \in 1..Len(snapLog) : i > floor.snaps => snapLog[i] \in cache'
  <2> SUFFICES ASSUME NEW i \in 1..Len(snapLog), i > floor.snaps PROVE snapLog[i] \in cache'
    OBVIOUS
  <2>1. CASE i <= pcursor.snaps
    BY <1>1, <2>1 DEF SnapshotsInv, SnapshotsDrained
  <2>2. CASE i > pcursor.snaps
    <3>1. i \in (After(pcursor.snaps, floor.snaps) + 1)..Len(snapLog)
      BY <1>2, <2>2 DEF After
    <3> QED
      BY <1>1, <3>1
  <2> QED
    BY <1>2, <2>1, <2>2
<1>4. Evaluated(wipes) => Current \in cache'
  <2>1. SUFFICES ASSUME Evaluated(wipes) PROVE Current \in cache'
    OBVIOUS
  <2>2. PICK i \in 1..Len(evals) : proposals[evals[i].of].event = wipes
    BY <2>1 DEF Evaluated
  <2>3. evals[i].of \in 1..Len(proposals) /\ proposals[evals[i].of].signed
    BY DEF NegotiationInv, PatriarchReads
  <2>4. SnapIsHere
    BY <2>2, <2>3 DEF SnapshotsInv, SnapshotsPublished
  <2> QED
    BY <1>3, <2>4 DEF SnapIsHere
<1>5. SnapshotsDrained'
  <2>1. Evaluated(wipes)' <=> Evaluated(wipes)
    BY <1>1 DEF Evaluated
  <2>2. \A i \in 1..Len(snapLog') : i > floor'.snaps => snapLog'[i] \in cache'
    BY <1>1, <1>3
  <2>3. pcursor'.snaps <= Len(snapLog')
    BY <1>1, <1>2
  <2> QED
    BY <1>1, <1>2, <1>4, <2>1, <2>2, <2>3 DEF SnapshotsDrained
<1>6. FirstsMissed'
  BY <1>1 DEF SnapshotsInv, FirstsMissed
<1>7. SnapshotsPublished'
  BY <1>1, PublishedStays
<1> QED
  BY <1>5, <1>6, <1>7 DEF SnapshotsInv

\* It then drains the proposals.
LEMMA ProposalsAreDrained ==
  ASSUME NegotiationInv, FreshInv, SnapshotsInv, DrainProposals
  PROVE  SnapshotsInv'
<1>1. /\ UNCHANGED <<marketLog, snapLog, proposals, evals, quantVars, floor, wipes, cache, missed>>
      /\ pend' = Len(proposals) /\ ppc = "proposals" /\ ppc' = "next"
      /\ pcursor' = [pcursor EXCEPT !.proposals = After(@, floor.proposals)]
  BY DEF DrainProposals, logs, busVars
<1>2. pcursor'.snaps = pcursor.snaps /\ Current' = Current
  BY <1>1, PatriarchFacts DEF Current
<1>3. ASSUME NEW n \in 1..Len(proposals), proposals[n].event = wipes, proposals[n].iteration # 1
      PROVE  Current \in cache
  <2>1. proposals[n].signed
    BY <1>3 DEF FreshInv, EventsKnown
  <2>2. Evaluated(wipes) /\ wipes # 0
    BY <1>3, <2>1, SignedFacts
  <2> QED
    BY <1>1, <2>2 DEF SnapshotsInv, SnapshotsDrained
<1>4. SnapshotsDrained'
  <2>1. \A n \in 1..pend' :
          proposals'[n].event = wipes' /\ proposals'[n].iteration # 1 => Current' \in cache'
    BY <1>1, <1>2, <1>3
  <2>2. \A i \in 1..Len(snapLog') :
          i > floor'.snaps /\ i <= pcursor'.snaps => snapLog'[i] \in cache'
    BY <1>1, <1>2 DEF SnapshotsInv, SnapshotsDrained
  <2>3. pcursor'.snaps <= Len(snapLog')
    BY <1>1, <1>2 DEF SnapshotsInv, SnapshotsDrained
  <2> QED
    BY <1>1, <2>1, <2>2, <2>3 DEF SnapshotsDrained
<1>5. FirstsMissed'
  BY <1>1 DEF SnapshotsInv, FirstsMissed
<1>6. SnapshotsPublished'
  BY <1>1, PublishedStays
<1> QED
  BY <1>4, <1>5, <1>6 DEF SnapshotsInv

\* The steps of a pass: no snapshot is drained, and what is missed is a first round.
LEMMA PassKeepsSnapshots ==
  ASSUME NegotiationInv, FreshInv, SnapshotsInv,
         UNCHANGED <<marketLog, snapLog, proposals, quantVars, floor, wipes, cache, pend>>,
         pcursor'.snaps = pcursor.snaps,
         \/ ppc' = "snapshots"
         \/ ppc \notin {"snapshots", "proposals"} /\ ppc' \notin {"snapshots", "proposals"},
         FirstsMissed'
  PROVE  SnapshotsInv'
<1>1. Current' = Current
  BY DEF Current
<1>2. SnapshotsDrained'
  <2>1. \A i \in 1..Len(snapLog') :
          i > floor'.snaps /\ i <= pcursor'.snaps => snapLog'[i] \in cache'
    BY DEF SnapshotsInv, SnapshotsDrained
  <2>2. pcursor'.snaps <= Len(snapLog')
    BY DEF SnapshotsInv, SnapshotsDrained
  <2>3. ppc' \notin {"snapshots", "proposals"} =>
          \A n \in 1..pend' :
            proposals'[n].event = wipes' /\ proposals'[n].iteration # 1 => Current' \in cache'
    BY <1>1 DEF SnapshotsInv, SnapshotsDrained
  <2> QED
    BY <2>1, <2>2, <2>3 DEF SnapshotsDrained
<1>3. SnapshotsPublished'
  BY PublishedStays
<1> QED
  BY <1>2, <1>3 DEF SnapshotsInv

\* Patriarch reviews a proposal: it misses the snapshot of a first round only.
LEMMA ReviewMissesFirsts ==
  ASSUME NegotiationInv, FreshInv, SnapshotsInv, Review
  PROVE  SnapshotsInv'
<1>1. /\ UNCHANGED <<marketLog, snapLog, proposals, quantVars, floor, wipes, cache, pend>>
      /\ TakeNext /\ proposals[This'].signed /\ ppc' \in {"simulate", "tell"}
      /\ IF Rechecks(This') THEN missed' = missed ELSE missed' = missed \cup {This'}
  BY DEF Review, logs, busVars, SignatureOK
<1>2. /\ ppc = "next" /\ This' \in 1..Len(proposals) /\ This' <= pend
      /\ pcursor'.snaps = pcursor.snaps
  BY <1>1, TakeNextFacts
<1>3. PICK n \in 1..Len(proposals) : n = This'
  BY <1>2
<1>4. FirstsMissed'
  <2> SUFFICES ASSUME NEW k \in missed', proposals[k].event = wipes, wipes # 0
               PROVE  proposals[k].iteration = 1
    BY <1>1 DEF FirstsMissed
  <2>1. CASE k \in missed
    BY <2>1 DEF SnapshotsInv, FirstsMissed
  <2>2. CASE k \notin missed
    <3>1. k = n /\ ~Rechecks(n)
      BY <1>1, <1>3, <2>2
    <3>2. proposals[n].market \notin cache
      BY <3>1 DEF Rechecks
    <3>3. proposals[n].market = Current
      BY <1>1, <1>3, <3>1, SignedFacts DEF Current
    <3>4. n \in 1..pend
      BY <1>2, <1>3, PatriarchFacts
    <3> QED
      BY <1>2, <3>1, <3>2, <3>3, <3>4 DEF SnapshotsInv, SnapshotsDrained
  <2> QED
    BY <2>1, <2>2
<1> QED
  BY <1>1, <1>2, <1>4, PassKeepsSnapshots

\* Patriarch restarts: it drains every snapshot again before it handles a proposal.
LEMMA RestartKeepsSnapshots ==
  ASSUME NegotiationInv, SnapshotsInv, PatriarchCrash
  PROVE  SnapshotsInv'
<1>1. /\ UNCHANGED <<marketLog, snapLog, proposals, quantVars, floor, wipes, missed>>
      /\ pcursor' = [snaps |-> 0, proposals |-> 0] /\ ppc' = "snapshots"
  BY DEF PatriarchCrash, logs, busVars
<1>2. SnapshotsPublished'
  BY <1>1, PublishedStays
<1>3. pcursor'.snaps = 0 /\ Len(snapLog') \in Nat
  BY <1>1, PatriarchFacts
<1>4. SnapshotsDrained'
  BY <1>1, <1>3 DEF SnapshotsDrained
<1>5. FirstsMissed'
  BY <1>1 DEF SnapshotsInv, FirstsMissed
<1> QED
  BY <1>2, <1>4, <1>5 DEF SnapshotsInv

LEMMA SnapshotsNext ==
  NegotiationInv /\ FreshInv /\ SnapshotsInv /\ [Next]_vars => SnapshotsInv'
<1> SUFFICES ASSUME NegotiationInv, FreshInv, SnapshotsInv, [Next]_vars PROVE SnapshotsInv'
  OBVIOUS
<1>1. CASE Wipe
  <2>1. /\ UNCHANGED <<proposals, evals, snapLog, quantVars, patVars, missed>>
        /\ injecting = FALSE /\ wipes' = wipes + 1 /\ floor'.snaps = Len(snapLog)
    BY <1>1 DEF Wipe, logs, NegotiationInv, BusIsWiped
  <2>2. wipes' = Len(marketLog) + 1
    BY <2>1 DEF NegotiationInv, BusIsWiped
  <2>3. pcursor.snaps <= Len(snapLog) /\ Len(snapLog) \in Nat
    BY PatriarchFacts DEF SnapshotsInv, SnapshotsDrained
  <2>4. \A i \in 1..Len(snapLog) : ~(i > floor'.snaps)
    BY <2>1, <2>3
  <2> QED
    BY <2>1, <2>2, <2>3, <2>4, NoneYet
<1>2. ASSUME NEW m \in Market, Inject(m) PROVE SnapshotsInv'
  <2>1. /\ UNCHANGED <<proposals, evals, snapLog, quantVars, patVars, missed, floor, wipes>>
        /\ injecting = TRUE
    BY <1>2 DEF Inject, NegotiationInv, BusIsWiped
  <2>2. wipes' = Len(marketLog) + 1
    BY <2>1 DEF NegotiationInv, BusIsWiped
  <2> QED
    BY <2>1, <2>2, NoneYet DEF SnapshotsInv, SnapshotsDrained
<1>3. CASE UNCHANGED vars
  BY <1>3, SnapshotsQuiet DEF vars, logs, busVars, quantVars
<1>4. CASE DrainMarket \/ Analyze \/ QuantSign \/ DrainFeedback \/ ReadFeedback \/ EndQuantPass
           \/ QuantError \/ QuantCrash
  <2>1. /\ UNCHANGED <<marketLog, snapLog, proposals, evals, wipes, floor, patVars, missed>>
    BY <1>4 DEF DrainMarket, Analyze, QuantSign, DrainFeedback, ReadFeedback, EndQuantPass,
       QuantError, QuantCrash, logs, busVars
  <2>2. qpc' \notin {"propose", "sign"}
    BY <1>4, AnalyzeFacts, ReadFeedbackFacts DEF DrainMarket, QuantSign, DrainFeedback,
       EndQuantPass, QuantError, QuantCrash
  <2> QED
    BY <2>1, <2>2, SnapshotsQuiet
<1>5. CASE PublishProposal
  <2>1. /\ proposals' = Append(proposals, hand) /\ qpc = "propose"
        /\ UNCHANGED <<marketLog, snapLog, evals, wipes, floor, patVars, missed, hand>>
    BY <1>5 DEF PublishProposal, busVars
  <2>2. hand \in Proposals
    BY <2>1, QuantFacts
  <2> QED
    BY <2>1, <2>2, SnapshotsBefore
<1>6. ASSUME NEW p \in ProposalId, NEW m \in Market, ForeignProposal(p, m) PROVE SnapshotsInv'
  <2> DEFINE f == [id |-> p, market |-> m, iteration |-> 1, event |-> 0, signed |-> FALSE]
  <2>1. /\ proposals' = Append(proposals, f) /\ qpc' = qpc
        /\ UNCHANGED <<marketLog, snapLog, evals, wipes, floor, patVars, missed, hand>>
    BY <1>6 DEF ForeignProposal, busVars, quantVars
  <2>2. f \in Proposals /\ f.signed = FALSE
    BY DEF Proposals, Iterations, MaxIterations
  <2> HIDE DEF f
  <2> QED
    BY <2>1, <2>2, SnapshotsBefore
<1>7. CASE RejectUnsigned \/ Simulate \/ Clear \/ FirewallRejects \/ PatriarchSign \/ SaveDecision
           \/ Tell \/ EndPatriarchPass \/ PatriarchError
  <2>1. UNCHANGED <<marketLog, snapLog, proposals, quantVars, floor, wipes, cache, pend, missed>>
    BY <1>7 DEF RejectUnsigned, Simulate, Clear, FirewallRejects, PatriarchSign, SaveDecision,
       Tell, EndPatriarchPass, PatriarchError, logs, busVars
  <2>2. pcursor'.snaps = pcursor.snaps
    BY <1>7, TakeNextFacts DEF RejectUnsigned, Simulate, Clear, FirewallRejects, PatriarchSign,
       SaveDecision, Tell, EndPatriarchPass, PatriarchError
  <2>3. \/ ppc' = "snapshots"
        \/ ppc \notin {"snapshots", "proposals"} /\ ppc' \notin {"snapshots", "proposals"}
    BY <1>7, TakeNextFacts DEF RejectUnsigned, Simulate, Clear, FirewallRejects, PatriarchSign,
       SaveDecision, Tell, EndPatriarchPass, PatriarchError
  <2>4. FirstsMissed'
    BY <2>1 DEF SnapshotsInv, FirstsMissed
  <2> QED
    BY <2>1, <2>2, <2>3, <2>4, PassKeepsSnapshots
<1> QED
  BY <1>1, <1>2, <1>3, <1>4, <1>5, <1>6, <1>7, SnapshotArrives, SnapshotsAreDrained,
     ProposalsAreDrained, ReviewMissesFirsts, RestartKeepsSnapshots
     DEF Next, QuantDaemon, PatriarchDaemon, Injector

LEMMA SnapshotsInit == Init => SnapshotsInv
<1> SUFFICES ASSUME Init PROVE SnapshotsInv
  OBVIOUS
<1>1. /\ Len(<<>>) = 0 /\ proposals = <<>> /\ snapLog = <<>> /\ qpc = "market"
      /\ ppc = "snapshots" /\ missed = {} /\ pcursor.snaps = 0
  BY DEF Init
<1> QED
  BY <1>1 DEF SnapshotsInv, SnapshotsPublished, SnapshotsDrained, FirstsMissed

\* What is missed of the last injection are first rounds, and Quant has made one in each of
\* its lives.
LEMMA MissedInvMissed ==
  ASSUME NegotiationInv, MissedInv
  PROVE  MissedOnce
<1> SUFFICES ASSUME NEW e \in 1..Len(marketLog), e = wipes
             PROVE  Cardinality(missed \cap RoundsOf(e)) <= 1 + crashes
  BY DEF MissedOnce
<1>1. e \in Nat \ {0}
  BY QuantFacts
<1>2. missed \cap RoundsOf(e) \subseteq FirstRounds(e)
  BY <1>1 DEF MissedInv, SnapshotsInv, FirstsMissed, FirstRounds, RoundsOf
<1>3. /\ IsFiniteSet(FirstRounds(e)) /\ Cardinality(FirstRounds(e)) \in Nat
  BY FirstRoundsType
<1>4. /\ IsFiniteSet(missed \cap RoundsOf(e))
      /\ Cardinality(missed \cap RoundsOf(e)) <= Cardinality(FirstRounds(e))
  BY <1>2, <1>3, FS_Subset
<1>5. Cardinality(missed \cap RoundsOf(e)) \in Nat
  BY <1>4, FS_CardinalityType
<1> DEFINE f == Cardinality(FirstRounds(e))
           b == IF Starting(e) THEN 1 ELSE 0
<1>6. f + b <= crashes + (IF e <= qcursor.market THEN 1 ELSE 0)
  BY <1>1 DEF MissedInv, StartsOnce
<1>7. f \in Nat /\ b \in Nat /\ crashes \in Nat
  BY <1>3, QuantFacts
<1> HIDE DEF f, b
<1>8. f <= 1 + crashes
  BY <1>6, <1>7
<1> QED
  BY <1>4, <1>5, <1>7, <1>8 DEF f

\* By the time a revision is evaluated its snapshot is there, whatever the order in which the
\* daemons drain their topics, and whatever restarts: a first proposal may be rejected for want
\* of it, once for each life of Quant (patriarch_process.py, lines 75-86 and 175-179;
\* quant_process.py, lines 65-73 and 116-121).
THEOREM SnapshotMissedOnce == FreshIds => (Spec => []MissedOnce)
<1> SUFFICES ASSUME FreshIds PROVE Spec => []MissedOnce
  OBVIOUS
<1>1. Init => MissedInv
  BY StartsOnceInit, SnapshotsInit DEF MissedInv
<1>2. NegotiationInv /\ FreshInv /\ MissedInv /\ [Next]_vars => MissedInv'
  BY StartsOnceNext, SnapshotsNext DEF MissedInv
<1>3. NegotiationInv /\ MissedInv => MissedOnce
  BY MissedInvMissed
<1>4. Spec => []FreshInv
  BY FreshNegotiations
<1> QED
  BY <1>1, <1>2, <1>3, <1>4, Negotiates, PTL DEF Spec

-------------------------------------------------------------------------------
(* One trade per event *)

PatriarchOnce == EvaluatedOnce /\ ClearedOnce

LEMMA PatriarchOnceInit == Init => PatriarchOnce
<1> SUFFICES ASSUME Init PROVE PatriarchOnce
  OBVIOUS
<1>1. Len(<<>>) = 0 /\ evals = <<>> /\ clearedLog = <<>> /\ ppc = "snapshots"
  BY DEF Init
<1> QED
  BY <1>1 DEF PatriarchOnce, EvaluatedOnce, ClearedOnce

\* What the logs of Patriarch hold.
LEMMA PatriarchMessages ==
  ASSUME NegotiationInv
  PROVE  /\ This \in Nat
         /\ \A i \in 1..Len(evals) : evals[i].of \in 1..Len(proposals) /\ evals[i].of \in Nat
         /\ \A i \in 1..Len(clearedLog) : /\ clearedLog[i] \in 1..Len(proposals)
                                          /\ clearedLog[i] \in Nat
<1>1. /\ This \in Nat /\ Len(proposals) \in Nat
      /\ \A i \in 1..Len(clearedLog) : clearedLog[i] \in 1..Len(proposals)
  BY PatriarchFacts, Messages DEF This
<1>2. \A i \in 1..Len(evals) : evals[i].of \in 1..Len(proposals)
  BY DEF NegotiationInv, PatriarchReads
<1> QED
  BY <1>1, <1>2

\* A step that publishes neither an evaluation nor a clearance: Patriarch takes up the next
\* proposal, goes on with the one it has, or leaves it.
LEMMA PatriarchGoesOn ==
  ASSUME NegotiationInv, PatriarchOnce, UNCHANGED <<evals, clearedLog>>, This' \in Nat,
         This <= This', ppc' \in Handling => This < This' \/ (ppc \in Handling /\ This' = This),
         This < This' \/ ppc' \notin {"simulate", "firewall"} \/ ppc \in {"simulate", "firewall"},
         ppc' \in {"simulate", "firewall", "sign", "save"} => status' = "ACCEPTED",
         This < This' \/ ppc' # "tell" \/ ppc = "simulate" \/ status' = "ACCEPTED"
  PROVE  PatriarchOnce'
<1>1. EvaluatedOnce'
  <2>1. \A i \in 1..Len(evals) :
          evals[i].of <= This' /\ (ppc' \in Handling => evals[i].of # This')
    BY PatriarchMessages DEF PatriarchOnce, EvaluatedOnce
  <2> QED
    BY <2>1 DEF PatriarchOnce, EvaluatedOnce
<1>2. ASSUME NEW i \in 1..Len(clearedLog)
      PROVE  /\ clearedLog[i] <= This'
             /\ ppc' \in {"simulate", "firewall"} => clearedLog[i] # This'
             /\ ppc' = "tell" /\ clearedLog[i] = This' => status' = "ACCEPTED"
  <2>1. clearedLog[i] \in Nat /\ clearedLog[i] <= This /\ This \in Nat
    BY PatriarchMessages DEF PatriarchOnce, ClearedOnce
  <2>2. ppc \in {"simulate", "firewall"} => clearedLog[i] # This
    BY DEF PatriarchOnce, ClearedOnce
  <2>3. CASE This < This'
    BY <2>1, <2>3
  <2>4. CASE This' = This
    BY <2>1, <2>2, <2>4 DEF Handling
  <2> QED
    BY <2>1, <2>3, <2>4
<1>3. ClearedOnce'
  BY <1>2 DEF PatriarchOnce, ClearedOnce
<1> QED
  BY <1>1, <1>3 DEF PatriarchOnce

LEMMA ClearsOnce ==
  ASSUME NegotiationInv, PatriarchOnce, Clear
  PROVE  PatriarchOnce'
<1>1. /\ ppc = "firewall" /\ ppc' = "sign" /\ clearedLog' = Append(clearedLog, This)
      /\ UNCHANGED <<evals, pcursor, status>>
  BY DEF Clear
<1>2. /\ This' = This /\ This \in 1..Len(proposals) /\ clearedLog \in Seq(1..Len(proposals))
  BY <1>1, PatriarchFacts DEF This, LogTypeOK
<1>3. /\ Len(clearedLog') = Len(clearedLog) + 1 /\ Len(clearedLog) \in Nat
      /\ \A i \in 1..Len(clearedLog) : clearedLog'[i] = clearedLog[i]
      /\ clearedLog'[Len(clearedLog) + 1] = This
  BY <1>1, <1>2, GrowsByOne
<1>4. 1..Len(clearedLog') = 1..Len(clearedLog) \cup {Len(clearedLog) + 1}
  BY <1>3
<1>5. EvaluatedOnce'
  BY <1>1, <1>2 DEF PatriarchOnce, EvaluatedOnce, Handling
<1>6. \A j \in 1..Len(evals) : evals[j].of # This
  BY <1>1 DEF PatriarchOnce, EvaluatedOnce, Handling
<1>7. \A i \in 1..Len(clearedLog) : clearedLog[i] <= This /\ clearedLog[i] # This
  BY <1>1 DEF PatriarchOnce, ClearedOnce
<1>8. ASSUME NEW i \in 1..Len(clearedLog')
      PROVE  /\ clearedLog'[i] <= This'
             /\ \A j \in 1..Len(evals') :
                  evals'[j].of = clearedLog'[i] => evals'[j].status = "ACCEPTED"
  <2>1. CASE i \in 1..Len(clearedLog)
    BY <1>1, <1>2, <1>3, <1>7, <2>1 DEF PatriarchOnce, ClearedOnce
  <2>2. CASE i = Len(clearedLog) + 1
    BY <1>1, <1>2, <1>3, <1>6, <2>2
  <2> QED
    BY <1>4, <2>1, <2>2
<1>9. ASSUME NEW i \in 1..Len(clearedLog'), NEW j \in 1..Len(clearedLog'),
             clearedLog'[i] = clearedLog'[j]
      PROVE  i = j
  <2>1. CASE i \in 1..Len(clearedLog) /\ j \in 1..Len(clearedLog)
    BY <1>3, <1>9, <2>1 DEF PatriarchOnce, ClearedOnce
  <2>2. CASE i \in 1..Len(clearedLog) /\ j = Len(clearedLog) + 1
    BY <1>3, <1>7, <1>9, <2>2
  <2>3. CASE j \in 1..Len(clearedLog) /\ i = Len(clearedLog) + 1
    BY <1>3, <1>7, <1>9, <2>3
  <2> QED
    BY <1>4, <2>1, <2>2, <2>3
<1>10. status' = "ACCEPTED"
  BY <1>1 DEF PatriarchOnce, ClearedOnce
<1>11. ClearedOnce'
  BY <1>1, <1>8, <1>9, <1>10 DEF ClearedOnce
<1> QED
  BY <1>5, <1>11 DEF PatriarchOnce

LEMMA TellsOnce ==
  ASSUME NegotiationInv, PatriarchOnce, Tell
  PROVE  PatriarchOnce'
<1> DEFINE e == [id |-> proposals[This].id, status |-> status, of |-> This]
<1>1. /\ ppc = "tell" /\ ppc' = "next" /\ evals' = Append(evals, e)
      /\ UNCHANGED <<clearedLog, pcursor, status>>
  BY DEF Tell
<1>2. /\ This' = This /\ This \in Nat /\ e \in Evaluations /\ e.of = This /\ e.status = status
  BY <1>1, PatriarchFacts DEF This, Evaluations
<1> HIDE DEF e
<1>3. /\ Len(evals') = Len(evals) + 1 /\ Len(evals) \in Nat
      /\ \A i \in 1..Len(evals) : evals'[i] = evals[i]
      /\ evals'[Len(evals) + 1] = e
  BY <1>1, <1>2, PatriarchFacts, GrowsByOne DEF LogTypeOK
<1>4. 1..Len(evals') = 1..Len(evals) \cup {Len(evals) + 1}
  BY <1>3
<1>5. \A i \in 1..Len(evals) : evals[i].of <= This /\ evals[i].of # This
  BY <1>1 DEF PatriarchOnce, EvaluatedOnce, Handling
<1>6. ASSUME NEW i \in 1..Len(evals') PROVE evals'[i].of <= This'
  <2>1. CASE i \in 1..Len(evals)
    BY <1>2, <1>3, <1>5, <2>1
  <2>2. CASE i = Len(evals) + 1
    BY <1>2, <1>3, <2>2
  <2> QED
    BY <1>4, <2>1, <2>2
<1>7. ASSUME NEW i \in 1..Len(evals'), NEW j \in 1..Len(evals'), evals'[i].of = evals'[j].of
      PROVE  i = j
  <2>1. CASE i \in 1..Len(evals) /\ j \in 1..Len(evals)
    BY <1>3, <1>7, <2>1 DEF PatriarchOnce, EvaluatedOnce
  <2>2. CASE i \in 1..Len(evals) /\ j = Len(evals) + 1
    BY <1>2, <1>3, <1>5, <1>7, <2>2
  <2>3. CASE j \in 1..Len(evals) /\ i = Len(evals) + 1
    BY <1>2, <1>3, <1>5, <1>7, <2>3
  <2> QED
    BY <1>4, <2>1, <2>2, <2>3
<1>8. EvaluatedOnce'
  BY <1>1, <1>6, <1>7 DEF EvaluatedOnce, Handling
<1>9. ASSUME NEW i \in 1..Len(clearedLog), NEW j \in 1..Len(evals'), evals'[j].of = clearedLog[i]
      PROVE  evals'[j].status = "ACCEPTED"
  <2>1. CASE j \in 1..Len(evals)
    BY <1>3, <1>9, <2>1 DEF PatriarchOnce, ClearedOnce
  <2>2. CASE j = Len(evals) + 1
    <3>1. clearedLog[i] = This
      BY <1>2, <1>3, <1>9, <2>2
    <3> QED
      BY <1>1, <1>2, <1>3, <2>2, <3>1 DEF PatriarchOnce, ClearedOnce
  <2> QED
    BY <1>4, <2>1, <2>2
<1>10. ClearedOnce'
  BY <1>1, <1>2, <1>9 DEF PatriarchOnce, ClearedOnce
<1> QED
  BY <1>8, <1>10 DEF PatriarchOnce

LEMMA PatriarchOnceNext ==
  NegotiationInv /\ PatriarchOnce /\ [Next]_vars /\ ~PatriarchCrash => PatriarchOnce'
<1> SUFFICES ASSUME NegotiationInv, PatriarchOnce, [Next]_vars, ~PatriarchCrash
             PROVE  PatriarchOnce'
  OBVIOUS
<1>1. CASE UNCHANGED <<evals, clearedLog, pcursor, ppc, status>>
  BY <1>1 DEF PatriarchOnce, EvaluatedOnce, ClearedOnce, This
<1>2. Injector \/ UNCHANGED vars \/ QuantDaemon \/ QuantError \/ QuantCrash
        \/ (\E p \in ProposalId, m \in Market : ForeignProposal(p, m))
      => UNCHANGED <<evals, clearedLog, pcursor, ppc, status>>
  BY DEF Injector, Wipe, Inject, vars, logs, patVars, QuantDaemon, DrainMarket, Analyze,
     PublishSnapshot, PublishProposal, QuantSign, DrainFeedback, ReadFeedback, EndQuantPass,
     QuantError, QuantCrash, ForeignProposal
<1>3. This \in Nat
  BY PatriarchMessages
<1>4. CASE DrainSnapshots \/ EndPatriarchPass
  <2>1. UNCHANGED <<evals, clearedLog>> /\ This' = This
        /\ ppc' \in {"snapshots", "proposals"}
    BY <1>4, PatriarchFacts DEF DrainSnapshots, EndPatriarchPass, logs, This
  <2> QED
    BY <1>3, <2>1, PatriarchGoesOn DEF Handling
<1>5. CASE DrainProposals
  <2>1. UNCHANGED <<evals, clearedLog>> /\ ppc' = "next"
        /\ This' = After(This, floor.proposals)
    BY <1>5, PatriarchFacts DEF DrainProposals, logs, This
  <2>2. This' \in Nat /\ This <= This'
    BY <1>3, <2>1, PatriarchFacts, AfterType
  <2> QED
    BY <2>1, <2>2, PatriarchGoesOn DEF Handling
<1>6. CASE RejectUnsigned \/ Review \/ (PatriarchError /\ TakeNext)
  <2>1. /\ UNCHANGED <<evals, clearedLog>> /\ This' = This + 1
        /\ ppc' \in {"next", "simulate", "tell", "snapshots"}
        /\ ppc' = "simulate" => status' = "ACCEPTED"
    BY <1>6, TakeNextFacts DEF RejectUnsigned, Review, PatriarchError, logs
  <2>2. This' \in Nat /\ This < This' /\ This <= This'
    BY <1>3, <2>1
  <2> QED
    BY <2>1, <2>2, PatriarchGoesOn
<1>7. CASE Simulate \/ FirewallRejects \/ PatriarchSign \/ SaveDecision
  <2>1. /\ UNCHANGED <<evals, clearedLog>> /\ This' = This
        /\ ppc \in {"simulate", "firewall", "sign", "save"}
        /\ \/ ppc = "simulate" /\ ppc' = "firewall" /\ status' = status
           \/ ppc = "simulate" /\ ppc' = "tell"
           \/ ppc' \in {"save", "tell"} /\ status' = status
    BY <1>7 DEF Simulate, FirewallRejects, PatriarchSign, SaveDecision, This
  <2>2. status = "ACCEPTED"
    BY <2>1 DEF PatriarchOnce, ClearedOnce
  <2> QED
    BY <1>3, <2>1, <2>2, PatriarchGoesOn DEF Handling
<1>8. CASE PatriarchError /\ ~TakeNext
  <2>1. UNCHANGED <<evals, clearedLog>> /\ This' = This /\ ppc' = "snapshots"
    BY <1>8 DEF PatriarchError, logs, This
  <2> QED
    BY <1>3, <2>1, PatriarchGoesOn DEF Handling
<1> QED
  BY <1>1, <1>2, <1>4, <1>5, <1>6, <1>7, <1>8, ClearsOnce, TellsOnce DEF Next, PatriarchDaemon

\* What was published and refused stays so while Quant reads on.
LEMMA RoundsStay ==
  ASSUME NegotiationInv, Longer(proposals, proposals'), Longer(evals, evals'),
         Len(proposals') \in Nat, Len(evals') \in Nat,
         qcursor'.market \in Nat, qcursor.market <= qcursor'.market,
         qcursor'.evals \in Nat, qcursor.evals <= qcursor'.evals,
         NEW p \in Proposals, Follows(p)
  PROVE  Follows(p)'
<1>1. /\ Len(proposals) \in Nat /\ Len(evals) \in Nat
      /\ qcursor.market \in Nat /\ qcursor.evals \in Nat
  BY QuantFacts
<1>2. \A m \in 1..Len(proposals) : m \in 1..Len(proposals') /\ proposals'[m] = proposals[m]
  BY <1>1 DEF Longer
<1>3. \A i \in 1..Len(evals) : i \in 1..Len(evals') /\ evals'[i] = evals[i]
  BY <1>1 DEF Longer
<1>4. ASSUME NEW m, Refused(m) PROVE Refused(m)'
  <2>1. PICK i \in 1..Len(evals) :
          i <= qcursor.evals /\ evals[i].of = m /\ evals[i].status = "REJECTED"
    BY <1>4 DEF Refused
  <2>2. i <= qcursor'.evals
    BY <1>1, <2>1
  <2> QED
    BY <1>3, <2>1, <2>2 DEF Refused
<1>5. ASSUME NEW k \in 1..(p.iteration - 1)
      PROVE  \E m \in RoundsOf(p.event)' :
               proposals'[m].signed /\ proposals'[m].iteration = k /\ Refused(m)'
  <2>1. PICK m \in RoundsOf(p.event) :
          proposals[m].signed /\ proposals[m].iteration = k /\ Refused(m)
    BY DEF Follows
  <2>2. m \in RoundsOf(p.event)'
    BY <1>2, <2>1 DEF RoundsOf
  <2> QED
    BY <1>2, <1>4, <2>1, <2>2 DEF RoundsOf
<1>6. p.event <= qcursor'.market
  BY <1>1 DEF Follows, Proposals
<1> QED
  BY <1>5, <1>6 DEF Follows, RoundsOf

\* A step after which Quant holds no other draft than before.
LEMMA RoundsUndisturbed ==
  ASSUME NegotiationInv, RoundsFollow, proposals' = proposals, Longer(evals, evals'),
         Len(evals') \in Nat,
         qcursor'.market \in Nat, qcursor.market <= qcursor'.market,
         qcursor'.evals \in Nat, qcursor.evals <= qcursor'.evals,
         hand' = hand \/ hand' = None,
         qpc' \in Drafting => qpc \in Drafting /\ hand' = hand
  PROVE  RoundsFollow'
<1>1. Longer(proposals, proposals') /\ Len(proposals') \in Nat
  BY QuantFacts, TheSame DEF LogTypeOK
<1>2. ASSUME NEW p \in Proposals, MadeByQuant(p)' PROVE Follows(p)'
  <2>1. MadeByQuant(p)
    BY <1>2, NoneIsNone DEF MadeByQuant
  <2>2. Follows(p)
    BY <2>1 DEF RoundsFollow
  <2> QED
    BY <1>1, <2>2, RoundsStay
<1> QED
  BY <1>2 DEF RoundsFollow, SameRound

\* A proposal is published: the one Quant holds, or a forged one.
LEMMA RoundPublished ==
  ASSUME NegotiationInv, RoundsFollow, NEW p \in Proposals, proposals' = Append(proposals, p),
         UNCHANGED <<evals, qcursor, hand>>,
         \/ p.signed = FALSE /\ qpc' = qpc
         \/ p = hand /\ qpc \in Drafting /\ qpc' \notin Drafting
  PROVE  RoundsFollow'
<1> DEFINE l == Len(proposals) + 1
<1>1. /\ Len(proposals) \in Nat /\ 1..Len(proposals') = 1..Len(proposals) \cup {l}
      /\ \A n \in 1..Len(proposals) : proposals'[n] = proposals[n]
      /\ proposals'[l] = p /\ Len(proposals') = l
  BY GrowsByOne, QuantFacts DEF LogTypeOK
<1>2. Longer(proposals, proposals') /\ Longer(evals, evals') /\ Len(proposals') \in Nat
      /\ Len(evals') \in Nat
  BY <1>1, QuantFacts, TheSame, Appended DEF LogTypeOK
<1>3. qcursor.market \in Nat /\ qcursor.evals \in Nat
  BY QuantFacts
<1> HIDE DEF l
<1>4. ASSUME NEW q \in Proposals, MadeByQuant(q)' PROVE Follows(q)'
  <2>1. MadeByQuant(q)
    <3>1. CASE q = hand'
      BY <3>1 DEF MadeByQuant
    <3>2. ASSUME NEW n \in 1..Len(proposals'), q = proposals'[n], q.signed PROVE MadeByQuant(q)
      <4>1. CASE n \in 1..Len(proposals)
        BY <1>1, <3>2, <4>1 DEF MadeByQuant
      <4>2. CASE n = l
        BY <1>1, <3>2, <4>2 DEF MadeByQuant
      <4> QED
        BY <1>1, <4>1, <4>2
    <3> QED
      BY <1>4, <3>1, <3>2 DEF MadeByQuant
  <2>2. Follows(q) /\ qcursor.market <= qcursor'.market /\ qcursor.evals <= qcursor'.evals
    BY <1>3, <2>1 DEF RoundsFollow
  <2> QED
    BY <1>2, <1>3, <2>2, RoundsStay
<1>5. ASSUME p.signed, NEW n \in 1..Len(proposals), proposals[n].signed,
             proposals[n].event = p.event
      PROVE  proposals[n].iteration # p.iteration
  BY <1>5 DEF RoundsFollow
<1>6. ASSUME NEW m \in 1..Len(proposals'), NEW n \in 1..Len(proposals'),
             proposals'[m].signed, proposals'[n].signed, SameRound(m, n)'
      PROVE  m = n
  <2>1. /\ proposals'[m].event = proposals'[n].event
        /\ proposals'[m].iteration = proposals'[n].iteration
    BY <1>6 DEF SameRound
  <2>2. CASE m \in 1..Len(proposals) /\ n \in 1..Len(proposals)
    BY <1>1, <1>6, <2>1, <2>2 DEF RoundsFollow, SameRound
  <2>3. CASE m = l /\ n \in 1..Len(proposals)
    BY <1>1, <1>5, <1>6, <2>1, <2>3
  <2>4. CASE n = l /\ m \in 1..Len(proposals)
    BY <1>1, <1>5, <1>6, <2>1, <2>4
  <2> QED
    BY <1>1, <2>2, <2>3, <2>4
<1>7. ASSUME qpc' \in Drafting, NEW n \in 1..Len(proposals'), proposals'[n].signed,
             proposals'[n].event = hand'.event
      PROVE  proposals'[n].iteration # hand'.iteration
  <2>1. p.signed = FALSE /\ qpc \in Drafting
    BY <1>7
  <2>2. n \in 1..Len(proposals) /\ proposals'[n] = proposals[n]
    BY <1>1, <1>7, <2>1
  <2> QED
    BY <1>7, <2>1, <2>2 DEF RoundsFollow
<1> QED
  BY <1>4, <1>6, <1>7 DEF RoundsFollow

\* Quant drafts a round that follows those before it and that it has not published yet.
LEMMA RoundDrafted ==
  ASSUME NegotiationInv, RoundsFollow, NEW r \in Rounds, Draft(r), qpc' = "snapshot",
         UNCHANGED <<proposals, evals>>,
         qcursor'.market \in Nat, qcursor.market <= qcursor'.market,
         qcursor'.evals \in Nat, qcursor.evals <= qcursor'.evals,
         r.event <= qcursor'.market,
         \A k \in 1..(r.iteration - 1) : \E m \in RoundsOf(r.event) :
           proposals[m].signed /\ proposals[m].iteration = k /\ Refused(m)',
         \A n \in 1..Len(proposals) : proposals[n].signed /\ proposals[n].event = r.event
                                        => proposals[n].iteration # r.iteration
  PROVE  RoundsFollow'
<1>1. hand' \in Proposals /\ hand'.iteration = r.iteration /\ hand'.event = r.event
  BY DraftType
<1>2. /\ Longer(proposals, proposals') /\ Longer(evals, evals') /\ Len(proposals') \in Nat
      /\ Len(evals') \in Nat
  BY QuantFacts, TheSame DEF LogTypeOK
<1>3. ASSUME NEW p \in Proposals, MadeByQuant(p)' PROVE Follows(p)'
  <2>1. CASE p = hand'
    <3>1. p.iteration = r.iteration /\ p.event = r.event
      BY <1>1, <2>1
    <3> QED
      BY <3>1 DEF Follows, RoundsOf
  <2>2. CASE p # hand'
    <3>1. MadeByQuant(p)
      BY <1>3, <2>2 DEF MadeByQuant
    <3>2. Follows(p)
      BY <3>1 DEF RoundsFollow
    <3> QED
      BY <1>2, <3>2, RoundsStay
  <2> QED
    BY <2>1, <2>2
<1> QED
  BY <1>1, <1>3 DEF RoundsFollow, SameRound

LEMMA FirstRoundDrafted ==
  ASSUME NegotiationInv, FreshInv, RoundsFollow, Analyze, ~UNCHANGED <<hand, qpc>>
  PROVE  RoundsFollow'
<1> PICK n \in Nat : n = qcursor.market + 1
  BY AnalyzeFacts
<1> PICK r \in Rounds : r = FirstRound(n)
  BY AnalyzeFacts
<1>1. /\ Draft(r) /\ qpc' = "snapshot"
      /\ qcursor'.market = n /\ qcursor'.evals = qcursor.evals
      /\ UNCHANGED <<proposals, evals>>
  BY AnalyzeFacts DEF logs
<1>2. qcursor.market \in Nat /\ qcursor.evals \in Nat
  BY QuantFacts
<1>3. r.event = n /\ r.iteration = 1
  BY DEF FirstRound
<1>4. ASSUME NEW k \in 1..Len(proposals), proposals[k].signed PROVE proposals[k].event # n
  <2>1. proposals[k] \in Proposals /\ proposals[k].event \in Nat
    BY <1>4, SignedFacts
  <2>2. MadeByQuant(proposals[k])
    BY <1>4 DEF MadeByQuant
  <2>3. proposals[k].event <= qcursor.market
    BY <2>1, <2>2 DEF RoundsFollow, Follows
  <2> QED
    BY <1>2, <2>1, <2>3
<1>5. qcursor.market <= n
  BY <1>2
<1>6. 1..(r.iteration - 1) = {}
  BY <1>3
<1> QED
  BY <1>1, <1>2, <1>3, <1>4, <1>5, <1>6, RoundDrafted

\* A revision follows the proposal that was rejected.
LEMMA RevisionDrafted ==
  ASSUME NegotiationInv, FreshInv, EvaluatedOnce, RoundsFollow, ReadFeedback,
         ~UNCHANGED <<hand, qpc>>
  PROVE  RoundsFollow'
<1>i. PICK i \in 1..Len(evals) : i = qcursor.evals + 1
  BY ReadFeedbackFacts
<1>n. PICK n \in 1..Len(proposals) : n = evals[i].of /\ proposals[n].signed
  BY <1>i, ReadFeedbackFacts, RevisionFacts
<1>r. PICK r \in Rounds : r = Revision(i)
  BY <1>i, ReadFeedbackFacts, RevisionFacts
<1>1. /\ Revisable(evals[i]) /\ Draft(r) /\ qpc' = "snapshot"
      /\ qcursor'.evals = i /\ qcursor'.market = qcursor.market
      /\ UNCHANGED <<proposals, evals>>
  BY <1>i, <1>r, ReadFeedbackFacts DEF logs
<1>2. /\ qcursor.market \in Nat /\ qcursor.evals \in Nat /\ i \in Nat /\ qcursor.evals < i
      /\ qcursor.evals <= i
  <2>1. qcursor.market \in Nat /\ qcursor.evals \in Nat /\ i = qcursor.evals + 1
    BY <1>i, QuantFacts
  <2> QED
    BY <2>1
<1>3. r.event = proposals[n].event /\ r.iteration = proposals[n].iteration + 1
  BY <1>1, <1>n, <1>r, RevisionFacts
<1>4. /\ proposals[n] \in Proposals /\ proposals[n].event \in Nat
      /\ proposals[n].iteration \in Nat \ {0}
  <2>1. /\ proposals[n] \in Proposals /\ proposals[n].event \in Nat
        /\ proposals[n].iteration \in Iterations
    BY <1>n, SignedFacts
  <2> QED
    BY <2>1 DEF Iterations, MaxIterations
<1>5. Follows(proposals[n])
  BY <1>4, <1>n DEF RoundsFollow, MadeByQuant
<1>6. Refused(n)'
  BY <1>1, <1>2, <1>n DEF Refused, Revisable
<1>7. \A m : Refused(m) => Refused(m)'
  <2> SUFFICES ASSUME NEW m, Refused(m) PROVE Refused(m)'
    OBVIOUS
  <2>1. PICK j \in 1..Len(evals) : j <= qcursor.evals /\ evals[j].of = m /\ evals[j].status = "REJECTED"
    BY DEF Refused
  <2>2. j <= qcursor'.evals /\ evals' = evals
    BY <1>1, <1>2, <2>1
  <2> QED
    BY <2>1, <2>2 DEF Refused
<1>8. ~Refused(n)
  <2> SUFFICES ASSUME NEW j \in 1..Len(evals), j <= qcursor.evals, evals[j].of = n
               PROVE  FALSE
    BY DEF Refused
  <2>1. j = i
    BY <1>n DEF EvaluatedOnce
  <2> QED
    BY <1>2, <2>1
<1>9. ASSUME NEW k \in 1..(r.iteration - 1)
      PROVE  \E m \in RoundsOf(r.event) :
               proposals[m].signed /\ proposals[m].iteration = k /\ Refused(m)'
  <2>1. CASE k = proposals[n].iteration
    BY <1>3, <1>6, <1>n, <2>1 DEF RoundsOf
  <2>2. CASE k # proposals[n].iteration
    <3>1. k \in 1..(proposals[n].iteration - 1)
      <4>1. /\ proposals[n].iteration \in Nat \ {0} /\ k \in 1..proposals[n].iteration
        BY <1>3, <1>4
      <4> QED
        BY <2>2, <4>1
    <3>2. PICK m \in RoundsOf(proposals[n].event) :
            proposals[m].signed /\ proposals[m].iteration = k /\ Refused(m)
      BY <1>5, <3>1 DEF Follows
    <3> QED
      BY <1>3, <1>7, <3>2
  <2> QED
    BY <2>1, <2>2
<1>10. ASSUME NEW l \in 1..Len(proposals), proposals[l].signed, proposals[l].event = r.event,
              proposals[l].iteration = r.iteration
       PROVE  FALSE
  <2>1. proposals[l] \in Proposals
    BY <1>10, SignedFacts
  <2>2. Follows(proposals[l])
    BY <1>10, <2>1 DEF RoundsFollow, MadeByQuant
  <2>3. proposals[n].iteration \in 1..(proposals[l].iteration - 1)
    <3>1. /\ proposals[n].iteration \in Nat \ {0}
          /\ proposals[l].iteration = proposals[n].iteration + 1
      BY <1>3, <1>4, <1>10
    <3> QED
      BY <3>1
  <2>4. PICK m \in RoundsOf(proposals[l].event) :
          /\ proposals[m].signed /\ proposals[m].iteration = proposals[n].iteration /\ Refused(m)
    BY <2>2, <2>3 DEF Follows
  <2>5. m \in 1..Len(proposals) /\ SameRound(m, n)
    BY <1>3, <1>10, <2>4 DEF RoundsOf, SameRound
  <2>6. m = n
    BY <1>10, <1>n, <2>4, <2>5 DEF RoundsFollow
  <2> QED
    BY <1>8, <2>4, <2>6
<1>11. r.event <= qcursor'.market
  BY <1>1, <1>3, <1>5 DEF Follows
<1> QED
  BY <1>1, <1>2, <1>9, <1>10, <1>11, RoundDrafted

LEMMA RoundsNext ==
  NegotiationInv /\ FreshInv /\ EvaluatedOnce /\ RoundsFollow /\ [Next]_vars /\ ~QuantCrash
    => RoundsFollow'
<1> SUFFICES ASSUME NegotiationInv, FreshInv, EvaluatedOnce, RoundsFollow, [Next]_vars,
                    ~QuantCrash
             PROVE  RoundsFollow'
  OBVIOUS
<1>0. /\ qcursor.market \in Nat /\ qcursor.evals \in Nat /\ Len(evals) \in Nat
      /\ LogTypeOK /\ qcursor \in [market : Nat, evals : Nat]
  BY QuantFacts
<1>1. CASE UNCHANGED <<proposals, evals>> /\ UNCHANGED quantVars
  <2>1. /\ Longer(evals, evals') /\ qcursor' = qcursor /\ hand' = hand /\ qpc' = qpc
    BY <1>0, <1>1, TheSame DEF LogTypeOK, quantVars
  <2> QED
    BY <1>0, <1>1, <2>1, RoundsUndisturbed
<1>2. CASE Tell
  <2>1. /\ evals' = Append(evals, [id |-> proposals[This].id, status |-> status, of |-> This])
        /\ UNCHANGED <<proposals, quantVars>> /\ ppc = "tell"
    BY <1>2 DEF Tell
  <2>2. [id |-> proposals[This].id, status |-> status, of |-> This] \in Evaluations
    BY <2>1, PatriarchFacts DEF Evaluations
  <2>3. Longer(evals, evals') /\ Len(evals') \in Nat
    BY <1>0, <2>1, <2>2, Appended, GrowsByOne DEF LogTypeOK
  <2>4. qcursor' = qcursor /\ hand' = hand /\ qpc' = qpc
    BY <2>1 DEF quantVars
  <2> QED
    BY <1>0, <2>1, <2>3, <2>4, RoundsUndisturbed
<1>3. ASSUME NEW p \in ProposalId, NEW m \in Market, ForeignProposal(p, m) PROVE RoundsFollow'
  <2> DEFINE f == [id |-> p, market |-> m, iteration |-> 1, event |-> 0, signed |-> FALSE]
  <2>1. /\ proposals' = Append(proposals, f) /\ UNCHANGED <<evals, hand, qcursor, qpc>>
    BY <1>3 DEF ForeignProposal, quantVars
  <2>2. f \in Proposals /\ f.signed = FALSE
    BY DEF Proposals, Iterations, MaxIterations
  <2> HIDE DEF f
  <2> QED
    BY <2>1, <2>2, RoundPublished
<1>4. CASE PublishProposal
  <2>1. /\ qpc = "propose" /\ qpc' = "sign" /\ proposals' = Append(proposals, hand)
        /\ UNCHANGED <<evals, hand, qcursor>>
    BY <1>4 DEF PublishProposal
  <2>2. hand \in Proposals
    BY <2>1, QuantFacts
  <2>3. qpc \in Drafting /\ qpc' \notin Drafting
    BY <2>1 DEF Drafting
  <2> QED
    BY <2>1, <2>2, <2>3, RoundPublished
<1>5. CASE \/ DrainMarket \/ DrainFeedback \/ EndQuantPass \/ QuantError \/ PublishSnapshot
           \/ QuantSign \/ ((Analyze \/ ReadFeedback) /\ UNCHANGED <<hand, qpc>>)
  <2>1. UNCHANGED <<proposals, evals>>
    BY <1>5 DEF DrainMarket, DrainFeedback, EndQuantPass, QuantError, PublishSnapshot, QuantSign,
       Analyze, ReadFeedback, logs
  <2>2. Longer(evals, evals')
    BY <1>0, <2>1, TheSame DEF LogTypeOK
  <2>3. /\ qcursor'.market \in Nat /\ qcursor.market <= qcursor'.market
        /\ qcursor'.evals \in Nat /\ qcursor.evals <= qcursor'.evals
    <3>1. CASE DrainMarket
      <4>1. qcursor'.market = After(qcursor.market, floor.market)
            /\ qcursor'.evals = qcursor.evals
        BY <1>0, <3>1 DEF DrainMarket
      <4>2. floor.market \in Nat
        BY QuantFacts
      <4>3. /\ After(qcursor.market, floor.market) \in Nat
            /\ qcursor.market <= After(qcursor.market, floor.market)
        BY <1>0, <4>2, AfterType
      <4> QED
        BY <1>0, <4>1, <4>3
    <3>2. CASE DrainFeedback
      <4>1. qcursor'.evals = After(qcursor.evals, floor.evals)
            /\ qcursor'.market = qcursor.market
        BY <1>0, <3>2 DEF DrainFeedback
      <4>2. floor.evals \in Nat
        BY QuantFacts
      <4>3. /\ After(qcursor.evals, floor.evals) \in Nat
            /\ qcursor.evals <= After(qcursor.evals, floor.evals)
        BY <1>0, <4>2, AfterType
      <4> QED
        BY <1>0, <4>1, <4>3
    <3>3. CASE Analyze
      BY <1>0, <3>3, AnalyzeFacts
    <3>4. CASE ReadFeedback
      BY <1>0, <3>4, ReadFeedbackFacts
    <3>5. CASE EndQuantPass \/ PublishSnapshot \/ QuantSign
      BY <1>0, <3>5 DEF EndQuantPass, PublishSnapshot, QuantSign
    <3>6. CASE QuantError
      <4>1. \/ qcursor' = qcursor
            \/ qcursor' = [qcursor EXCEPT !.market = qcursor.market + 1]
            \/ qcursor' = [qcursor EXCEPT !.evals = qcursor.evals + 1]
        BY <3>6 DEF QuantError
      <4> QED
        BY <1>0, <4>1
    <3> QED
      BY <1>5, <3>1, <3>2, <3>3, <3>4, <3>5, <3>6
  <2>4. /\ hand' = hand \/ hand' = None
        /\ qpc' \in Drafting => qpc \in Drafting /\ hand' = hand
    BY <1>5 DEF DrainMarket, DrainFeedback, EndQuantPass, QuantError, PublishSnapshot, QuantSign,
       Analyze, ReadFeedback, Drafting
  <2> QED
    BY <1>0, <2>1, <2>2, <2>3, <2>4, RoundsUndisturbed
<1>6. Injector \/ UNCHANGED vars => UNCHANGED <<proposals, evals>> /\ UNCHANGED quantVars
  BY DEF Injector, Wipe, Inject, vars, logs
<1>7. PatriarchDaemon \/ PatriarchError \/ PatriarchCrash =>
        Tell \/ (UNCHANGED <<proposals, evals>> /\ UNCHANGED quantVars)
  BY DEF PatriarchDaemon, DrainSnapshots, DrainProposals, RejectUnsigned, Review, Simulate,
     Clear, FirewallRejects, PatriarchSign, SaveDecision, EndPatriarchPass, PatriarchError,
     PatriarchCrash, logs
<1>8. (Analyze \/ ReadFeedback) /\ ~UNCHANGED <<hand, qpc>> => RoundsFollow'
  BY FirstRoundDrafted, RevisionDrafted
<1> QED
  BY <1>1, <1>2, <1>3, <1>4, <1>5, <1>6, <1>7, <1>8 DEF Next, QuantDaemon

\* Rounds that Quant made of an event are told apart by their iteration.
LEMMA RoundsFacts ==
  ASSUME NegotiationInv, FreshInv, RoundsFollow, NEW e \in Nat \ {0}
  PROVE  /\ \A n \in RoundsOf(e) : /\ n \in 1..Len(proposals) /\ proposals[n].signed
                                   /\ proposals[n].iteration \in Iterations
                                   /\ Follows(proposals[n])
         /\ \A m, n \in RoundsOf(e) :
              proposals[m].iteration = proposals[n].iteration => m = n
<1>1. ASSUME NEW n \in RoundsOf(e)
      PROVE  /\ n \in 1..Len(proposals) /\ proposals[n].signed /\ proposals[n].event = e
             /\ proposals[n].iteration \in Iterations /\ Follows(proposals[n])
  <2>1. n \in 1..Len(proposals) /\ proposals[n].event = e
    BY DEF RoundsOf
  <2>2. CASE ~proposals[n].signed
    BY <2>1, <2>2 DEF FreshInv, EventsKnown
  <2>3. CASE proposals[n].signed
    BY <2>1, <2>3, SignedFacts DEF RoundsFollow, MadeByQuant
  <2> QED
    BY <2>1, <2>2, <2>3
<1> QED
  BY <1>1 DEF RoundsFollow, SameRound

LEMMA AtMostThreeRounds ==
  ASSUME NegotiationInv, FreshInv, RoundsFollow, NEW e \in Nat \ {0}
  PROVE  Cardinality(RoundsOf(e)) <= MaxIterations
<1> DEFINE f == [n \in RoundsOf(e) |-> proposals[n].iteration]
<1>1. f \in [RoundsOf(e) -> 1..3] /\ \A m, n \in RoundsOf(e) : f[m] = f[n] => m = n
  BY RoundsFacts DEF Iterations, MaxIterations
<1>2. f \in Injection(RoundsOf(e), 1..3)
  BY <1>1 DEF Injection, IsInjective
<1>3. IsFiniteSet(1..3) /\ Cardinality(1..3) = 3
  BY IntervalSize
<1> HIDE DEF f
<1>4. Cardinality(RoundsOf(e)) <= Cardinality(1..3)
  BY <1>2, <1>3, FS_Injection
<1> QED
  BY <1>3, <1>4 DEF MaxIterations

LEMMA AtMostOneElement ==
  ASSUME NEW T, \A x, y \in T : x = y
  PROVE  Cardinality(T) <= 1
<1>1. CASE T = {}
  BY <1>1, FS_EmptySet
<1>2. ASSUME NEW x \in T PROVE Cardinality(T) = 1
  <2>1. T = {x}
    OBVIOUS
  <2> QED
    BY <2>1, FS_Singleton
<1> QED
  BY <1>1, <1>2

\* Of two rounds of an event that are both cleared the earlier one would be refused.
LEMMA OneTradeInvOneTrade ==
  ASSUME NegotiationInv, FreshInv, OneTradeInv
  PROVE  OneTradePerEvent
<1> SUFFICES ASSUME NEW e \in 1..Len(marketLog)
             PROVE  /\ Cardinality(RoundsOf(e)) <= MaxIterations
                    /\ Cardinality({i \in 1..Len(clearedLog) : clearedLog[i] \in RoundsOf(e)}) <= 1
  BY DEF OneTradePerEvent
<1>1. e \in Nat \ {0} /\ EvaluatedOnce /\ ClearedOnce /\ RoundsFollow
  BY QuantFacts DEF OneTradeInv
<1>2. ASSUME NEW i \in 1..Len(clearedLog), NEW m \in RoundsOf(e), NEW n \in RoundsOf(e),
             clearedLog[i] = m, proposals[m].iteration < proposals[n].iteration
      PROVE  FALSE
  <2>1. proposals[m].iteration \in 1..(proposals[n].iteration - 1) /\ proposals[n].event = e
    <3>1. proposals[m].iteration \in Iterations /\ proposals[n].iteration \in Iterations
      BY <1>1, <1>2, RoundsFacts
    <3>2. proposals[m].iteration \in Nat \ {0} /\ proposals[n].iteration \in Nat \ {0}
      BY <3>1 DEF Iterations, MaxIterations
    <3>3. proposals[n].event = e
      BY <1>2 DEF RoundsOf
    <3> QED
      BY <1>2, <3>2, <3>3
  <2>2. PICK k \in RoundsOf(e) : proposals[k].iteration = proposals[m].iteration /\ Refused(k)
    BY <1>1, <2>1, RoundsFacts DEF Follows
  <2>3. k = m
    BY <1>1, <2>2, RoundsFacts
  <2> QED
    BY <1>1, <1>2, <2>2, <2>3 DEF Refused, ClearedOnce
<1>3. ASSUME NEW i \in 1..Len(clearedLog), NEW j \in 1..Len(clearedLog),
             clearedLog[i] \in RoundsOf(e), clearedLog[j] \in RoundsOf(e)
      PROVE  i = j
  <2>1. /\ proposals[clearedLog[i]].iteration \in Nat
        /\ proposals[clearedLog[j]].iteration \in Nat
    <3>1. /\ proposals[clearedLog[i]].iteration \in Iterations
          /\ proposals[clearedLog[j]].iteration \in Iterations
      BY <1>1, <1>3, RoundsFacts
    <3> QED
      BY <3>1 DEF Iterations, MaxIterations
  <2>2. proposals[clearedLog[i]].iteration = proposals[clearedLog[j]].iteration
    BY <1>2, <1>3, <2>1
  <2>3. clearedLog[i] = clearedLog[j]
    BY <1>1, <1>3, <2>2, RoundsFacts
  <2> QED
    BY <1>1, <2>3 DEF ClearedOnce
<1>4. Cardinality({i \in 1..Len(clearedLog) : clearedLog[i] \in RoundsOf(e)}) <= 1
  BY <1>3, AtMostOneElement
<1> QED
  BY <1>1, <1>4, AtMostThreeRounds

LEMMA CrashesAlone ==
  ASSUME [Next]_vars, ~QuantCrash, ~PatriarchCrash
  PROVE  crashes' = crashes
BY DEF Next, QuantDaemon, PatriarchDaemon, Injector, Wipe, Inject, DrainMarket, Analyze,
   PublishSnapshot, PublishProposal, QuantSign, DrainFeedback, ReadFeedback, EndQuantPass,
   QuantError, ForeignProposal, DrainSnapshots, DrainProposals, RejectUnsigned, Review, Simulate,
   Clear, FirewallRejects, PatriarchSign, SaveDecision, Tell, EndPatriarchPass, PatriarchError,
   vars, faultVars

LEMMA OneTradeInit == Init => OneTradeInv
<1> SUFFICES ASSUME Init PROVE OneTradeInv
  OBVIOUS
<1>1. Len(<<>>) = 0 /\ proposals = <<>> /\ hand = None /\ qpc = "market"
  BY DEF Init
<1>2. RoundsFollow
  BY <1>1, NoneIsNone DEF RoundsFollow, MadeByQuant, Drafting
<1> QED
  BY <1>2, PatriarchOnceInit DEF OneTradeInv, PatriarchOnce

LEMMA OneTradeNext ==
  NegotiationInv /\ FreshInv /\ (crashes = 0 => OneTradeInv) /\ [Next]_vars
    => (crashes' = 0 => OneTradeInv')
<1> SUFFICES ASSUME NegotiationInv, FreshInv, crashes = 0 => OneTradeInv, [Next]_vars, crashes' = 0
             PROVE  OneTradeInv'
  OBVIOUS
<1>1. crashes \in Nat
  BY DEF NegotiationInv
<1>2. ~QuantCrash /\ ~PatriarchCrash
  BY <1>1 DEF QuantCrash, PatriarchCrash
<1>3. crashes' = crashes
  BY <1>2, CrashesAlone
<1>4. PatriarchOnce /\ EvaluatedOnce /\ RoundsFollow
  BY <1>3 DEF OneTradeInv, PatriarchOnce
<1>5. PatriarchOnce'
  BY <1>2, <1>4, PatriarchOnceNext
<1>6. RoundsFollow'
  BY <1>2, <1>4, RoundsNext
<1> QED
  BY <1>5, <1>6 DEF OneTradeInv, PatriarchOnce

\* Until a daemon restarts, a market message leads to at most three proposals and one
\* clearance, whatever exceptions the daemons meet: Quant goes on only with a round that
\* Patriarch has rejected, and what is cleared Patriarch does not reject
\* (quant_process.py, lines 93-136; patriarch_process.py, lines 188-296).
THEOREM OneTradeUntilRestart == FreshIds => (Spec => [](crashes = 0 => OneTradePerEvent))
<1> SUFFICES ASSUME FreshIds PROVE Spec => [](crashes = 0 => OneTradePerEvent)
  OBVIOUS
<1>1. Init => (crashes = 0 => OneTradeInv)
  BY OneTradeInit
<1>2. NegotiationInv /\ FreshInv /\ (crashes = 0 => OneTradeInv) /\ [Next]_vars
        => (crashes = 0 => OneTradeInv)'
  BY OneTradeNext
<1>3. NegotiationInv /\ FreshInv /\ (crashes = 0 => OneTradeInv)
        => (crashes = 0 => OneTradePerEvent)
  BY OneTradeInvOneTrade
<1>4. Spec => []FreshInv
  BY FreshNegotiations
<1> QED
  BY <1>1, <1>2, <1>3, <1>4, Negotiates, PTL DEF Spec

\* So it is always, for daemons that are never restarted.
THEOREM OneTrade == FreshIds /\ MaxCrashes = 0 => (Spec => []OneTradePerEvent)
<1> SUFFICES ASSUME FreshIds, MaxCrashes = 0 PROVE Spec => []OneTradePerEvent
  OBVIOUS
<1>1. Init => crashes = 0
  BY DEF Init
<1>2. crashes = 0 /\ [Next]_vars => (crashes = 0)'
  <2> SUFFICES ASSUME crashes = 0, [Next]_vars PROVE crashes' = 0
    OBVIOUS
  <2>1. ~QuantCrash /\ ~PatriarchCrash
    BY DEF QuantCrash, PatriarchCrash
  <2> QED
    BY <2>1, CrashesAlone
<1>3. Spec => [](crashes = 0 => OneTradePerEvent)
  BY OneTradeUntilRestart
<1> QED
  BY <1>1, <1>2, <1>3, PTL DEF Spec
================================================================================
