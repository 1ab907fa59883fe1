--------------------------------- MODULE Demo ---------------------------------
(***************************************************************************)
(* A demonstration over SQLite: the scripts that inject scenarios and wait *)
(* for what comes of them (scripts/demo_run.py, scripts/start_all.py with  *)
(* apps/market_injector.py), the watchdog that fires six messages with a   *)
(* fault (apps/byzantine_watchdog.py), the daemons, and the dashboard that *)
(* shows the same rows.                                                    *)
(*                                                                         *)
(* The daemons are those of Negotiation and Settlement, without faults and *)
(* restarts, cut down to the rows the scripts and the dashboard read and   *)
(* to the first round of a negotiation, but with the scenarios, the        *)
(* analysis and the firewall of Policy in place.                           *)
(***************************************************************************)
EXTENDS Policy, Dashboard

CONSTANTS
  Pid,            \* the proposal_ids the LLM chooses from
  Answers,        \* what the LLM may answer
  Lefts,          \* seconds that may be left of a proposal when it is reviewed
  Scenarios,      \* those that are injected from the menu or by hand
  MaxOthers       \* bound: how often that happens, and rejections due to the watchdog
                  \* that start_all.py leaves running

VARIABLES
  byHand,      \* scenarios injected from the menu or by hand so far
  market,      \* the scenario of the MARKET_DATA row Quant has yet to read, or None
  prop,        \* the newest proposal of each id, None before there is one
  rows,        \* the rows of each id, oldest first
  lastSettled, \* the id in the ledger's newest row, or None
  drill,       \* the watchdog's sequence: messages fired, and those not rejected yet
  attackRows,  \* ATTACK_REJECTED rows due to a watchdog
  chaos        \* history: those due to the one start_all.py has launched

botVars == <<market, prop, rows, lastSettled, drill, attackRows, chaos>>

VARIABLES
  script,   \* which script runs: demo_run.py, or the menu of start_all.py
  step,     \* the step of demo_run.py
  phase,    \* where in the step
  base,     \* the number of rows when the script counted
  fresh,    \* history: has a success been published since then, and not wiped?
  others,   \* history: rejections since then that are not the drill's
  wiped     \* history: has the table been wiped since then?

scriptVars == <<script, step, phase, base, fresh, others, wiped>>
demoVars   == <<byHand, botVars, scriptVars>>

Plan == <<"flash_crash_eth", "pendle_yield_arbitrage", "drill", "protocol_hack",
          "gas_war", "replay", "verify">>

\* What is injected, what Quant makes of it, and what becomes of that.
Markets == Scenarios \cup ToSet(Plan)
Drafts  == {Draft(a, Rotation(MarketData(s))) : a \in Answers, s \in Markets}
Negotiated == [scenario : Markets \cup {None}, draft : Drafts \cup {None},
               sigs : SUBSET Signing, review : {"open", "cleared", "told", "rejected", "blocked"},
               exec : {"no", "yes", "failed"}]

ASSUME DemoAssumption ==
  /\ IsFiniteSet(Pid) /\ MaxOthers \in Nat
  /\ None \notin Int \cup Pid \cup Drafts \cup Negotiated
  /\ MaxUnits \in Nat \cup {None}
  /\ \A a \in Answers : {a.amount, a.units} \subseteq Int \cup {None}

DemoInit ==
  /\ byHand = 0
  /\ market = None
  /\ prop = [p \in Pid |-> None] /\ rows = [p \in Pid |-> <<>>] /\ lastSettled = None
  /\ drill = [fired |-> 6, open |-> 0] /\ attackRows = 0 /\ chaos = 0
  /\ script \in {"demo", "menu"} /\ step = 1 /\ phase = "ready"
  /\ base = 0 /\ fresh = FALSE /\ others = 0 /\ wiped = FALSE

-------------------------------------------------------------------------------
(* The table *)

RowsOf(topic) == UNION {{p} \X {i \in DOMAIN rows[p] : rows[p][i] = topic} : p \in Pid}
Count(topic)  == Cardinality(RowsOf(topic))
Successes  == Count("EXECUTION_SUCCESS")
Rejections == Count("ATTACK_REJECTED") + attackRows

Published(p, topics) == [rows EXCEPT ![p] = @ \o topics]

-------------------------------------------------------------------------------
(* The daemons *)

\* Bound: the daemons go on when a script is over, but that is not followed.
Daemons == phase # "over" /\ UNCHANGED <<byHand, script, step, phase, base, wiped>>

\* The history variables count while a script waits for what they are about.
Waiting  == phase \in {"based", "waiting"}
Drilling == Waiting /\ script = "demo" /\ Plan[step] = "drill"
Awaiting == Waiting /\ ~Drilling
Counted(n) == IF Drilling THEN n + 1 ELSE n

Known(p)    == prop[p] # None
Reviewing   == \E p \in Pid : Known(p) /\ prop[p].review = "cleared"
InFlight(p) == Known(p) /\ prop[p].exec = "no" /\ prop[p].review \notin {"rejected", "blocked"}

\* Quant reads the message, and drafts a proposal under an id that is in flight no
\* longer, or does nothing because there is nothing to do, the LLM fails, or it
\* concedes.  Bound: it has published before the table is wiped again.
QuantTakes ==
  /\ Daemons
  /\ market # None /\ market' = None
  /\ \A p \in Pid : Known(p) => "sig_quant" \in prop[p].sigs
  /\ \/ UNCHANGED <<prop, rows>>
     \/ /\ Rotation(MarketData(market)).action # "NONE"
        /\ \E p \in Pid, a \in Answers :
             /\ ~InFlight(p)
             /\ prop' = [prop EXCEPT ![p] =
                  [scenario |-> market,
                   draft |-> Draft(a, Rotation(MarketData(market))),
                   sigs |-> {}, review |-> "open", exec |-> "no"]]
             /\ rows' = Published(p, <<"PROPOSALS">>)
  /\ UNCHANGED <<lastSettled, drill, attackRows, chaos, fresh, others>>

QuantSigns(p) ==
  /\ Daemons
  /\ Known(p) /\ "sig_quant" \notin prop[p].sigs
  /\ prop' = [prop EXCEPT ![p].sigs = @ \cup {"sig_quant"}]
  /\ rows' = Published(p, <<"sig_quant">>)
  /\ UNCHANGED <<market, lastSettled, drill, attackRows, chaos, fresh, others>>

\* Patriarch rejects.
PatriarchRejects(p) ==
  /\ Daemons
  /\ Known(p) /\ prop[p].review = "open" /\ ~Reviewing
  /\ \/ /\ rows' = Published(p, <<"REJECTED">>)
        /\ prop' = [prop EXCEPT ![p].review = "rejected", ![p].scenario = None, ![p].draft = None]
        /\ UNCHANGED others
     \/ /\ rows' = Published(p, <<"ATTACK_REJECTED", "REJECTED">>)  \* the simulation reverts
        /\ prop' = [prop EXCEPT ![p].review = "blocked", ![p].scenario = None, ![p].draft = None]
        /\ others' = Counted(others)
  /\ UNCHANGED <<market, lastSettled, drill, attackRows, chaos, fresh>>

\* The firewall: a clearance, or an attack of a proposal that stays ACCEPTED.
PatriarchClears(p) ==
  /\ Daemons
  /\ Known(p) /\ prop[p].review = "open" /\ ~Reviewing
  /\ \E left \in Lefts :
       \/ /\ Clears(prop[p].draft, left)
          /\ prop' = [prop EXCEPT ![p].review = "cleared"]
          /\ UNCHANGED <<rows, others>>
       \/ /\ ~Clears(prop[p].draft, left)
          /\ prop' = [prop EXCEPT ![p].review = "blocked", ![p].scenario = None, ![p].draft = None]
          /\ rows' = Published(p, <<"ATTACK_REJECTED", "ACCEPTED">>)
          /\ others' = Counted(others)
  /\ UNCHANGED <<market, lastSettled, drill, attackRows, chaos, fresh>>

\* Patriarch signs a second after the clearance, and evaluates when the decision is
\* saved; P3 may be done by then.
PatriarchSigns(p) ==
  /\ Daemons
  /\ Known(p) /\ prop[p].review = "cleared" /\ "sig_patriarch" \notin prop[p].sigs
  /\ prop' = [prop EXCEPT ![p].sigs = @ \cup {"sig_patriarch"}]
  /\ rows' = Published(p, <<"sig_patriarch">>)
  /\ UNCHANGED <<market, lastSettled, drill, attackRows, chaos, fresh, others>>

PatriarchTells(p) ==
  /\ Daemons
  /\ Known(p) /\ prop[p].review = "cleared" /\ "sig_patriarch" \in prop[p].sigs
  /\ prop' = [prop EXCEPT ![p].review = "told"]
  /\ rows' = Published(p, <<"ACCEPTED">>)
  /\ UNCHANGED <<market, lastSettled, drill, attackRows, chaos, fresh, others>>

\* P3 settles, or fails: EXECUTION_FAILURE is read by neither script nor dashboard.
Settles(p) ==
  /\ Daemons
  /\ Known(p) /\ {"sig_quant", "sig_patriarch"} \subseteq prop[p].sigs
  /\ prop[p].review \in {"cleared", "told"} /\ prop[p].exec = "no"
  /\ \/ /\ prop' = [prop EXCEPT ![p].exec = "yes", ![p].scenario = None, ![p].draft = None]
        /\ rows' = Published(p, <<"EXECUTION_SUCCESS">>)
        /\ fresh' = (fresh \/ Awaiting) /\ lastSettled' = p
     \/ /\ prop' = [prop EXCEPT ![p].exec = "failed", ![p].scenario = None, ![p].draft = None]
        /\ UNCHANGED <<rows, fresh, lastSettled>>
  /\ UNCHANGED <<market, drill, attackRows, chaos, others>>

-------------------------------------------------------------------------------
(* The watchdog *)

Attacks == <<"A1", "A2", "A3", "A4", "A5", "A6">>

\* run_sequence fires the next message.  Four are proposals without Quant's
\* signature; A2 repeats a signature for the proposal settled last; A5 is a result
\* on a topic nobody reads.
Fires ==
  LET attack == Attacks[drill.fired + 1]
  IN
  /\ Daemons
  /\ drill.fired < Len(Attacks)
  /\ drill' = [fired |-> drill.fired + 1,
               open  |-> drill.open + (IF attack \in {"A2", "A5"} THEN 0 ELSE 1)]
  /\ IF attack = "A2" /\ lastSettled # None
     THEN /\ prop' = [prop EXCEPT ![lastSettled].sigs = @ \cup {"sig_attacker"}]
          /\ rows' = Published(lastSettled, <<"sig_attacker">>)
     ELSE UNCHANGED <<prop, rows>>
  /\ UNCHANGED <<market, lastSettled, attackRows, chaos, fresh, others>>

\* Patriarch finds that Quant has not signed one of them.
RejectsAttack ==
  /\ Daemons
  /\ drill.open > 0 /\ ~Reviewing
  /\ drill' = [drill EXCEPT !.open = @ - 1]
  /\ attackRows' = attackRows + 1
  /\ UNCHANGED <<market, prop, rows, lastSettled, chaos, fresh, others>>

\* Another watchdog, which start_all.py has launched, fires at random.
RejectsOther ==
  /\ Daemons
  /\ byHand + chaos < MaxOthers /\ chaos' = chaos + 1
  /\ attackRows' = attackRows + 1
  /\ others' = Counted(others)
  /\ UNCHANGED <<market, prop, rows, lastSettled, drill, fresh>>

-------------------------------------------------------------------------------
(* The scripts *)

Daemonless == UNCHANGED <<prop, lastSettled, chaos>>

\* market_injector.py clears the table and publishes.  What a daemon has in hand
\* outlives the rows.
Inject(scenario) ==
  /\ market' = scenario
  /\ rows' = [p \in Pid |-> <<>>]
  /\ attackRows' = 0
  /\ \E n \in 0..drill.open : drill' = [drill EXCEPT !.open = n]
  /\ fresh' = FALSE /\ wiped' = Awaiting

OneMoreByHand == phase # "over" /\ byHand + chaos < MaxOthers /\ byHand' = byHand + 1

\* Somebody runs the injector in another console.
InjectByHand ==
  /\ OneMoreByHand
  /\ \E scenario \in Scenarios : Inject(scenario)
  /\ Daemonless /\ UNCHANGED <<script, step, phase, base, others>>

\* Mutant: the rows of every topic are counted.
CountsEveryRow(count) ==
  base' = Successes + Rejections /\ fresh' = FALSE /\ others' = 0 /\ wiped' = FALSE

TakeBaseline(count) == base' = count /\ fresh' = FALSE /\ others' = 0 /\ wiped' = FALSE

At(place) == script = "demo" /\ phase = place

\* step_inject_and_execute, the drill and the fifth step count first ...
Baseline ==
  /\ At("ready") /\ Plan[step] \notin {"replay", "verify"}
  /\ TakeBaseline(IF Plan[step] = "drill" THEN Rejections ELSE Successes)
  /\ phase' = "based"
  /\ UNCHANGED <<byHand, botVars, script, step>>

\* ... and inject then.
InjectStep ==
  /\ At("based") /\ Plan[step] # "drill"
  /\ Inject(Plan[step])
  /\ phase' = "waiting"
  /\ Daemonless /\ UNCHANGED <<byHand, script, step, base, others>>

\* The watchdog is started and left to itself.
StartDrill ==
  /\ At("based") /\ Plan[step] = "drill"
  /\ drill' = [drill EXCEPT !.fired = 0]
  /\ phase' = "waiting"
  /\ Daemonless
  /\ UNCHANGED <<byHand, market, rows, attackRows, script, step, base, fresh, others, wiped>>

\* start_all.py injects what has been chosen, and counts afterwards.
MenuInject ==
  /\ script = "menu" /\ phase = "ready" /\ OneMoreByHand
  /\ \E scenario \in Scenarios : Inject(scenario)
  /\ phase' = "injected"
  /\ Daemonless /\ UNCHANGED <<script, step, base, others>>

MenuBaseline ==
  /\ script = "menu" /\ phase = "injected"
  /\ TakeBaseline(Successes)
  /\ phase' = "waiting"
  /\ UNCHANGED <<byHand, botVars, script, step>>

\* Mutant: the count is kept for the next wait.
EndsWithBaseline ==
  /\ fresh' = FALSE /\ others' = 0 /\ wiped' = FALSE
  /\ UNCHANGED <<byHand, botVars, script, base>>

\* The wait is over.
Ends ==
  /\ base' = 0 /\ fresh' = FALSE /\ others' = 0 /\ wiped' = FALSE
  /\ UNCHANGED <<byHand, botVars, script>>

\* The next step, or the menu.
NextStep == phase' = "ready" /\ step' = IF script = "demo" THEN step + 1 ELSE step
Aborts   == phase' = "over" /\ UNCHANGED step

\* Mutant: as many as before will do.
SuccessOrSame == Successes >= base

\* What wait_for and wait_for_execution wait for.
NewSuccess == Successes > base

AwaitsSuccess == Awaiting /\ phase = "waiting"

SuccessSeen == AwaitsSuccess /\ NewSuccess /\ Ends /\ NextStep

\* The menu comes back, and the fifth step takes it for a success; the others abort.
SuccessNotSeen ==
  /\ AwaitsSuccess /\ ~NewSuccess /\ Ends
  /\ IF script = "menu" \/ Plan[step] = "gas_war" THEN NextStep ELSE Aborts

AwaitsSix == Drilling /\ phase = "waiting"

\* Mutant: one message is not waited for.
FiveRejected == Rejections - base >= 5

AllRejected == Rejections - base >= 6

SixSeen    == AwaitsSix /\ AllRejected /\ Ends /\ NextStep
SixNotSeen == AwaitsSix /\ ~AllRejected /\ Ends /\ Aborts

\* --skip-watchdog; and the replay, which touches nothing.
SkipStep == At("ready") /\ Plan[step] \in {"drill", "replay"} /\ Ends /\ NextStep

\* The walk is AuditWalk's: the script is done, or aborts.
Verify == At("ready") /\ Plan[step] = "verify" /\ Ends /\ Aborts

Scripts ==
  \/ Baseline \/ InjectStep \/ StartDrill \/ MenuInject \/ MenuBaseline
  \/ SuccessSeen \/ SuccessNotSeen \/ SixSeen \/ SixNotSeen
  \/ SkipStep \/ Verify \/ InjectByHand

Bots ==
  \/ QuantTakes
  \/ \E p \in Pid : \/ QuantSigns(p) \/ PatriarchRejects(p) \/ PatriarchClears(p)
                    \/ PatriarchSigns(p) \/ PatriarchTells(p) \/ Settles(p)
  \/ Fires \/ RejectsAttack \/ RejectsOther

DemoNext == Scripts \/ Bots

DemoSpec == DemoInit /\ [][DemoNext]_demoVars

-------------------------------------------------------------------------------
(* Properties *)

\* Types, and that a proposal's data are kept exactly until its end.
DemoTypeOK ==
  /\ byHand + chaos \in 0..MaxOthers
  /\ market \in Markets \cup {None}
  /\ \A p \in Pid :
       /\ ToSet(rows[p]) \subseteq Topics
       /\ Known(p) => prop[p] \in Negotiated /\ (prop[p].draft # None <=> InFlight(p))
  /\ lastSettled \in Pid \cup {None}
  /\ drill.fired \in 0..Len(Attacks) /\ drill.open \in Nat /\ attackRows \in Nat
  /\ script \in {"demo", "menu"} /\ step \in DOMAIN Plan
  /\ phase \in {"ready", "based", "injected", "waiting", "over"}
  /\ Waiting \/ (base = 0 /\ ~fresh /\ others = 0 /\ ~wiped)

\* "EXECUTION_SUCCESS after <scenario>" is never said of rows that were there
\* before: some settlement has been published since the script counted, though it
\* may be that of an earlier scenario.
TickIsEarned == [][SuccessSeen => fresh]_demoVars

\* A step that times out, or says "No execution", has missed no settlement, with one
\* exception: the table has been wiped since the script counted, and what it had
\* counted then is asked for once more.  start_all.py meets that when somebody else
\* injects while it waits, demo_run.py always, since it counts before it injects.
TimeoutIsEarned == [][SuccessNotSeen => ~fresh \/ (wiped /\ base > 0)]_demoVars

\* Where that exception leads: a first demo_run.py never gets past its second step,
\* because a scenario settles once and two settlements are asked for.
StopsAtSecondStep == script = "demo" /\ byHand = 0 => step <= 2

\* Four of the watchdog's six messages are ever answered with a rejection: the
\* drill only passes when rejections of something else are counted.
DrillNeedsOthers == [][SixSeen => others >= 2]_demoVars

\* The withdrawal that protocol_hack calls for is never cleared when the LLM copies its
\* score, 9.5, as the prompt asks: that is above the firewall's ceiling.  It is cleared
\* when the LLM gives a lower score, basis points of its own, or neither.
CopiedEmergencyIsRefused ==
  \A p \in Pid : InFlight(p) /\ prop[p].review # "open" /\ prop[p].scenario = "protocol_hack" =>
    ~prop[p].draft.copied

\* What is cleared is within the cap at the market's price, which is not the one the
\* firewall values it at, whatever amount the LLM gave or left out.
CapHoldsAtMarket ==
  \A p \in Pid : InFlight(p) /\ prop[p].review # "open" /\ prop[p].draft.assetIn = "WETH" =>
    100 * MarketData(prop[p].scenario).wethPrice * prop[p].draft.amount <= MaxValue

\* What the daemons have done with a proposal.
StatusOf(q) ==
  CASE q.exec = "yes"        -> "executed"
    [] q.review = "blocked"  -> "attack_blocked"
    [] q.review = "rejected" -> "rejected"
    [] OTHER -> IF q.sigs = {} THEN "proposed" ELSE "signing"

\* The dashboard shows each proposal it lists as it is, although its id may have been
\* used before, P3 may be done before Patriarch has evaluated, and the table may have
\* been wiped meanwhile; only the signatures of an attack may have been wiped too.
\* What P3 has failed to settle is shown as being signed.
DashboardAgrees ==
  \A p \in Pid : Listed(rows[p]) =>
    LET status == StatusOf(prop[p])
    IN /\ Status(rows[p]) = status
       /\ "PROPOSALS" \in ToSet(rows[p]) =>
            Signatures(rows[p], status) =
              IF status = "executed" \/ Cardinality(prop[p].sigs) > 2 THEN 2
              ELSE Cardinality(prop[p].sigs)
===============================================================================
