------------------------------ MODULE DemoProofs -------------------------------
(* Theorems about Demo, Policy and Dashboard, for every value of the constants. *)
EXTENDS Demo, FiniteSetTheorems, SequenceTheorems, WellFoundedInduction, TLAPS

-------------------------------------------------------------------------------
(* The invariants *)

\* What DemoTypeOK says, and where the scripts can be.
ConsoleTypes ==
  /\ byHand \in Nat /\ chaos \in Nat /\ byHand + chaos <= MaxOthers
  /\ script \in {"demo", "menu"} /\ step \in 1..7
  /\ phase \in {"ready", "based", "injected", "waiting", "over"}
  /\ base \in Nat /\ fresh \in BOOLEAN /\ others \in Nat /\ wiped \in BOOLEAN
  /\ Waiting \/ (base = 0 /\ ~fresh /\ others = 0 /\ ~wiped)
  /\ script = "demo" /\ Waiting => step <= 5
  /\ script = "demo" => phase # "injected"
  /\ script = "menu" => phase # "based"

TableTypes ==
  /\ rows \in [Pid -> Seq(Topics)]
  /\ IsFiniteSet(RowsOf("EXECUTION_SUCCESS")) /\ IsFiniteSet(RowsOf("ATTACK_REJECTED"))

BotTypes ==
  /\ market \in Markets \cup {None}
  /\ prop \in [Pid -> Negotiated \cup {None}]
  /\ lastSettled \in Pid \cup {None}
  /\ lastSettled # None => Known(lastSettled)
  /\ drill \in [fired : 0..6, open : Nat] /\ attackRows \in Nat

\* Data are kept until a proposal's end; they are a draft for the scenario they came
\* from, and what was cleared passed the firewall.
Open(q) == q.exec = "no" /\ q.review \notin {"rejected", "blocked"}

KeptOf(q) ==
  /\ q.draft # None <=> Open(q)
  /\ Open(q) =>
       /\ \E a \in Answers : q.draft = Draft(a, Rotation(MarketData(q.scenario)))
       /\ q.review # "open" => \E left \in Lefts : Clears(q.draft, left)

Kept == \A p \in Pid : Known(p) => KeptOf(prop[p])

\* What has been published since a script counted, if it waits for a success.
Counting ==
  Awaiting => /\ Successes > base => fresh
              /\ fresh => Successes > 0 /\ (wiped \/ Successes > base)
              /\ wiped \/ Successes >= base

\* The messages of the watchdog that Patriarch has yet to reject.
Unfired == <<4, 3, 3, 2, 1, 1, 0>>

ToReject == drill.open + Unfired[drill.fired + 1]

Unstarted == script = "menu" \/ step < 3 \/ (step = 3 /\ phase \in {"ready", "based"})

DrillCounted ==
  /\ ToReject <= 4
  /\ Unstarted => drill = [fired |-> 6, open |-> 0]
  /\ Drilling => Rejections + ToReject <= base + others + (IF phase = "waiting" THEN 4 ELSE 0)

\* At most one of: a market message to be read, a proposal in flight, a success.
OneAtATime ==
  /\ market # None => Successes = 0
  /\ \A p \in Pid : InFlight(p) => market = None /\ Successes = 0
  /\ \A p, q \in Pid : InFlight(p) /\ InFlight(q) => p = q
  /\ Successes <= 1

\* The first two steps of demo_run.py, when nobody injects by hand.
FirstSteps ==
  script = "demo" /\ byHand = 0 =>
    /\ step <= 2
    /\ phase # "over" => OneAtATime
    /\ step = 1 /\ phase \in {"ready", "based"} =>
         market = None /\ Successes = 0 /\ \A p \in Pid : ~InFlight(p)
    /\ step = 2 /\ phase \in {"ready", "based"} => Successes = 1
    /\ step = 2 /\ phase \in {"based", "waiting"} => base = 1

TypesInv == ConsoleTypes /\ TableTypes /\ BotTypes

-------------------------------------------------------------------------------
(* The rows of the table, counted *)

RowsIn(r, t) == UNION {{p} \X {i \in DOMAIN r[p] : r[p][i] = t} : p \in Pid}

Appends(r, p, s, r2) == r2 = [r EXCEPT ![p] = @ \o s]

\* Publishing s for p adds the places of t in s to the rows of topic t.
LEMMA RowsAdded ==
  ASSUME NEW r \in [Pid -> Seq(Topics)], NEW p \in Pid, NEW s \in Seq(Topics), NEW t,
         NEW r2, Appends(r, p, s, r2)
  PROVE  /\ r2 \in [Pid -> Seq(Topics)]
         /\ \A x : x \in RowsIn(r2, t) <=>
              \/ x \in RowsIn(r, t)
              \/ \E i \in 1..Len(s) : s[i] = t /\ x = <<p, Len(r[p]) + i>>
<1>1. r[p] \in Seq(Topics) /\ r[p] \o s \in Seq(Topics)
  OBVIOUS
<1>2. /\ Len(r[p] \o s) = Len(r[p]) + Len(s)
      /\ \A i \in 1..Len(r[p]) + Len(s) :
           (r[p] \o s)[i] = IF i <= Len(r[p]) THEN r[p][i] ELSE s[i - Len(r[p])]
  BY <1>1
<1>3. r2[p] = r[p] \o s /\ \A q \in Pid : q # p => r2[q] = r[q]
  BY DEF Appends
<1>4. \A f \in {r, r2} : \A x : x \in RowsIn(f, t) <=>
        \E q \in Pid : \E i \in DOMAIN f[q] : f[q][i] = t /\ x = <<q, i>>
  BY DEF RowsIn
<1>5. r2 \in [Pid -> Seq(Topics)]
  BY <1>1 DEF Appends
<1>6. ASSUME NEW x \in RowsIn(r2, t)
      PROVE  \/ x \in RowsIn(r, t)
             \/ \E i \in 1..Len(s) : s[i] = t /\ x = <<p, Len(r[p]) + i>>
  <2>1. PICK q \in Pid : \E i \in DOMAIN r2[q] : r2[q][i] = t /\ x = <<q, i>>
    BY <1>4, <1>6
  <2>2. PICK i \in DOMAIN r2[q] : r2[q][i] = t /\ x = <<q, i>>
    BY <2>1
  <2>3. CASE q # p
    BY <1>3, <1>4, <2>2, <2>3
  <2>4. CASE q = p
    <3>1. i \in 1..Len(r[p]) + Len(s)
      BY <1>1, <1>2, <1>3, <2>2, <2>4
    <3>2. CASE i <= Len(r[p])
      <4>1. i \in DOMAIN r[p] /\ r[p][i] = t
        BY <1>1, <1>2, <1>3, <2>2, <2>4, <3>1, <3>2
      <4> QED
        BY <1>4, <2>2, <2>4, <4>1
    <3>3. CASE i > Len(r[p])
      <4>1. /\ i - Len(r[p]) \in 1..Len(s) /\ s[i - Len(r[p])] = t
            /\ i = Len(r[p]) + (i - Len(r[p]))
        BY <1>1, <1>2, <1>3, <2>2, <2>4, <3>1, <3>3
      <4> QED
        BY <2>2, <2>4, <4>1
    <3> QED
      BY <1>1, <3>1, <3>2, <3>3
  <2> QED
    BY <2>3, <2>4
<1>7. ASSUME NEW x \in RowsIn(r, t) PROVE x \in RowsIn(r2, t)
  <2>1. PICK q \in Pid : \E i \in DOMAIN r[q] : r[q][i] = t /\ x = <<q, i>>
    BY <1>4, <1>7
  <2>2. PICK i \in DOMAIN r[q] : r[q][i] = t /\ x = <<q, i>>
    BY <2>1
  <2>3. CASE q # p
    BY <1>3, <1>4, <2>2, <2>3
  <2>4. CASE q = p
    <3>1. i \in 1..Len(r[p]) /\ i \in 1..Len(r[p]) + Len(s)
      BY <1>1, <2>2, <2>4
    <3>2. i \in DOMAIN r2[p] /\ r2[p][i] = t
      BY <1>1, <1>2, <1>3, <2>2, <2>4, <3>1
    <3> QED
      BY <1>4, <2>2, <2>4, <3>2
  <2> QED
    BY <2>3, <2>4
<1>8. ASSUME NEW i \in 1..Len(s), s[i] = t PROVE <<p, Len(r[p]) + i>> \in RowsIn(r2, t)
  <2>1. /\ Len(r[p]) + i \in 1..Len(r[p]) + Len(s) /\ ~(Len(r[p]) + i <= Len(r[p]))
        /\ (Len(r[p]) + i) - Len(r[p]) = i
    BY <1>1
  <2>2. Len(r[p]) + i \in DOMAIN r2[p] /\ r2[p][Len(r[p]) + i] = t
    BY <1>1, <1>2, <1>3, <1>8, <2>1
  <2> QED
    BY <1>4, <2>2
<1> QED
  BY <1>5, <1>6, <1>7, <1>8

\* Nothing of topic t is published, or one row of it.
LEMMA NoneAdded ==
  ASSUME NEW r \in [Pid -> Seq(Topics)], NEW p \in Pid, NEW s \in Seq(Topics), NEW t,
         NEW r2, Appends(r, p, s, r2),
         \A i \in 1..Len(s) : s[i] # t
  PROVE  RowsIn(r2, t) = RowsIn(r, t)
<1>1. \A x : x \in RowsIn(r2, t) <=>
        x \in RowsIn(r, t) \/ \E i \in 1..Len(s) : s[i] = t /\ x = <<p, Len(r[p]) + i>>
  BY RowsAdded
<1> QED
  BY <1>1

LEMMA OneAdded ==
  ASSUME NEW r \in [Pid -> Seq(Topics)], NEW p \in Pid, NEW s \in Seq(Topics), NEW t,
         NEW r2, Appends(r, p, s, r2),
         NEW k \in 1..Len(s), s[k] = t, \A i \in 1..Len(s) : s[i] = t => i = k,
         IsFiniteSet(RowsIn(r, t))
  PROVE  /\ IsFiniteSet(RowsIn(r2, t))
         /\ Cardinality(RowsIn(r2, t)) = Cardinality(RowsIn(r, t)) + 1
<1>5. \A y : y \in RowsIn(r2, t) <=>
        y \in RowsIn(r, t) \/ \E i \in 1..Len(s) : s[i] = t /\ y = <<p, Len(r[p]) + i>>
  <2>1. Appends(r, p, s, r2)
    OBVIOUS
  <2> QED
    BY ONLY <2>1, r \in [Pid -> Seq(Topics)], p \in Pid, s \in Seq(Topics), RowsAdded
<1> DEFINE x == <<p, Len(r[p]) + k>>
<1>1. RowsIn(r2, t) = RowsIn(r, t) \cup {x}
  <2>2. \A y : y \in RowsIn(r2, t) <=> y \in RowsIn(r, t) \/ y = x
    BY <1>5
  <2> HIDE DEF x
  <2> QED
    BY <2>2
<1>2. x \notin RowsIn(r, t)
  <2> SUFFICES ASSUME x \in RowsIn(r, t) PROVE FALSE
    OBVIOUS
  <2>1. PICK q \in Pid : x \in {q} \X {i \in DOMAIN r[q] : r[q][i] = t}
    BY DEF RowsIn
  <2>2. Len(r[p]) + k \in DOMAIN r[p]
    BY <2>1
  <2>3. r[p] \in Seq(Topics)
    OBVIOUS
  <2> QED
    BY <2>2, <2>3
<1> HIDE DEF x
<1> DEFINE A == RowsIn(r, t)
<1>3. IsFiniteSet(A) /\ RowsIn(r2, t) = A \cup {x} /\ x \notin A
  BY <1>1, <1>2
<1> HIDE DEF A
<1>4. IsFiniteSet(A \cup {x}) /\ Cardinality(A \cup {x}) = Cardinality(A) + 1
  BY <1>3, FS_AddElement
<1> QED
  BY <1>3, <1>4 DEF A

\* The rows a success of a proposal leaves alone, and its count.
Attacked == Count("ATTACK_REJECTED")

LEMMA CountsAreNat == TableTypes => Successes \in Nat /\ Attacked \in Nat
BY FS_CardinalityType DEF TableTypes, Successes, Attacked, Count

LEMMA OtherRow ==
  ASSUME TableTypes, NEW p \in Pid, NEW t \in Topics \ {"EXECUTION_SUCCESS", "ATTACK_REJECTED"},
         rows' = Published(p, <<t>>)
  PROVE  TableTypes' /\ Successes' = Successes /\ Attacked' = Attacked
<1> DEFINE s == <<t>>
<1>1. s \in Seq(Topics) /\ Len(s) = 1 /\ s[1] = t
  OBVIOUS
<1>2. PICK r, r2 : r = rows /\ r2 = rows'
  OBVIOUS
<1>0. Appends(r, p, s, r2) /\ r \in [Pid -> Seq(Topics)]
  BY <1>2 DEF Published, TableTypes, Appends
<1>3. \A i \in 1..Len(s) : s[i] # "EXECUTION_SUCCESS" /\ s[i] # "ATTACK_REJECTED"
  BY <1>1
<1> HIDE DEF s
<1>4. r2 \in [Pid -> Seq(Topics)]
  BY <1>0, <1>1, RowsAdded
<1>5. RowsIn(r2, "EXECUTION_SUCCESS") = RowsIn(r, "EXECUTION_SUCCESS")
  BY <1>0, <1>1, <1>3, NoneAdded
<1>6. RowsIn(r2, "ATTACK_REJECTED") = RowsIn(r, "ATTACK_REJECTED")
  BY <1>0, <1>1, <1>3, NoneAdded
<1>9. /\ \A t0 : RowsOf(t0) = RowsIn(r, t0)
      /\ RowsOf("EXECUTION_SUCCESS")' = RowsIn(r2, "EXECUTION_SUCCESS")
      /\ RowsOf("ATTACK_REJECTED")' = RowsIn(r2, "ATTACK_REJECTED")
  BY <1>2 DEF RowsOf, RowsIn
<1> QED
  BY <1>2, <1>4, <1>5, <1>6, <1>9 DEF TableTypes, Successes, Attacked, Count

LEMMA SuccessRow ==
  ASSUME TableTypes, NEW p \in Pid, rows' = Published(p, <<"EXECUTION_SUCCESS">>)
  PROVE  TableTypes' /\ Successes' = Successes + 1 /\ Attacked' = Attacked
<1> DEFINE s == <<"EXECUTION_SUCCESS">>
<1>1. s \in Seq(Topics) /\ Len(s) = 1 /\ s[1] = "EXECUTION_SUCCESS"
  BY DEF Topics
<1>2. PICK r, r2 : r = rows /\ r2 = rows'
  OBVIOUS
<1>0. Appends(r, p, s, r2) /\ r \in [Pid -> Seq(Topics)]
  BY <1>2 DEF Published, TableTypes, Appends
<1>3. /\ 1 \in 1..Len(s) /\ \A i \in 1..Len(s) : i = 1 /\ s[i] # "ATTACK_REJECTED"
  BY <1>1
<1> HIDE DEF s
<1>4. IsFiniteSet(RowsIn(r, "EXECUTION_SUCCESS"))
  BY <1>2 DEF TableTypes, RowsOf, RowsIn
<1>5. r2 \in [Pid -> Seq(Topics)]
  BY <1>0, <1>1, RowsAdded
<1>6. RowsIn(r2, "ATTACK_REJECTED") = RowsIn(r, "ATTACK_REJECTED")
  BY <1>0, <1>1, <1>3, NoneAdded
<1>7. /\ IsFiniteSet(RowsIn(r2, "EXECUTION_SUCCESS"))
      /\ Cardinality(RowsIn(r2, "EXECUTION_SUCCESS"))
           = Cardinality(RowsIn(r, "EXECUTION_SUCCESS")) + 1
  <2>1. \A i \in 1..Len(s) : s[i] = "EXECUTION_SUCCESS" => i = 1
    BY <1>3
  <2>2. s[1] = "EXECUTION_SUCCESS" /\ 1 \in 1..Len(s) /\ s \in Seq(Topics)
    BY <1>1, <1>3
  <2> QED
    BY <1>0, <1>4, <2>1, <2>2, OneAdded
<1>9. /\ \A t0 : RowsOf(t0) = RowsIn(r, t0)
      /\ RowsOf("EXECUTION_SUCCESS")' = RowsIn(r2, "EXECUTION_SUCCESS")
      /\ RowsOf("ATTACK_REJECTED")' = RowsIn(r2, "ATTACK_REJECTED")
  BY <1>2 DEF RowsOf, RowsIn
<1> QED
  BY <1>2, <1>5, <1>6, <1>7, <1>9 DEF TableTypes, Successes, Attacked, Count

LEMMA AttackRow ==
  ASSUME TableTypes, NEW p \in Pid, NEW t \in {"REJECTED", "ACCEPTED"},
         rows' = Published(p, <<"ATTACK_REJECTED", t>>)
  PROVE  TableTypes' /\ Successes' = Successes /\ Attacked' = Attacked + 1
<1> DEFINE s == <<"ATTACK_REJECTED", t>>
<1>1. s \in Seq(Topics)
  BY DEF Topics
<1>8. Len(s) = 2 /\ s[1] = "ATTACK_REJECTED" /\ s[2] = t
  OBVIOUS
<1>2. PICK r, r2 : r = rows /\ r2 = rows'
  OBVIOUS
<1>0. Appends(r, p, s, r2) /\ r \in [Pid -> Seq(Topics)]
  BY <1>2 DEF Published, TableTypes, Appends
<1>3. \A i \in 1..Len(s) : s[i] # "EXECUTION_SUCCESS"
  BY <1>8
<1>10. /\ 1 \in 1..Len(s) /\ s[1] = "ATTACK_REJECTED"
       /\ \A i \in 1..Len(s) : s[i] = "ATTACK_REJECTED" => i = 1
  BY <1>8
<1> HIDE DEF s
<1>4. IsFiniteSet(RowsIn(r, "ATTACK_REJECTED"))
  BY <1>2 DEF TableTypes, RowsOf, RowsIn
<1>5. r2 \in [Pid -> Seq(Topics)]
  BY <1>0, <1>1, RowsAdded
<1>6. RowsIn(r2, "EXECUTION_SUCCESS") = RowsIn(r, "EXECUTION_SUCCESS")
  BY <1>0, <1>1, <1>3, NoneAdded
<1>7. /\ IsFiniteSet(RowsIn(r2, "ATTACK_REJECTED"))
      /\ Cardinality(RowsIn(r2, "ATTACK_REJECTED"))
           = Cardinality(RowsIn(r, "ATTACK_REJECTED")) + 1
  BY <1>0, <1>1, <1>10, <1>4, OneAdded
<1>9. /\ \A t0 : RowsOf(t0) = RowsIn(r, t0)
      /\ RowsOf("EXECUTION_SUCCESS")' = RowsIn(r2, "EXECUTION_SUCCESS")
      /\ RowsOf("ATTACK_REJECTED")' = RowsIn(r2, "ATTACK_REJECTED")
  BY <1>2 DEF RowsOf, RowsIn
<1> QED
  BY <1>2, <1>5, <1>6, <1>7, <1>9 DEF TableTypes, Successes, Attacked, Count

LEMMA SameRows == TableTypes /\ rows' = rows =>
                    TableTypes' /\ Successes' = Successes /\ Attacked' = Attacked
BY DEF TableTypes, Successes, Attacked, Count, RowsOf

LEMMA NoRows ==
  ASSUME NEW r, r = [p \in Pid |-> <<>>], NEW t
  PROVE  RowsIn(r, t) = {}
<1>1. \A p \in Pid : {i \in DOMAIN r[p] : r[p][i] = t} = {}
  <2>1. \A p \in Pid : r[p] = <<>>
    OBVIOUS
  <2>2. DOMAIN <<>> = {}
    OBVIOUS
  <2> QED
    BY <2>1, <2>2
<1> QED
  BY <1>1 DEF RowsIn

LEMMA WipedRows ==
  ASSUME rows' = [p \in Pid |-> <<>>]
  PROVE  TableTypes' /\ Successes' = 0 /\ Attacked' = 0
<1>0. PICK r2 : r2 = rows'
  OBVIOUS
<1>1. \A t : RowsIn(r2, t) = {}
  BY <1>0, NoRows
<1>2. IsFiniteSet({}) /\ Cardinality({}) = 0
  BY FS_EmptySet
<1>3. r2 \in [Pid -> Seq(Topics)]
  BY <1>0
<1>9. /\ RowsOf("EXECUTION_SUCCESS")' = RowsIn(r2, "EXECUTION_SUCCESS")
      /\ RowsOf("ATTACK_REJECTED")' = RowsIn(r2, "ATTACK_REJECTED")
  BY <1>0 DEF RowsOf, RowsIn
<1> QED
  BY <1>0, <1>1, <1>2, <1>3, <1>9 DEF TableTypes, Successes, Attacked, Count

-------------------------------------------------------------------------------
(* What a daemon's step does to what the invariants are about *)

LEMMA PlanIs ==
  /\ DOMAIN Plan = 1..7
  /\ \A i \in 1..7 : /\ Plan[i] \in Markets
                     /\ Plan[i] = "drill" <=> i = 3
                     /\ Plan[i] = "gas_war" <=> i = 5
                     /\ Plan[i] = "replay" <=> i = 6
                     /\ Plan[i] = "verify" <=> i = 7
<1>1. /\ DOMAIN Plan = 1..7
      /\ Plan[1] = "flash_crash_eth" /\ Plan[2] = "pendle_yield_arbitrage" /\ Plan[3] = "drill"
      /\ Plan[4] = "protocol_hack" /\ Plan[5] = "gas_war" /\ Plan[6] = "replay"
      /\ Plan[7] = "verify"
  BY DEF Plan
<1>2. \A i \in 1..7 : i = 1 \/ i = 2 \/ i = 3 \/ i = 4 \/ i = 5 \/ i = 6 \/ i = 7
  OBVIOUS
<1>3. \A i \in 1..7 : Plan[i] \in Markets
  BY <1>1 DEF Markets, ToSet
<1> QED
  BY <1>1, <1>2, <1>3

LEMMA DrillingIs == ConsoleTypes => (Drilling <=> Waiting /\ script = "demo" /\ step = 3)
BY PlanIs DEF ConsoleTypes, Drilling

\* The rows, the rejections, and what the history variables make of them.
Quiet ==
  /\ Successes' = Successes /\ fresh' = fresh
  /\ Rejections' = Rejections /\ others' = others /\ chaos' = chaos

Succeeds ==
  /\ Successes' = Successes + 1 /\ fresh' = (fresh \/ Awaiting)
  /\ Rejections' = Rejections /\ others' = others /\ chaos' = chaos

Blocks ==
  /\ Successes' = Successes /\ fresh' = fresh
  /\ Rejections' = Rejections + 1 /\ others' = Counted(others)
  /\ chaos' = chaos \/ (byHand + chaos < MaxOthers /\ chaos' = chaos + 1)

Answered ==
  /\ drill.open > 0 /\ ToReject' = ToReject - 1
  /\ Successes' = Successes /\ fresh' = fresh
  /\ Rejections' = Rejections + 1 /\ others' = others /\ chaos' = chaos

Counts ==
  \/ Quiet /\ (drill' = drill \/ (drill.fired < 6 /\ ToReject' = ToReject))
  \/ Succeeds /\ drill' = drill
  \/ Blocks /\ drill' = drill
  \/ Answered

\* The market message, the proposals in flight, and the successes.
Flights ==
  \/ /\ market' = market /\ Successes' = Successes
     /\ \A q \in Pid : InFlight(q)' => InFlight(q)
  \/ /\ market # None /\ market' = None /\ Successes' = Successes
     /\ \A q, r \in Pid : InFlight(q)' /\ InFlight(r)' /\ ~InFlight(q) /\ ~InFlight(r) => q = r
  \/ /\ market' = market /\ Successes' = Successes + 1
     /\ \E p \in Pid : InFlight(p) /\ ~InFlight(p)'
     /\ \A q \in Pid : InFlight(q)' => InFlight(q)

BotEffect == Daemons /\ TableTypes' /\ BotTypes' /\ Kept' /\ Counts /\ Flights

LEMMA RecordsDiffer == None \notin Negotiated /\ None \notin Drafts /\ None \notin Pid
BY DemoAssumption

\* One proposal changes.
LEMMA Updates ==
  ASSUME prop \in [Pid -> Negotiated \cup {None}], Kept,
         lastSettled \in Pid \cup {None}, lastSettled # None => Known(lastSettled),
         NEW p \in Pid, NEW q \in Negotiated, KeptOf(q),
         prop' = [prop EXCEPT ![p] = q], lastSettled' \in {lastSettled, p}
  PROVE  /\ prop' \in [Pid -> Negotiated \cup {None}] /\ Kept'
         /\ lastSettled' \in Pid \cup {None}
         /\ lastSettled' # None => Known(lastSettled)'
         /\ InFlight(p)' <=> Open(q)
         /\ \A r \in Pid : r # p => (InFlight(r)' <=> InFlight(r))
<1>1. prop' \in [Pid -> Negotiated \cup {None}]
  OBVIOUS
<1>2. prop'[p] = q /\ \A r \in Pid : r # p => prop'[r] = prop[r]
  OBVIOUS
<1>3. q # None
  BY RecordsDiffer
<1>4. Kept'
  <2> SUFFICES ASSUME NEW r \in Pid, Known(r)' PROVE KeptOf(prop'[r])
    BY DEF Kept, KeptOf, Open
  <2>1. CASE r = p
    BY <1>2, <2>1
  <2>2. CASE r # p
    BY <1>2, <2>2 DEF Kept, Known
  <2> QED
    BY <2>1, <2>2
<1>5. lastSettled' \in Pid \cup {None} /\ (lastSettled' # None => Known(lastSettled)')
  BY <1>2, <1>3 DEF Known
<1>6. InFlight(p)' <=> Open(q)
  BY <1>2, <1>3 DEF InFlight, Known, Open
<1>7. \A r \in Pid : r # p => (InFlight(r)' <=> InFlight(r))
  BY <1>2 DEF InFlight, Known
<1> QED
  BY <1>1, <1>4, <1>5, <1>6, <1>7

LEMMA KnownFacts ==
  ASSUME BotTypes, Kept, NEW p \in Pid, Known(p)
  PROVE  prop[p] \in Negotiated /\ KeptOf(prop[p]) /\ (InFlight(p) <=> Open(prop[p]))
BY DEF BotTypes, Kept, Known, InFlight, Open

LEMMA SameProp ==
  ASSUME prop' = prop, Kept
  PROVE  Kept' /\ \A r \in Pid : InFlight(r)' <=> InFlight(r)
BY DEF Kept, KeptOf, Open, Known, InFlight

LEMMA RejectionsCount == ConsoleTypes /\ TableTypes /\ BotTypes =>
  Rejections = Attacked + attackRows /\ Attacked \in Nat /\ attackRows \in Nat
  /\ Successes \in Nat /\ Rejections \in Nat
BY CountsAreNat DEF BotTypes, Rejections, Attacked

LEMMA QuantTakesEffect ==
  ASSUME TypesInv, Kept, QuantTakes PROVE BotEffect
<1>1. /\ Daemons /\ market # None /\ market' = None
      /\ UNCHANGED <<lastSettled, drill, attackRows, chaos, fresh, others>>
  BY DEF QuantTakes
<1>2. TableTypes /\ BotTypes /\ market \in Markets /\ market' \in Markets \cup {None}
  BY <1>1 DEF TypesInv, BotTypes
<1>3. CASE UNCHANGED <<prop, rows>>
  <2>1. TableTypes' /\ Successes' = Successes /\ Attacked' = Attacked
    BY <1>2, <1>3, SameRows
  <2>2. Kept' /\ \A r \in Pid : InFlight(r)' <=> InFlight(r)
    BY <1>3, SameProp
  <2>3. BotTypes'
    BY <1>1, <1>2, <1>3 DEF BotTypes, Known
  <2>4. Counts
    BY <1>1, <2>1 DEF Counts, Quiet, Rejections, Attacked
  <2>5. Flights
    BY <1>1, <2>1, <2>2 DEF Flights
  <2> QED
    BY <1>1, <2>1, <2>2, <2>3, <2>4, <2>5 DEF BotEffect
<1>4. ASSUME NEW p \in Pid, NEW a \in Answers,
             prop' = [prop EXCEPT ![p] =
               [scenario |-> market, draft |-> Draft(a, Rotation(MarketData(market))),
                sigs |-> {}, review |-> "open", exec |-> "no"]],
             rows' = Published(p, <<"PROPOSALS">>)
      PROVE  BotEffect
  <2> DEFINE d == Draft(a, Rotation(MarketData(market)))
             q == [scenario |-> market, draft |-> d, sigs |-> {}, review |-> "open", exec |-> "no"]
  <2>1. d \in Drafts /\ d # None
    BY <1>2, RecordsDiffer DEF Drafts
  <2>2. d = Draft(a, Rotation(MarketData(q.scenario)))
    OBVIOUS
  <2>3. prop' = [prop EXCEPT ![p] = q]
    BY <1>4
  <2> HIDE DEF d
  <2>4. q \in Negotiated
    BY <1>2, <2>1 DEF Negotiated
  <2>5. KeptOf(q)
    BY <2>1, <2>2 DEF KeptOf, Open
  <2> HIDE DEF q
  <2>6. /\ prop' \in [Pid -> Negotiated \cup {None}] /\ Kept'
        /\ lastSettled' \in Pid \cup {None}
        /\ lastSettled' # None => Known(lastSettled)'
        /\ \A r \in Pid : r # p => (InFlight(r)' <=> InFlight(r))
    BY <1>1, <1>2, <2>3, <2>4, <2>5, Updates DEF BotTypes
  <2>7. TableTypes' /\ Successes' = Successes /\ Attacked' = Attacked
    BY <1>2, <1>4, OtherRow DEF Topics
  <2>8. BotTypes'
    BY <1>1, <1>2, <2>6 DEF BotTypes
  <2>9. Counts
    BY <1>1, <2>7 DEF Counts, Quiet, Rejections, Attacked
  <2>10. Flights
    BY <1>1, <2>6, <2>7 DEF Flights
  <2> QED
    BY <1>1, <2>6, <2>7, <2>8, <2>9, <2>10 DEF BotEffect
<1> QED
  BY <1>3, <1>4 DEF QuantTakes

\* A step that changes one proposal and publishes nothing that is counted.
LEMMA QuietUpdate ==
  ASSUME TypesInv, Kept, Daemons, NEW p \in Pid, Known(p),
         NEW q \in Negotiated, KeptOf(q), Open(q) => Open(prop[p]),
         prop' = [prop EXCEPT ![p] = q],
         rows' = rows \/ \E t \in Topics \ {"EXECUTION_SUCCESS", "ATTACK_REJECTED"} :
                           rows' = Published(p, <<t>>),
         UNCHANGED <<market, lastSettled, drill, attackRows, chaos, fresh, others>>
  PROVE  BotEffect
<1>1. TableTypes /\ BotTypes
  BY DEF TypesInv
<1>2. TableTypes' /\ Successes' = Successes /\ Attacked' = Attacked
  BY <1>1, SameRows, OtherRow
<1>3. /\ prop' \in [Pid -> Negotiated \cup {None}] /\ Kept'
      /\ lastSettled' \in Pid \cup {None}
      /\ lastSettled' # None => Known(lastSettled)'
      /\ InFlight(p)' <=> Open(q)
      /\ \A r \in Pid : r # p => (InFlight(r)' <=> InFlight(r))
  BY <1>1, Updates DEF BotTypes
<1>4. InFlight(p) <=> Open(prop[p])
  BY <1>1, KnownFacts
<1>5. BotTypes'
  BY <1>1, <1>3 DEF BotTypes
<1>6. Counts
  BY <1>2 DEF Counts, Quiet, Rejections, Attacked
<1>7. Flights
  BY <1>2, <1>3, <1>4 DEF Flights
<1> QED
  BY <1>2, <1>3, <1>5, <1>6, <1>7 DEF BotEffect

\* One that publishes an attack.
LEMMA BlockingUpdate ==
  ASSUME TypesInv, Kept, Daemons, NEW p \in Pid, Known(p),
         NEW q \in Negotiated, KeptOf(q), ~Open(q),
         prop' = [prop EXCEPT ![p] = q],
         NEW t \in {"REJECTED", "ACCEPTED"}, rows' = Published(p, <<"ATTACK_REJECTED", t>>),
         others' = Counted(others),
         UNCHANGED <<market, lastSettled, drill, attackRows, chaos, fresh>>
  PROVE  BotEffect
<1>1. ConsoleTypes /\ TableTypes /\ BotTypes
  BY DEF TypesInv
<1>2. TableTypes' /\ Successes' = Successes /\ Attacked' = Attacked + 1
  BY <1>1, AttackRow
<1>3. /\ prop' \in [Pid -> Negotiated \cup {None}] /\ Kept'
      /\ lastSettled' \in Pid \cup {None}
      /\ lastSettled' # None => Known(lastSettled)'
      /\ InFlight(p)' <=> Open(q)
      /\ \A r \in Pid : r # p => (InFlight(r)' <=> InFlight(r))
  BY <1>1, Updates DEF BotTypes
<1>4. BotTypes'
  BY <1>1, <1>3 DEF BotTypes
<1>5. Rejections' = Rejections + 1
  BY <1>1, <1>2, RejectionsCount DEF Rejections, Attacked
<1>6. Counts
  BY <1>2, <1>5 DEF Counts, Blocks
<1>7. Flights
  BY <1>2, <1>3 DEF Flights
<1> QED
  BY <1>2, <1>3, <1>4, <1>6, <1>7 DEF BotEffect

LEMMA SignsEffect ==
  ASSUME TypesInv, Kept, NEW p \in Pid, QuantSigns(p) \/ PatriarchSigns(p) PROVE BotEffect
<1>1. PICK s \in {"sig_quant", "sig_patriarch"} :
        /\ Daemons /\ Known(p)
        /\ prop' = [prop EXCEPT ![p].sigs = @ \cup {s}]
        /\ rows' = Published(p, <<s>>)
        /\ UNCHANGED <<market, lastSettled, drill, attackRows, chaos, fresh, others>>
  BY DEF QuantSigns, PatriarchSigns
<1>2. prop[p] \in Negotiated /\ KeptOf(prop[p]) /\ prop \in [Pid -> Negotiated \cup {None}]
  BY <1>1, KnownFacts DEF TypesInv, BotTypes
<1> DEFINE q == [prop[p] EXCEPT !.sigs = @ \cup {s}]
<1>3. prop' = [prop EXCEPT ![p] = q]
  BY <1>1, <1>2
<1>4. q \in Negotiated
  BY <1>2 DEF Negotiated, Signing
<1>5. /\ q.draft = prop[p].draft /\ q.exec = prop[p].exec /\ q.review = prop[p].review
      /\ q.scenario = prop[p].scenario
  BY <1>2 DEF Negotiated
<1> HIDE DEF q
<1>6. KeptOf(q) /\ (Open(q) => Open(prop[p]))
  BY <1>2, <1>5 DEF KeptOf, Open
<1>7. s \in Topics \ {"EXECUTION_SUCCESS", "ATTACK_REJECTED"}
  BY DEF Topics, Signing
<1> QED
  BY <1>1, <1>3, <1>4, <1>6, <1>7, QuietUpdate

LEMMA RejectsEffect ==
  ASSUME TypesInv, Kept, NEW p \in Pid, PatriarchRejects(p) PROVE BotEffect
<1>1. /\ Daemons /\ Known(p)
      /\ UNCHANGED <<market, lastSettled, drill, attackRows, chaos, fresh>>
  BY DEF PatriarchRejects
<1>2. prop[p] \in Negotiated /\ prop \in [Pid -> Negotiated \cup {None}]
  BY <1>1, KnownFacts DEF TypesInv, BotTypes
<1>3. PICK v \in {"rejected", "blocked"} :
        /\ prop' = [prop EXCEPT ![p].review = v, ![p].scenario = None, ![p].draft = None]
        /\ \/ rows' = Published(p, <<"REJECTED">>) /\ others' = others
           \/ rows' = Published(p, <<"ATTACK_REJECTED", "REJECTED">>) /\ others' = Counted(others)
  BY DEF PatriarchRejects
<1> DEFINE q == [prop[p] EXCEPT !.review = v, !.scenario = None, !.draft = None]
<1>4. prop' = [prop EXCEPT ![p] = q]
  BY <1>2, <1>3
<1>5. q \in Negotiated /\ q.review = v /\ q.draft = None
  BY <1>2 DEF Negotiated
<1> HIDE DEF q
<1>6. KeptOf(q) /\ ~Open(q)
  BY <1>5 DEF KeptOf, Open
<1>7. "REJECTED" \in Topics \ {"EXECUTION_SUCCESS", "ATTACK_REJECTED"}
  BY DEF Topics
<1>8. CASE rows' = Published(p, <<"REJECTED">>) /\ others' = others
  BY <1>1, <1>4, <1>5, <1>6, <1>7, <1>8, QuietUpdate
<1>9. CASE rows' = Published(p, <<"ATTACK_REJECTED", "REJECTED">>) /\ others' = Counted(others)
  BY <1>1, <1>4, <1>5, <1>6, <1>9, BlockingUpdate
<1> QED
  BY <1>3, <1>8, <1>9

LEMMA ClearsEffect ==
  ASSUME TypesInv, Kept, NEW p \in Pid, PatriarchClears(p) PROVE BotEffect
<1>1. /\ Daemons /\ Known(p) /\ prop[p].review = "open"
      /\ UNCHANGED <<market, lastSettled, drill, attackRows, chaos, fresh>>
  BY DEF PatriarchClears
<1>2. prop[p] \in Negotiated /\ KeptOf(prop[p]) /\ prop \in [Pid -> Negotiated \cup {None}]
  BY <1>1, KnownFacts DEF TypesInv, BotTypes
<1>3. PICK left \in Lefts :
       \/ /\ Clears(prop[p].draft, left)
          /\ prop' = [prop EXCEPT ![p].review = "cleared"]
          /\ UNCHANGED <<rows, others>>
       \/ /\ prop' = [prop EXCEPT ![p].review = "blocked", ![p].scenario = None, ![p].draft = None]
          /\ rows' = Published(p, <<"ATTACK_REJECTED", "ACCEPTED">>)
          /\ others' = Counted(others)
  BY DEF PatriarchClears
<1>4. CASE /\ Clears(prop[p].draft, left)
           /\ prop' = [prop EXCEPT ![p].review = "cleared"]
           /\ UNCHANGED <<rows, others>>
  <2> DEFINE q == [prop[p] EXCEPT !.review = "cleared"]
  <2>1. prop' = [prop EXCEPT ![p] = q]
    BY <1>2, <1>4
  <2>2. q \in Negotiated
    BY <1>2 DEF Negotiated
  <2>3. /\ q.draft = prop[p].draft /\ q.exec = prop[p].exec /\ q.review = "cleared"
        /\ q.scenario = prop[p].scenario
    BY <1>2 DEF Negotiated
  <2> HIDE DEF q
  <2>4. Open(q) <=> Open(prop[p])
    BY <1>1, <2>3 DEF Open
  <2>5. \E l \in Lefts : Clears(q.draft, l)
    BY <1>4, <2>3
  <2>6. KeptOf(q)
    BY <1>2, <2>3, <2>4, <2>5 DEF KeptOf
  <2> QED
    BY <1>1, <1>4, <2>1, <2>2, <2>4, <2>6, QuietUpdate
<1>5. CASE /\ prop' = [prop EXCEPT ![p].review = "blocked", ![p].scenario = None, ![p].draft = None]
           /\ rows' = Published(p, <<"ATTACK_REJECTED", "ACCEPTED">>)
           /\ others' = Counted(others)
  <2> DEFINE q == [prop[p] EXCEPT !.review = "blocked", !.scenario = None, !.draft = None]
  <2>1. prop' = [prop EXCEPT ![p] = q]
    BY <1>2, <1>5
  <2>2. q \in Negotiated /\ q.review = "blocked" /\ q.draft = None
    BY <1>2 DEF Negotiated
  <2> HIDE DEF q
  <2>3. KeptOf(q) /\ ~Open(q)
    BY <2>2 DEF KeptOf, Open
  <2> QED
    BY <1>1, <1>5, <2>1, <2>2, <2>3, BlockingUpdate
<1> QED
  BY <1>3, <1>4, <1>5

LEMMA TellsEffect ==
  ASSUME TypesInv, Kept, NEW p \in Pid, PatriarchTells(p) PROVE BotEffect
<1>1. /\ Daemons /\ Known(p) /\ prop[p].review = "cleared"
      /\ prop' = [prop EXCEPT ![p].review = "told"]
      /\ rows' = Published(p, <<"ACCEPTED">>)
      /\ UNCHANGED <<market, lastSettled, drill, attackRows, chaos, fresh, others>>
  BY DEF PatriarchTells
<1>2. prop[p] \in Negotiated /\ KeptOf(prop[p]) /\ prop \in [Pid -> Negotiated \cup {None}]
  BY <1>1, KnownFacts DEF TypesInv, BotTypes
<1> DEFINE q == [prop[p] EXCEPT !.review = "told"]
<1>3. prop' = [prop EXCEPT ![p] = q]
  BY <1>1, <1>2
<1>4. q \in Negotiated
  BY <1>2 DEF Negotiated
<1>5. /\ q.draft = prop[p].draft /\ q.exec = prop[p].exec /\ q.review = "told"
      /\ q.scenario = prop[p].scenario
  BY <1>2 DEF Negotiated
<1> HIDE DEF q
<1>6. KeptOf(q) /\ (Open(q) => Open(prop[p]))
  BY <1>1, <1>2, <1>5 DEF KeptOf, Open
<1>7. "ACCEPTED" \in Topics \ {"EXECUTION_SUCCESS", "ATTACK_REJECTED"}
  BY DEF Topics
<1> QED
  BY <1>1, <1>3, <1>4, <1>6, <1>7, QuietUpdate

LEMMA SettlesEffect ==
  ASSUME TypesInv, Kept, NEW p \in Pid, Settles(p) PROVE BotEffect
<1>1. /\ Daemons /\ Known(p) /\ prop[p].exec = "no" /\ prop[p].review \in {"cleared", "told"}
      /\ UNCHANGED <<market, drill, attackRows, chaos, others>>
  BY DEF Settles
<1>2. /\ prop[p] \in Negotiated /\ prop \in [Pid -> Negotiated \cup {None}] /\ InFlight(p)
      /\ ConsoleTypes /\ TableTypes /\ BotTypes
  BY <1>1, KnownFacts DEF TypesInv, BotTypes, InFlight
<1>3. PICK x \in {"yes", "failed"} :
        /\ prop' = [prop EXCEPT ![p].exec = x, ![p].scenario = None, ![p].draft = None]
        /\ \/ /\ rows' = Published(p, <<"EXECUTION_SUCCESS">>)
              /\ fresh' = (fresh \/ Awaiting) /\ lastSettled' = p
           \/ UNCHANGED <<rows, fresh, lastSettled>>
  BY DEF Settles
<1> DEFINE q == [prop[p] EXCEPT !.exec = x, !.scenario = None, !.draft = None]
<1>4. prop' = [prop EXCEPT ![p] = q]
  BY <1>2, <1>3
<1>5. q \in Negotiated /\ q.exec = x /\ q.draft = None
  BY <1>2 DEF Negotiated
<1> HIDE DEF q
<1>6. KeptOf(q) /\ ~Open(q)
  BY <1>5 DEF KeptOf, Open
<1>7. CASE UNCHANGED <<rows, fresh, lastSettled>>
  BY <1>1, <1>4, <1>5, <1>6, <1>7, QuietUpdate
<1>8. CASE /\ rows' = Published(p, <<"EXECUTION_SUCCESS">>)
           /\ fresh' = (fresh \/ Awaiting) /\ lastSettled' = p
  <2>1. TableTypes' /\ Successes' = Successes + 1 /\ Attacked' = Attacked
    BY <1>2, <1>8, SuccessRow
  <2>2. /\ prop' \in [Pid -> Negotiated \cup {None}] /\ Kept'
        /\ lastSettled' \in Pid \cup {None}
        /\ lastSettled' # None => Known(lastSettled)'
        /\ InFlight(p)' <=> Open(q)
        /\ \A r \in Pid : r # p => (InFlight(r)' <=> InFlight(r))
    BY <1>2, <1>4, <1>5, <1>6, <1>8, Updates DEF BotTypes
  <2>3. BotTypes'
    BY <1>1, <1>2, <2>2 DEF BotTypes
  <2>4. Counts
    BY <1>1, <1>8, <2>1 DEF Counts, Succeeds, Rejections, Attacked
  <2>5. Flights
    BY <1>1, <1>2, <1>6, <2>1, <2>2 DEF Flights
  <2> QED
    BY <1>1, <2>1, <2>2, <2>3, <2>4, <2>5 DEF BotEffect
<1> QED
  BY <1>3, <1>7, <1>8

LEMMA UnfiredIs ==
  ASSUME NEW f \in 0..5
  PROVE  Unfired[f + 1] = Unfired[(f + 1) + 1]
                          + (IF Attacks[f + 1] \in {"A2", "A5"} THEN 0 ELSE 1)
<1>1. f = 0 \/ f = 1 \/ f = 2 \/ f = 3 \/ f = 4 \/ f = 5
  OBVIOUS
<1>2. /\ Attacks[1] = "A1" /\ Attacks[2] = "A2" /\ Attacks[3] = "A3"
      /\ Attacks[4] = "A4" /\ Attacks[5] = "A5" /\ Attacks[6] = "A6"
  BY DEF Attacks
<1>3. /\ Unfired[1] = 4 /\ Unfired[2] = 3 /\ Unfired[3] = 3 /\ Unfired[4] = 2
      /\ Unfired[5] = 1 /\ Unfired[6] = 1 /\ Unfired[7] = 0
  BY DEF Unfired
<1> QED
  BY <1>1, <1>2, <1>3

LEMMA UnfiredNat == \A f \in 0..6 : Unfired[f + 1] \in 0..4 /\ (f < 6 => Unfired[f + 1] > 0)
<1>1. \A f \in 0..6 : f = 0 \/ f = 1 \/ f = 2 \/ f = 3 \/ f = 4 \/ f = 5 \/ f = 6
  OBVIOUS
<1>2. /\ Unfired[1] = 4 /\ Unfired[2] = 3 /\ Unfired[3] = 3 /\ Unfired[4] = 2
      /\ Unfired[5] = 1 /\ Unfired[6] = 1 /\ Unfired[7] = 0
  BY DEF Unfired
<1> QED
  BY <1>1, <1>2

LEMMA FiresEffect ==
  ASSUME TypesInv, Kept, Fires PROVE BotEffect
<1> DEFINE attack == Attacks[drill.fired + 1]
           n == IF attack \in {"A2", "A5"} THEN 0 ELSE 1
<1>1. /\ Daemons /\ drill.fired < Len(Attacks)
      /\ drill' = [fired |-> drill.fired + 1, open |-> drill.open + n]
      /\ \/ /\ lastSettled # None
            /\ prop' = [prop EXCEPT ![lastSettled].sigs = @ \cup {"sig_attacker"}]
            /\ rows' = Published(lastSettled, <<"sig_attacker">>)
         \/ UNCHANGED <<prop, rows>>
      /\ UNCHANGED <<market, lastSettled, attackRows, chaos, fresh, others>>
  BY DEF Fires
<1>2. TableTypes /\ BotTypes /\ drill.fired \in 0..5 /\ drill.open \in Nat
  BY <1>1 DEF TypesInv, BotTypes, Attacks
<1>3. Unfired[drill.fired + 1] = Unfired[(drill.fired + 1) + 1] + n
  BY <1>2, UnfiredIs
<1>4. n \in {0, 1} /\ drill.fired + 1 \in 0..6 /\ drill.fired \in 0..6
  BY <1>2
<1> HIDE DEF n
<1>5. Unfired[drill.fired + 1] \in 0..4 /\ Unfired[(drill.fired + 1) + 1] \in 0..4
  BY <1>4, UnfiredNat
<1>6. drill'.fired = drill.fired + 1 /\ drill'.open = drill.open + n
  BY <1>1
<1>7. ToReject' = ToReject
  BY <1>2, <1>3, <1>4, <1>5, <1>6 DEF ToReject
<1>8. drill' \in [fired : 0..6, open : Nat]
  BY <1>1, <1>2, <1>4
<1>9. /\ TableTypes' /\ Successes' = Successes /\ Attacked' = Attacked /\ Kept'
      /\ prop' \in [Pid -> Negotiated \cup {None}]
      /\ lastSettled' # None => Known(lastSettled)'
      /\ \A r \in Pid : InFlight(r)' => InFlight(r)
  <2>1. CASE UNCHANGED <<prop, rows>>
    BY <1>1, <1>2, <2>1, SameRows, SameProp DEF BotTypes, Known
  <2>2. CASE /\ lastSettled # None
             /\ prop' = [prop EXCEPT ![lastSettled].sigs = @ \cup {"sig_attacker"}]
             /\ rows' = Published(lastSettled, <<"sig_attacker">>)
    <3>1. PICK p \in Pid : p = lastSettled
      BY <1>2, <2>2 DEF BotTypes
    <3>2. Known(p)
      BY <1>2, <2>2, <3>1 DEF BotTypes, Known
    <3>3. /\ prop[p] \in Negotiated /\ KeptOf(prop[p]) /\ (InFlight(p) <=> Open(prop[p]))
          /\ prop \in [Pid -> Negotiated \cup {None}]
      BY <1>2, <3>2, KnownFacts DEF BotTypes
    <3> DEFINE q == [prop[p] EXCEPT !.sigs = @ \cup {"sig_attacker"}]
    <3>4. prop' = [prop EXCEPT ![p] = q]
      BY <2>2, <3>1, <3>3
    <3>5. q \in Negotiated
      BY <3>3 DEF Negotiated, Signing
    <3>6. /\ q.draft = prop[p].draft /\ q.exec = prop[p].exec /\ q.review = prop[p].review
          /\ q.scenario = prop[p].scenario
      BY <3>3 DEF Negotiated
    <3> HIDE DEF q
    <3>7. KeptOf(q) /\ (Open(q) <=> Open(prop[p]))
      BY <3>3, <3>6 DEF KeptOf, Open
    <3>8. /\ prop' \in [Pid -> Negotiated \cup {None}] /\ Kept'
          /\ lastSettled' # None => Known(lastSettled)'
          /\ InFlight(p)' <=> Open(q)
          /\ \A r \in Pid : r # p => (InFlight(r)' <=> InFlight(r))
      BY <1>1, <1>2, <3>4, <3>5, <3>7, Updates DEF BotTypes
    <3>9. "sig_attacker" \in Topics \ {"EXECUTION_SUCCESS", "ATTACK_REJECTED"}
      BY DEF Topics, Signing
    <3>10. rows' = Published(p, <<"sig_attacker">>)
      BY <2>2, <3>1
    <3>11. TableTypes' /\ Successes' = Successes /\ Attacked' = Attacked
      BY <1>2, <3>9, <3>10, OtherRow
    <3> QED
      BY <3>3, <3>7, <3>8, <3>11
  <2> QED
    BY <1>1, <2>1, <2>2
<1>10. BotTypes'
  BY <1>1, <1>2, <1>8, <1>9 DEF BotTypes
<1>11. Counts
  BY <1>1, <1>2, <1>7, <1>9 DEF Counts, Quiet, Rejections, Attacked
<1>12. Flights
  BY <1>1, <1>9 DEF Flights
<1> QED
  BY <1>1, <1>9, <1>10, <1>11, <1>12 DEF BotEffect

LEMMA RejectsAttackEffect ==
  ASSUME TypesInv, Kept, RejectsAttack PROVE BotEffect
<1>1. /\ Daemons /\ drill.open > 0
      /\ drill' = [drill EXCEPT !.open = @ - 1] /\ attackRows' = attackRows + 1
      /\ UNCHANGED <<market, prop, rows, lastSettled, chaos, fresh, others>>
  BY DEF RejectsAttack
<1>2. ConsoleTypes /\ TableTypes /\ BotTypes /\ drill.fired \in 0..6 /\ drill.open \in Nat
  BY DEF TypesInv, BotTypes
<1>3. TableTypes' /\ Successes' = Successes /\ Attacked' = Attacked
  BY <1>1, <1>2, SameRows
<1>4. Kept' /\ \A r \in Pid : InFlight(r)' <=> InFlight(r)
  BY <1>1, SameProp
<1>5. drill'.fired = drill.fired /\ drill'.open = drill.open - 1
      /\ drill' \in [fired : 0..6, open : Nat]
  BY <1>1, <1>2 DEF BotTypes
<1>6. BotTypes'
  BY <1>1, <1>2, <1>5 DEF BotTypes, Known
<1>7. Unfired[drill.fired + 1] \in 0..4
  BY <1>2, UnfiredNat
<1>8. ToReject' = ToReject - 1
  BY <1>2, <1>5, <1>7 DEF ToReject
<1>9. Rejections' = Rejections + 1
  BY <1>1, <1>2, <1>3, RejectionsCount DEF Rejections, Attacked
<1>10. Counts
  BY <1>1, <1>3, <1>8, <1>9 DEF Counts, Answered
<1>11. Flights
  BY <1>1, <1>3, <1>4 DEF Flights
<1> QED
  BY <1>1, <1>3, <1>4, <1>6, <1>10, <1>11 DEF BotEffect

LEMMA RejectsOtherEffect ==
  ASSUME TypesInv, Kept, RejectsOther PROVE BotEffect
<1>1. /\ Daemons /\ byHand + chaos < MaxOthers /\ chaos' = chaos + 1
      /\ attackRows' = attackRows + 1 /\ others' = Counted(others)
      /\ UNCHANGED <<market, prop, rows, lastSettled, drill, fresh>>
  BY DEF RejectsOther
<1>2. ConsoleTypes /\ TableTypes /\ BotTypes
  BY DEF TypesInv
<1>3. TableTypes' /\ Successes' = Successes /\ Attacked' = Attacked
  BY <1>1, <1>2, SameRows
<1>4. Kept' /\ \A r \in Pid : InFlight(r)' <=> InFlight(r)
  BY <1>1, SameProp
<1>5. BotTypes'
  BY <1>1, <1>2 DEF BotTypes, Known
<1>6. Rejections' = Rejections + 1
  BY <1>1, <1>2, <1>3, RejectionsCount DEF Rejections, Attacked
<1>7. Counts
  BY <1>1, <1>3, <1>6 DEF Counts, Blocks
<1>8. Flights
  BY <1>1, <1>3, <1>4 DEF Flights
<1> QED
  BY <1>1, <1>3, <1>4, <1>5, <1>7, <1>8 DEF BotEffect

LEMMA BotsEffect ==
  ASSUME TypesInv, Kept, Bots PROVE BotEffect
BY QuantTakesEffect, SignsEffect, RejectsEffect, ClearsEffect, TellsEffect, SettlesEffect,
   FiresEffect, RejectsAttackEffect, RejectsOtherEffect DEF Bots

-------------------------------------------------------------------------------
(* What a script's step does *)

\* The daemons and the table stay as they are.
LEMMA BotsStill ==
  ASSUME TypesInv, Kept, UNCHANGED botVars
  PROVE  /\ TableTypes' /\ BotTypes' /\ Kept'
         /\ Successes' = Successes /\ Rejections' = Rejections
         /\ drill' = drill /\ ToReject' = ToReject /\ market' = market /\ chaos' = chaos
         /\ \A r \in Pid : InFlight(r)' <=> InFlight(r)
<1>1. /\ market' = market /\ prop' = prop /\ rows' = rows /\ lastSettled' = lastSettled
      /\ drill' = drill /\ attackRows' = attackRows /\ chaos' = chaos
      /\ TableTypes /\ BotTypes
  BY DEF botVars, TypesInv
<1>2. TableTypes' /\ Successes' = Successes /\ Attacked' = Attacked
  BY <1>1, SameRows
<1>3. Kept' /\ \A r \in Pid : InFlight(r)' <=> InFlight(r)
  BY <1>1, SameProp
<1>4. BotTypes' /\ ToReject' = ToReject
  BY <1>1 DEF BotTypes, Known, ToReject
<1> QED
  BY <1>1, <1>2, <1>3, <1>4 DEF Rejections, Attacked

\* The table is wiped and a market message published.
LEMMA Injected ==
  ASSUME TypesInv, Kept, NEW scenario \in Markets, Inject(scenario), Daemonless
  PROVE  /\ TableTypes' /\ BotTypes' /\ Kept'
         /\ Successes' = 0 /\ Rejections' = 0
         /\ ToReject' \in Nat /\ ToReject' <= ToReject
         /\ drill = [fired |-> 6, open |-> 0] => drill' = drill
         /\ fresh' = FALSE /\ wiped' = Awaiting /\ chaos' = chaos
         /\ \A r \in Pid : InFlight(r)' <=> InFlight(r)
<1>1. PICK n \in 0..drill.open :
        /\ market' = scenario /\ rows' = [p \in Pid |-> <<>>] /\ attackRows' = 0
        /\ drill' = [drill EXCEPT !.open = n]
        /\ fresh' = FALSE /\ wiped' = Awaiting
        /\ prop' = prop /\ lastSettled' = lastSettled /\ chaos' = chaos
  BY DEF Inject, Daemonless
<1>2. TableTypes /\ BotTypes /\ drill.fired \in 0..6 /\ drill.open \in Nat
  BY DEF TypesInv, BotTypes
<1>3. TableTypes' /\ Successes' = 0 /\ Attacked' = 0
  BY <1>1, WipedRows
<1>4. Kept' /\ \A r \in Pid : InFlight(r)' <=> InFlight(r)
  BY <1>1, SameProp
<1>5. drill' \in [fired : 0..6, open : Nat] /\ drill'.fired = drill.fired /\ drill'.open = n
  BY <1>1, <1>2 DEF BotTypes
<1>6. BotTypes'
  BY <1>1, <1>2, <1>5 DEF BotTypes, Known
<1>7. Unfired[drill.fired + 1] \in 0..4
  BY <1>2, UnfiredNat
<1>8. ToReject' \in Nat /\ ToReject' <= ToReject
  BY <1>2, <1>5, <1>7 DEF ToReject
<1>9. ASSUME drill = [fired |-> 6, open |-> 0] PROVE drill' = drill
  <2>1. n = 0
    BY <1>9, <1>2
  <2> QED
    BY <1>1, <1>9, <2>1
<1> QED
  BY <1>1, <1>3, <1>4, <1>6, <1>8, <1>9 DEF Rejections, Attacked

LEMMA DrillStarted ==
  ASSUME TypesInv, Kept, StartDrill
  PROVE  /\ TableTypes' /\ BotTypes' /\ Kept'
         /\ Rejections' = Rejections
         /\ drill.open = 0 => ToReject' = 4
<1>1. /\ drill' = [drill EXCEPT !.fired = 0]
      /\ market' = market /\ prop' = prop /\ rows' = rows /\ lastSettled' = lastSettled
      /\ attackRows' = attackRows
  BY DEF StartDrill, Daemonless
<1>2. TableTypes /\ BotTypes
  BY DEF TypesInv
<1>3. TableTypes' /\ Attacked' = Attacked
  BY <1>1, <1>2, SameRows
<1>4. Kept'
  BY <1>1, SameProp
<1>5. /\ drill' \in [fired : 0..6, open : Nat]
      /\ drill'.fired = 0 /\ drill'.open = drill.open
  BY <1>1, <1>2 DEF BotTypes
<1>6. BotTypes'
  BY <1>1, <1>2, <1>5 DEF BotTypes, Known
<1>7. Unfired[0 + 1] = 4
  BY DEF Unfired
<1>8. drill.open = 0 => ToReject' = 4
  BY <1>5, <1>7 DEF ToReject
<1> QED
  BY <1>1, <1>3, <1>4, <1>6, <1>8 DEF Rejections, Attacked

Takes   == Baseline \/ MenuBaseline
Injects == InjectStep \/ MenuInject \/ InjectByHand
Stops   == SuccessSeen \/ SuccessNotSeen \/ SixSeen \/ SixNotSeen \/ SkipStep \/ Verify

LEMMA StepKinds ==
  [DemoNext]_demoVars => Bots \/ Takes \/ Injects \/ StartDrill \/ Stops \/ UNCHANGED demoVars
BY DEF DemoNext, Scripts, Takes, Injects, Stops

LEMMA TakesStill == Takes => UNCHANGED <<byHand, botVars, script, step>>
BY DEF Takes, Baseline, MenuBaseline

LEMMA StopsStill ==
  Stops => /\ UNCHANGED <<byHand, botVars, script>>
           /\ base' = 0 /\ fresh' = FALSE /\ others' = 0 /\ wiped' = FALSE
           /\ phase' \in {"ready", "over"}
           /\ \/ step' = step
              \/ script = "demo" /\ phase' = "ready" /\ step' = step + 1
BY DEF Stops, SuccessSeen, SuccessNotSeen, SixSeen, SixNotSeen, SkipStep, Verify, Ends, NextStep,
       Aborts

LEMMA InjectsAre ==
  ASSUME ConsoleTypes, Injects
  PROVE  \E scenario \in Markets : Inject(scenario) /\ Daemonless
<1>1. CASE InjectStep
  <2>1. Plan[step] \in Markets
    BY PlanIs DEF ConsoleTypes
  <2> QED
    BY <1>1, <2>1 DEF InjectStep
<1>2. CASE MenuInject \/ InjectByHand
  BY <1>2 DEF MenuInject, InjectByHand, Markets
<1> QED
  BY <1>1, <1>2 DEF Injects

-------------------------------------------------------------------------------
(* Types, and what is kept *)

LEMMA BotsConsole ==
  ASSUME ConsoleTypes, BotEffect
  PROVE  /\ ConsoleTypes'
         /\ UNCHANGED <<byHand, script, step, phase, base, wiped>> /\ phase # "over"
         /\ Waiting' = Waiting /\ Drilling' = Drilling /\ Awaiting' = Awaiting
<1>1. UNCHANGED <<byHand, script, step, phase, base, wiped>> /\ phase # "over"
  BY DEF BotEffect, Daemons
<1>2. Waiting' = Waiting /\ Drilling' = Drilling /\ Awaiting' = Awaiting
  BY <1>1 DEF Waiting, Drilling, Awaiting
<1>3. chaos' = chaos \/ (byHand + chaos < MaxOthers /\ chaos' = chaos + 1)
  BY DEF BotEffect, Counts, Quiet, Succeeds, Blocks, Answered
<1>4. fresh' = fresh \/ fresh' = (fresh \/ Awaiting)
  BY DEF BotEffect, Counts, Quiet, Succeeds, Blocks, Answered
<1>5. others' = others \/ others' = Counted(others)
  BY DEF BotEffect, Counts, Quiet, Succeeds, Blocks, Answered
<1>6. chaos' \in Nat /\ byHand + chaos' <= MaxOthers
  BY <1>3, DemoAssumption DEF ConsoleTypes
<1>7. Awaiting => Waiting
  BY DEF Awaiting
<1>8. fresh' \in BOOLEAN /\ (fresh' => fresh \/ Waiting)
  <2>1. CASE fresh' = fresh
    BY <2>1 DEF ConsoleTypes
  <2>2. CASE fresh' = (fresh \/ Awaiting)
    BY <1>7, <2>2
  <2> QED
    BY <1>4, <2>1, <2>2
<1>9. others' \in Nat /\ (others' = others \/ Waiting)
  BY <1>5 DEF ConsoleTypes, Counted, Drilling
<1>10. Waiting' \/ (base' = 0 /\ ~fresh' /\ others' = 0 /\ ~wiped')
  BY <1>1, <1>2, <1>8, <1>9 DEF ConsoleTypes
<1> QED
  BY <1>1, <1>2, <1>6, <1>8, <1>9, <1>10 DEF ConsoleTypes

LEMMA TakesConsole == ConsoleTypes /\ TableTypes /\ BotTypes /\ Takes => ConsoleTypes'
<1> SUFFICES ASSUME ConsoleTypes, TableTypes, BotTypes, Takes PROVE ConsoleTypes'
  OBVIOUS
<1>1. Successes \in Nat /\ Rejections \in Nat
  BY RejectionsCount
<1>2. byHand' = byHand /\ chaos' = chaos /\ script' = script /\ step' = step
  BY TakesStill DEF botVars
<1>3. /\ base' \in Nat /\ fresh' = FALSE /\ others' = 0 /\ wiped' = FALSE
      /\ phase' \in {"based", "waiting"}
      /\ phase' = "based" => script = "demo" /\ Plan[step] \notin {"replay", "verify"}
      /\ phase' = "waiting" => script = "menu"
  BY <1>1 DEF Takes, Baseline, MenuBaseline, TakeBaseline, At
<1>4. script = "demo" => step <= 5
  <2>1. script = "demo" => step # 6 /\ step # 7
    BY <1>3, PlanIs
  <2> QED
    BY <2>1 DEF ConsoleTypes
<1> QED
  BY <1>2, <1>3, <1>4 DEF ConsoleTypes, Waiting

LEMMA StopsConsole == ConsoleTypes /\ Stops => ConsoleTypes'
<1> SUFFICES ASSUME ConsoleTypes, Stops PROVE ConsoleTypes'
  OBVIOUS
<1>1. /\ byHand' = byHand /\ chaos' = chaos /\ script' = script
      /\ base' = 0 /\ fresh' = FALSE /\ others' = 0 /\ wiped' = FALSE
      /\ phase' \in {"ready", "over"}
      /\ step' = step \/ (script = "demo" /\ phase' = "ready" /\ step' = step + 1)
  BY StopsStill DEF botVars
<1>2. script = "demo" /\ step = 7 => phase' = "over"
  <2> SUFFICES ASSUME script = "demo", step = 7 PROVE phase' = "over"
    OBVIOUS
  <2>1. ~Waiting
    BY DEF ConsoleTypes
  <2>2. ~SuccessSeen /\ ~SuccessNotSeen /\ ~SixSeen /\ ~SixNotSeen
    BY <2>1 DEF SuccessSeen, SuccessNotSeen, SixSeen, SixNotSeen, AwaitsSuccess, AwaitsSix,
               Awaiting, Drilling
  <2>3. ~SkipStep
    <3>1. Plan[7] = "verify"
      BY PlanIs
    <3> QED
      BY <3>1 DEF SkipStep
  <2> QED
    BY <2>2, <2>3 DEF Stops, Verify, Aborts
<1>3. step' \in 1..7
  BY <1>1, <1>2 DEF ConsoleTypes
<1> QED
  BY <1>1, <1>3 DEF ConsoleTypes, Waiting

LEMMA InjectsConsole == TypesInv /\ Kept /\ Injects => ConsoleTypes'
<1> SUFFICES ASSUME TypesInv, Kept, Injects PROVE ConsoleTypes'
  OBVIOUS
<1>1. ConsoleTypes
  BY DEF TypesInv
<1>2. fresh' = FALSE /\ wiped' = Awaiting /\ chaos' = chaos
  BY <1>1, InjectsAre, Injected
<1>3. /\ script' = script /\ step' = step /\ base' = base /\ others' = others
      /\ byHand' = byHand \/ (byHand + chaos < MaxOthers /\ byHand' = byHand + 1)
      /\ \/ phase' = phase
         \/ phase = "based" /\ phase' = "waiting"
         \/ script = "menu" /\ phase = "ready" /\ phase' = "injected"
  BY DEF Injects, InjectStep, MenuInject, InjectByHand, OneMoreByHand, At
<1>4. byHand' \in Nat /\ byHand' + chaos <= MaxOthers
  BY <1>1, <1>3, DemoAssumption DEF ConsoleTypes
<1>5. wiped' \in BOOLEAN /\ (wiped' => Waiting)
  BY <1>2 DEF Awaiting
<1>6. Waiting => Waiting'
  BY <1>3 DEF Waiting
<1>7. Waiting' \/ (base' = 0 /\ ~fresh' /\ others' = 0 /\ ~wiped')
  BY <1>1, <1>2, <1>3, <1>5, <1>6 DEF ConsoleTypes
<1>8. script' = "demo" /\ Waiting' => step' <= 5
  BY <1>1, <1>3 DEF ConsoleTypes, Waiting
<1> QED
  BY <1>1, <1>2, <1>3, <1>4, <1>5, <1>7, <1>8 DEF ConsoleTypes

LEMMA DrillConsole == ConsoleTypes /\ StartDrill => ConsoleTypes'
<1> SUFFICES ASSUME ConsoleTypes, StartDrill PROVE ConsoleTypes'
  OBVIOUS
<1>1. /\ byHand' = byHand /\ chaos' = chaos /\ script' = script /\ step' = step
      /\ base' = base /\ fresh' = fresh /\ others' = others /\ wiped' = wiped
      /\ script = "demo" /\ phase = "based" /\ phase' = "waiting"
  BY DEF StartDrill, Daemonless, At
<1> QED
  BY <1>1 DEF ConsoleTypes, Waiting

LEMMA TypesInit == DemoInit => TypesInv /\ Kept
<1> SUFFICES ASSUME DemoInit PROVE TypesInv /\ Kept
  OBVIOUS
<1>1. ConsoleTypes
  <2>1. /\ byHand = 0 /\ chaos = 0 /\ script \in {"demo", "menu"} /\ step = 1 /\ phase = "ready"
        /\ base = 0 /\ others = 0
    BY DEF DemoInit
  <2>2. fresh = FALSE /\ wiped = FALSE
    BY DEF DemoInit
  <2>3. ~Waiting
    BY <2>1 DEF Waiting
  <2>4. 0 + 0 <= MaxOthers /\ 1 \in 1..7
    BY DemoAssumption
  <2> QED
    BY <2>1, <2>2, <2>3, <2>4 DEF ConsoleTypes
<1>2. TableTypes
  <2>1. PICK r : r = rows
    OBVIOUS
  <2>2. \A t : RowsIn(r, t) = {}
    BY <2>1, NoRows DEF DemoInit
  <2>3. \A t : RowsOf(t) = {}
    BY <2>1, <2>2 DEF RowsOf, RowsIn
  <2>4. IsFiniteSet({})
    BY FS_EmptySet
  <2>5. rows \in [Pid -> Seq(Topics)]
    BY DEF DemoInit
  <2> QED
    BY <2>3, <2>4, <2>5 DEF TableTypes
<1>3. BotTypes
  BY DEF BotTypes, DemoInit
<1>4. Kept
  BY DEF Kept, Known, DemoInit
<1> QED
  BY <1>1, <1>2, <1>3, <1>4 DEF TypesInv

LEMMA TypesNext == TypesInv /\ Kept /\ [DemoNext]_demoVars => (TypesInv /\ Kept)'
<1> SUFFICES ASSUME TypesInv, Kept, [DemoNext]_demoVars PROVE TypesInv' /\ Kept'
  OBVIOUS
<1>1. ConsoleTypes /\ TableTypes /\ BotTypes
  BY DEF TypesInv
<1>2. CASE Bots
  BY <1>1, <1>2, BotsEffect, BotsConsole DEF BotEffect, TypesInv
<1>3. CASE Takes
  BY <1>1, <1>3, TakesStill, BotsStill, TakesConsole DEF TypesInv
<1>4. CASE Injects
  BY <1>1, <1>4, InjectsAre, Injected, InjectsConsole DEF TypesInv
<1>5. CASE StartDrill
  BY <1>1, <1>5, DrillStarted, DrillConsole DEF TypesInv
<1>6. CASE Stops
  BY <1>1, <1>6, StopsStill, BotsStill, StopsConsole DEF TypesInv
<1>7. CASE UNCHANGED demoVars
  <2>1. UNCHANGED botVars /\ UNCHANGED scriptVars /\ byHand' = byHand
    BY <1>7 DEF demoVars
  <2>2. TableTypes' /\ BotTypes' /\ Kept' /\ chaos' = chaos
    BY <2>1, BotsStill
  <2>3. ConsoleTypes'
    BY <1>1, <2>1, <2>2 DEF ConsoleTypes, scriptVars, Waiting
  <2> QED
    BY <2>2, <2>3 DEF TypesInv
<1> QED
  BY <1>2, <1>3, <1>4, <1>5, <1>6, <1>7, StepKinds

LEMMA Demonstrates == DemoSpec => [](TypesInv /\ Kept)
<1> QED
  BY TypesInit, TypesNext, PTL DEF DemoSpec

-------------------------------------------------------------------------------
(* Counting *)

LEMMA CountingInit == DemoInit => Counting
BY DEF DemoInit, Counting, Awaiting, Waiting

LEMMA CountingNext == TypesInv /\ Kept /\ Counting /\ [DemoNext]_demoVars => Counting'
<1> SUFFICES ASSUME TypesInv, Kept, Counting, [DemoNext]_demoVars PROVE Counting'
  OBVIOUS
<1>1. /\ ConsoleTypes /\ TableTypes /\ BotTypes
      /\ Successes \in Nat /\ Rejections \in Nat /\ base \in Nat
  BY RejectionsCount DEF TypesInv, ConsoleTypes
<1>2. CASE Bots
  <2>1. BotEffect
    BY <1>2, BotsEffect
  <2>2. base' = base /\ wiped' = wiped /\ Awaiting' = Awaiting
    BY <1>1, <2>1, BotsConsole
  <2>3. \/ Successes' = Successes /\ fresh' = fresh
        \/ Successes' = Successes + 1 /\ fresh' = (fresh \/ Awaiting)
    BY <2>1 DEF BotEffect, Counts, Quiet, Succeeds, Blocks, Answered
  <2>4. CASE Successes' = Successes /\ fresh' = fresh
    BY <2>2, <2>4 DEF Counting
  <2>5. CASE Successes' = Successes + 1 /\ fresh' = (fresh \/ Awaiting)
    <3> SUFFICES ASSUME Awaiting
                 PROVE  fresh' /\ Successes' > 0 /\ (wiped' \/ Successes' > base')
      BY <1>1, <2>2, <2>5 DEF Counting
    <3>1. fresh'
      BY <2>5
    <3>2. Successes' > 0 /\ (Successes >= base => Successes' > base')
      BY <1>1, <2>2, <2>5
    <3> QED
      BY <2>2, <3>1, <3>2 DEF Counting
  <2> QED
    BY <2>3, <2>4, <2>5
<1>3. CASE Takes
  <2>1. Successes' = Successes /\ script' = script /\ step' = step
    BY <1>3, TakesStill, BotsStill
  <2>2. fresh' = FALSE /\ wiped' = FALSE
    BY <1>3 DEF Takes, Baseline, MenuBaseline, TakeBaseline
  <2>3. Awaiting' => base' = Successes
    <3>1. CASE Baseline
      <4>1. /\ script = "demo" /\ phase' = "based"
            /\ base' = IF Plan[step] = "drill" THEN Rejections ELSE Successes
        BY <3>1 DEF Baseline, TakeBaseline, At
      <4> QED
        BY <2>1, <4>1 DEF Awaiting, Drilling, Waiting
    <3>2. CASE MenuBaseline
      BY <3>2 DEF MenuBaseline, TakeBaseline
    <3> QED
      BY <1>3, <3>1, <3>2 DEF Takes
  <2> QED
    BY <1>1, <2>1, <2>2, <2>3 DEF Counting
<1>4. CASE Injects
  <2>1. Successes' = 0 /\ fresh' = FALSE /\ wiped' = Awaiting
    BY <1>1, <1>4, InjectsAre, Injected
  <2>2. /\ base' = base /\ script' = script /\ step' = step
        /\ \/ phase' = phase
           \/ phase = "based" /\ phase' = "waiting"
           \/ phase' = "injected"
    BY <1>4 DEF Injects, InjectStep, MenuInject, InjectByHand, At
  <2>3. Awaiting' => Awaiting
    BY <2>2 DEF Awaiting, Drilling, Waiting
  <2>4. ~(Successes' > base')
    BY <1>1, <2>1, <2>2
  <2> QED
    BY <2>1, <2>3, <2>4 DEF Counting
<1>5. CASE StartDrill
  <2>1. Drilling'
    BY <1>5 DEF StartDrill, At, Drilling, Waiting
  <2> QED
    BY <2>1 DEF Counting, Awaiting
<1>6. CASE Stops
  <2>1. ~Awaiting'
    BY <1>6, StopsStill DEF Awaiting, Waiting
  <2> QED
    BY <2>1 DEF Counting
<1>7. CASE UNCHANGED demoVars
  <2>1. UNCHANGED botVars /\ UNCHANGED scriptVars
    BY <1>7 DEF demoVars
  <2>2. Successes' = Successes
    BY <2>1, BotsStill
  <2> QED
    BY <2>1, <2>2 DEF Counting, scriptVars, Awaiting, Drilling, Waiting
<1> QED
  BY <1>2, <1>3, <1>4, <1>5, <1>6, <1>7, StepKinds

LEMMA SuccessesAreCounted == DemoSpec => []Counting
<1> QED
  BY CountingInit, CountingNext, Demonstrates, PTL DEF DemoSpec

-------------------------------------------------------------------------------
(* The drill *)

LEMMA ToRejectNat == BotTypes => ToReject \in Nat /\ drill.open \in Nat /\ drill.fired \in 0..6
<1> SUFFICES ASSUME BotTypes
             PROVE  ToReject \in Nat /\ drill.open \in Nat /\ drill.fired \in 0..6
  OBVIOUS
<1>1. drill.open \in Nat /\ drill.fired \in 0..6
  BY DEF BotTypes
<1> QED
  BY <1>1, UnfiredNat DEF ToReject

LEMMA NothingToReject == drill = [fired |-> 6, open |-> 0] => ToReject = 0 /\ drill.open = 0
<1>1. Unfired[6 + 1] = 0
  BY DEF Unfired
<1> QED
  BY <1>1 DEF ToReject

LEMMA DrillInit == DemoInit => DrillCounted
<1> SUFFICES ASSUME DemoInit PROVE DrillCounted
  OBVIOUS
<1>1. ToReject = 0
  BY NothingToReject DEF DemoInit
<1> QED
  BY <1>1 DEF DemoInit, DrillCounted, Drilling, Waiting

LEMMA DrillNext == TypesInv /\ Kept /\ DrillCounted /\ [DemoNext]_demoVars => DrillCounted'
<1> SUFFICES ASSUME TypesInv, Kept, DrillCounted, [DemoNext]_demoVars PROVE DrillCounted'
  OBVIOUS
<1>1. /\ ConsoleTypes /\ TableTypes /\ BotTypes
      /\ Rejections \in Nat /\ base \in Nat /\ others \in Nat /\ step \in 1..7
      /\ ToReject \in Nat /\ drill.open \in Nat
  BY RejectionsCount, ToRejectNat DEF TypesInv, ConsoleTypes
<1>2. /\ ConsoleTypes' /\ TableTypes' /\ BotTypes' /\ ToReject' \in Nat
      /\ base' \in Nat /\ others' \in Nat
  <2>1. TypesInv'
    BY TypesNext
  <2>2. ToReject' \in Nat
    <3>1. drill'.open \in Nat /\ drill'.fired \in 0..6
      BY <2>1 DEF TypesInv, BotTypes
    <3> QED
      BY <3>1, UnfiredNat DEF ToReject
  <2> QED
    BY <2>1, <2>2 DEF TypesInv, ConsoleTypes
<1>3. /\ Drilling <=> Waiting /\ script = "demo" /\ step = 3
      /\ Drilling' <=> Waiting' /\ script' = "demo" /\ step' = 3
  BY <1>1, <1>2, PlanIs DEF ConsoleTypes, Drilling
<1>4. CASE Bots
  <2>1. BotEffect
    BY <1>4, BotsEffect
  <2>2. /\ base' = base /\ script' = script /\ step' = step /\ phase' = phase
        /\ Drilling' = Drilling
    BY <1>1, <2>1, BotsConsole
  <2>3. Unstarted => ToReject = 0 /\ drill.open = 0 /\ drill.fired = 6
    BY NothingToReject DEF DrillCounted
  <2>4. CASE Quiet /\ (drill' = drill \/ (drill.fired < 6 /\ ToReject' = ToReject))
    <3>1. ToReject' = ToReject /\ (Unstarted => drill' = drill)
      BY <2>3, <2>4 DEF ToReject
    <3> QED
      BY <1>1, <2>2, <2>4, <3>1 DEF DrillCounted, Unstarted, Quiet
  <2>5. CASE Succeeds /\ drill' = drill
    BY <1>1, <2>2, <2>5 DEF DrillCounted, Unstarted, Succeeds, ToReject
  <2>6. CASE Blocks /\ drill' = drill
    <3>1. ToReject' = ToReject
      BY <2>6 DEF ToReject
    <3>2. Rejections' = Rejections + 1 /\ (Drilling => others' = others + 1)
      BY <2>6 DEF Blocks, Counted
    <3>3. ToReject' <= 4 /\ (Unstarted' => drill' = [fired |-> 6, open |-> 0])
      BY <2>2, <2>6, <3>1 DEF DrillCounted, Unstarted
    <3>4. ASSUME Drilling
          PROVE  Rejections' + ToReject'
                   <= base' + others' + (IF phase' = "waiting" THEN 4 ELSE 0)
      <4>1. Rejections + ToReject <= base + others + (IF phase = "waiting" THEN 4 ELSE 0)
        BY <3>4 DEF DrillCounted
      <4> QED
        BY <1>1, <2>2, <3>1, <3>2, <3>4, <4>1
    <3> QED
      BY <2>2, <3>3, <3>4 DEF DrillCounted
  <2>7. CASE Answered
    <3>1. ~Unstarted
      BY <1>1, <2>3, <2>7 DEF Answered
    <3> QED
      BY <1>1, <1>2, <2>2, <2>7, <3>1 DEF DrillCounted, Unstarted, Answered
  <2> QED
    BY <2>1, <2>4, <2>5, <2>6, <2>7 DEF BotEffect, Counts
<1>5. CASE Takes
  <2>1. /\ Rejections' = Rejections /\ drill' = drill /\ ToReject' = ToReject
        /\ script' = script /\ step' = step
    BY <1>5, TakesStill, BotsStill
  <2>2. /\ others' = 0 /\ phase' \in {"based", "waiting"}
        /\ phase' = "waiting" => script = "menu"
        /\ phase = "ready" \/ script = "menu"
        /\ phase' = "based" /\ Plan[step] = "drill" => base' = Rejections
    BY <1>5 DEF Takes, Baseline, MenuBaseline, TakeBaseline, At
  <2>3. Unstarted' => Unstarted
    BY <2>1, <2>2 DEF Unstarted
  <2>4. Drilling' => phase' = "based" /\ base' = Rejections /\ ToReject = 0
    <3> SUFFICES ASSUME Drilling' PROVE phase' = "based" /\ base' = Rejections /\ ToReject = 0
      OBVIOUS
    <3>1. script = "demo" /\ step = 3 /\ phase' = "based" /\ phase = "ready"
      BY <1>3, <2>1, <2>2
    <3>2. Plan[step] = "drill"
      BY <3>1, PlanIs
    <3>3. Unstarted
      BY <3>1 DEF Unstarted
    <3> QED
      BY <2>2, <3>1, <3>2, <3>3, NothingToReject DEF DrillCounted
  <2> QED
    BY <1>1, <2>1, <2>2, <2>3, <2>4 DEF DrillCounted
<1>6. CASE Injects
  <2>1. /\ Rejections' = 0 /\ ToReject' <= ToReject
        /\ drill = [fired |-> 6, open |-> 0] => drill' = drill
    BY <1>1, <1>6, InjectsAre, Injected
  <2>2. /\ base' = base /\ others' = others /\ script' = script /\ step' = step
        /\ \/ phase' = phase
           \/ phase = "based" /\ phase' = "waiting" /\ Plan[step] # "drill" /\ script = "demo"
           \/ script = "menu"
    BY <1>6 DEF Injects, InjectStep, MenuInject, InjectByHand, At
  <2>3. script = "demo" => phase' = phase \/ step # 3
    <3>1. Plan[3] = "drill"
      BY PlanIs
    <3> QED
      BY <2>2, <3>1
  <2>4. Unstarted' => Unstarted
    BY <1>1, <2>2, <2>3 DEF Unstarted
  <2>5. Drilling' => phase' = phase /\ (phase # "waiting" => ToReject = 0)
    <3> SUFFICES ASSUME Drilling' PROVE phase' = phase /\ (phase # "waiting" => ToReject = 0)
      OBVIOUS
    <3>1. phase' = phase /\ step = 3 /\ (phase = "based" \/ phase = "waiting")
      BY <1>3, <2>2, <2>3 DEF Waiting
    <3>2. phase = "based" => Unstarted
      BY <3>1 DEF Unstarted
    <3> QED
      BY <3>1, <3>2, NothingToReject DEF DrillCounted
  <2>6. ToReject' <= 4
    BY <1>1, <1>2, <2>1 DEF DrillCounted
  <2>8. Unstarted' => drill' = [fired |-> 6, open |-> 0]
    BY <2>1, <2>4 DEF DrillCounted
  <2>7. ASSUME Drilling'
        PROVE  Rejections' + ToReject'
                 <= base' + others' + (IF phase' = "waiting" THEN 4 ELSE 0)
    <3>1. /\ Rejections' = 0 /\ ToReject' \in Nat /\ base' \in Nat /\ others' \in Nat
          /\ ToReject' <= ToReject /\ ToReject' <= 4
      BY <1>2, <2>1, <2>6
    <3>2. phase' # "waiting" => ToReject = 0
      BY <2>5, <2>7
    <3>3. PICK r, b, o, c \in Nat :
            /\ r = ToReject' /\ b = base' /\ o = others'
            /\ c = (IF phase' = "waiting" THEN 4 ELSE 0)
      BY <3>1
    <3>4. r <= c
      BY <3>1, <3>2, <3>3
    <3>5. 0 + r <= b + o + c
      BY <3>4
    <3> QED
      BY <3>1, <3>3, <3>5
  <2> QED
    BY <2>6, <2>7, <2>8 DEF DrillCounted
<1>7. CASE StartDrill
  <2>1. /\ script' = script /\ step' = step /\ base' = base /\ others' = others
        /\ script = "demo" /\ phase = "based" /\ phase' = "waiting" /\ Plan[step] = "drill"
    BY <1>7 DEF StartDrill, At
  <2>2. step = 3
    BY <1>1, <2>1, PlanIs
  <2>3. Unstarted /\ ~Unstarted' /\ Drilling
    BY <1>3, <2>1, <2>2 DEF Unstarted, Waiting
  <2>4. ToReject = 0 /\ drill.open = 0
    BY <2>3, NothingToReject DEF DrillCounted
  <2>5. ToReject' = 4 /\ Rejections' = Rejections
    BY <1>7, <2>4, DrillStarted
  <2> QED
    BY <1>1, <2>1, <2>3, <2>4, <2>5 DEF DrillCounted
<1>8. CASE Stops
  <2>1. /\ drill' = drill /\ ToReject' = ToReject /\ script' = script
        /\ phase' \in {"ready", "over"}
        /\ step' = step \/ (script = "demo" /\ phase' = "ready" /\ step' = step + 1)
    BY <1>8, StopsStill, BotsStill
  <2>2. ~Drilling'
    BY <2>1 DEF Drilling, Waiting
  <2>3. Unstarted' => Unstarted
    <3> SUFFICES ASSUME Unstarted' PROVE Unstarted
      OBVIOUS
    <3>1. CASE script # "demo" \/ step < 3
      BY <1>1, <3>1 DEF ConsoleTypes, Unstarted
    <3>2. CASE script = "demo" /\ step = 3
      <4>1. phase' = "ready" /\ step' = 3
        BY <2>1, <3>2 DEF Unstarted
      <4>2. phase = "ready" \/ phase = "based"
        BY <1>8, <3>2, <4>1 DEF Stops, SuccessSeen, SuccessNotSeen, SixSeen, SixNotSeen, SkipStep,
                                Verify, NextStep, Aborts, At
      <4> QED
        BY <3>2, <4>2 DEF Unstarted
    <3>3. CASE script = "demo" /\ step > 3
      BY <1>1, <2>1, <3>3 DEF Unstarted
    <3> QED
      BY <1>1, <3>1, <3>2, <3>3
  <2> QED
    BY <2>1, <2>2, <2>3 DEF DrillCounted
<1>9. CASE UNCHANGED demoVars
  <2>1. UNCHANGED botVars /\ UNCHANGED scriptVars
    BY <1>9 DEF demoVars
  <2>2. drill' = drill /\ ToReject' = ToReject /\ Rejections' = Rejections
    BY <2>1, BotsStill
  <2> QED
    BY <2>1, <2>2 DEF DrillCounted, scriptVars, Unstarted, Drilling, Waiting
<1> QED
  BY <1>4, <1>5, <1>6, <1>7, <1>8, <1>9, StepKinds

LEMMA DrillIsCounted == DemoSpec => []DrillCounted
<1> QED
  BY DrillInit, DrillNext, Demonstrates, PTL DEF DemoSpec

-------------------------------------------------------------------------------
(* The first two steps *)

LEMMA FirstInit == DemoInit => FirstSteps
<1> SUFFICES ASSUME DemoInit PROVE FirstSteps
  OBVIOUS
<1>1. market = None /\ step = 1 /\ phase = "ready" /\ \A p \in Pid : ~InFlight(p)
  BY DEF DemoInit, InFlight, Known
<1>2. Successes = 0
  <2>1. PICK r : r = rows
    OBVIOUS
  <2>2. RowsIn(r, "EXECUTION_SUCCESS") = {}
    BY <2>1, NoRows DEF DemoInit
  <2>3. RowsOf("EXECUTION_SUCCESS") = {}
    BY <2>1, <2>2 DEF RowsOf, RowsIn
  <2> QED
    BY <2>3, FS_EmptySet DEF Successes, Count
<1> QED
  BY <1>1, <1>2 DEF FirstSteps, OneAtATime

\* At most one of the three stays at most one.
LEMMA OneStaysOne ==
  ASSUME OneAtATime, Flights, Successes \in Nat
  PROVE  /\ OneAtATime'
         /\ market = None /\ (\A p \in Pid : ~InFlight(p)) =>
              Successes' = Successes /\ market' = None /\ \A p \in Pid : ~InFlight(p)'
         /\ Successes = 1 => Successes' = 1
<1>1. CASE /\ market' = market /\ Successes' = Successes
           /\ \A q \in Pid : InFlight(q)' => InFlight(q)
  BY <1>1 DEF OneAtATime
<1>2. CASE /\ market # None /\ market' = None /\ Successes' = Successes
           /\ \A q, r \in Pid :
                InFlight(q)' /\ InFlight(r)' /\ ~InFlight(q) /\ ~InFlight(r) => q = r
  <2>1. Successes = 0 /\ \A p \in Pid : ~InFlight(p)
    BY <1>2 DEF OneAtATime
  <2> QED
    BY <1>2, <2>1 DEF OneAtATime
<1>3. CASE /\ market' = market /\ Successes' = Successes + 1
           /\ \E p \in Pid : InFlight(p) /\ ~InFlight(p)'
           /\ \A q \in Pid : InFlight(q)' => InFlight(q)
  <2>1. PICK p \in Pid : InFlight(p) /\ ~InFlight(p)'
    BY <1>3
  <2>2. market = None /\ Successes = 0 /\ \A q \in Pid : InFlight(q) => q = p
    BY <2>1 DEF OneAtATime
  <2>3. \A q \in Pid : ~InFlight(q)'
    BY <1>3, <2>1, <2>2
  <2> QED
    BY <1>3, <2>1, <2>2, <2>3 DEF OneAtATime
<1> QED
  BY <1>1, <1>2, <1>3 DEF Flights

LEMMA FirstNext ==
  TypesInv /\ Kept /\ FirstSteps /\ [DemoNext]_demoVars => FirstSteps'
<1> SUFFICES ASSUME TypesInv, Kept, FirstSteps, [DemoNext]_demoVars,
                    script' = "demo", byHand' = 0
             PROVE  /\ step' <= 2
                    /\ phase' # "over" => OneAtATime'
                    /\ step' = 1 /\ phase' \in {"ready", "based"} =>
                         market' = None /\ Successes' = 0 /\ \A p \in Pid : ~InFlight(p)'
                    /\ step' = 2 /\ phase' \in {"ready", "based"} => Successes' = 1
                    /\ step' = 2 /\ phase' \in {"based", "waiting"} => base' = 1
  BY DEF FirstSteps
<1>1. /\ ConsoleTypes /\ TableTypes /\ BotTypes
      /\ Successes \in Nat /\ base \in Nat /\ step \in 1..7
  BY RejectionsCount DEF TypesInv, ConsoleTypes
<1>2. CASE Bots
  <2>1. BotEffect /\ Flights
    BY <1>2, BotsEffect DEF BotEffect
  <2>2. /\ base' = base /\ script' = script /\ step' = step /\ phase' = phase
        /\ byHand' = byHand /\ phase # "over"
    BY <1>1, <2>1, BotsConsole
  <2>3. OneAtATime /\ step <= 2
    BY <2>2 DEF FirstSteps
  <2>4. /\ OneAtATime'
        /\ market = None /\ (\A p \in Pid : ~InFlight(p)) =>
              Successes' = Successes /\ market' = None /\ \A p \in Pid : ~InFlight(p)'
        /\ Successes = 1 => Successes' = 1
    BY <1>1, <2>1, <2>3, OneStaysOne
  <2> QED
    BY <2>2, <2>3, <2>4 DEF FirstSteps
<1>3. CASE Takes
  <2>1. /\ Successes' = Successes /\ market' = market /\ script' = script /\ step' = step
        /\ byHand' = byHand /\ \A r \in Pid : InFlight(r)' <=> InFlight(r)
    BY <1>3, TakesStill, BotsStill
  <2>2. /\ phase = "ready" /\ phase' = "based"
        /\ base' = IF Plan[step] = "drill" THEN Rejections ELSE Successes
    BY <1>3, <2>1 DEF Takes, Baseline, MenuBaseline, TakeBaseline, At
  <2>3. step <= 2 /\ OneAtATime
    BY <2>1, <2>2 DEF FirstSteps
  <2>4. base' = Successes
    <3>1. step # 3
      BY <1>1, <2>3
    <3> QED
      BY <1>1, <2>2, <3>1, PlanIs
  <2>5. OneAtATime'
    BY <2>1, <2>3 DEF OneAtATime
  <2> QED
    BY <2>1, <2>2, <2>3, <2>4, <2>5 DEF FirstSteps
<1>4. CASE Injects
  <2>1. PICK scenario \in Markets : Inject(scenario) /\ Daemonless
    BY <1>1, <1>4, InjectsAre
  <2>2. Successes' = 0 /\ \A r \in Pid : InFlight(r)' <=> InFlight(r)
    BY <2>1, Injected
  <2>3. byHand \in Nat
    BY <1>1 DEF ConsoleTypes
  <2>4. InjectStep
    BY <1>4, <2>3 DEF Injects, MenuInject, InjectByHand, OneMoreByHand
  <2>5. /\ script = "demo" /\ phase = "based" /\ phase' = "waiting" /\ step' = step
        /\ base' = base /\ byHand = 0
    BY <2>4 DEF InjectStep, At
  <2>6. /\ step <= 2 /\ OneAtATime
        /\ step = 1 => \A p \in Pid : ~InFlight(p)
        /\ step = 2 => Successes = 1 /\ base = 1
    BY <2>5 DEF FirstSteps
  <2>7. \A p \in Pid : ~InFlight(p)
    <3>1. step = 1 \/ step = 2
      BY <1>1, <2>6
    <3> QED
      BY <2>6, <3>1 DEF OneAtATime
  <2>8. OneAtATime'
    BY <2>2, <2>7 DEF OneAtATime
  <2> QED
    BY <2>5, <2>6, <2>8
<1>5. CASE StartDrill
  <2>1. script = "demo" /\ byHand = 0 /\ Plan[step] = "drill"
    BY <1>5 DEF StartDrill, At
  <2>2. step = 3 /\ step <= 2
    BY <1>1, <2>1, PlanIs DEF FirstSteps
  <2> QED
    BY <2>2
<1>6. CASE Stops
  <2>1. /\ Successes' = Successes /\ market' = market /\ script' = script /\ byHand' = byHand
        /\ \A r \in Pid : InFlight(r)' <=> InFlight(r)
        /\ phase' \in {"ready", "over"}
        /\ step' = step \/ (phase' = "ready" /\ step' = step + 1)
    BY <1>6, StopsStill, BotsStill
  <2>2. step <= 2
    BY <2>1 DEF FirstSteps
  <2>3. CASE phase' = "over"
    <3>1. step' = step
      BY <2>1, <2>3
    <3> QED
      BY <2>2, <2>3, <3>1
  <2>4. CASE phase' = "ready"
    <3>1. Plan[step] # "drill" /\ Plan[step] # "gas_war" /\ Plan[step] # "replay"
      BY <1>1, <2>2, PlanIs
    <3>2. SuccessSeen
      BY <1>6, <2>1, <2>4, <3>1 DEF Stops, SuccessNotSeen, SixSeen, SixNotSeen, SkipStep, Verify,
                                    Aborts, AwaitsSix, Drilling
    <3>3. phase = "waiting" /\ Successes > base /\ step' = step + 1
      BY <2>1, <3>2 DEF SuccessSeen, AwaitsSuccess, NewSuccess, NextStep
    <3>4. OneAtATime /\ Successes <= 1
      BY <2>1, <3>3 DEF FirstSteps, OneAtATime
    <3>5. step = 2 => base = 1
      BY <2>1, <3>3 DEF FirstSteps
    <3>6. Successes = 1 /\ base = 0
      BY <1>1, <3>3, <3>4
    <3>7. step' = 2
      BY <1>1, <2>2, <3>3, <3>5, <3>6
    <3>8. OneAtATime'
      BY <2>1, <3>4 DEF OneAtATime
    <3> QED
      BY <2>1, <2>4, <3>6, <3>7, <3>8
  <2> QED
    BY <2>1, <2>3, <2>4
<1>7. CASE UNCHANGED demoVars
  <2>1. UNCHANGED botVars /\ UNCHANGED scriptVars /\ byHand' = byHand
    BY <1>7 DEF demoVars
  <2>2. /\ Successes' = Successes /\ market' = market
        /\ \A r \in Pid : InFlight(r)' <=> InFlight(r)
    BY <2>1, BotsStill
  <2>3. script' = script /\ step' = step /\ phase' = phase /\ base' = base
    BY <2>1 DEF scriptVars
  <2>4. OneAtATime => OneAtATime'
    BY <2>2 DEF OneAtATime
  <2> QED
    BY <2>1, <2>2, <2>3, <2>4 DEF FirstSteps
<1> QED
  BY <1>2, <1>3, <1>4, <1>5, <1>6, <1>7, StepKinds

LEMMA FirstStepsAlways == DemoSpec => []FirstSteps
<1> QED
  BY FirstInit, FirstNext, Demonstrates, PTL DEF DemoSpec

-------------------------------------------------------------------------------
(* The firewall *)

\* The score of the withdrawal that protocol_hack calls for.
LEMMA HackScore == Rotation(MarketData("protocol_hack")).risk = 95
<1> DEFINE m == MarketData("protocol_hack")
           applicable == {i \in DOMAIN Rules(m) : Rules(m)[i].holds}
           first == CHOOSE i \in applicable : \A j \in applicable : i <= j
<1>1. m.solSafety = 20
  BY DEF MarketData, Normal
<1> HIDE DEF m
<1>2. DOMAIN Rules(m) = 1..5
  BY DEF Rules
<1>8. Rules(m)[1] = [holds |-> m.solSafety < 40, action |-> "EMERGENCY_WITHDRAW",
                     protocol |-> "Uniswap_V4", risk |-> 95]
  BY DEF Rules
<1>9. m.solSafety < 40
  BY <1>1
<1>10. Rules(m)[1].holds /\ Rules(m)[1].risk = 95
  <2>1. Rules(m)[1].holds = (m.solSafety < 40)
    BY Zenon DEF Rules
  <2>2. Rules(m)[1].risk = 95
    BY <1>8, SMT
  <2> QED
    BY <1>9, <2>1, <2>2, Zenon
<1>3. 1 \in applicable /\ \A j \in applicable : 1 <= j
  BY <1>2, <1>10
<1>4. first \in applicable /\ \A j \in applicable : first <= j
  BY <1>3
<1>5. first \in 1..5 /\ first <= 1
  BY <1>2, <1>3, <1>4
<1>6. first = 1
  <2> HIDE DEF first
  <2> QED
    BY <1>5
<1>7. Rotation(m) = Rules(m)[first]
  BY DEF Rotation
<1>11. Rotation(m).risk = 95
  <2> HIDE DEF first
  <2> QED
    BY <1>6, <1>7, <1>10
<1> QED
  BY <1>11 DEF m

LEMMA CopiedMeans ==
  ASSUME NEW a, NEW rotation, Draft(a, rotation).copied
  PROVE  a.riskBps = None /\ a.score = rotation.risk
<1>1. Draft(a, rotation).copied = (a.riskBps = None /\ a.score = rotation.risk)
  BY Zenon DEF Draft
<1> QED
  BY <1>1, Zenon

LEMMA PriceOfEther == \A s : MarketData(s).wethPrice \in {2800, 3500}
BY SMT DEF MarketData, Normal

LEMMA AmountIsInt == \A a \in Answers : AmountIn(a) \in Int
<1> SUFFICES ASSUME NEW a \in Answers PROVE AmountIn(a) \in Int
  OBVIOUS
<1>1. a.units \in Int \cup {None} /\ a.amount \in Int \cup {None} /\ MaxUnits \in Nat \cup {None}
  BY DemoAssumption
<1>2. \A n \in Nat : Tokens(a.assetIn, n) \in Int
  BY SMT DEF Tokens, Huge
<1> QED
  BY <1>1, <1>2 DEF AmountIn

-------------------------------------------------------------------------------
(* What the run checks *)

\* Types hold, for any number of proposals, scenarios, answers and interventions, and
\* the data of a proposal are kept exactly until its end.
THEOREM DemoTypeCorrect == DemoSpec => []DemoTypeOK
<1>1. TypesInv /\ Kept => DemoTypeOK
  <2> SUFFICES ASSUME TypesInv, Kept PROVE DemoTypeOK
    OBVIOUS
  <2>1. ConsoleTypes /\ TableTypes /\ BotTypes
    BY DEF TypesInv
  <2>2. byHand + chaos \in 0..MaxOthers
    BY <2>1, DemoAssumption DEF ConsoleTypes
  <2>3. ASSUME NEW p \in Pid
        PROVE  /\ ToSet(rows[p]) \subseteq Topics
               /\ Known(p) => prop[p] \in Negotiated /\ (prop[p].draft # None <=> InFlight(p))
    <3>1. rows[p] \in Seq(Topics)
      BY <2>1 DEF TableTypes
    <3>2. ToSet(rows[p]) \subseteq Topics
      BY <3>1 DEF ToSet
    <3> QED
      BY <2>1, <3>2, KnownFacts DEF KeptOf
  <2>4. Len(Attacks) = 6 /\ drill.fired \in 0..6 /\ drill.open \in Nat /\ attackRows \in Nat
    BY <2>1 DEF Attacks, BotTypes
  <2>5. step \in DOMAIN Plan
    BY <2>1, PlanIs DEF ConsoleTypes
  <2>6. market \in Markets \cup {None} /\ lastSettled \in Pid \cup {None}
    BY <2>1 DEF BotTypes
  <2>7. /\ script \in {"demo", "menu"}
        /\ phase \in {"ready", "based", "injected", "waiting", "over"}
        /\ Waiting \/ (base = 0 /\ ~fresh /\ others = 0 /\ ~wiped)
    BY <2>1 DEF ConsoleTypes
  <2> QED
    BY <2>2, <2>3, <2>4, <2>5, <2>6, <2>7 DEF DemoTypeOK
<1> QED
  BY <1>1, Demonstrates, PTL

\* A tick for EXECUTION_SUCCESS is never given for rows that were there before the
\* script counted, whoever wipes the table meanwhile (demo_run.py, lines 59-79;
\* start_all.py, lines 153-178).
THEOREM TicksAreEarned == DemoSpec => TickIsEarned
<1>1. TypesInv /\ Counting => (SuccessSeen => fresh)
  BY DEF SuccessSeen, AwaitsSuccess, NewSuccess, Counting
<1>2. TypesInv /\ Counting /\ [DemoNext]_demoVars => [SuccessSeen => fresh]_demoVars
  BY <1>1
<1> QED
  BY <1>2, Demonstrates, SuccessesAreCounted, PTL DEF DemoSpec, TickIsEarned

\* A wait that ends without a success has missed none, unless the table was wiped after
\* rows had been counted in it (demo_run.py, lines 59-79; market_injector.py, line 17).
THEOREM TimeoutsAreEarned == DemoSpec => TimeoutIsEarned
<1>1. TypesInv /\ Counting => (SuccessNotSeen => ~fresh \/ (wiped /\ base > 0))
  <2> SUFFICES ASSUME TypesInv, Counting, SuccessNotSeen, fresh PROVE wiped /\ base > 0
    OBVIOUS
  <2>1. Successes > 0 /\ (wiped \/ Successes > base) /\ ~(Successes > base)
    BY DEF SuccessNotSeen, AwaitsSuccess, NewSuccess, Counting
  <2>2. Successes \in Nat /\ base \in Nat
    BY RejectionsCount DEF TypesInv, ConsoleTypes
  <2> QED
    BY <2>1, <2>2
<1>2. TypesInv /\ Counting /\ [DemoNext]_demoVars =>
        [SuccessNotSeen => ~fresh \/ (wiped /\ base > 0)]_demoVars
  BY <1>1
<1> QED
  BY <1>2, Demonstrates, SuccessesAreCounted, PTL DEF DemoSpec, TimeoutIsEarned

\* demo_run.py does not get past its second step unless somebody injects by hand,
\* whatever the LLM answers and however many ids it uses (demo_run.py, lines 39-79).
THEOREM SecondStepIsLast == DemoSpec => []StopsAtSecondStep
<1>1. FirstSteps => StopsAtSecondStep
  BY DEF FirstSteps, StopsAtSecondStep
<1> QED
  BY <1>1, FirstStepsAlways, PTL

\* The drill passes only with two rejections of something else: A2 and A5 are never
\* rejected (byzantine_watchdog.py, lines 88-228; demo_run.py, lines 82-93).
THEOREM DrillPassesWithOthers == DemoSpec => DrillNeedsOthers
<1>1. TypesInv /\ DrillCounted => (SixSeen => others >= 2)
  <2> SUFFICES ASSUME TypesInv, DrillCounted, SixSeen PROVE others >= 2
    OBVIOUS
  <2>1. Drilling /\ phase = "waiting" /\ Rejections - base >= 6
    BY DEF SixSeen, AwaitsSix, AllRejected
  <2>2. /\ Rejections \in Nat /\ base \in Nat /\ others \in Nat /\ ToReject \in Nat
    BY RejectionsCount, ToRejectNat DEF TypesInv, ConsoleTypes
  <2>3. Rejections + ToReject <= base + others + 4
    BY <2>1 DEF DrillCounted
  <2> QED
    BY <2>1, <2>2, <2>3
<1>2. TypesInv /\ DrillCounted /\ [DemoNext]_demoVars => [SixSeen => others >= 2]_demoVars
  BY <1>1
<1> QED
  BY <1>2, Demonstrates, DrillIsCounted, PTL DEF DemoSpec, DrillNeedsOthers

\* No answer that copies the score of the analysis, as the prompt asks, lets the
\* withdrawal of protocol_hack through the firewall (quant.py, lines 33-39 and 62-67;
\* models.py, lines 136-137; firewall.py, lines 107-110).
THEOREM EmergencyIsRefused == DemoSpec => []CopiedEmergencyIsRefused
<1>1. TypesInv /\ Kept => CopiedEmergencyIsRefused
  <2> SUFFICES ASSUME TypesInv, Kept, NEW p \in Pid, InFlight(p), prop[p].review # "open",
                      prop[p].scenario = "protocol_hack", prop[p].draft.copied
               PROVE  FALSE
    BY DEF CopiedEmergencyIsRefused
  <2>1. Known(p) /\ KeptOf(prop[p]) /\ Open(prop[p])
    BY KnownFacts DEF TypesInv, InFlight, Open
  <2>2. PICK a \in Answers : prop[p].draft = Draft(a, Rotation(MarketData("protocol_hack")))
    BY <2>1 DEF KeptOf
  <2>3. prop[p].draft.riskBps # None => prop[p].draft.riskBps <= MaxRiskBps
    BY <2>1 DEF KeptOf, Clears
  <2>4. prop[p].draft.riskBps = RiskBps(a)
    BY <2>2 DEF Draft
  <2>5. a.riskBps = None /\ a.score = 95
    <3>1. Draft(a, Rotation(MarketData("protocol_hack"))).copied
      BY <2>2, Zenon
    <3> QED
      BY <3>1, CopiedMeans, HackScore
  <2>6. 95 # None /\ 9500 # None
    BY DemoAssumption
  <2>7. prop[p].draft.riskBps = 9500
    BY <2>4, <2>5, <2>6 DEF RiskBps
  <2> QED
    BY <2>3, <2>6, <2>7 DEF MaxRiskBps
<1> QED
  BY <1>1, Demonstrates, PTL

\* Whatever amount the LLM gives or leaves out, what is cleared is worth no more than
\* the cap at the market's price too (firewall.py, lines 32-47 and 54-60).
THEOREM CapIsKept == DemoSpec => []CapHoldsAtMarket
<1>1. TypesInv /\ Kept => CapHoldsAtMarket
  <2> SUFFICES ASSUME TypesInv, Kept, NEW p \in Pid, InFlight(p), prop[p].review # "open",
                      prop[p].draft.assetIn = "WETH"
               PROVE  100 * MarketData(prop[p].scenario).wethPrice * prop[p].draft.amount
                        <= MaxValue
    BY DEF CapHoldsAtMarket
  <2>1. Known(p) /\ KeptOf(prop[p]) /\ Open(prop[p])
    BY KnownFacts DEF TypesInv, InFlight, Open
  <2>2. PICK a \in Answers :
          prop[p].draft = Draft(a, Rotation(MarketData(prop[p].scenario)))
    BY <2>1 DEF KeptOf
  <2> DEFINE n == prop[p].draft.amount
             price == MarketData(prop[p].scenario).wethPrice
  <2>3. n \in Int
    BY <2>2, AmountIsInt DEF Draft
  <2>4. UsdValue("WETH", n) <= MaxValue
    BY <2>1 DEF KeptOf, Clears
  <2>5. price = 2800 \/ price = 3500
    BY PriceOfEther
  <2>6. "WETH" \in DOMAIN OraclePrices /\ OraclePrices["WETH"] = 350000
    BY SMT DEF OraclePrices
  <2> HIDE DEF n, price
  <2>7. 350000 * n <= MaxValue
    BY <2>3, <2>4, <2>6, SMT DEF UsdValue, MaxValue
  <2>8. n >= 0 => 100 * price * n <= 350000 * n
    BY <2>3, <2>5, SMT
  <2>10. n < 0 => 100 * price * n <= MaxValue
    BY <2>3, <2>5, SMT DEF MaxValue
  <2>9. 100 * price * n <= MaxValue
    BY <2>3, <2>5, <2>7, <2>8, <2>10, SMT DEF MaxValue
  <2> QED
    BY <2>9 DEF n, price
<1> QED
  BY <1>1, Demonstrates, PTL

-------------------------------------------------------------------------------
(* What Dashboard!Status computes, for any number of rows, and that it *)
(* agrees with what the daemons of Demo have done.                     *)

(* Induction, as the existence of a least counterexample *)

LEMMA LeastMember ==
  ASSUME NEW S \in SUBSET Nat, S # {}
  PROVE  \E m \in S : \A k \in S : m <= k
<1>1. PICK m \in S : \A k \in S : ~(<<k, m>> \in OpToRel(<, Nat))
  <2>1. IsWellFoundedOn(OpToRel(<, Nat), Nat)
    BY NatLessThanWellFounded
  <2> HIDE DEF OpToRel
  <2> QED
    BY <2>1, WFMin
<1>2. \A k \in S : ~(k < m)
  BY <1>1 DEF OpToRel
<1> QED
  BY <1>2

LEMMA GreatestMember ==
  ASSUME NEW n \in Nat, NEW S \in SUBSET (0..n), S # {}
  PROVE  \E m \in S : \A k \in S : k <= m
<1> DEFINE Below == {n - k : k \in S}
<1>1. Below \in SUBSET Nat /\ Below # {}
  <2>1. \A k \in S : n - k \in Nat
    OBVIOUS
  <2> QED
    BY <2>1
<1>2. PICK b \in Below : \A k \in Below : b <= k
  <2> HIDE DEF Below
  <2> QED
    BY <1>1, LeastMember
<1>3. PICK m \in S : b = n - m
  BY <1>2
<1>4. \A k \in S : n - m <= n - k
  BY <1>2, <1>3
<1> QED
  BY <1>4

-------------------------------------------------------------------------------
(* The rows of a session *)

\* The topics of the rows since the last proposal.
Recent(r) == {r[i] : i \in {k \in 1..Len(r) : \A j \in 1..Len(r) : r[j] = "PROPOSALS" => j < k}}

Proposed(r) == \E i \in 1..Len(r) : r[i] = "PROPOSALS"

LEMMA SessionIs ==
  ASSUME NEW r \in Seq(Topics)
  PROVE  /\ Session(r) \in Seq(Topics)
         /\ {Session(r)[i] : i \in 1..Len(Session(r))} = Recent(r)
<1> DEFINE proposed == {i \in DOMAIN r : r[i] = "PROPOSALS"}
           start    == CHOOSE i \in proposed \cup {0} : \A j \in proposed : j <= i
           s        == SubSeq(r, start + 1, Len(r))
<1>1. DOMAIN r = 1..Len(r) /\ Len(r) \in Nat
  OBVIOUS
<1>2. \E i \in proposed \cup {0} : \A j \in proposed : j <= i
  <2>1. proposed \cup {0} \in SUBSET (0..Len(r)) /\ proposed \cup {0} # {}
    BY <1>1
  <2> HIDE DEF proposed
  <2>2. \E m \in proposed \cup {0} : \A k \in proposed \cup {0} : k <= m
    BY <1>1, <2>1, GreatestMember
  <2> QED
    BY <2>2
<1>3. start \in proposed \cup {0} /\ \A j \in proposed : j <= start
  <2> HIDE DEF proposed
  <2> QED
    BY <1>2
<1>4. Session(r) = s
  BY DEF Session
<1> HIDE DEF start
<1>5. start \in 0..Len(r) /\ \A j \in 1..Len(r) : r[j] = "PROPOSALS" => j <= start
  BY <1>1, <1>3
<1>6. start # 0 => r[start] = "PROPOSALS"
  BY <1>3
<1>7. /\ s \in Seq(Topics) /\ Len(s) = Len(r) - start
      /\ \A i \in 1..Len(s) : s[i] = r[start + i]
  <2>1. start + 1 \in Int /\ Len(r) \in Int /\ \A i \in (start + 1)..Len(r) : r[i] \in Topics
    BY <1>1, <1>5
  <2>2. /\ s \in Seq(Topics)
        /\ Len(s) = IF start + 1 <= Len(r) THEN Len(r) - (start + 1) + 1 ELSE 0
        /\ \A i \in 1..(Len(r) - (start + 1) + 1) : s[i] = r[(start + 1) + i - 1]
    BY <2>1, SubSeqProperties
  <2> HIDE DEF s
  <2>3. Len(s) = IF start + 1 <= Len(r) THEN Len(r) - (start + 1) + 1 ELSE 0
    BY <2>2
  <2>4. start \in Int /\ start <= Len(r)
    BY <1>1, <1>5
  <2>5. Len(r) - (start + 1) + 1 = Len(r) - start /\ \A i \in Int : (start + 1) + i - 1 = start + i
    BY <1>1, <2>4
  <2>6. Len(s) = Len(r) - start
    <3>1. CASE start + 1 <= Len(r)
      BY <2>3, <2>5, <3>1
    <3>2. CASE ~(start + 1 <= Len(r))
      <4>2. \A a, l \in Int : a <= l /\ ~(a + 1 <= l) => l - a = 0
        OBVIOUS
      <4>1. Len(r) - start = 0
        BY <2>1, <2>4, <3>2, <4>2, Zenon
      <4> QED
        BY <2>3, <3>2, <4>1
    <3> QED
      BY <3>1, <3>2
  <2>7. ASSUME NEW i \in 1..Len(s) PROVE s[i] = r[start + i]
    <3>1. i \in 1..(Len(r) - (start + 1) + 1)
      BY <2>5, <2>6
    <3>2. s[i] = r[(start + 1) + i - 1]
      BY <2>2, <3>1
    <3>3. (start + 1) + i - 1 = start + i
      BY <2>5
    <3> QED
      BY <3>2, <3>3, Zenon
  <2> QED
    BY <2>2, <2>6, <2>7
<1>8. \A k \in 1..Len(r) :
        (\A j \in 1..Len(r) : r[j] = "PROPOSALS" => j < k) <=> start < k
  BY <1>1, <1>5, <1>6
<1>9. Recent(r) = {r[k] : k \in (start + 1)..Len(r)}
  BY <1>1, <1>5, <1>8 DEF Recent
<1> HIDE DEF s
<1>10. {s[i] : i \in 1..Len(s)} = {r[k] : k \in (start + 1)..Len(r)}
  <2>1. ASSUME NEW i \in 1..Len(s) PROVE \E k \in (start + 1)..Len(r) : s[i] = r[k]
    BY <1>1, <1>5, <1>7
  <2>2. ASSUME NEW k \in (start + 1)..Len(r) PROVE \E i \in 1..Len(s) : s[i] = r[k]
    <3>1. k - start \in 1..Len(s) /\ start + (k - start) = k
      BY <1>1, <1>5, <1>7
    <3>2. s[k - start] = r[start + (k - start)]
      BY <1>7, <3>1
    <3> QED
      BY <3>1, <3>2
  <2> QED
    <3> DEFINE A == {s[i] : i \in 1..Len(s)}
               B == {r[k] : k \in (start + 1)..Len(r)}
    <3>1. \A x \in A : x \in B
      BY <2>1
    <3>2. \A x \in B : x \in A
      BY <2>2
    <3> HIDE DEF A, B
    <3>3. A = B
      BY <3>1, <3>2
    <3> QED
      BY <3>3 DEF A, B
<1> QED
  BY <1>4, <1>7, <1>9, <1>10

LEMMA NothingPublished == Recent(<<>>) = {} /\ ~Proposed(<<>>)
BY DEF Recent, Proposed

LEMMA RowsFollow ==
  ASSUME NEW r \in Seq(Topics), NEW t \in Seq(Topics), ~Proposed(t)
  PROVE  /\ Recent(r \o t) = Recent(r) \cup {t[i] : i \in 1..Len(t)}
         /\ Proposed(r \o t) <=> Proposed(r)
<1> DEFINE u == r \o t
<1>1. /\ Len(r) \in Nat /\ Len(t) \in Nat /\ Len(u) = Len(r) + Len(t)
      /\ \A i \in 1..Len(r) : u[i] = r[i]
      /\ \A i \in 1..Len(t) : u[Len(r) + i] = t[i]
  OBVIOUS
<1> HIDE DEF u
<1>2. \A k \in 1..Len(u) : k \in 1..Len(r) \/ \E i \in 1..Len(t) : k = Len(r) + i
  <2> SUFFICES ASSUME NEW k \in 1..Len(u), k \notin 1..Len(r)
               PROVE  \E i \in 1..Len(t) : k = Len(r) + i
    OBVIOUS
  <2>1. k - Len(r) \in 1..Len(t) /\ k = Len(r) + (k - Len(r))
    BY <1>1
  <2> QED
    BY <2>1
<1>3. \A k \in 1..Len(u) : u[k] = "PROPOSALS" => k \in 1..Len(r)
  <2> SUFFICES ASSUME NEW k \in 1..Len(u), u[k] = "PROPOSALS", k \notin 1..Len(r)
               PROVE  FALSE
    OBVIOUS
  <2>1. PICK i \in 1..Len(t) : k = Len(r) + i
    BY <1>2
  <2>2. t[i] = "PROPOSALS"
    BY <1>1, <2>1
  <2> QED
    BY <2>2 DEF Proposed
<1>4. Proposed(u) <=> Proposed(r)
  <2>1. ASSUME NEW k \in 1..Len(u), u[k] = "PROPOSALS"
        PROVE  \E i \in 1..Len(r) : r[i] = "PROPOSALS"
    BY <1>1, <1>3, <2>1
  <2>2. ASSUME NEW i \in 1..Len(r), r[i] = "PROPOSALS"
        PROVE  \E k \in 1..Len(u) : u[k] = "PROPOSALS"
    <3>1. i \in 1..Len(u) /\ u[i] = "PROPOSALS"
      BY <1>1, <2>2
    <3> QED
      BY <3>1
  <2> QED
    BY <2>1, <2>2 DEF Proposed
<1>5. ASSUME NEW x PROVE x \in Recent(u) <=> x \in Recent(r) \cup {t[i] : i \in 1..Len(t)}
  <2>1. ASSUME x \in Recent(u) PROVE x \in Recent(r) \cup {t[i] : i \in 1..Len(t)}
    <3>1. PICK k \in 1..Len(u) : x = u[k] /\ \A j \in 1..Len(u) : u[j] = "PROPOSALS" => j < k
      BY <2>1 DEF Recent
    <3>2. CASE k \in 1..Len(r)
      <4>1. \A j \in 1..Len(r) : r[j] = "PROPOSALS" => j < k
        BY <1>1, <3>1
      <4> QED
        BY <1>1, <3>1, <3>2, <4>1 DEF Recent
    <3>3. CASE \E i \in 1..Len(t) : k = Len(r) + i
      BY <1>1, <3>1, <3>3
    <3> QED
      BY <1>2, <3>2, <3>3
  <2>2. ASSUME x \in Recent(r) PROVE x \in Recent(u)
    <3>1. PICK k \in 1..Len(r) : x = r[k] /\ \A j \in 1..Len(r) : r[j] = "PROPOSALS" => j < k
      BY <2>2 DEF Recent
    <3>2. k \in 1..Len(u) /\ x = u[k] /\ \A j \in 1..Len(u) : u[j] = "PROPOSALS" => j < k
      BY <1>1, <1>3, <3>1
    <3> QED
      BY <3>2 DEF Recent
  <2>3. ASSUME NEW i \in 1..Len(t) PROVE t[i] \in Recent(u)
    <3>1. /\ Len(r) + i \in 1..Len(u) /\ t[i] = u[Len(r) + i]
          /\ \A j \in 1..Len(r) : j < Len(r) + i
      BY <1>1
    <3>2. \A j \in 1..Len(u) : u[j] = "PROPOSALS" => j < Len(r) + i
      BY <1>3, <3>1
    <3> QED
      BY <3>1, <3>2 DEF Recent
  <2> QED
    BY <2>1, <2>2, <2>3
<1> QED
  BY <1>4, <1>5 DEF u

LEMMA RowsStartAgain ==
  ASSUME NEW r \in Seq(Topics)
  PROVE  Recent(r \o <<"PROPOSALS">>) = {} /\ Proposed(r \o <<"PROPOSALS">>)
<1> DEFINE u == r \o <<"PROPOSALS">>
<1>1. Len(r) \in Nat /\ Len(u) = Len(r) + 1 /\ u[Len(r) + 1] = "PROPOSALS"
  OBVIOUS
<1> HIDE DEF u
<1>2. Proposed(u)
  BY <1>1 DEF Proposed
<1>3. \A k \in 1..Len(u) : ~(Len(r) + 1 < k)
  BY <1>1
<1>4. Recent(u) = {}
  BY <1>1, <1>3 DEF Recent
<1> QED
  BY <1>2, <1>4 DEF u

-------------------------------------------------------------------------------
(* The status *)

\* What has the last word, whatever the order, unless a proposal was both executed and
\* blocked.
Verdict(R) ==
  CASE "EXECUTION_SUCCESS" \in R -> "executed"
    [] "EXECUTION_SUCCESS" \notin R /\ "ATTACK_REJECTED" \in R -> "attack_blocked"
    [] "EXECUTION_SUCCESS" \notin R /\ "ATTACK_REJECTED" \notin R /\ "REJECTED" \in R -> "rejected"
    [] OTHER -> IF \E x \in R : x \in Signing THEN "signing"
                ELSE IF "ACCEPTED" \in R THEN "evaluated" ELSE "proposed"

Mixed(R) == "EXECUTION_SUCCESS" \in R /\ "ATTACK_REJECTED" \in R

LEMMA TurnOfVerdict ==
  ASSUME NEW R, NEW x \in Topics, ~Mixed(R \cup {x})
  PROVE  Turn(Verdict(R), x) = Verdict(R \cup {x})
<1>1. CASE x = "EXECUTION_SUCCESS"
  <2>1. "EXECUTION_SUCCESS" \in R \cup {x}
    BY <1>1
  <2>2. Verdict(R \cup {x}) = "executed"
    BY <2>1 DEF Verdict
  <2>3. \A v : Turn(v, x) = "executed"
    BY <1>1 DEF Turn, Signing
  <2> QED
    BY <2>2, <2>3
<1>2. CASE x = "ATTACK_REJECTED"
  <2>1. "EXECUTION_SUCCESS" \notin R \cup {x} /\ "ATTACK_REJECTED" \in R \cup {x}
    BY <1>2 DEF Mixed
  <2>2. Verdict(R \cup {x}) = "attack_blocked"
    BY <2>1 DEF Verdict
  <2>3. \A v : Turn(v, x) = "attack_blocked"
    BY <1>2 DEF Turn, Signing
  <2> QED
    BY <2>2, <2>3
<1>3. CASE x = "REJECTED"
  BY <1>3 DEF Turn, Verdict, Signing
<1>4. CASE x \in Signing
  BY <1>4 DEF Turn, Verdict, Signing
<1>5. CASE x = "ACCEPTED"
  BY <1>5 DEF Turn, Verdict, Signing
<1>6. CASE x = "PROPOSALS"
  BY <1>6 DEF Turn, Verdict, Signing
<1> QED
  BY <1>1, <1>2, <1>3, <1>4, <1>5, <1>6 DEF Topics

\* The fold computes the verdict.
LEMMA StatusIs ==
  ASSUME NEW r \in Seq(Topics), ~Mixed(Recent(r))
  PROVE  Status(r) = Verdict(Recent(r))
<1> DEFINE s == Session(r)
           L == Len(s)
           Later(i) == {s[j] : j \in i..L}
           Folds(f) == f = [i \in 1..L + 1 |-> IF i > L THEN "proposed" ELSE Turn(f[i + 1], s[i])]
           g == [i \in 1..L + 1 |-> Verdict(Later(i))]
           h == CHOOSE f : Folds(f)
<1>1. s \in Seq(Topics) /\ Later(1) = Recent(r)
  BY SessionIs
<1>2. L \in Nat /\ \A i \in 1..L : s[i] \in Topics
  BY <1>1
<1>3. Status(r) = h[1]
  BY DEF Status
<1> HIDE DEF s
<1> HIDE DEF L
<1>4. \A i \in 1..L : Later(i) = Later(i + 1) \cup {s[i]} /\ Later(i) \subseteq Recent(r)
  <2> SUFFICES ASSUME NEW i \in 1..L
               PROVE  Later(i) = Later(i + 1) \cup {s[i]} /\ Later(i) \subseteq Recent(r)
    OBVIOUS
  <2>1. i..L = ((i + 1)..L) \cup {i} /\ i..L \subseteq 1..L
    BY <1>2
  <2> QED
    BY <1>1, <2>1
<1>5. Later(L + 1) = {}
  BY <1>2
<1>6. Verdict({}) = "proposed"
  BY DEF Verdict
<1> HIDE DEF Later
<1>7. \A i \in 1..L : Verdict(Later(i)) = Turn(Verdict(Later(i + 1)), s[i])
  <2> SUFFICES ASSUME NEW i \in 1..L
               PROVE  Verdict(Later(i)) = Turn(Verdict(Later(i + 1)), s[i])
    OBVIOUS
  <2>1. ~Mixed(Later(i + 1) \cup {s[i]})
    BY <1>4 DEF Mixed
  <2>2. Turn(Verdict(Later(i + 1)), s[i]) = Verdict(Later(i + 1) \cup {s[i]})
    BY <1>2, <2>1, TurnOfVerdict
  <2> QED
    BY <1>4, <2>2
<1>8. Folds(g)
  <2>1. ASSUME NEW i \in 1..L + 1
        PROVE  g[i] = IF i > L THEN "proposed" ELSE Turn(g[i + 1], s[i])
    <3>1. CASE i > L
      <4>1. i = L + 1
        BY <1>2, <3>1
      <4> QED
        BY <1>5, <1>6, <3>1, <4>1
    <3>2. CASE ~(i > L)
      <4>1. i \in 1..L /\ i + 1 \in 1..L + 1
        BY <1>2, <3>2
      <4>2. g[i + 1] = Verdict(Later(i + 1))
        BY <4>1
      <4> QED
        BY <1>7, <3>2, <4>1, <4>2
    <3> QED
      BY <3>1, <3>2
  <2>2. g = [i \in 1..L + 1 |-> g[i]]
    OBVIOUS
  <2> HIDE DEF g
  <2> QED
    BY <2>1, <2>2
<1>9. Folds(h)
  <2> HIDE DEF g, Folds
  <2> QED
    BY <1>8
<1> HIDE DEF h
<1>10. \A i \in 1..L + 1 : h[i] = g[i]
  <2> DEFINE Wrong == {n \in 0..L : h[L + 1 - n] # g[L + 1 - n]}
  <2>1. SUFFICES ASSUME Wrong # {} PROVE FALSE
    <3>1. \A i \in 1..L + 1 : L + 1 - i \in 0..L /\ L + 1 - (L + 1 - i) = i
      BY <1>2
    <3> HIDE DEF g
    <3> QED
      BY <3>1
  <2>2. Wrong \in SUBSET Nat
    BY <1>2
  <2>3. PICK n \in Wrong : \A k \in Wrong : n <= k
    <3> HIDE DEF Wrong
    <3> QED
      BY <2>1, <2>2, LeastMember
  <2>4. n \in 0..L /\ h[L + 1 - n] # g[L + 1 - n]
    OBVIOUS
  <2>5. \A i \in 1..L + 1 : /\ h[i] = IF i > L THEN "proposed" ELSE Turn(h[i + 1], s[i])
                            /\ g[i] = IF i > L THEN "proposed" ELSE Turn(g[i + 1], s[i])
    <3> HIDE DEF g
    <3> QED
      BY <1>8, <1>9
  <2> HIDE DEF g
  <2>6. n # 0
    BY <1>2, <2>4, <2>5
  <2>7. /\ n - 1 \in 0..L /\ ~(n <= n - 1) /\ L + 1 - n \in 1..L
        /\ L + 1 - (n - 1) = (L + 1 - n) + 1
    BY <1>2, <2>4, <2>6
  <2>8. h[(L + 1 - n) + 1] = g[(L + 1 - n) + 1]
    BY <2>3, <2>7
  <2> QED
    BY <1>2, <2>4, <2>5, <2>7, <2>8
<1> QED
  BY <1>1, <1>2, <1>3, <1>10

-------------------------------------------------------------------------------
(* The rows and the proposals *)

\* What the rows of a session say of a proposal has happened.
Backed(q, R) ==
  /\ "EXECUTION_SUCCESS" \in R => q.exec = "yes"
  /\ "ATTACK_REJECTED" \in R => q.review = "blocked"
  /\ "REJECTED" \in R => q.review \in {"rejected", "blocked"}
  /\ \A x \in Signing : x \in R => x \in q.sigs

\* What has happened, the rows say, if the proposal itself is among them.
Shown(q, R) ==
  /\ q.exec = "yes" => "EXECUTION_SUCCESS" \in R
  /\ q.review = "blocked" => "ATTACK_REJECTED" \in R
  /\ q.review = "rejected" => "REJECTED" \in R
  /\ \A x \in q.sigs : x \in R
  /\ "ACCEPTED" \in R => q.review \in {"told", "blocked"}

\* What a proposal has behind it at its end.
Sound(q) ==
  /\ q.exec # "no" => q.review \in {"cleared", "told"}
  /\ q.review = "told" => "sig_patriarch" \in q.sigs

RowsAgree ==
  \A p \in Pid :
    IF Known(p)
    THEN /\ Sound(prop[p]) /\ Backed(prop[p], Recent(rows[p]))
         /\ Proposed(rows[p]) => Shown(prop[p], Recent(rows[p]))
    ELSE rows[p] = <<>>

\* What agrees with a proposal goes on to do so when both change as one action does it.
Continues(q, s, T) ==
  /\ Sound(q) => Sound(s)
  /\ \A R : Sound(q) /\ Backed(q, R) => Backed(s, R \cup T)
  /\ \A R : Sound(q) /\ Shown(q, R) => Shown(s, R \cup T)

LEMMA RowsContinue ==
  ASSUME TypesInv, RowsAgree, NEW p \in Pid, Known(p), NEW s \in Negotiated,
         prop' = [prop EXCEPT ![p] = s],
         NEW t \in Seq(Topics), ~Proposed(t), rows' = Published(p, t),
         NEW T, T = {t[i] : i \in 1..Len(t)}, Continues(prop[p], s, T)
  PROVE  RowsAgree'
<1>1. /\ prop \in [Pid -> Negotiated \cup {None}] /\ rows \in [Pid -> Seq(Topics)]
      /\ None \notin Negotiated
  BY RecordsDiffer DEF TypesInv, BotTypes, TableTypes
<1>2. /\ prop'[p] = s /\ rows'[p] = rows[p] \o t
      /\ \A r \in Pid : r # p => prop'[r] = prop[r] /\ rows'[r] = rows[r]
  BY <1>1 DEF Published
<1>3. /\ Recent(rows[p] \o t) = Recent(rows[p]) \cup T
      /\ Proposed(rows[p] \o t) <=> Proposed(rows[p])
  BY <1>1, RowsFollow
<1>4. /\ Sound(prop[p]) /\ Backed(prop[p], Recent(rows[p]))
      /\ Proposed(rows[p]) => Shown(prop[p], Recent(rows[p]))
  BY DEF RowsAgree
<1>5. /\ Sound(s) /\ Backed(s, Recent(rows[p] \o t))
      /\ Proposed(rows[p] \o t) => Shown(s, Recent(rows[p] \o t))
  BY <1>3, <1>4 DEF Continues
<1>6. s # None
  BY <1>1
<1> SUFFICES ASSUME NEW r \in Pid
             PROVE  IF prop'[r] # None
                    THEN /\ Sound(prop'[r]) /\ Backed(prop'[r], Recent(rows'[r]))
                         /\ Proposed(rows'[r]) => Shown(prop'[r], Recent(rows'[r]))
                    ELSE rows'[r] = <<>>
  BY DEF RowsAgree, Known
<1>7. CASE r = p
  BY <1>2, <1>5, <1>6, <1>7
<1>8. CASE r # p
  <2>1. IF prop[r] # None
        THEN /\ Sound(prop[r]) /\ Backed(prop[r], Recent(rows[r]))
             /\ Proposed(rows[r]) => Shown(prop[r], Recent(rows[r]))
        ELSE rows[r] = <<>>
    BY DEF RowsAgree, Known
  <2>2. prop'[r] = prop[r] /\ rows'[r] = rows[r]
    BY <1>2, <1>8
  <2> QED
    BY <2>1, <2>2
<1> QED
  BY <1>7, <1>8

LEMMA SameAgree == RowsAgree /\ UNCHANGED <<prop, rows>> => RowsAgree'
BY DEF RowsAgree, Known

\* Quant's proposal starts a session.
LEMMA TakesAgree == TypesInv /\ Kept /\ RowsAgree /\ QuantTakes => RowsAgree'
<1> SUFFICES ASSUME TypesInv, Kept, RowsAgree, QuantTakes PROVE RowsAgree'
  OBVIOUS
<1>1. CASE UNCHANGED <<prop, rows>>
  BY <1>1, SameAgree
<1>2. ASSUME NEW p \in Pid, NEW s,
             s.sigs = {}, s.review = "open", s.exec = "no", s # None,
             prop' = [prop EXCEPT ![p] = s], rows' = Published(p, <<"PROPOSALS">>)
      PROVE  RowsAgree'
  <2>1. prop \in [Pid -> Negotiated \cup {None}] /\ rows \in [Pid -> Seq(Topics)]
    BY DEF TypesInv, BotTypes, TableTypes
  <2>2. /\ prop'[p] = s /\ rows'[p] = rows[p] \o <<"PROPOSALS">>
        /\ \A r \in Pid : r # p => prop'[r] = prop[r] /\ rows'[r] = rows[r]
    BY <1>2, <2>1 DEF Published
  <2>3. Recent(rows'[p]) = {} /\ Proposed(rows'[p])
    BY <2>1, <2>2, RowsStartAgain
  <2>4. Sound(s) /\ Backed(s, {}) /\ Shown(s, {})
    BY <1>2 DEF Sound, Backed, Shown
  <2> SUFFICES ASSUME NEW r \in Pid
               PROVE  IF prop'[r] # None
                      THEN /\ Sound(prop'[r]) /\ Backed(prop'[r], Recent(rows'[r]))
                           /\ Proposed(rows'[r]) => Shown(prop'[r], Recent(rows'[r]))
                      ELSE rows'[r] = <<>>
    BY DEF RowsAgree, Known
  <2>5. CASE r = p
    BY <1>2, <2>2, <2>3, <2>4, <2>5
  <2>6. CASE r # p
    <3>1. IF prop[r] # None
          THEN /\ Sound(prop[r]) /\ Backed(prop[r], Recent(rows[r]))
               /\ Proposed(rows[r]) => Shown(prop[r], Recent(rows[r]))
          ELSE rows[r] = <<>>
      BY DEF RowsAgree, Known
    <3>2. prop'[r] = prop[r] /\ rows'[r] = rows[r]
      BY <2>2, <2>6
    <3> QED
      BY <3>1, <3>2
  <2> QED
    BY <2>5, <2>6
<1>3. CASE ~UNCHANGED <<prop, rows>>
  <2>1. PICK p \in Pid, a \in Answers :
          /\ prop' = [prop EXCEPT ![p] =
               [scenario |-> market, draft |-> Draft(a, Rotation(MarketData(market))),
                sigs |-> {}, review |-> "open", exec |-> "no"]]
          /\ rows' = Published(p, <<"PROPOSALS">>)
    BY <1>3 DEF QuantTakes
  <2>2. PICK s : s = [scenario |-> market, draft |-> Draft(a, Rotation(MarketData(market))),
                      sigs |-> {}, review |-> "open", exec |-> "no"]
    OBVIOUS
  <2>3. s.sigs = {} /\ s.review = "open" /\ s.exec = "no"
    BY <2>2
  <2>4. s # None
    <3>1. market \in Markets
      BY DEF QuantTakes, TypesInv, BotTypes
    <3>2. Draft(a, Rotation(MarketData(market))) \in Drafts
      BY <3>1 DEF Drafts
    <3>3. s \in Negotiated
      BY <2>2, <3>1, <3>2 DEF Negotiated
    <3> QED
      BY <3>3, RecordsDiffer
  <2> QED
    BY <1>2, <2>1, <2>2, <2>3, <2>4
<1> QED
  BY <1>1, <1>3

LEMMA PublishesNothing == TypesInv => \A p \in Pid : rows = Published(p, <<>>)
<1> SUFFICES ASSUME TypesInv, NEW p \in Pid PROVE rows = Published(p, <<>>)
  OBVIOUS
<1>1. rows \in [Pid -> Seq(Topics)] /\ rows[p] \o <<>> = rows[p]
  BY DEF TypesInv, TableTypes
<1> QED
  BY <1>1 DEF Published

\* One proposal changes, and up to two rows are published, none of them a proposal.
LEMMA NoRow ==
  ASSUME TypesInv, RowsAgree, NEW p \in Pid, Known(p), NEW s \in Negotiated,
         prop' = [prop EXCEPT ![p] = s], rows' = rows, Continues(prop[p], s, {})
  PROVE  RowsAgree'
<1> DEFINE t == <<>>
<1>1. t \in Seq(Topics) /\ ~Proposed(t) /\ {} = {t[i] : i \in 1..Len(t)}
  BY DEF Proposed
<1>2. rows' = Published(p, t)
  BY PublishesNothing
<1> HIDE DEF t
<1> QED
  BY <1>1, <1>2, RowsContinue

LEMMA OneRow ==
  ASSUME TypesInv, RowsAgree, NEW p \in Pid, Known(p), NEW s \in Negotiated,
         prop' = [prop EXCEPT ![p] = s], NEW x \in Topics \ {"PROPOSALS"},
         rows' = Published(p, <<x>>), Continues(prop[p], s, {x})
  PROVE  RowsAgree'
<1> DEFINE t == <<x>>
<1>1. t \in Seq(Topics) /\ ~Proposed(t) /\ {x} = {t[i] : i \in 1..Len(t)}
  BY DEF Proposed
<1>2. rows' = Published(p, t)
  OBVIOUS
<1> HIDE DEF t
<1> QED
  BY <1>1, <1>2, RowsContinue

LEMMA TwoRows ==
  ASSUME TypesInv, RowsAgree, NEW p \in Pid, Known(p), NEW s \in Negotiated,
         prop' = [prop EXCEPT ![p] = s],
         NEW x \in Topics \ {"PROPOSALS"}, NEW y \in Topics \ {"PROPOSALS"},
         rows' = Published(p, <<x, y>>), Continues(prop[p], s, {x, y})
  PROVE  RowsAgree'
<1> DEFINE t == <<x, y>>
<1>1. Len(t) = 2 /\ t[1] = x /\ t[2] = y /\ t \in Seq(Topics)
  OBVIOUS
<1>2. rows' = Published(p, t)
  OBVIOUS
<1> HIDE DEF t
<1>3. ~Proposed(t) /\ {x, y} = {t[i] : i \in 1..Len(t)}
  <2>1. \A i \in 1..Len(t) : i = 1 \/ i = 2
    BY <1>1
  <2>2. 1 \in 1..Len(t) /\ 2 \in 1..Len(t)
    BY <1>1
  <2> QED
    BY <1>1, <2>1, <2>2 DEF Proposed
<1> QED
  BY <1>1, <1>2, <1>3, RowsContinue

\* Somebody's signature.
LEMMA SignatureAgrees ==
  ASSUME TypesInv, Kept, RowsAgree, NEW p \in Pid, Known(p), NEW x \in Signing,
         prop' = [prop EXCEPT ![p].sigs = @ \cup {x}], rows' = Published(p, <<x>>)
  PROVE  RowsAgree'
<1>1. prop[p] \in Negotiated /\ prop \in [Pid -> Negotiated \cup {None}]
  BY KnownFacts DEF TypesInv, BotTypes
<1> DEFINE q == prop[p]
           s == [q EXCEPT !.sigs = @ \cup {x}]
<1>2. prop' = [prop EXCEPT ![p] = s]
  BY <1>1
<1>3. s \in Negotiated /\ s.exec = q.exec /\ s.review = q.review /\ s.sigs = q.sigs \cup {x}
  BY <1>1 DEF Negotiated
<1>4. /\ x \in Topics \ {"PROPOSALS"}
      /\ x \notin {"EXECUTION_SUCCESS", "ATTACK_REJECTED", "REJECTED", "ACCEPTED"}
  BY DEF Topics, Signing
<1> HIDE DEF q, s
<1>5. Continues(q, s, {x})
  BY <1>3, <1>4 DEF Continues, Sound, Backed, Shown
<1> QED
  BY <1>2, <1>3, <1>4, <1>5, OneRow DEF q

LEMMA SignsAgree ==
  ASSUME TypesInv, Kept, RowsAgree, NEW p \in Pid, QuantSigns(p) \/ PatriarchSigns(p)
  PROVE  RowsAgree'
<1>1. CASE QuantSigns(p)
  BY <1>1, SignatureAgrees DEF QuantSigns, Signing
<1>2. CASE PatriarchSigns(p)
  BY <1>2, SignatureAgrees DEF PatriarchSigns, Signing
<1> QED
  BY <1>1, <1>2

\* Patriarch's verdict, or P3's, which it is the only one to give.
LEMMA VerdictAgrees ==
  ASSUME TypesInv, Kept, RowsAgree, NEW p \in Pid, Known(p),
         PatriarchRejects(p) \/ PatriarchClears(p) \/ PatriarchTells(p) \/ Settles(p)
  PROVE  RowsAgree'
<1> DEFINE q == prop[p]
<1>1. q \in Negotiated /\ prop \in [Pid -> Negotiated \cup {None}]
  BY KnownFacts DEF TypesInv, BotTypes
<1>2. Sound(q)
  BY DEF RowsAgree
<1>3. {"REJECTED", "ACCEPTED", "ATTACK_REJECTED", "EXECUTION_SUCCESS"}
        \subseteq Topics \ {"PROPOSALS"}
  BY DEF Topics
<1>4. CASE PatriarchRejects(p)
  <2>1. PICK v \in {"rejected", "blocked"} :
          /\ q.review = "open"
          /\ prop' = [prop EXCEPT ![p].review = v, ![p].scenario = None, ![p].draft = None]
          /\ \/ v = "rejected" /\ rows' = Published(p, <<"REJECTED">>)
             \/ v = "blocked" /\ rows' = Published(p, <<"ATTACK_REJECTED", "REJECTED">>)
    BY <1>4 DEF PatriarchRejects
  <2> DEFINE s == [q EXCEPT !.review = v, !.scenario = None, !.draft = None]
  <2>2. prop' = [prop EXCEPT ![p] = s]
    BY <1>1, <2>1
  <2>3. s \in Negotiated /\ s.exec = q.exec /\ s.review = v /\ s.sigs = q.sigs
    BY <1>1 DEF Negotiated
  <2> HIDE DEF q, s
  <2>4. q.exec = "no"
    BY <1>2, <2>1 DEF Sound
  <2>5. CASE v = "rejected" /\ rows' = Published(p, <<"REJECTED">>)
    <3>1. Continues(q, s, {"REJECTED"})
      BY <2>1, <2>3, <2>4, <2>5 DEF Continues, Sound, Backed, Shown, Signing
    <3> QED
      BY <1>3, <2>2, <2>3, <2>5, <3>1, OneRow DEF q
  <2>6. CASE v = "blocked" /\ rows' = Published(p, <<"ATTACK_REJECTED", "REJECTED">>)
    <3>1. Continues(q, s, {"ATTACK_REJECTED", "REJECTED"})
      BY <2>1, <2>3, <2>4, <2>6 DEF Continues, Sound, Backed, Shown, Signing
    <3> QED
      BY <1>3, <2>2, <2>3, <2>6, <3>1, TwoRows DEF q
  <2> QED
    BY <2>1, <2>5, <2>6
<1>5. CASE PatriarchClears(p)
  <2>1. PICK v \in {"cleared", "blocked"} :
          /\ q.review = "open"
          /\ \/ /\ v = "cleared" /\ rows' = rows
                /\ prop' = [prop EXCEPT ![p].review = "cleared"]
             \/ /\ v = "blocked" /\ rows' = Published(p, <<"ATTACK_REJECTED", "ACCEPTED">>)
                /\ prop' = [prop EXCEPT ![p].review = "blocked", ![p].scenario = None,
                                        ![p].draft = None]
    BY <1>5 DEF PatriarchClears
  <2>2. q.exec = "no"
    BY <1>2, <2>1 DEF Sound
  <2>3. CASE v = "cleared"
    <3> DEFINE s == [q EXCEPT !.review = "cleared"]
    <3>1. prop' = [prop EXCEPT ![p] = s] /\ rows' = rows
      BY <1>1, <2>1, <2>3
    <3>2. s \in Negotiated /\ s.exec = q.exec /\ s.review = "cleared" /\ s.sigs = q.sigs
      BY <1>1 DEF Negotiated
    <3> HIDE DEF q, s
    <3>3. Continues(q, s, {})
      BY <2>1, <2>2, <3>2 DEF Continues, Sound, Backed, Shown, Signing
    <3> QED
      BY <3>1, <3>2, <3>3, NoRow DEF q
  <2>4. CASE v = "blocked"
    <3> DEFINE s == [q EXCEPT !.review = "blocked", !.scenario = None, !.draft = None]
    <3>1. /\ prop' = [prop EXCEPT ![p] = s]
          /\ rows' = Published(p, <<"ATTACK_REJECTED", "ACCEPTED">>)
      BY <1>1, <2>1, <2>4
    <3>2. s \in Negotiated /\ s.exec = q.exec /\ s.review = "blocked" /\ s.sigs = q.sigs
      BY <1>1 DEF Negotiated
    <3> HIDE DEF q, s
    <3>3. Continues(q, s, {"ATTACK_REJECTED", "ACCEPTED"})
      BY <2>1, <2>2, <3>2 DEF Continues, Sound, Backed, Shown, Signing
    <3> QED
      BY <1>3, <3>1, <3>2, <3>3, TwoRows DEF q
  <2> QED
    BY <2>3, <2>4
<1>6. CASE PatriarchTells(p)
  <2>1. /\ q.review = "cleared" /\ "sig_patriarch" \in q.sigs
        /\ prop' = [prop EXCEPT ![p].review = "told"] /\ rows' = Published(p, <<"ACCEPTED">>)
    BY <1>6 DEF PatriarchTells
  <2> DEFINE s == [q EXCEPT !.review = "told"]
  <2>2. prop' = [prop EXCEPT ![p] = s]
    BY <1>1, <2>1
  <2>3. s \in Negotiated /\ s.exec = q.exec /\ s.review = "told" /\ s.sigs = q.sigs
    BY <1>1 DEF Negotiated
  <2> HIDE DEF q, s
  <2>4. Continues(q, s, {"ACCEPTED"})
    BY <2>1, <2>3 DEF Continues, Sound, Backed, Shown, Signing
  <2> QED
    BY <1>3, <2>1, <2>2, <2>3, <2>4, OneRow DEF q
<1>7. CASE Settles(p)
  <2>1. PICK v \in {"yes", "failed"} :
          /\ q.review \in {"cleared", "told"} /\ q.exec = "no"
          /\ prop' = [prop EXCEPT ![p].exec = v, ![p].scenario = None, ![p].draft = None]
          /\ \/ v = "yes" /\ rows' = Published(p, <<"EXECUTION_SUCCESS">>)
             \/ v = "failed" /\ rows' = rows
    BY <1>7 DEF Settles
  <2> DEFINE s == [q EXCEPT !.exec = v, !.scenario = None, !.draft = None]
  <2>2. prop' = [prop EXCEPT ![p] = s]
    BY <1>1, <2>1
  <2>3. s \in Negotiated /\ s.exec = v /\ s.review = q.review /\ s.sigs = q.sigs
    BY <1>1 DEF Negotiated
  <2> HIDE DEF q, s
  <2>4. CASE v = "yes" /\ rows' = Published(p, <<"EXECUTION_SUCCESS">>)
    <3>1. Continues(q, s, {"EXECUTION_SUCCESS"})
      BY <2>1, <2>3, <2>4 DEF Continues, Sound, Backed, Shown, Signing
    <3> QED
      BY <1>3, <2>2, <2>3, <2>4, <3>1, OneRow DEF q
  <2>5. CASE v = "failed" /\ rows' = rows
    <3>1. Continues(q, s, {})
      BY <2>1, <2>3, <2>5 DEF Continues, Sound, Backed, Shown, Signing
    <3> QED
      BY <2>2, <2>3, <2>5, <3>1, NoRow DEF q
  <2> QED
    BY <2>1, <2>4, <2>5
<1> QED
  BY <1>4, <1>5, <1>6, <1>7

LEMMA FiresAgree == TypesInv /\ Kept /\ RowsAgree /\ Fires => RowsAgree'
<1> SUFFICES ASSUME TypesInv, Kept, RowsAgree, Fires PROVE RowsAgree'
  OBVIOUS
<1>1. CASE UNCHANGED <<prop, rows>>
  BY <1>1, SameAgree
<1>2. CASE ~UNCHANGED <<prop, rows>>
  <2>1. /\ lastSettled # None
        /\ prop' = [prop EXCEPT ![lastSettled].sigs = @ \cup {"sig_attacker"}]
        /\ rows' = Published(lastSettled, <<"sig_attacker">>)
    BY <1>2 DEF Fires
  <2>2. lastSettled \in Pid /\ Known(lastSettled)
    BY <2>1 DEF TypesInv, BotTypes
  <2>3. PICK p \in Pid : p = lastSettled
    BY <2>2
  <2>4. "sig_attacker" \in Signing
    BY DEF Signing
  <2> QED
    BY <2>1, <2>2, <2>3, <2>4, SignatureAgrees
<1> QED
  BY <1>1, <1>2

LEMMA BotsAgree == TypesInv /\ Kept /\ RowsAgree /\ Bots => RowsAgree'
<1> SUFFICES ASSUME TypesInv, Kept, RowsAgree, Bots PROVE RowsAgree'
  OBVIOUS
<1>1. ASSUME NEW p \in Pid,
             PatriarchRejects(p) \/ PatriarchClears(p) \/ PatriarchTells(p) \/ Settles(p)
      PROVE  Known(p)
  BY <1>1 DEF PatriarchRejects, PatriarchClears, PatriarchTells, Settles
<1>2. CASE RejectsAttack \/ RejectsOther
  BY <1>2, SameAgree DEF RejectsAttack, RejectsOther
<1> QED
  BY <1>1, <1>2, TakesAgree, SignsAgree, VerdictAgrees, FiresAgree DEF Bots

LEMMA InjectedAgree ==
  ASSUME TypesInv, RowsAgree, rows' = [p \in Pid |-> <<>>], prop' = prop
  PROVE  RowsAgree'
<1>1. \A p \in Pid : Recent(rows'[p]) = {} /\ ~Proposed(rows'[p]) /\ rows'[p] = <<>>
  BY NothingPublished
<1>2. \A q, R : Backed(q, R) => Backed(q, {})
  BY DEF Backed
<1> SUFFICES ASSUME NEW r \in Pid
             PROVE  IF prop'[r] # None
                    THEN /\ Sound(prop'[r]) /\ Backed(prop'[r], Recent(rows'[r]))
                         /\ Proposed(rows'[r]) => Shown(prop'[r], Recent(rows'[r]))
                    ELSE rows'[r] = <<>>
  BY DEF RowsAgree, Known
<1>3. prop[r] # None => Sound(prop[r]) /\ Backed(prop[r], Recent(rows[r]))
  BY DEF RowsAgree, Known
<1>4. prop[r] # None => Backed(prop[r], {})
  BY <1>2, <1>3
<1> QED
  BY <1>1, <1>3, <1>4

LEMMA AgreeNext == TypesInv /\ Kept /\ RowsAgree /\ [DemoNext]_demoVars => RowsAgree'
<1> SUFFICES ASSUME TypesInv, Kept, RowsAgree, [DemoNext]_demoVars PROVE RowsAgree'
  OBVIOUS
<1>1. CASE Bots
  BY <1>1, BotsAgree
<1>2. CASE Injects
  <2>1. ConsoleTypes
    BY DEF TypesInv
  <2>2. PICK scenario \in Markets : Inject(scenario) /\ Daemonless
    BY <1>2, <2>1, InjectsAre
  <2> QED
    BY <2>2, InjectedAgree DEF Inject, Daemonless
<1>3. CASE Takes \/ StartDrill \/ Stops \/ UNCHANGED demoVars
  <2>1. UNCHANGED <<prop, rows>>
    BY <1>3, TakesStill, StopsStill DEF StartDrill, Daemonless, botVars, demoVars
  <2> QED
    BY <2>1, SameAgree
<1> QED
  BY <1>1, <1>2, <1>3, StepKinds

LEMMA RowsAlwaysAgree == DemoSpec => []RowsAgree
<1>1. DemoInit => RowsAgree
  BY DEF DemoInit, RowsAgree, Known
<1> QED
  BY <1>1, AgreeNext, Demonstrates, PTL DEF DemoSpec

-------------------------------------------------------------------------------
(* What the run checks *)

LEMMA ToSetIs == \A r \in Seq(Topics) : ToSet(r) = {r[i] : i \in 1..Len(r)}
BY DEF ToSet

\* Each proposal the dashboard lists it shows as it is, for any number of rows, in any
\* order they may have (server.py, lines 178-284).
THEOREM DashboardIsRight == DemoSpec => []DashboardAgrees
<1>1. TypesInv /\ RowsAgree => DashboardAgrees
  <2> SUFFICES ASSUME TypesInv, RowsAgree, NEW p \in Pid, Listed(rows[p])
               PROVE  /\ Status(rows[p]) = StatusOf(prop[p])
                      /\ "PROPOSALS" \in ToSet(rows[p]) =>
                           Signatures(rows[p], StatusOf(prop[p])) =
                             IF StatusOf(prop[p]) = "executed" \/ Cardinality(prop[p].sigs) > 2
                             THEN 2 ELSE Cardinality(prop[p].sigs)
    BY DEF DashboardAgrees
  <2> DEFINE r == rows[p]
             q == prop[p]
             R == Recent(r)
  <2>1. r \in Seq(Topics) /\ prop \in [Pid -> Negotiated \cup {None}]
    BY DEF TypesInv, TableTypes, BotTypes
  <2>2. "PROPOSALS" \in ToSet(r) <=> Proposed(r)
    BY <2>1, ToSetIs DEF Proposed
  <2>3. Session(r) \in Seq(Topics) /\ ToSet(Session(r)) = R
    BY <2>1, SessionIs, ToSetIs
  <2>4. r # <<>>
    <3>1. SUFFICES ASSUME r = <<>> PROVE FALSE
      OBVIOUS
    <3>2. ~Mixed(Recent(r)) /\ Verdict(Recent(r)) = "proposed" /\ ~Proposed(r)
      BY <3>1, NothingPublished DEF Mixed, Verdict
    <3>3. Status(r) = "proposed"
      BY <2>1, <3>2, StatusIs
    <3> QED
      BY <2>2, <3>2, <3>3 DEF Listed
  <2>5. /\ q \in Negotiated /\ Sound(q) /\ Backed(q, R)
        /\ Proposed(r) => Shown(q, R)
    BY <2>1, <2>4 DEF RowsAgree, Known
  <2>6. Listed(r) <=> Status(r) = "attack_blocked" \/ Proposed(r)
    BY <2>2 DEF Listed
  <2> HIDE DEF q, R, r
  <2>7. ~Mixed(R)
    BY <2>5 DEF Mixed, Backed, Sound
  <2>8. Status(r) = Verdict(R)
    BY <2>1, <2>7, StatusIs DEF R
  <2>9. Listed(r)
    BY DEF r
  <2>10. CASE Proposed(r)
    <3>1. Shown(q, R) /\ q.sigs \subseteq Signing
      BY <2>5, <2>10 DEF Negotiated
    <3>2. Signing \cap R = q.sigs
      BY <2>5, <3>1 DEF Shown, Backed
    <3>3. Verdict(R) = StatusOf(q)
      <4>1. "EXECUTION_SUCCESS" \in R <=> q.exec = "yes"
        BY <2>5, <3>1 DEF Shown, Backed
      <4>2. "ATTACK_REJECTED" \in R <=> q.review = "blocked"
        BY <2>5, <3>1 DEF Shown, Backed
      <4>3. q.review # "blocked" => ("REJECTED" \in R <=> q.review = "rejected")
        BY <2>5, <3>1 DEF Shown, Backed
      <4>4. (\E x \in R : x \in Signing) <=> q.sigs # {}
        BY <3>2
      <4>5. "ACCEPTED" \in R /\ q.review # "blocked" => q.sigs # {}
        BY <2>5, <3>1 DEF Shown, Sound
      <4>6. CASE q.exec = "yes"
        <5>1. q.review # "blocked" /\ q.review # "rejected"
          BY <2>5, <4>6 DEF Sound
        <5>2. StatusOf(q) = "executed"
          BY <4>6, <5>1 DEF StatusOf
        <5>3. Verdict(R) = "executed"
          BY <4>1, <4>6 DEF Verdict
        <5> QED
          BY <5>2, <5>3
      <4>7. CASE q.exec # "yes" /\ q.review = "blocked"
        BY <4>1, <4>2, <4>7 DEF Verdict, StatusOf
      <4>8. CASE q.exec # "yes" /\ q.review # "blocked" /\ q.review = "rejected"
        BY <4>1, <4>2, <4>3, <4>8 DEF Verdict, StatusOf
      <4>9. CASE q.exec # "yes" /\ q.review # "blocked" /\ q.review # "rejected"
        <5>1. StatusOf(q) = IF q.sigs = {} THEN "proposed" ELSE "signing"
          BY <4>9 DEF StatusOf
        <5>2. Verdict(R) = IF \E x \in R : x \in Signing THEN "signing"
                           ELSE IF "ACCEPTED" \in R THEN "evaluated" ELSE "proposed"
          BY <4>1, <4>2, <4>3, <4>9 DEF Verdict
        <5> QED
          BY <4>4, <4>5, <4>9, <5>1, <5>2
      <4> QED
        BY <4>6, <4>7, <4>8, <4>9
    <3>4. Signatures(r, StatusOf(q)) =
            IF StatusOf(q) = "executed" \/ Cardinality(q.sigs) > 2 THEN 2 ELSE Cardinality(q.sigs)
      BY <2>3, <3>2 DEF Signatures
    <3> QED
      BY <2>8, <3>3, <3>4 DEF q, r
  <2>11. CASE ~Proposed(r)
    <3>1. Verdict(R) = "attack_blocked"
      BY <2>6, <2>8, <2>9, <2>11
    <3>2. "ATTACK_REJECTED" \in R
      BY <3>1 DEF Verdict
    <3>3. q.review = "blocked" /\ q.exec # "yes"
      BY <2>5, <3>2 DEF Backed, Sound
    <3>4. StatusOf(q) = "attack_blocked"
      BY <3>3 DEF StatusOf
    <3> QED
      BY <2>2, <2>8, <2>11, <3>1, <3>4 DEF q, r
  <2> QED
    BY <2>10, <2>11
<1> QED
  BY <1>1, Demonstrates, RowsAlwaysAgree, PTL
===============================================================================
