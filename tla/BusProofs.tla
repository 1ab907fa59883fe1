------------------------------- MODULE BusProofs -------------------------------
(* Theorems about Bus, for every value of its constants. *)
EXTENDS Bus, FiniteSetTheorems, TLAPS

\* Who sends a message has published it.
SendKnown == \A n \in Node : sending[n] = Idle \/ sending[n].msg \in 1..published

Types ==
  /\ live \in [Node -> BOOLEAN]
  /\ published \in 0..MaxMessages
  /\ sending \in [Node -> [msg : 0..MaxMessages, to : Seq(Peer)]]
  /\ log \in Seq(Msg) /\ wiped \in 0..Len(log)
  /\ axl \in [Node -> SUBSET Msg]
  /\ inbox \in [Node -> Seq(Entries)] /\ batch \in [Node -> Seq(Entries)]
  /\ cursor \in [Node -> Nat] /\ handled \in [Node -> Seq(Entries)]
  /\ before \in [Node -> SUBSET Msg] /\ lost \in [Node -> SUBSET Msg]
  /\ crashes \in 0..MaxCrashes

\* Some entries are consecutive rows of a table of l rows, and only wiped rows lie
\* between a cursor c and the first.
InOrder(c, entries, l, w) ==
  /\ c <= l
  /\ \A i \in 1..Len(entries) : /\ c < entries[i].id /\ entries[i].id <= l
                                 /\ entries[i].id = entries[1].id + (i - 1)
  /\ entries # <<>> => \A r \in (c + 1)..(entries[1].id - 1) : r <= w

\* What a node that is not live has fetched.
ReadsInOrder ==
  \A n \in Node : ~live[n] => /\ inbox[n] = <<>> /\ axl[n] = {}
                              /\ InOrder(cursor[n], batch[n], Len(log), wiped)

BusInv == Types /\ SendKnown /\ ReadsInOrder

-------------------------------------------------------------------------------

\* No node is listed twice among the peers.
PeersDiffer == \A i, j \in 1..Len(Peers) : i # j => Peers[i] # Peers[j]

\* The publish n is in has still to send m to p.
ToSend(n, p, m) == /\ sending[n].msg = m
                   /\ \E i \in 1..Len(sending[n].to) : sending[n].to[i] = p

\* p's AXL node may still hand m to p.
Reachable(p, m) == \/ m > published
                   \/ \E n \in Node : ToSend(n, p, m)
                   \/ m \in axl[p]

\* A message has one sender, which sends it to each peer once.
SentOnce ==
  /\ \A k, n \in Node : sending[k] # Idle /\ sending[k].msg = sending[n].msg => k = n
  /\ \A n \in Node : \A i, j \in 1..Len(sending[n].to) :
       i # j => sending[n].to[i] # sending[n].to[j]
  /\ \A p \in Node : \A m \in axl[p] :
       p \in Peer /\ m <= published /\ \A n \in Node : ~ToSend(n, p, m)

\* What a live node has in memory, and what it has had.
Held(n) == Msgs(inbox[n]) \cup Msgs(batch[n]) \cup Msgs(handled[n])
Past(n) == before[n] \cup lost[n]

Differ(entries) == \A i, j \in 1..Len(entries) : i # j => entries[i].msg # entries[j].msg

\* The messages of an inbox, a batch, what has been handled, and what is past.
Once(new, fetched, taken, past) ==
  /\ Differ(new) /\ Differ(fetched) /\ Differ(taken)
  /\ Msgs(new) \cap Msgs(fetched) = {}
  /\ Msgs(new) \cap Msgs(taken) = {}
  /\ Msgs(fetched) \cap Msgs(taken) = {}
  /\ (Msgs(new) \cup Msgs(fetched) \cup Msgs(taken)) \cap past = {}

\* A live node gets a message once.
TakenOnce ==
  \A n \in Node : live[n] =>
    /\ \A m \in Held(n) \cup Past(n) : ~Reachable(n, m)
    /\ Once(inbox[n], batch[n], handled[n], Past(n))

\* The rows of a message have different authors: its publisher, written {}, which is
\* done with it, and live peers p, written {p}, which will not get it again.
Authors == {{}} \cup {{p} : p \in {q \in Peer : live[q]}}

Wrote(a, m) == /\ m <= published
               /\ IF a = {} THEN \A n \in Node : sending[n].msg # m
                            ELSE \A p \in a : ~Reachable(p, m)

Authorship(by) == /\ \A i \in 1..Len(log) : Wrote(by[i], log[i])
                  /\ \A i, j \in 1..Len(log) : i # j /\ log[i] = log[j] => by[i] # by[j]

RowsAreAuthored == \E by \in [1..Len(log) -> Authors] : Authorship(by)

\* Entries are rows of a table, those taken up different ones that a cursor has passed.
Rows(c, fetched, taken, table) ==
  /\ \A i \in 1..Len(fetched) : fetched[i].msg = table[fetched[i].id]
  /\ \A i \in 1..Len(taken) : /\ taken[i].id \in 1..c /\ taken[i].id <= Len(table)
                              /\ taken[i].msg = table[taken[i].id]
  /\ \A i, j \in 1..Len(taken) : i # j => taken[i].id # taken[j].id

\* A node that reads the table takes up its rows, each once.
ReadsRows ==
  \A n \in Node : ~live[n] => Rows(cursor[n], batch[n], handled[n], log)

OnceInv == SentOnce /\ TakenOnce /\ RowsAreAuthored /\ ReadsRows

-------------------------------------------------------------------------------
(* Types and cursors *)

\* A sequence that grows keeps what it holds.
LEMMA GrowsByOne ==
  ASSUME NEW S, NEW seq \in Seq(S), NEW e \in S
  PROVE  /\ Append(seq, e) \in Seq(S)
         /\ Len(Append(seq, e)) = Len(seq) + 1
         /\ \A i \in 1..Len(seq) : Append(seq, e)[i] = seq[i]
         /\ Append(seq, e)[Len(seq) + 1] = e
OBVIOUS

\* One that loses its first element has the others, one place on.
LEMMA LosesFirst ==
  ASSUME NEW S, NEW seq \in Seq(S), seq # <<>>
  PROVE  /\ Len(seq) \in Nat \ {0}
         /\ Head(seq) = seq[1] /\ Head(seq) \in S
         /\ Tail(seq) \in Seq(S) /\ Len(Tail(seq)) = Len(seq) - 1
         /\ \A i \in 1..(Len(seq) - 1) : Tail(seq)[i] = seq[i + 1]
OBVIOUS

\* What the messages of some entries are.
LEMMA MsgsType ==
  ASSUME NEW entries \in Seq(Entries)
  PROVE  Msgs(entries) \subseteq Msg
<1>1. \A i \in 1..Len(entries) : entries[i] \in Entries
  OBVIOUS
<1>2. \A e \in Entries : e.msg \in Msg
  BY DEF Entries
<1> QED
  BY <1>1, <1>2 DEF Msgs

\* Entries are in order: none, those that are left when one has been taken, those of a
\* longer table, and those that RowsAfter finds.
LEMMA NoneInOrder ==
  ASSUME NEW c \in Nat, NEW l \in Nat, c <= l, NEW w
  PROVE  InOrder(c, <<>>, l, w)
<1>1. Len(<<>>) = 0
  OBVIOUS
<1> QED
  BY <1>1 DEF InOrder

LEMMA IdsAreNat ==
  ASSUME NEW entries \in Seq(Entries)
  PROVE  /\ Len(entries) \in Nat
         /\ \A i \in 1..Len(entries) : entries[i].id \in Nat /\ entries[i].msg \in Msg
         /\ entries # <<>> => 1 \in 1..Len(entries)
<1>1. /\ Len(entries) \in Nat /\ \A i \in 1..Len(entries) : entries[i] \in Entries
      /\ entries # <<>> => 1 \in 1..Len(entries)
  OBVIOUS
<1>2. \A e \in Entries : e.id \in Nat /\ e.msg \in Msg
  BY DEF Entries
<1> QED
  BY <1>1, <1>2

LEMMA RestInOrder ==
  ASSUME NEW c \in Nat, NEW entries \in Seq(Entries), entries # <<>>,
         NEW l \in Nat, NEW w \in Nat, InOrder(c, entries, l, w)
  PROVE  InOrder(entries[1].id, Tail(entries), l, w)
<1> DEFINE d == entries[1].id
           t == Tail(entries)
<1>1. /\ Len(entries) \in Nat \ {0} /\ t \in Seq(Entries) /\ Len(t) = Len(entries) - 1
      /\ \A i \in 1..Len(t) : t[i] = entries[i + 1]
  BY LosesFirst
<1>2. d \in Nat /\ d <= l
  BY <1>1, IdsAreNat DEF InOrder
<1>3. \A i \in 1..Len(t) : t[i].id = d + i /\ t[i].id <= l
  BY <1>1 DEF InOrder
<1> HIDE DEF d, t
<1>4. \A i \in 1..Len(t) : d < t[i].id /\ t[i].id <= l /\ t[i].id = t[1].id + (i - 1)
  <2> SUFFICES ASSUME NEW i \in 1..Len(t)
               PROVE  d < t[i].id /\ t[i].id <= l /\ t[i].id = t[1].id + (i - 1)
    OBVIOUS
  <2>1. 1 \in 1..Len(t) /\ i \in Nat \ {0}
    BY <1>1
  <2>2. t[i].id = d + i /\ t[1].id = d + 1
    BY <1>3, <2>1
  <2> QED
    BY <1>2, <1>3, <2>1, <2>2
<1>5. t # <<>> => \A r \in (d + 1)..(t[1].id - 1) : r <= w
  <2> SUFFICES ASSUME t # <<>> PROVE (d + 1)..(t[1].id - 1) = {}
    OBVIOUS
  <2>1. t[1].id = d + 1
    BY <1>1, <1>3, IdsAreNat
  <2> QED
    BY <1>2, <2>1
<1> QED
  BY <1>2, <1>4, <1>5 DEF InOrder, d, t

LEMMA LongerInOrder ==
  ASSUME NEW c \in Nat, NEW entries \in Seq(Entries), NEW l \in Nat, NEW w \in Nat,
         NEW l1 \in Nat, NEW w1 \in Nat, l <= l1, w <= w1, InOrder(c, entries, l, w)
  PROVE  InOrder(c, entries, l1, w1)
<1>1. \A i \in 1..Len(entries) : entries[i].id \in Nat
  BY IdsAreNat
<1> QED
  BY <1>1 DEF InOrder

\* The rows after one are consecutive, and only wiped rows lie before the first.
LEMMA RowsFollow ==
  ASSUME Types, NEW k \in 0..Len(log)
  PROVE  LET first == IF k > wiped THEN k ELSE wiped
         IN  /\ RowsAfter(k) \in Seq(Entries) /\ first \in k..Len(log)
             /\ first > k => first = wiped
             /\ Len(RowsAfter(k)) = Len(log) - first
             /\ \A i \in 1..Len(RowsAfter(k)) : /\ RowsAfter(k)[i].id = first + i
                                                /\ RowsAfter(k)[i].msg = log[first + i]
                                                /\ first + i \in 1..Len(log)
<1> DEFINE first == IF k > wiped THEN k ELSE wiped
<1>1. /\ Len(log) \in Nat /\ wiped \in 0..Len(log)
      /\ \A i \in 1..Len(log) : log[i] \in Msg
  BY DEF Types
<1>2. first \in k..Len(log) /\ first \in Nat /\ Len(log) - first \in Nat /\ (first > k => first = wiped)
  BY <1>1
<1>3. RowsAfter(k) = [i \in 1..(Len(log) - first) |-> [id |-> first + i, msg |-> log[first + i]]]
  BY DEF RowsAfter
<1> HIDE DEF first
<1>4. \A i \in 1..(Len(log) - first) : first + i \in 1..Len(log) /\ first + i \in Nat
  BY <1>1, <1>2
<1>5. \A i \in 1..(Len(log) - first) : [id |-> first + i, msg |-> log[first + i]] \in Entries
  BY <1>1, <1>2, <1>4 DEF Entries
<1>6. /\ RowsAfter(k) \in Seq(Entries) /\ Len(RowsAfter(k)) = Len(log) - first
      /\ \A i \in 1..(Len(log) - first) : RowsAfter(k)[i] = [id |-> first + i, msg |-> log[first + i]]
  <2> DEFINE k1 == Len(log) - first
             F(i) == [id |-> first + i, msg |-> log[first + i]]
  <2>1. k1 \in Nat /\ RowsAfter(k) = [i \in 1..k1 |-> F(i)] /\ \A i \in 1..k1 : F(i) \in Entries
    BY <1>2, <1>3, <1>5
  <2> HIDE DEF k1, F
  <2>2. RowsAfter(k) \in Seq(Entries) /\ Len(RowsAfter(k)) = k1 /\ \A i \in 1..k1 : RowsAfter(k)[i] = F(i)
    BY <2>1
  <2> QED
    BY <2>2 DEF k1, F
<1>7. \A i \in 1..Len(RowsAfter(k)) : /\ RowsAfter(k)[i].id = first + i
                                      /\ RowsAfter(k)[i].msg = log[first + i]
                                      /\ first + i \in 1..Len(log)
  BY <1>4, <1>6
<1> QED
  BY <1>2, <1>6, <1>7 DEF first

LEMMA RowsInOrder ==
  ASSUME Types, NEW k \in 0..Len(log)
  PROVE  InOrder(k, RowsAfter(k), Len(log), wiped)
<1> DEFINE first == IF k > wiped THEN k ELSE wiped
           rows == RowsAfter(k)
<1>1. /\ rows \in Seq(Entries) /\ first \in k..Len(log)
      /\ first > k => first = wiped
      /\ \A i \in 1..Len(rows) : rows[i].id = first + i /\ first + i \in 1..Len(log)
  BY RowsFollow
<1>2. k \in Nat /\ wiped \in Nat /\ Len(log) \in Nat
  BY DEF Types
<1> HIDE DEF rows, first
<1>3. \A i \in 1..Len(rows) : k < rows[i].id /\ rows[i].id <= Len(log) /\ rows[i].id = rows[1].id + (i - 1)
  <2> SUFFICES ASSUME NEW i \in 1..Len(rows)
               PROVE  k < rows[i].id /\ rows[i].id <= Len(log) /\ rows[i].id = rows[1].id + (i - 1)
    OBVIOUS
  <2>1. 1 \in 1..Len(rows) /\ i \in Nat \ {0} /\ first \in Nat /\ first >= k
    BY <1>1, <1>2
  <2>2. rows[i].id = first + i /\ rows[1].id = first + 1 /\ first + i \in 1..Len(log)
    BY <1>1, <2>1
  <2> QED
    BY <1>2, <2>1, <2>2
<1>4. rows # <<>> => \A r \in (k + 1)..(rows[1].id - 1) : r <= wiped
  <2> SUFFICES ASSUME rows # <<>>, NEW r \in (k + 1)..(rows[1].id - 1) PROVE r <= wiped
    OBVIOUS
  <2>1. rows[1].id = first + 1 /\ first \in Nat
    BY <1>1, <1>2, IdsAreNat
  <2> QED
    BY <1>1, <1>2, <2>1
<1>5. k <= Len(log)
  BY <1>2
<1> QED
  BY <1>3, <1>4, <1>5 DEF InOrder, rows

LEMMA BusInit == Init => BusInv
<1> SUFFICES ASSUME Init PROVE BusInv
  OBVIOUS
<1>1. \A n \in Node : Len(batch[n]) = 0 /\ batch[n] = <<>>
  BY DEF Init
<1>2. Types
  BY <1>1, BusAssumption DEF Init, Types, Idle
<1>3. ReadsInOrder
  BY <1>1, <1>2, NoneInOrder DEF Init, ReadsInOrder, Types
<1> QED
  BY <1>2, <1>3 DEF Init, BusInv, SendKnown

\* A node goes on with its batch, or has a new one that is in order, while the log
\* grows or is wiped.
LEMMA OrderKept ==
  ASSUME BusInv, UNCHANGED live,
         Len(log') \in Nat, Len(log) <= Len(log'), wiped' \in Nat, wiped <= wiped',
         \A k \in Node : ~live[k] =>
           /\ inbox'[k] = <<>> /\ axl'[k] = {}
           /\ \/ batch'[k] = batch[k] /\ cursor'[k] = cursor[k]
              \/ /\ batch'[k] \in Seq(Entries) /\ cursor'[k] \in Nat
                 /\ InOrder(cursor'[k], batch'[k], Len(log), wiped)
  PROVE  ReadsInOrder'
<1> SUFFICES ASSUME NEW k \in Node, ~live[k]
             PROVE  InOrder(cursor'[k], batch'[k], Len(log'), wiped')
  BY DEF ReadsInOrder
<1>1. /\ batch'[k] \in Seq(Entries) /\ cursor'[k] \in Nat
      /\ InOrder(cursor'[k], batch'[k], Len(log), wiped)
  BY DEF BusInv, Types, ReadsInOrder
<1>2. Len(log) \in Nat /\ wiped \in Nat
  BY DEF BusInv, Types
<1> QED
  BY <1>1, <1>2, LongerInOrder

\* Steps of publish, which touches neither batches nor cursors but to drop a batch.
LEMMA PublishKeeps ==
  ASSUME BusInv, NEW n \in Node, Publish(n)
  PROVE  BusInv'
<1> USE DEF BusInv
<1>1. [msg |-> published + 1, to |-> IF live[n] THEN Peers ELSE <<>>]
        \in [msg : 0..MaxMessages, to : Seq(Peer)]
  <2>1. Peers \in Seq(Peer) /\ <<>> \in Seq(Peer)
    <3>1. \A i \in 1..Len(Peers) : Peers[i] \in Peer
      BY DEF Peer
    <3> QED
      BY <3>1, BusAssumption
  <2>2. published + 1 \in 0..MaxMessages
    <3>1. published \in 0..MaxMessages /\ published < MaxMessages /\ MaxMessages \in Nat
      BY BusAssumption DEF Publish, Types
    <3> QED
      BY <3>1
  <2> QED
    BY <2>1, <2>2
<1>2. Types'
  <2>1. sending' \in [Node -> [msg : 0..MaxMessages, to : Seq(Peer)]]
    BY <1>1 DEF Publish, Types
  <2>2. published' \in 0..MaxMessages
    BY BusAssumption DEF Publish, Types
  <2> QED
    BY <2>1, <2>2 DEF Publish, Types
<1>3. SendKnown'
  <2>1. /\ published \in Nat /\ published' = published + 1
        /\ sending'[n].msg = published + 1
        /\ \A k \in Node \ {n} : sending'[k] = sending[k]
    BY DEF Publish, Types
  <2>2. 1..published \subseteq 1..published' /\ published + 1 \in 1..published'
    BY <2>1
  <2> QED
    BY <2>1, <2>2 DEF SendKnown
<1>4. ReadsInOrder'
  BY DEF Publish, ReadsInOrder
<1> QED
  BY <1>2, <1>3, <1>4

\* The message and the peers to go of a node that is publishing.
LEMMA SendingType ==
  ASSUME Types, NEW n \in Node
  PROVE  sending[n].msg \in 0..MaxMessages /\ sending[n].to \in Seq(Peer)
BY DEF Types

LEMMA SendKeeps ==
  ASSUME BusInv, NEW n \in Node, Send(n)
  PROVE  BusInv'
<1> USE DEF BusInv
<1> DEFINE p == Head(sending[n].to)
<1>1. /\ p \in Peer /\ Peer \subseteq Node /\ Tail(sending[n].to) \in Seq(Peer)
  <2>1. Peer \subseteq Node
    BY BusAssumption DEF Peer
  <2> QED
    BY <2>1, SendingType, LosesFirst DEF Send
<1>2. sending[n] # Idle /\ sending[n].msg \in 1..published /\ sending[n].msg \in Msg
  <2>1. sending[n] # Idle
    BY DEF Send, Idle
  <2> QED
    BY <2>1, SendingType DEF SendKnown, Types, Msg
<1>3. sending' = [sending EXCEPT ![n].to = Tail(@)] /\ published' = published
  BY DEF Send
<1>4. sending' \in [Node -> [msg : 0..MaxMessages, to : Seq(Peer)]]
  BY <1>1, <1>3 DEF Types
<1>5. /\ axl' \in [Node -> SUBSET Msg]
      /\ \A q \in Node : ~live[q] => axl'[q] = {}
  <2>1. CASE axl' = axl
    BY <2>1 DEF Types, ReadsInOrder
  <2>2. CASE live[p] /\ axl' = [axl EXCEPT ![p] = @ \cup {sending[n].msg}]
    BY <1>1, <1>2, <2>2 DEF Types, ReadsInOrder
  <2> QED
    BY <2>1, <2>2 DEF Send
<1>6. Types'
  BY <1>4, <1>5 DEF Send, Types
<1>7. SendKnown'
  BY <1>2, <1>3 DEF SendKnown, Types
<1>8. ReadsInOrder'
  BY <1>5 DEF Send, ReadsInOrder
<1> QED
  BY <1>6, <1>7, <1>8

\* A longer log has the same rows.
LEMMA LongerLog ==
  ASSUME BusInv, NEW m \in Msg, log' = Append(log, m)
  PROVE  /\ log' \in Seq(Msg) /\ Len(log') = Len(log) + 1 /\ Len(log) \in Nat
         /\ \A i \in 1..Len(log) : log'[i] = log[i]
         /\ log'[Len(log) + 1] = m
BY GrowsByOne DEF BusInv, Types

LEMMA WriteToDbKeeps ==
  ASSUME BusInv, NEW n \in Node, WriteToDb(n)
  PROVE  BusInv'
<1> USE DEF BusInv
<1>1. sending[n].msg \in Msg
  BY SendingType DEF WriteToDb, SendKnown, Types, Msg
<1>2. log' \in Seq(Msg) /\ Len(log') = Len(log) + 1 /\ Len(log) \in Nat
  BY <1>1, LongerLog DEF WriteToDb
<1>3. sending' \in [Node -> [msg : 0..MaxMessages, to : Seq(Peer)]]
  BY BusAssumption DEF WriteToDb, Types, Idle
<1>4. wiped' \in 0..Len(log')
  BY <1>2 DEF WriteToDb, Types
<1>5. Types'
  BY <1>2, <1>3, <1>4 DEF WriteToDb, Types
<1>6. SendKnown'
  BY DEF WriteToDb, SendKnown, Types
<1>7. ReadsInOrder'
  <2>1. /\ UNCHANGED <<live, wiped, axl, inbox, batch, cursor>>
        /\ wiped \in Nat
        /\ \A k \in Node : ~live[k] => inbox[k] = <<>> /\ axl[k] = {}
    BY DEF WriteToDb, Types, ReadsInOrder
  <2> QED
    BY <1>2, <2>1, OrderKept
<1> QED
  BY <1>5, <1>6, <1>7

\* A batch that is given up leaves no trace but in lost.
LEMMA AbandonKeeps ==
  ASSUME Types, NEW n \in Node, NEW rest \in Seq(Entries), Abandon(n, rest)
  PROVE  /\ batch' \in [Node -> Seq(Entries)] /\ lost' \in [Node -> SUBSET Msg]
         /\ batch'[n] = <<>> /\ Len(batch'[n]) = 0
         /\ \A k \in Node \ {n} : batch'[k] = batch[k] /\ lost'[k] = lost[k]
         /\ lost'[n] = IF live[n] THEN lost[n] \cup Msgs(rest) ELSE lost[n]
BY MsgsType DEF Abandon, Types

LEMMA WriteFailsKeeps ==
  ASSUME BusInv, NEW n \in Node, WriteFails(n)
  PROVE  BusInv'
<1> USE DEF BusInv
<1>1. /\ batch' \in [Node -> Seq(Entries)] /\ lost' \in [Node -> SUBSET Msg]
      /\ batch'[n] = <<>> /\ Len(batch'[n]) = 0
      /\ \A k \in Node \ {n} : batch'[k] = batch[k]
  <2>1. batch[n] \in Seq(Entries)
    BY DEF Types
  <2> QED
    BY <2>1, AbandonKeeps DEF WriteFails
<1>2. sending' \in [Node -> [msg : 0..MaxMessages, to : Seq(Peer)]]
  BY BusAssumption DEF WriteFails, Types, Idle
<1>3. Types'
  BY <1>1, <1>2 DEF WriteFails, Types
<1>4. SendKnown'
  BY DEF WriteFails, SendKnown, Types
<1>5. ReadsInOrder'
  <2>1. UNCHANGED <<live, log, wiped, axl, inbox, cursor>> /\ wiped \in Nat /\ Len(log) \in Nat
    BY DEF WriteFails, Types
  <2>2. ASSUME NEW k \in Node, ~live[k] PROVE InOrder(cursor[k], batch'[k], Len(log), wiped)
    <3>1. InOrder(cursor[k], batch[k], Len(log), wiped)
      BY <2>2 DEF ReadsInOrder
    <3>2. cursor[k] \in Nat /\ cursor[k] <= Len(log)
      BY <3>1 DEF InOrder, Types
    <3> QED
      BY <1>1, <2>1, <3>1, <3>2, NoneInOrder
  <2> QED
    BY <2>1, <2>2 DEF ReadsInOrder
<1> QED
  BY <1>3, <1>4, <1>5

LEMMA RecvKeeps ==
  ASSUME BusInv, NEW n \in Node, Recv(n)
  PROVE  BusInv'
<1> USE DEF BusInv
<1>1. PICK m \in axl[n] : /\ axl' = [axl EXCEPT ![n] = @ \ {m}]
                          /\ inbox' = [inbox EXCEPT ![n] = Append(@, [id |-> 0, msg |-> m])]
                          /\ log' \in {log, Append(log, m)}
  BY DEF Recv
<1>2. live[n] /\ m \in Msg /\ [id |-> 0, msg |-> m] \in Entries
  BY <1>1 DEF Types, ReadsInOrder, Entries
<1>3. log' \in Seq(Msg) /\ Len(log') >= Len(log) /\ Len(log) \in Nat /\ Len(log') \in Nat
  <2>1. CASE log' = log
    BY <2>1 DEF Types
  <2>2. CASE log' = Append(log, m)
    BY <1>2, <2>2, LongerLog
  <2> QED
    BY <1>1, <2>1, <2>2
<1>4. /\ axl' \in [Node -> SUBSET Msg]
      /\ inbox' \in [Node -> Seq(Entries)]
      /\ \A k \in Node : ~live[k] => inbox'[k] = <<>> /\ axl'[k] = {}
  <2>1. Append(inbox[n], [id |-> 0, msg |-> m]) \in Seq(Entries)
    BY <1>2 DEF Types
  <2> QED
    BY <1>1, <1>2, <2>1 DEF Types, ReadsInOrder
<1>5. wiped' \in 0..Len(log')
  BY <1>3 DEF Recv, Types
<1>6. Types'
  BY <1>3, <1>4, <1>5 DEF Recv, Types
<1>7. SendKnown'
  BY DEF Recv, SendKnown
<1>8. ReadsInOrder'
  <2>1. UNCHANGED <<live, wiped, batch, cursor>> /\ wiped \in Nat
    BY DEF Recv, Types
  <2> QED
    BY <1>3, <1>4, <2>1, OrderKept
<1> QED
  BY <1>6, <1>7, <1>8

LEMMA SubscribeKeeps ==
  ASSUME BusInv, NEW n \in Node, Subscribe(n)
  PROVE  BusInv'
<1> USE DEF BusInv
<1> DEFINE new == IF live[n] THEN inbox[n] ELSE RowsAfter(cursor[n])
<1>1. /\ batch' = [batch EXCEPT ![n] = new] /\ inbox' = [inbox EXCEPT ![n] = <<>>]
      /\ UNCHANGED <<live, published, sending, log, wiped, axl, cursor, handled, before, lost, crashes>>
  BY DEF Subscribe
<1>2. ~live[n] => cursor[n] \in 0..Len(log)
  BY DEF Types, ReadsInOrder, InOrder
<1>3. new \in Seq(Entries) /\ (~live[n] => InOrder(cursor[n], new, Len(log), wiped))
  BY <1>2, RowsFollow, RowsInOrder DEF Types
<1> HIDE DEF new
<1>4. /\ batch' \in [Node -> Seq(Entries)] /\ batch'[n] = new
      /\ \A k \in Node \ {n} : batch'[k] = batch[k]
      /\ inbox' \in [Node -> Seq(Entries)]
      /\ \A k \in Node : inbox'[k] \in {inbox[k], <<>>}
  BY <1>1, <1>3 DEF Types
<1>5. Types'
  BY <1>1, <1>4 DEF Types
<1>6. SendKnown'
  BY <1>1 DEF SendKnown
<1>7. ReadsInOrder'
  BY <1>1, <1>3, <1>4 DEF ReadsInOrder
<1> QED
  BY <1>5, <1>6, <1>7

\* What Handle does with the batch: the first entry is handled, the rest is left or lost.
LEMMA HandleFacts ==
  ASSUME Types, NEW n \in Node, Handle(n)
  PROVE  LET e == batch[n][1]
             rest == Tail(batch[n])
         IN  /\ Len(batch[n]) \in Nat \ {0} /\ e \in Entries /\ e.id \in Nat /\ e.msg \in Msg
             /\ cursor' \in [Node -> Nat] /\ cursor'[n] = e.id
             /\ \A k \in Node \ {n} : /\ cursor'[k] = cursor[k] /\ handled'[k] = handled[k]
                                      /\ batch'[k] = batch[k] /\ lost'[k] = lost[k]
             /\ handled' \in [Node -> Seq(Entries)] /\ handled'[n] = Append(handled[n], e)
             /\ batch' \in [Node -> Seq(Entries)] /\ lost' \in [Node -> SUBSET Msg]
             /\ rest \in Seq(Entries) /\ Len(rest) = Len(batch[n]) - 1
             /\ \A i \in 1..Len(rest) : rest[i] = batch[n][i + 1]
             /\ \/ batch'[n] = rest /\ lost'[n] = lost[n]
                \/ /\ batch'[n] = <<>>
                   /\ lost'[n] = IF live[n] THEN lost[n] \cup Msgs(rest) ELSE lost[n]
<1> DEFINE e == batch[n][1]
           rest == Tail(batch[n])
<1>1. /\ batch[n] \in Seq(Entries) /\ batch[n] # <<>> /\ handled[n] \in Seq(Entries)
  BY DEF Handle, Types
<1>2. /\ Len(batch[n]) \in Nat \ {0} /\ Head(batch[n]) = e /\ e \in Entries
      /\ rest \in Seq(Entries) /\ Len(rest) = Len(batch[n]) - 1
      /\ \A i \in 1..Len(rest) : rest[i] = batch[n][i + 1]
  BY <1>1, LosesFirst
<1>3. e.id \in Nat /\ e.msg \in Msg
  BY <1>2 DEF Entries
<1> HIDE DEF e, rest
<1>4. /\ cursor' = [cursor EXCEPT ![n] = e.id]
      /\ handled' = [handled EXCEPT ![n] = Append(@, e)]
      /\ \/ batch' = [batch EXCEPT ![n] = rest] /\ lost' = lost
         \/ Abandon(n, rest)
  BY <1>2 DEF Handle, rest
<1>5. /\ cursor' \in [Node -> Nat] /\ cursor'[n] = e.id
      /\ \A k \in Node \ {n} : cursor'[k] = cursor[k] /\ handled'[k] = handled[k]
      /\ handled' \in [Node -> Seq(Entries)] /\ handled'[n] = Append(handled[n], e)
  <2>1. Append(handled[n], e) \in Seq(Entries)
    BY <1>1, <1>2
  <2> QED
    BY <1>3, <1>4, <2>1 DEF Types
<1>6. CASE batch' = [batch EXCEPT ![n] = rest] /\ lost' = lost
  <2>1. /\ batch' \in [Node -> Seq(Entries)] /\ lost' \in [Node -> SUBSET Msg]
        /\ batch'[n] = rest /\ lost'[n] = lost[n]
        /\ \A k \in Node \ {n} : batch'[k] = batch[k] /\ lost'[k] = lost[k]
    BY <1>2, <1>6 DEF Types
  <2> QED
    BY <1>2, <1>3, <1>5, <2>1 DEF e, rest
<1>7. CASE Abandon(n, rest)
  BY <1>2, <1>3, <1>5, <1>7, AbandonKeeps DEF e, rest
<1> QED
  BY <1>4, <1>6, <1>7

LEMMA HandleKeeps ==
  ASSUME BusInv, NEW n \in Node, Handle(n)
  PROVE  BusInv'
<1> USE DEF BusInv
<1> DEFINE e == batch[n][1]
           rest == Tail(batch[n])
<1>1. /\ Len(batch[n]) \in Nat \ {0} /\ e.id \in Nat
      /\ cursor' \in [Node -> Nat] /\ cursor'[n] = e.id
      /\ \A k \in Node \ {n} : cursor'[k] = cursor[k] /\ batch'[k] = batch[k]
      /\ handled' \in [Node -> Seq(Entries)]
      /\ batch' \in [Node -> Seq(Entries)] /\ lost' \in [Node -> SUBSET Msg]
      /\ Len(rest) = Len(batch[n]) - 1
      /\ \A i \in 1..Len(rest) : rest[i] = batch[n][i + 1]
      /\ batch'[n] = rest \/ batch'[n] = <<>>
  BY HandleFacts
<1>2. UNCHANGED <<live, published, sending, log, wiped, axl, inbox, before, crashes>>
  BY DEF Handle
<1>3. Types'
  BY <1>1, <1>2 DEF Types
<1>4. SendKnown'
  BY <1>2 DEF SendKnown
<1>5. ~live[n] => InOrder(e.id, batch'[n], Len(log), wiped)
  <2> SUFFICES ASSUME ~live[n] PROVE InOrder(e.id, batch'[n], Len(log), wiped)
    OBVIOUS
  <2>1. /\ batch[n] \in Seq(Entries) /\ batch[n] # <<>> /\ cursor[n] \in Nat
        /\ Len(log) \in Nat /\ wiped \in Nat
    BY DEF Handle, Types
  <2>2. InOrder(cursor[n], batch[n], Len(log), wiped)
    BY DEF ReadsInOrder
  <2>3. InOrder(e.id, rest, Len(log), wiped)
    BY <2>1, <2>2, RestInOrder
  <2>4. e.id <= Len(log)
    BY <2>3 DEF InOrder
  <2> QED
    BY <1>1, <2>1, <2>3, <2>4, NoneInOrder
<1>6. ReadsInOrder'
  BY <1>1, <1>2, <1>5 DEF ReadsInOrder
<1> QED
  BY <1>3, <1>4, <1>6

LEMMA CrashKeeps ==
  ASSUME BusInv, NEW n \in Node, Crash(n)
  PROVE  BusInv'
<1> USE DEF BusInv
<1>1. /\ Msgs(handled[n]) \subseteq Msg /\ Msgs(batch[n]) \subseteq Msg /\ Msgs(inbox[n]) \subseteq Msg
  BY MsgsType DEF Types
<1>2. /\ before' \in [Node -> SUBSET Msg] /\ lost' \in [Node -> SUBSET Msg]
  BY <1>1 DEF Crash, Types
<1>3. /\ sending' \in [Node -> [msg : 0..MaxMessages, to : Seq(Peer)]]
      /\ inbox' \in [Node -> Seq(Entries)] /\ batch' \in [Node -> Seq(Entries)]
      /\ cursor' \in [Node -> Nat] /\ handled' \in [Node -> Seq(Entries)]
      /\ crashes' \in 0..MaxCrashes
  <2>1. Idle \in [msg : 0..MaxMessages, to : Seq(Peer)]
    BY BusAssumption DEF Idle
  <2>2. /\ sending' = [sending EXCEPT ![n] = Idle] /\ inbox' = [inbox EXCEPT ![n] = <<>>]
        /\ batch' = [batch EXCEPT ![n] = <<>>] /\ cursor' = [cursor EXCEPT ![n] = 0]
        /\ handled' = [handled EXCEPT ![n] = <<>>] /\ crashes' = crashes + 1 /\ crashes < MaxCrashes
    BY DEF Crash
  <2>3. sending' \in [Node -> [msg : 0..MaxMessages, to : Seq(Peer)]]
    BY <2>1, <2>2 DEF Types
  <2>4. /\ inbox' \in [Node -> Seq(Entries)] /\ batch' \in [Node -> Seq(Entries)]
        /\ handled' \in [Node -> Seq(Entries)]
    BY <2>2 DEF Types
  <2>5. cursor' \in [Node -> Nat] /\ crashes' \in 0..MaxCrashes
    BY <2>2, BusAssumption DEF Types
  <2> QED
    BY <2>3, <2>4, <2>5
<1>4. /\ batch'[n] = <<>> /\ Len(batch'[n]) = 0 /\ inbox'[n] = <<>> /\ cursor'[n] = 0
      /\ \A k \in Node \ {n} : batch'[k] = batch[k] /\ inbox'[k] = inbox[k] /\ cursor'[k] = cursor[k]
      /\ UNCHANGED <<live, published, log, wiped, axl>>
  BY DEF Crash, Types
<1>5. Types'
  BY <1>2, <1>3, <1>4 DEF Types
<1>6. SendKnown'
  BY DEF Crash, SendKnown, Types
<1>7. ReadsInOrder'
  <2>1. InOrder(0, <<>>, Len(log), wiped)
    BY NoneInOrder DEF Types
  <2> QED
    BY <1>4, <2>1 DEF ReadsInOrder
<1> QED
  BY <1>5, <1>6, <1>7

LEMMA ClearKeeps ==
  ASSUME BusInv, ClearNetwork
  PROVE  BusInv'
<1> USE DEF BusInv
<1>1. UNCHANGED <<live, published, sending, log, axl, batch, cursor, handled, before, lost, crashes>>
  BY DEF ClearNetwork
<1>2. /\ wiped' \in wiped..Len(log) /\ wiped \in Nat /\ Len(log) \in Nat
      /\ inbox' \in [Node -> Seq(Entries)]
      /\ \A k \in Node : inbox'[k] \in {inbox[k], <<>>}
  <2>1. wiped \in 0..Len(log) /\ Len(log) \in Nat /\ inbox \in [Node -> Seq(Entries)]
        /\ <<>> \in Seq(Entries)
    BY DEF Types
  <2>2. wiped' \in wiped..Len(log)
    BY <2>1 DEF ClearNetwork
  <2>3. inbox' = inbox \/ inbox' = [inbox EXCEPT ![Injector] = <<>>]
    BY DEF ClearNetwork
  <2>4. /\ inbox' \in [Node -> Seq(Entries)]
        /\ \A k \in Node : inbox'[k] \in {inbox[k], <<>>}
    BY <2>1, <2>3
  <2> QED
    BY <2>1, <2>2, <2>4
<1>3. Types'
  BY <1>1, <1>2 DEF Types
<1>4. SendKnown'
  BY <1>1 DEF SendKnown
<1>5. ReadsInOrder'
  <2>1. Len(log') \in Nat /\ Len(log) <= Len(log') /\ wiped' \in Nat /\ wiped <= wiped'
    BY <1>1, <1>2
  <2>2. ASSUME NEW k \in Node, ~live[k]
        PROVE  inbox'[k] = <<>> /\ axl'[k] = {} /\ batch'[k] = batch[k] /\ cursor'[k] = cursor[k]
    <3>1. inbox[k] = <<>> /\ axl[k] = {}
      BY <2>2 DEF ReadsInOrder
    <3>2. inbox'[k] \in {inbox[k], <<>>}
      BY <1>2
    <3> QED
      BY <1>1, <3>1, <3>2
  <2> QED
    BY <1>1, <2>1, <2>2, OrderKept
<1> QED
  BY <1>3, <1>4, <1>5

LEMMA BusStep == BusInv /\ [Next]_vars => BusInv'
<1> SUFFICES ASSUME BusInv, [Next]_vars PROVE BusInv'
  OBVIOUS
<1>1. CASE UNCHANGED vars
  BY <1>1 DEF vars, BusInv, Types, SendKnown, ReadsInOrder
<1>2. CASE Next
  <2>1. Reader \subseteq Node
    BY BusAssumption
  <2> QED
    BY <1>2, <2>1, PublishKeeps, SendKeeps, WriteToDbKeeps, WriteFailsKeeps, RecvKeeps,
       SubscribeKeeps, HandleKeeps, CrashKeeps, ClearKeeps DEF Next, Publishing
<1> QED
  BY <1>1, <1>2

LEMMA BusInvariance == Spec => []BusInv
<1> QED
  BY BusInit, BusStep, PTL DEF Spec

\* Types hold, and what a table reader has fetched follows its cursor, for any nodes,
\* any mixture of the two kinds and any number of messages.
THEOREM BusTypeCorrect == Spec => []TypeOK
<1>1. BusInv => TypeOK
  <2> SUFFICES ASSUME BusInv PROVE TypeOK
    OBVIOUS
  <2>1. ASSUME NEW n \in Node, ~live[n]
        PROVE  /\ inbox[n] = <<>> /\ axl[n] = {}
               /\ \A i \in 1..Len(batch[n]) : cursor[n] < batch[n][i].id /\ batch[n][i].id <= Len(log)
               /\ \A i, j \in 1..Len(batch[n]) : i < j => batch[n][i].id < batch[n][j].id
    <3>1. batch[n] \in Seq(Entries)
      BY DEF BusInv, Types
    <3>2. /\ Len(batch[n]) \in Nat
          /\ \A i \in 1..Len(batch[n]) : batch[n][i].id \in Nat
          /\ batch[n] # <<>> => 1 \in 1..Len(batch[n])
      BY <3>1, IdsAreNat
    <3>3. inbox[n] = <<>> /\ axl[n] = {} /\ InOrder(cursor[n], batch[n], Len(log), wiped)
      BY <2>1 DEF BusInv, ReadsInOrder
    <3>4. \A i \in 1..Len(batch[n]) : /\ cursor[n] < batch[n][i].id /\ batch[n][i].id <= Len(log)
                                      /\ batch[n][i].id = batch[n][1].id + (i - 1)
      BY <3>3 DEF InOrder
    <3> DEFINE b == batch[n]
    <3>5. ASSUME NEW i \in 1..Len(b), NEW j \in 1..Len(b), i < j PROVE b[i].id < b[j].id
      <4>1. 1 \in 1..Len(b) /\ b[1].id \in Nat
        BY <3>2
      <4>2. b[i].id = b[1].id + (i - 1) /\ b[j].id = b[1].id + (j - 1)
        BY <3>4
      <4> HIDE DEF b
      <4> QED
        BY <3>5, <4>1, <4>2
    <3> QED
      BY <3>3, <3>4, <3>5
  <2> QED
    BY <2>1 DEF BusInv, Types, TypeOK
<1> QED
  BY <1>1, BusInvariance, PTL

-------------------------------------------------------------------------------
(* The table is the topic that daemons take it for. *)

TableReaders == {n \in Node : ~live[n]}
Position     == [n \in Node |-> IF live[n] THEN 0 ELSE cursor[n]]

LEMMA TopicInit == Init => T!Init
<1> SUFFICES ASSUME Init PROVE T!Init
  OBVIOUS
<1>1. Position = [n \in Node |-> 0] /\ TableReaders \subseteq Node
  BY DEF Init, Position, TableReaders
<1> QED
  BY <1>1 DEF Init, T!Init, Position, TableReaders

\* A step that leaves the table and the cursors of its readers alone is no step of Topic.
LEMMA TopicStutters ==
  ASSUME UNCHANGED <<log, wiped, live>>,
         \A n \in Node : live[n] \/ cursor'[n] = cursor[n]
  PROVE  UNCHANGED <<log, wiped, TableReaders, Position>>
BY DEF TableReaders, Position

LEMMA TopicHandle ==
  ASSUME BusInv, NEW n \in Node, Handle(n), ~live[n]
  PROVE  T!Take(n)
<1> DEFINE i == batch[n][1].id
<1>1. UNCHANGED <<live, log, wiped>>
  BY DEF Handle
<1>2. /\ cursor'[n] = i
      /\ \A k \in Node \ {n} : cursor'[k] = cursor[k]
  BY HandleFacts DEF BusInv
<1>3. Position' = [Position EXCEPT ![n] = i]
  BY <1>1, <1>2 DEF Position
<1>4. batch[n] \in Seq(Entries) /\ batch[n] # <<>> /\ cursor[n] \in Nat /\ Len(log) \in Nat
  BY DEF Handle, BusInv, Types
<1>5. /\ i \in Nat /\ cursor[n] < i /\ i <= Len(log)
      /\ \A r \in (cursor[n] + 1)..(i - 1) : r <= wiped
  <2>1. 1 \in 1..Len(batch[n]) /\ i \in Nat
    BY <1>4, IdsAreNat
  <2> QED
    BY <1>4, <2>1 DEF BusInv, ReadsInOrder, InOrder
<1>6. i \in (cursor[n] + 1)..Len(log) /\ (cursor[n] + 1)..(i - 1) \subseteq 1..wiped
  <2>1. wiped \in Nat
    BY DEF BusInv, Types
  <2> HIDE DEF i
  <2> QED
    BY <1>4, <1>5, <2>1
<1>7. Position[n] = cursor[n] /\ n \in TableReaders /\ TableReaders' = TableReaders
  BY <1>1 DEF Position, TableReaders
<1> QED
  BY <1>1, <1>3, <1>6, <1>7 DEF T!Take, Position, TableReaders

LEMMA TopicCrash ==
  ASSUME BusInv, NEW n \in Node, Crash(n), ~live[n]
  PROVE  T!Restart(n)
<1>1. Position' = [Position EXCEPT ![n] = 0] /\ UNCHANGED <<log, wiped, TableReaders>>
  BY DEF Crash, Position, TableReaders, BusInv, Types
<1> QED
  BY <1>1 DEF T!Restart, Position, TableReaders

LEMMA TopicWrite ==
  ASSUME NEW m \in Msg, log' = Append(log, m), UNCHANGED <<wiped, live, cursor>>
  PROVE  T!Write
<1>1. UNCHANGED <<TableReaders, Position>>
  BY DEF TableReaders, Position
<1> QED
  BY <1>1 DEF T!Write, TableReaders, Position

LEMMA TopicStep ==
  ASSUME BusInv, [Next]_vars
  PROVE  [T!Write \/ T!Clear \/ \E n \in Node : T!Take(n) \/ T!Restart(n)]_<<log, wiped, TableReaders, Position>>
<1>1. CASE UNCHANGED vars
  BY <1>1, TopicStutters DEF vars
<1>2. ASSUME NEW n \in Node, Publish(n) \/ Send(n) \/ WriteFails(n) \/ Subscribe(n)
      PROVE  UNCHANGED <<log, wiped, TableReaders, Position>>
  BY <1>2, TopicStutters DEF Publish, Send, WriteFails, Subscribe
<1>3. ASSUME NEW n \in Node, WriteToDb(n)
      PROVE  T!Write
  <2>1. sending[n].msg \in Msg
    BY <1>3, SendingType DEF WriteToDb, BusInv, SendKnown, Types, Msg
  <2> QED
    BY <1>3, <2>1, TopicWrite DEF WriteToDb
<1>4. ASSUME NEW n \in Node, Recv(n)
      PROVE  T!Write \/ UNCHANGED <<log, wiped, TableReaders, Position>>
  <2>1. PICK m \in axl[n] : log' \in {log, Append(log, m)}
    BY <1>4 DEF Recv
  <2>2. m \in Msg /\ UNCHANGED <<wiped, live, cursor>>
    BY <1>4, <2>1 DEF Recv, BusInv, Types
  <2> QED
    BY <2>1, <2>2, TopicWrite, TopicStutters
<1>5. ASSUME NEW n \in Node, Handle(n)
      PROVE  T!Take(n) \/ UNCHANGED <<log, wiped, TableReaders, Position>>
  <2>1. CASE live[n]
    <3>1. \A k \in Node \ {n} : cursor'[k] = cursor[k]
      BY <1>5, HandleFacts DEF BusInv
    <3> QED
      BY <1>5, <2>1, <3>1, TopicStutters DEF Handle
  <2> QED
    BY <1>5, <2>1, TopicHandle
<1>6. ASSUME NEW n \in Node, Crash(n)
      PROVE  T!Restart(n) \/ UNCHANGED <<log, wiped, TableReaders, Position>>
  <2>1. CASE live[n]
    <3>1. \A k \in Node \ {n} : cursor'[k] = cursor[k]
      BY <1>6 DEF Crash, BusInv, Types
    <3> QED
      BY <1>6, <2>1, <3>1, TopicStutters DEF Crash
  <2> QED
    BY <1>6, <2>1, TopicCrash
<1>7. ASSUME ClearNetwork
      PROVE  T!Clear \/ UNCHANGED <<log, wiped, TableReaders, Position>>
  <2>1. UNCHANGED <<log, live, cursor, TableReaders, Position>> /\ (wiped' = Len(log) \/ wiped' = wiped)
    BY <1>7 DEF ClearNetwork, TableReaders, Position
  <2> QED
    BY <2>1 DEF T!Clear, TableReaders, Position
<1>8. Reader \subseteq Node
  BY BusAssumption
<1> QED
  BY <1>1, <1>2, <1>3, <1>4, <1>5, <1>6, <1>7, <1>8 DEF Next, Publishing

\* Nodes that read the table are given its rows in order, each once until they start
\* again, whatever batches are dropped, rows wiped and live nodes mixed in.
THEOREM BusImplementsTopic == Spec => ImplementsTopic
<1>1. BusInv /\ [Next]_vars =>
        [T!Write \/ T!Clear \/ \E n \in Node : T!Take(n) \/ T!Restart(n)]_<<log, wiped, TableReaders, Position>>
  BY TopicStep
<1> QED
  BY <1>1, TopicInit, BusInvariance, PTL
     DEF Spec, ImplementsTopic, T!TopicSpec, TableReaders, Position

-------------------------------------------------------------------------------
(* Each message once *)

\* What becomes of a node that ends its publish, whichever way.
LEMMA SendingEnds ==
  ASSUME Types, NEW k \in Node, sending' = [sending EXCEPT ![k] = Idle]
  PROVE  /\ sending'[k] = Idle /\ sending'[k].msg = 0 /\ sending'[k].to = <<>>
         /\ \A n \in Node \ {k} : sending'[n] = sending[n]
         /\ \A p, m : ~ToSend(k, p, m)'
<1>1. /\ sending'[k] = Idle
      /\ \A n \in Node \ {k} : sending'[n] = sending[n]
  BY DEF Types
<1>2. sending'[k].msg = 0 /\ sending'[k].to = <<>>
  BY <1>1 DEF Idle
<1>3. Len(<<>>) = 0
  OBVIOUS
<1> QED
  BY <1>1, <1>2, <1>3 DEF ToSend

\* What becomes of a node that has sent to a peer.
LEMMA SendingGoesOn ==
  ASSUME BusInv, NEW k \in Node, Send(k)
  PROVE  LET p == sending[k].to[1]
         IN  /\ sending[k] # Idle /\ sending[k].msg \in 1..published /\ p \in Peer
             /\ sending[k].to \in Seq(Peer) /\ Len(sending[k].to) \in Nat \ {0}
             /\ sending'[k].msg = sending[k].msg
             /\ Len(sending'[k].to) = Len(sending[k].to) - 1
             /\ \A i \in 1..Len(sending'[k].to) : sending'[k].to[i] = sending[k].to[i + 1]
             /\ \A n \in Node \ {k} : sending'[n] = sending[n]
             /\ \A q \in Node : \A m \in axl'[q] :
                  m \in axl[q] \/ (q = p /\ m = sending[k].msg)
<1> DEFINE p == sending[k].to[1]
<1>1. sending[k].to \in Seq(Peer) /\ sending[k].to # <<>> /\ sending[k] # Idle
  BY SendingType DEF Send, BusInv, Idle
<1>2. /\ Head(sending[k].to) = p /\ p \in Peer /\ Len(sending[k].to) \in Nat \ {0}
      /\ Len(Tail(sending[k].to)) = Len(sending[k].to) - 1
      /\ \A i \in 1..(Len(sending[k].to) - 1) : Tail(sending[k].to)[i] = sending[k].to[i + 1]
  BY <1>1, LosesFirst
<1>3. /\ sending'[k].msg = sending[k].msg /\ sending'[k].to = Tail(sending[k].to)
      /\ \A n \in Node \ {k} : sending'[n] = sending[n]
  BY DEF Send, BusInv, Types
<1>4. p \in Node
  BY <1>2, BusAssumption DEF Peer
<1>5. axl' = axl \/ axl' = [axl EXCEPT ![p] = @ \cup {sending[k].msg}]
  BY <1>2 DEF Send
<1>6. \A q \in Node : \A m \in axl'[q] : m \in axl[q] \/ (q = p /\ m = sending[k].msg)
  <2>1. axl \in [Node -> SUBSET Msg]
    BY DEF BusInv, Types
  <2>2. CASE axl' = axl
    BY <2>2
  <2>3. CASE axl' = [axl EXCEPT ![p] = @ \cup {sending[k].msg}]
    <3> HIDE DEF p
    <3> QED
      BY <1>4, <2>1, <2>3
  <2> QED
    BY <1>5, <2>2, <2>3
<1>7. sending[k].msg \in 1..published
  BY <1>1 DEF BusInv, SendKnown
<1> QED
  BY <1>1, <1>2, <1>3, <1>6, <1>7

\* No step puts an old message on its way to a node again.
LEMMA NothingNew ==
  ASSUME BusInv, [Next]_vars, NEW m \in Msg, m <= published
  PROVE  /\ m <= published'
         /\ \A n \in Node : sending'[n].msg = m => sending[n].msg = m
         /\ \A p \in Node : Reachable(p, m)' => Reachable(p, m)
<1>0. published \in Nat /\ m \in Nat \ {0}
  BY BusAssumption DEF BusInv, Types, Msg
<1>1. ASSUME UNCHANGED <<published, sending>>, \A p \in Node : axl'[p] \subseteq axl[p]
      PROVE  /\ m <= published'
             /\ \A n \in Node : sending'[n].msg = m => sending[n].msg = m
             /\ \A p \in Node : Reachable(p, m)' => Reachable(p, m)
  BY <1>1 DEF Reachable, ToSend
<1>2. ASSUME NEW k \in Node, sending' = [sending EXCEPT ![k] = Idle], UNCHANGED <<published, axl>>
      PROVE  /\ m <= published'
             /\ \A n \in Node : sending'[n].msg = m => sending[n].msg = m
             /\ \A p \in Node : Reachable(p, m)' => Reachable(p, m)
  <2>1. /\ sending'[k].msg = 0
        /\ \A n \in Node \ {k} : sending'[n] = sending[n]
        /\ \A p : ~ToSend(k, p, m)'
    BY <1>2, SendingEnds DEF BusInv
  <2>2. \A p, n \in Node : ToSend(n, p, m)' => ToSend(n, p, m)
    BY <2>1 DEF ToSend
  <2> QED
    BY <1>0, <1>2, <2>1, <2>2 DEF Reachable
<1>3. ASSUME NEW k \in Node, Publish(k)
      PROVE  /\ m <= published'
             /\ \A n \in Node : sending'[n].msg = m => sending[n].msg = m
             /\ \A p \in Node : Reachable(p, m)' => Reachable(p, m)
  <2>1. /\ published' = published + 1 /\ axl' = axl
        /\ sending'[k].msg = published + 1
        /\ \A n \in Node \ {k} : sending'[n] = sending[n]
    BY <1>3 DEF Publish, BusInv, Types
  <2>2. \A p, n \in Node : ToSend(n, p, m)' => ToSend(n, p, m)
    BY <1>0, <2>1 DEF ToSend
  <2> QED
    BY <1>0, <2>1, <2>2 DEF Reachable
<1>4. ASSUME NEW k \in Node, Send(k)
      PROVE  /\ m <= published'
             /\ \A n \in Node : sending'[n].msg = m => sending[n].msg = m
             /\ \A p \in Node : Reachable(p, m)' => Reachable(p, m)
  <2> DEFINE q == sending[k].to[1]
  <2>1. /\ Len(sending[k].to) \in Nat \ {0} /\ published' = published
        /\ sending'[k].msg = sending[k].msg
        /\ Len(sending'[k].to) = Len(sending[k].to) - 1
        /\ \A i \in 1..Len(sending'[k].to) : sending'[k].to[i] = sending[k].to[i + 1]
        /\ \A n \in Node \ {k} : sending'[n] = sending[n]
        /\ \A p \in Node : \A x \in axl'[p] : x \in axl[p] \/ (p = q /\ x = sending[k].msg)
    BY <1>4, SendingGoesOn DEF Send
  <2>2. \A p, n \in Node : ToSend(n, p, m)' => ToSend(n, p, m)
    <3> SUFFICES ASSUME NEW p \in Node, ToSend(k, p, m)' PROVE ToSend(k, p, m)
      <4>1. ASSUME NEW p \in Node, NEW n \in Node \ {k}, ToSend(n, p, m)' PROVE ToSend(n, p, m)
        <5>1. sending'[n] = sending[n]
          BY <2>1
        <5> QED
          BY <4>1, <5>1 DEF ToSend
      <4> QED
        BY <4>1
    <3>1. PICK i \in 1..Len(sending'[k].to) : sending'[k].to[i] = p
      BY DEF ToSend
    <3>2. i + 1 \in 1..Len(sending[k].to) /\ sending[k].to[i + 1] = p
      BY <2>1, <3>1
    <3> QED
      BY <2>1, <3>2 DEF ToSend
  <2>3. sending[k].msg = m => ToSend(k, q, m)
    BY <2>1 DEF ToSend
  <2> QED
    <3> SUFFICES ASSUME NEW p \in Node, Reachable(p, m)' PROVE Reachable(p, m)
      BY <1>0, <2>1
    <3>1. CASE m > published'
      BY <2>1, <3>1 DEF Reachable
    <3>2. CASE \E n \in Node : ToSend(n, p, m)'
      BY <2>2, <3>2 DEF Reachable
    <3>3. CASE m \in axl'[p]
      <4>1. m \in axl[p] \/ (p = q /\ m = sending[k].msg)
        BY <2>1, <3>3
      <4> QED
        BY <2>3, <4>1 DEF Reachable
    <3> QED
      BY <3>1, <3>2, <3>3 DEF Reachable
<1>5. CASE UNCHANGED vars
  BY <1>1, <1>5 DEF vars
<1>6. ASSUME NEW k \in Node, Recv(k)
      PROVE  UNCHANGED <<published, sending>> /\ \A p \in Node : axl'[p] \subseteq axl[p]
  BY <1>6 DEF Recv, BusInv, Types
<1>7. ASSUME NEW k \in Node, WriteToDb(k) \/ WriteFails(k) \/ Crash(k)
      PROVE  sending' = [sending EXCEPT ![k] = Idle] /\ UNCHANGED <<published, axl>>
  BY <1>7 DEF WriteToDb, WriteFails, Crash
<1>8. (\E k \in Reader : Subscribe(k) \/ Handle(k)) \/ ClearNetwork =>
        UNCHANGED <<published, sending, axl>>
  BY DEF Subscribe, Handle, ClearNetwork
<1> QED
  BY <1>1, <1>2, <1>3, <1>4, <1>5, <1>6, <1>7, <1>8 DEF Next, Publishing

\* A message has one sender, which sends it to each peer once.
LEMMA SentOnceStep ==
  ASSUME BusInv, SentOnce, PeersDiffer, [Next]_vars
  PROVE  SentOnce'
<1>0. published \in Nat /\ \A n \in Node : sending[n] = Idle \/ sending[n].msg \in 1..published
  BY BusAssumption DEF BusInv, Types, SendKnown
<1>1. ASSUME UNCHANGED <<published, sending>>, \A p \in Node : axl'[p] \subseteq axl[p]
      PROVE  SentOnce'
  BY <1>1 DEF SentOnce, ToSend
<1>2. ASSUME NEW k \in Node, sending' = [sending EXCEPT ![k] = Idle], UNCHANGED <<published, axl>>
      PROVE  SentOnce'
  <2>1. /\ sending'[k] = Idle /\ sending'[k].msg = 0 /\ sending'[k].to = <<>>
        /\ \A n \in Node \ {k} : sending'[n] = sending[n]
        /\ \A p, m : ~ToSend(k, p, m)'
    BY <1>2, SendingEnds DEF BusInv
  <2>2. \A l, n \in Node : sending'[l] # Idle /\ sending'[l].msg = sending'[n].msg => l = n
    BY <1>0, <2>1 DEF SentOnce
  <2>3. \A n \in Node : \A i, j \in 1..Len(sending'[n].to) :
          i # j => sending'[n].to[i] # sending'[n].to[j]
    <3>1. Len(<<>>) = 0
      OBVIOUS
    <3> QED
      BY <2>1, <3>1 DEF SentOnce
  <2>4. \A p, n \in Node : \A m : ToSend(n, p, m)' => ToSend(n, p, m)
    BY <2>1 DEF ToSend
  <2> QED
    BY <1>2, <2>2, <2>3, <2>4 DEF SentOnce
<1>3. ASSUME NEW k \in Node, Publish(k)
      PROVE  SentOnce'
  <2>1. /\ published' = published + 1 /\ axl' = axl
        /\ sending'[k].msg = published + 1
        /\ sending'[k].to \in {Peers, <<>>}
        /\ \A n \in Node \ {k} : sending'[n] = sending[n]
    BY <1>3 DEF Publish, BusInv, Types
  <2>2. \A n \in Node : sending[n].msg # published + 1
    BY <1>0 DEF Idle
  <2>3. \A l, n \in Node : sending'[l] # Idle /\ sending'[l].msg = sending'[n].msg => l = n
    BY <2>1, <2>2 DEF SentOnce
  <2>4. \A n \in Node : \A i, j \in 1..Len(sending'[n].to) :
          i # j => sending'[n].to[i] # sending'[n].to[j]
    <3>1. Len(<<>>) = 0
      OBVIOUS
    <3> QED
      BY <2>1, <3>1 DEF SentOnce, PeersDiffer
  <2>5. ASSUME NEW p \in Node, NEW m \in axl[p]
        PROVE  p \in Peer /\ m <= published + 1 /\ \A n \in Node : ~ToSend(n, p, m)'
    <3>1. /\ m \in Nat /\ m <= published /\ p \in Peer
          /\ \A n \in Node : ~ToSend(n, p, m)
      <4>1. m \in Nat
        BY DEF BusInv, Types, Msg
      <4>2. m <= published /\ p \in Peer /\ \A n \in Node : ~ToSend(n, p, m)
        BY DEF SentOnce
      <4> QED
        BY <4>1, <4>2
    <3> QED
      BY <1>0, <2>1, <3>1 DEF ToSend
  <2> QED
    BY <2>1, <2>3, <2>4, <2>5 DEF SentOnce
<1>4. ASSUME NEW k \in Node, Send(k)
      PROVE  SentOnce'
  <2> DEFINE q == sending[k].to[1]
  <2>1. /\ Len(sending[k].to) \in Nat \ {0} /\ published' = published
        /\ sending[k] # Idle /\ sending[k].msg \in 1..published /\ q \in Peer
        /\ sending'[k].msg = sending[k].msg
        /\ Len(sending'[k].to) = Len(sending[k].to) - 1
        /\ \A i \in 1..Len(sending'[k].to) : sending'[k].to[i] = sending[k].to[i + 1]
        /\ \A n \in Node \ {k} : sending'[n] = sending[n]
        /\ \A p \in Node : \A x \in axl'[p] : x \in axl[p] \/ (p = q /\ x = sending[k].msg)
    BY <1>4, SendingGoesOn DEF Send
  <2>2. \A l, n \in Node : sending'[l] # Idle /\ sending'[l].msg = sending'[n].msg => l = n
    BY <2>1 DEF SentOnce
  <2>3. \A i \in 1..Len(sending'[k].to) : i + 1 \in 1..Len(sending[k].to) /\ i + 1 # 1
    BY <2>1
  <2>4. \A n \in Node : \A i, j \in 1..Len(sending'[n].to) :
          i # j => sending'[n].to[i] # sending'[n].to[j]
    <3>1. \A i, j \in 1..Len(sending'[k].to) : i # j => sending'[k].to[i] # sending'[k].to[j]
      <4> SUFFICES ASSUME NEW i \in 1..Len(sending'[k].to), NEW j \in 1..Len(sending'[k].to), i # j
                   PROVE  sending[k].to[i + 1] # sending[k].to[j + 1]
        <5>1. \A i \in 1..Len(sending'[k].to) : sending'[k].to[i] = sending[k].to[i + 1]
          BY <2>1
        <5> QED
          BY <5>1
      <4>1. i + 1 # j + 1
        OBVIOUS
      <4> QED
        BY <2>3, <4>1 DEF SentOnce
    <3> QED
      <4>1. \A n \in Node \ {k} : \A i, j \in 1..Len(sending'[n].to) :
              i # j => sending'[n].to[i] # sending'[n].to[j]
        BY <2>1 DEF SentOnce
      <4> QED
        BY <3>1, <4>1
  <2>5. \A p, n \in Node : \A m : ToSend(n, p, m)' => ToSend(n, p, m)
    <3> SUFFICES ASSUME NEW p \in Node, NEW m, ToSend(k, p, m)' PROVE ToSend(k, p, m)
      <4>1. \A n \in Node \ {k} : sending'[n] = sending[n]
        BY <2>1
      <4> QED
        BY <4>1 DEF ToSend
    <3>1. PICK i \in 1..Len(sending'[k].to) : sending'[k].to[i] = p
      BY DEF ToSend
    <3> QED
      BY <2>1, <2>3, <3>1 DEF ToSend
  <2>6. ASSUME NEW p \in Node, NEW m \in axl'[p], p = q, m = sending[k].msg, NEW n \in Node
        PROVE  ~ToSend(n, p, m)'
    <3> SUFFICES ASSUME sending'[n].msg = sending[k].msg,
                        NEW i \in 1..Len(sending'[n].to), sending'[n].to[i] = q
                 PROVE  FALSE
      BY <2>6 DEF ToSend
    <3>1. n = k
      BY <2>1 DEF SentOnce
    <3>2. sending[k].to[i + 1] = sending[k].to[1] /\ i + 1 \in 1..Len(sending[k].to) /\ 1 \in 1..Len(sending[k].to)
      <4>1. sending'[k].to[i] = sending[k].to[i + 1] /\ i + 1 \in 1..Len(sending[k].to)
        BY <2>1, <2>3, <3>1
      <4>2. 1 \in 1..Len(sending[k].to)
        <5>1. Len(sending[k].to) \in Nat \ {0}
          BY <2>1
        <5> QED
          BY <5>1
      <4> QED
        BY <3>1, <4>1, <4>2
    <3> QED
      BY <2>3, <3>1, <3>2 DEF SentOnce
  <2>7. ASSUME NEW p \in Node, NEW m \in axl'[p]
        PROVE  p \in Peer /\ m <= published /\ \A n \in Node : ~ToSend(n, p, m)'
    <3>1. CASE m \in axl[p]
      BY <2>5, <3>1 DEF SentOnce
    <3>2. CASE p = q /\ m = sending[k].msg
      <4>1. p \in Peer /\ m <= published
        BY <1>0, <2>1, <3>2
      <4>2. \A n \in Node : ~ToSend(n, p, m)'
        BY <2>6, <3>2
      <4> QED
        BY <4>1, <4>2
    <3> QED
      BY <2>1, <3>1, <3>2
  <2> QED
    <3>1. published' = published
      BY <1>4 DEF Send
    <3> HIDE DEF q
    <3> QED
      BY <2>2, <2>4, <2>7, <3>1 DEF SentOnce
<1>5. CASE UNCHANGED vars
  BY <1>1, <1>5 DEF vars
<1>6. ASSUME NEW k \in Node, Recv(k)
      PROVE  UNCHANGED <<published, sending>> /\ \A p \in Node : axl'[p] \subseteq axl[p]
  BY <1>6 DEF Recv, BusInv, Types
<1>7. ASSUME NEW k \in Node, WriteToDb(k) \/ WriteFails(k) \/ Crash(k)
      PROVE  sending' = [sending EXCEPT ![k] = Idle] /\ UNCHANGED <<published, axl>>
  BY <1>7 DEF WriteToDb, WriteFails, Crash
<1>8. (\E k \in Reader : Subscribe(k) \/ Handle(k)) \/ ClearNetwork =>
        UNCHANGED <<published, sending, axl>>
  BY DEF Subscribe, Handle, ClearNetwork
<1> QED
  BY <1>1, <1>2, <1>3, <1>4, <1>5, <1>6, <1>7, <1>8 DEF Next, Publishing

\* The messages of entries that grow or lose their first.
LEMMA MsgsNone == Msgs(<<>>) = {} /\ Differ(<<>>)
<1>1. Len(<<>>) = 0
  OBVIOUS
<1> QED
  BY <1>1 DEF Msgs, Differ

LEMMA MsgsGrow ==
  ASSUME NEW s \in Seq(Entries), NEW e \in Entries
  PROVE  /\ Msgs(Append(s, e)) = Msgs(s) \cup {e.msg}
         /\ Differ(s) /\ e.msg \notin Msgs(s) => Differ(Append(s, e))
<1> DEFINE t == Append(s, e)
<1>1. /\ Len(s) \in Nat /\ Len(t) = Len(s) + 1
      /\ \A i \in 1..Len(s) : t[i] = s[i]
      /\ t[Len(s) + 1] = e
  BY GrowsByOne
<1> HIDE DEF t
<1>2. \A i \in 1..Len(t) : i \in 1..Len(s) \/ i = Len(s) + 1
  BY <1>1
<1>3. Len(s) + 1 \in 1..Len(t) /\ \A i \in 1..Len(s) : i \in 1..Len(t)
  BY <1>1
<1>4. Msgs(t) = Msgs(s) \cup {e.msg}
  BY <1>1, <1>2, <1>3 DEF Msgs
<1>5. ASSUME Differ(s), e.msg \notin Msgs(s) PROVE Differ(t)
  BY <1>1, <1>2, <1>5 DEF Differ, Msgs
<1> QED
  BY <1>4, <1>5 DEF t

LEMMA MsgsRest ==
  ASSUME NEW s \in Seq(Entries), s # <<>>
  PROVE  /\ Msgs(s) = {s[1].msg} \cup Msgs(Tail(s))
         /\ Differ(s) => Differ(Tail(s)) /\ s[1].msg \notin Msgs(Tail(s))
<1> DEFINE t == Tail(s)
<1>1. /\ Len(s) \in Nat \ {0} /\ Len(t) = Len(s) - 1
      /\ \A i \in 1..Len(t) : t[i] = s[i + 1]
  BY LosesFirst
<1> HIDE DEF t
<1>2. \A i \in 1..Len(t) : i + 1 \in 1..Len(s) /\ i + 1 # 1
  BY <1>1
<1>3. \A i \in 1..Len(s) : i = 1 \/ (i - 1 \in 1..Len(t) /\ s[i] = t[i - 1])
  BY <1>1
<1>4. 1 \in 1..Len(s)
  BY <1>1
<1>5. Msgs(s) = {s[1].msg} \cup Msgs(t)
  <2>1. ASSUME NEW x \in Msgs(s) PROVE x \in {s[1].msg} \cup Msgs(t)
    BY <1>3, <2>1 DEF Msgs
  <2>2. ASSUME NEW x \in {s[1].msg} \cup Msgs(t) PROVE x \in Msgs(s)
    BY <1>1, <1>2, <1>4, <2>2 DEF Msgs
  <2> QED
    BY <2>1, <2>2
<1>6. ASSUME Differ(s) PROVE Differ(t) /\ s[1].msg \notin Msgs(t)
  <2>1. s[1].msg \notin Msgs(t)
    BY <1>1, <1>2, <1>4, <1>6 DEF Differ, Msgs
  <2>2. ASSUME NEW i \in 1..Len(t), NEW j \in 1..Len(t), i # j PROVE t[i].msg # t[j].msg
    <3>1. i + 1 # j + 1
      BY <2>2
    <3> QED
      BY <1>1, <1>2, <1>6, <3>1 DEF Differ
  <2> QED
    BY <2>1, <2>2 DEF Differ
<1> QED
  BY <1>5, <1>6 DEF t

TakenAt(n) == /\ \A m \in Held(n) \cup Past(n) : ~Reachable(n, m)
              /\ Once(inbox[n], batch[n], handled[n], Past(n))

LEMMA NodeTypes ==
  ASSUME BusInv, NEW n \in Node
  PROVE  /\ inbox[n] \in Seq(Entries) /\ batch[n] \in Seq(Entries) /\ handled[n] \in Seq(Entries)
         /\ before[n] \subseteq Msg /\ lost[n] \subseteq Msg
         /\ Held(n) \cup Past(n) \subseteq Msg
<1>1. /\ inbox[n] \in Seq(Entries) /\ batch[n] \in Seq(Entries) /\ handled[n] \in Seq(Entries)
      /\ before[n] \subseteq Msg /\ lost[n] \subseteq Msg
  BY DEF BusInv, Types
<1> QED
  BY <1>1, MsgsType DEF Held, Past

\* What has been on its way to a node and is no more does not come again.
LEMMA NotAgain ==
  ASSUME BusInv, NEW n \in Node, TakenAt(n), [Next]_vars,
         NEW m \in Held(n) \cup Past(n)
  PROVE  ~Reachable(n, m)'
<1>1. m \in Msg /\ ~Reachable(n, m)
  BY NodeTypes DEF TakenAt
<1>2. m <= published
  BY <1>1, BusAssumption DEF Reachable, BusInv, Types, Msg
<1> QED
  BY <1>1, <1>2, NothingNew

LEMMA UntouchedTaken ==
  ASSUME BusInv, NEW n \in Node, TakenAt(n), [Next]_vars,
         inbox'[n] = inbox[n], batch'[n] = batch[n], handled'[n] = handled[n],
         before'[n] = before[n], lost'[n] = lost[n]
  PROVE  TakenAt(n)'
<1>1. Held(n)' = Held(n) /\ Past(n)' = Past(n)
  BY DEF Held, Past
<1>2. \A m \in Held(n) \cup Past(n) : ~Reachable(n, m)'
  BY NotAgain
<1>3. Once(inbox[n], batch[n], handled[n], Past(n))'
  BY <1>1 DEF TakenAt
<1> QED
  BY <1>1, <1>2, <1>3 DEF TakenAt

LEMMA RecvTaken ==
  ASSUME BusInv, SentOnce, NEW n \in Node, TakenAt(n), Recv(n), [Next]_vars
  PROVE  TakenAt(n)'
<1>1. PICK m \in axl[n] : /\ axl' = [axl EXCEPT ![n] = @ \ {m}]
                          /\ inbox' = [inbox EXCEPT ![n] = Append(@, [id |-> 0, msg |-> m])]
  BY DEF Recv
<1>2. UNCHANGED <<published, sending, batch, handled, before, lost>>
  BY DEF Recv
<1> DEFINE e == [id |-> 0, msg |-> m]
<1>3. m \in Msg /\ e \in Entries /\ inbox'[n] = Append(inbox[n], e) /\ e.msg = m
  BY <1>1 DEF BusInv, Types, Entries
<1> HIDE DEF e
<1>4. m \notin Held(n) \cup Past(n)
  BY <1>1 DEF TakenAt, Reachable
<1>5. /\ Msgs(inbox'[n]) = Msgs(inbox[n]) \cup {m} /\ Differ(inbox'[n])
  BY <1>3, <1>4, MsgsGrow, NodeTypes DEF TakenAt, Once, Held
<1>6. Past(n)' = Past(n) /\ Held(n)' = Held(n) \cup {m}
  BY <1>2, <1>5 DEF Past, Held
<1>7. ~Reachable(n, m)'
  <2>1. m \notin axl'[n] /\ m <= published /\ published \in Nat /\ m \in Nat
    BY <1>1, <1>3, BusAssumption DEF SentOnce, BusInv, Types, Msg
  <2>2. \A k \in Node : ~ToSend(k, n, m)'
    BY <1>1, <1>2 DEF SentOnce, ToSend
  <2> QED
    BY <1>2, <2>1, <2>2 DEF Reachable
<1>8. \A x \in Held(n) \cup Past(n) : ~Reachable(n, x)'
  BY NotAgain
<1>9. Once(inbox'[n], batch[n], handled[n], Past(n))
  BY <1>4, <1>5 DEF TakenAt, Once, Held
<1> QED
  BY <1>2, <1>6, <1>7, <1>8, <1>9 DEF TakenAt

LEMMA SubscribeTaken ==
  ASSUME BusInv, NEW n \in Node, live[n], TakenAt(n), Subscribe(n), [Next]_vars
  PROVE  TakenAt(n)'
<1>1. /\ batch[n] = <<>> /\ batch'[n] = inbox[n] /\ inbox'[n] = <<>>
      /\ UNCHANGED <<handled, before, lost>>
  BY DEF Subscribe, BusInv, Types
<1>2. Msgs(<<>>) = {} /\ Differ(<<>>)
  BY MsgsNone
<1>3. Held(n)' = Held(n) /\ Past(n)' = Past(n)
  BY <1>1, <1>2 DEF Held, Past
<1>4. Once(<<>>, inbox[n], handled[n], Past(n))
  BY <1>1, <1>2 DEF TakenAt, Once
<1>5. \A x \in Held(n) \cup Past(n) : ~Reachable(n, x)'
  BY NotAgain
<1> QED
  BY <1>1, <1>3, <1>4, <1>5 DEF TakenAt

LEMMA HandleTaken ==
  ASSUME BusInv, NEW n \in Node, live[n], TakenAt(n), Handle(n), [Next]_vars
  PROVE  TakenAt(n)'
<1> DEFINE e == batch[n][1]
           rest == Tail(batch[n])
<1>1. /\ batch[n] \in Seq(Entries) /\ batch[n] # <<>> /\ handled[n] \in Seq(Entries)
      /\ UNCHANGED <<inbox, before>>
  BY NodeTypes DEF Handle
<1>2. /\ e \in Entries /\ handled'[n] = Append(handled[n], e)
      /\ \/ batch'[n] = rest /\ lost'[n] = lost[n]
         \/ batch'[n] = <<>> /\ lost'[n] = lost[n] \cup Msgs(rest)
  BY HandleFacts DEF BusInv
<1>3. /\ Msgs(batch[n]) = {e.msg} \cup Msgs(rest)
      /\ Differ(rest) /\ e.msg \notin Msgs(rest)
  BY <1>1, MsgsRest DEF TakenAt, Once
<1> HIDE DEF e, rest
<1>4. /\ Msgs(handled'[n]) = Msgs(handled[n]) \cup {e.msg}
      /\ Differ(handled'[n])
  <2>1. e.msg \notin Msgs(handled[n])
    BY <1>3 DEF TakenAt, Once
  <2> QED
    BY <1>1, <1>2, <2>1, MsgsGrow DEF TakenAt, Once
<1>5. Msgs(<<>>) = {} /\ Differ(<<>>)
  BY MsgsNone
<1>6. (Held(n) \cup Past(n))' \subseteq Held(n) \cup Past(n)
  BY <1>1, <1>2, <1>3, <1>4, <1>5 DEF Held, Past
<1>7. Once(inbox[n], batch'[n], handled'[n], Past(n)')
  BY <1>1, <1>2, <1>3, <1>4, <1>5 DEF TakenAt, Once, Past
<1>8. \A x \in Held(n) \cup Past(n) : ~Reachable(n, x)'
  BY NotAgain
<1> QED
  BY <1>1, <1>6, <1>7, <1>8 DEF TakenAt

\* A node that forgets what it has in memory has had it.
LEMMA ForgetsTaken ==
  ASSUME BusInv, NEW n \in Node, live[n], TakenAt(n), [Next]_vars,
         inbox'[n] \in {inbox[n], <<>>}, batch'[n] \in {batch[n], <<>>},
         handled'[n] \in {handled[n], <<>>},
         Past(n) \subseteq Past(n)',
         Past(n)' \ Past(n) \subseteq (Held(n) \ Held(n)')
  PROVE  TakenAt(n)'
<1>1. Msgs(<<>>) = {} /\ Differ(<<>>)
  BY MsgsNone
<1>2. /\ Msgs(inbox'[n]) \subseteq Msgs(inbox[n]) /\ Msgs(batch'[n]) \subseteq Msgs(batch[n])
      /\ Msgs(handled'[n]) \subseteq Msgs(handled[n])
  BY <1>1
<1>3. (Held(n) \cup Past(n))' \subseteq Held(n) \cup Past(n)
  BY <1>2 DEF Held
<1>4. Once(inbox'[n], batch'[n], handled'[n], Past(n)')
  <2>1. Differ(inbox'[n]) /\ Differ(batch'[n]) /\ Differ(handled'[n])
    BY <1>1 DEF TakenAt, Once
  <2>2. /\ Msgs(inbox'[n]) \cap Msgs(batch'[n]) = {}
        /\ Msgs(inbox'[n]) \cap Msgs(handled'[n]) = {}
        /\ Msgs(batch'[n]) \cap Msgs(handled'[n]) = {}
    BY <1>2 DEF TakenAt, Once
  <2>3. (Msgs(inbox'[n]) \cup Msgs(batch'[n]) \cup Msgs(handled'[n])) \cap Past(n)' = {}
    BY <1>2 DEF TakenAt, Once, Held
  <2> QED
    BY <2>1, <2>2, <2>3 DEF Once
<1>5. \A x \in Held(n) \cup Past(n) : ~Reachable(n, x)'
  BY NotAgain
<1> QED
  BY <1>3, <1>4, <1>5 DEF TakenAt

LEMMA WriteFailsTaken ==
  ASSUME BusInv, NEW n \in Node, live[n], TakenAt(n), WriteFails(n), [Next]_vars
  PROVE  TakenAt(n)'
<1>1. /\ batch'[n] = <<>> /\ lost'[n] = lost[n] \cup Msgs(batch[n])
      /\ UNCHANGED <<inbox, handled, before>>
  <2>1. batch[n] \in Seq(Entries)
    BY NodeTypes
  <2> QED
    BY <2>1, AbandonKeeps DEF WriteFails, BusInv
<1>2. Past(n)' = Past(n) \cup Msgs(batch[n])
  BY <1>1 DEF Past
<1>3. Past(n)' \ Past(n) \subseteq (Held(n) \ Held(n)')
  BY <1>1, <1>2, MsgsNone DEF TakenAt, Once, Held
<1> QED
  BY <1>1, <1>2, <1>3, ForgetsTaken

LEMMA CrashTaken ==
  ASSUME BusInv, NEW n \in Node, live[n], TakenAt(n), Crash(n), [Next]_vars
  PROVE  TakenAt(n)'
<1>1. /\ batch'[n] = <<>> /\ inbox'[n] = <<>> /\ handled'[n] = <<>>
      /\ before'[n] = before[n] \cup Msgs(handled[n])
      /\ lost'[n] = lost[n] \cup Msgs(batch[n]) \cup Msgs(inbox[n])
  BY DEF Crash, BusInv, Types
<1>2. Past(n)' = Past(n) \cup Held(n) /\ Held(n)' = {}
  BY <1>1, MsgsNone DEF Past, Held
<1> QED
  BY <1>1, <1>2, ForgetsTaken

LEMMA TakenOnceStep ==
  ASSUME BusInv, SentOnce, TakenOnce, [Next]_vars
  PROVE  TakenOnce'
<1> SUFFICES ASSUME NEW n \in Node, live[n] PROVE TakenAt(n)'
  <2>1. live' = live
    BY DEF Next, Publishing, Publish, Send, WriteToDb, WriteFails, Recv, Subscribe, Handle, Crash,
           ClearNetwork, vars
  <2> QED
    <3>1. TakenOnce' <=> \A n \in Node : live'[n] => TakenAt(n)'
      BY DEF TakenOnce, TakenAt
    <3> QED
      BY <2>1, <3>1
<1>1. TakenAt(n)
  BY DEF TakenOnce, TakenAt
<1>2. CASE UNCHANGED <<inbox, batch, handled, before, lost>>
  BY <1>1, <1>2, UntouchedTaken
<1>3. ASSUME NEW k \in Node, Recv(k)
      PROVE  TakenAt(n)'
  <2>1. CASE k = n
    BY <1>1, <1>3, <2>1, RecvTaken
  <2>2. CASE k # n
    BY <1>1, <1>3, <2>2, UntouchedTaken DEF Recv, BusInv, Types
  <2> QED
    BY <2>1, <2>2
<1>4. ASSUME NEW k \in Node, Subscribe(k)
      PROVE  TakenAt(n)'
  <2>1. CASE k = n
    BY <1>1, <1>4, <2>1, SubscribeTaken
  <2>2. CASE k # n
    BY <1>1, <1>4, <2>2, UntouchedTaken DEF Subscribe, BusInv, Types
  <2> QED
    BY <2>1, <2>2
<1>5. ASSUME NEW k \in Node, Handle(k)
      PROVE  TakenAt(n)'
  <2>1. CASE k = n
    BY <1>1, <1>5, <2>1, HandleTaken
  <2>2. CASE k # n
    <3>1. handled'[n] = handled[n] /\ batch'[n] = batch[n] /\ lost'[n] = lost[n]
      BY <1>5, <2>2, HandleFacts DEF BusInv
    <3> QED
      BY <1>1, <1>5, <3>1, UntouchedTaken DEF Handle
  <2> QED
    BY <2>1, <2>2
<1>6. ASSUME NEW k \in Node, WriteFails(k)
      PROVE  TakenAt(n)'
  <2>1. CASE k = n
    BY <1>1, <1>6, <2>1, WriteFailsTaken
  <2>2. CASE k # n
    <3>1. batch'[n] = batch[n] /\ lost'[n] = lost[n]
      BY <1>6, <2>2, AbandonKeeps, NodeTypes DEF WriteFails, BusInv
    <3> QED
      BY <1>1, <1>6, <3>1, UntouchedTaken DEF WriteFails
  <2> QED
    BY <2>1, <2>2
<1>7. ASSUME NEW k \in Node, Crash(k)
      PROVE  TakenAt(n)'
  <2>1. CASE k = n
    BY <1>1, <1>7, <2>1, CrashTaken
  <2>2. CASE k # n
    BY <1>1, <1>7, <2>2, UntouchedTaken DEF Crash, BusInv, Types
  <2> QED
    BY <2>1, <2>2
<1>8. ASSUME ClearNetwork
      PROVE  TakenAt(n)'
  <2>1. UNCHANGED <<batch, handled, before, lost>> /\ inbox'[n] \in {inbox[n], <<>>}
    BY <1>8 DEF ClearNetwork, BusInv, Types
  <2>2. Past(n)' = Past(n)
    BY <2>1 DEF Past
  <2> QED
    BY <1>1, <2>1, <2>2, ForgetsTaken
<1>9. ASSUME NEW k \in Node, Publish(k) \/ Send(k) \/ WriteToDb(k)
      PROVE  UNCHANGED <<inbox, batch, handled, before, lost>>
  BY <1>9 DEF Publish, Send, WriteToDb
<1>10. Reader \subseteq Node
  BY BusAssumption
<1> QED
  BY <1>2, <1>3, <1>4, <1>5, <1>6, <1>7, <1>8, <1>9, <1>10 DEF Next, Publishing, vars

\* Who wrote a message to the table does not get to write it again.
LEMMA WroteForGood ==
  ASSUME BusInv, [Next]_vars, NEW a \in Authors, NEW m \in Msg, Wrote(a, m)
  PROVE  Wrote(a, m)'
<1>1. a \subseteq Node
  BY BusAssumption DEF Authors, Peer
<1>2. m <= published
  BY DEF Wrote
<1> QED
  BY <1>1, <1>2, NothingNew DEF Wrote

LEMMA LiveStays == [Next]_vars => live' = live /\ Authors' = Authors
BY DEF Next, Publishing, Publish, Send, WriteToDb, WriteFails, Recv, Subscribe, Handle, Crash,
       ClearNetwork, vars, Authors

\* A row whose author has written no other of its message is authored.
LEMMA RowIsAuthored ==
  ASSUME BusInv, [Next]_vars, NEW by \in [1..Len(log) -> Authors], Authorship(by),
         NEW a \in Authors, NEW m \in Msg, Wrote(a, m)', log' = Append(log, m),
         \A i \in 1..Len(log) : log[i] = m => by[i] # a
  PROVE  RowsAreAuthored'
<1> DEFINE by1 == Append(by, a)
<1>1. /\ log \in Seq(Msg) /\ Len(log) \in Nat
      /\ Len(log') = Len(log) + 1
      /\ \A i \in 1..Len(log) : log'[i] = log[i]
      /\ log'[Len(log) + 1] = m
  BY LongerLog DEF BusInv, Types
<1>2. by \in Seq(Authors) /\ Len(by) = Len(log)
  BY <1>1
<1>3. /\ by1 \in Seq(Authors) /\ Len(by1) = Len(log) + 1
      /\ \A i \in 1..Len(log) : by1[i] = by[i]
      /\ by1[Len(log) + 1] = a
  BY <1>2, GrowsByOne
<1> HIDE DEF by1
<1>4. by1 \in [1..Len(log') -> Authors]
  BY <1>1, <1>3
<1>5. \A i \in 1..Len(log') : i \in 1..Len(log) \/ i = Len(log) + 1
  BY <1>1
<1>6. ASSUME NEW i \in 1..Len(log')
      PROVE  \E x : x = log'[i] /\ Wrote(by1[i], x)'
  <2>1. CASE i = Len(log) + 1
    BY <1>1, <1>3, <2>1
  <2>2. CASE i \in 1..Len(log)
    <3>1. log[i] \in Msg /\ Wrote(by[i], log[i]) /\ by[i] \in Authors
      BY <1>1, <2>2 DEF Authorship
    <3>2. PICK x \in Msg : x = log[i]
      BY <3>1
    <3>3. Wrote(by[i], x)'
      BY <3>1, <3>2, WroteForGood
    <3> QED
      BY <1>1, <1>3, <2>2, <3>2, <3>3
  <2> QED
    BY <1>5, <2>1, <2>2
<1>7. \A i \in 1..Len(log') : Wrote(by1[i], log[i])'
  BY <1>6 DEF Wrote, Reachable, ToSend
<1>8. \A i, j \in 1..Len(log') : i # j /\ log'[i] = log'[j] => by1[i] # by1[j]
  BY <1>1, <1>3, <1>5 DEF Authorship
<1>9. Authorship(by1)'
  BY <1>7, <1>8 DEF Authorship
<1> QED
  BY <1>4, <1>9, LiveStays DEF RowsAreAuthored

LEMMA AuthorsStep ==
  ASSUME BusInv, SentOnce, RowsAreAuthored, [Next]_vars
  PROVE  RowsAreAuthored'
<1>1. PICK by \in [1..Len(log) -> Authors] : Authorship(by)
  BY DEF RowsAreAuthored
<1>2. CASE UNCHANGED log
  <2>1. ASSUME NEW i \in 1..Len(log) PROVE \E x : x = log[i] /\ Wrote(by[i], x)'
    <3>1. log[i] \in Msg /\ Wrote(by[i], log[i])
      BY <1>1 DEF Authorship, BusInv, Types
    <3>2. PICK x \in Msg : x = log[i]
      BY <3>1
    <3>3. by[i] \in Authors
      OBVIOUS
    <3> QED
      BY <3>1, <3>2, <3>3, WroteForGood
  <2>2. \A i \in 1..Len(log) : Wrote(by[i], log[i])'
    BY <1>2, <2>1 DEF Wrote, Reachable, ToSend
  <2>3. Authorship(by)'
    BY <1>1, <1>2, <2>2 DEF Authorship
  <2> QED
    BY <1>2, <2>3, LiveStays DEF RowsAreAuthored
<1>3. ASSUME NEW k \in Node, WriteToDb(k)
      PROVE  RowsAreAuthored'
  <2>1. /\ log' = Append(log, sending[k].msg) /\ sending' = [sending EXCEPT ![k] = Idle]
        /\ sending[k] # Idle /\ published' = published
    BY <1>3 DEF WriteToDb
  <2>2. PICK m \in Msg : m = sending[k].msg
    BY <2>1, SendingType DEF BusInv, SendKnown, Types, Msg
  <2>3. /\ sending'[k].msg = 0 /\ \A n \in Node \ {k} : sending'[n] = sending[n]
    BY <2>1, SendingEnds DEF BusInv
  <2>4. \A n \in Node : sending'[n].msg # m
    BY <2>1, <2>2, <2>3 DEF SentOnce, Msg
  <2>5. m <= published
    BY <2>1, <2>2 DEF BusInv, SendKnown
  <2>6. {} \in Authors /\ Wrote({}, m)'
    BY <2>1, <2>4, <2>5 DEF Authors, Wrote
  <2>7. \A i \in 1..Len(log) : log[i] = m => by[i] # {}
    BY <1>1, <2>2 DEF Authorship, Wrote
  <2> QED
    BY <1>1, <2>1, <2>2, <2>6, <2>7, RowIsAuthored
<1>4. ASSUME NEW k \in Node, Recv(k), log' # log
      PROVE  RowsAreAuthored'
  <2>1. PICK m \in axl[k] : axl' = [axl EXCEPT ![k] = @ \ {m}] /\ log' = Append(log, m)
    BY <1>4 DEF Recv
  <2>2. /\ m \in Msg /\ live[k] /\ UNCHANGED <<published, sending>>
        /\ m \notin axl'[k]
    BY <1>4, <2>1 DEF Recv, BusInv, Types, ReadsInOrder
  <2>3. m <= published /\ k \in Peer /\ \A n \in Node : ~ToSend(n, k, m)
    BY <2>1 DEF SentOnce
  <2>4. {k} \in Authors
    BY <2>2, <2>3 DEF Authors
  <2>5. ~Reachable(k, m)'
    <3>1. ~(m > published)
      BY <2>2, <2>3, BusAssumption DEF BusInv, Types, Msg
    <3>2. \A n \in Node : ~ToSend(n, k, m)'
      BY <2>2, <2>3 DEF ToSend
    <3> QED
      BY <2>2, <3>1, <3>2 DEF Reachable
  <2>6. Wrote({k}, m)'
    BY <2>2, <2>3, <2>5 DEF Wrote
  <2>7. \A i \in 1..Len(log) : log[i] = m => by[i] # {k}
    BY <1>1, <2>1 DEF Authorship, Wrote, Reachable
  <2> QED
    BY <1>1, <2>1, <2>2, <2>4, <2>6, <2>7, RowIsAuthored
<1>5. (\E k \in Node : Publish(k) \/ Send(k) \/ WriteFails(k) \/ Crash(k))
      \/ (\E k \in Reader : Subscribe(k) \/ Handle(k)) \/ ClearNetwork \/ UNCHANGED vars => UNCHANGED log
  BY DEF Publish, Send, WriteFails, Crash, Subscribe, Handle, ClearNetwork, vars
<1> QED
  BY <1>2, <1>3, <1>4, <1>5 DEF Next, Publishing

\* The rows of a longer log are those of the shorter one.
LEMMA RowsStay ==
  ASSUME BusInv, NEW n \in Node, ~live[n], Rows(cursor[n], batch[n], handled[n], log),
         Len(log') \in Nat, Len(log) <= Len(log'), \A i \in 1..Len(log) : log'[i] = log[i]
  PROVE  Rows(cursor[n], batch[n], handled[n], log')
<1>1. /\ batch[n] \in Seq(Entries) /\ cursor[n] \in Nat /\ Len(log) \in Nat
      /\ InOrder(cursor[n], batch[n], Len(log), wiped)
  BY DEF BusInv, Types, ReadsInOrder
<1>2. \A i \in 1..Len(batch[n]) : batch[n][i].id \in 1..Len(log)
  BY <1>1, IdsAreNat DEF InOrder
<1>3. \A i \in 1..Len(handled[n]) : handled[n][i].id \in 1..Len(log)
  BY <1>1 DEF Rows
<1>4. \A i \in 1..Len(handled[n]) : handled[n][i].id <= Len(log')
  BY <1>1, <1>3
<1> QED
  BY <1>2, <1>3, <1>4 DEF Rows

\* A node that takes up the next of its batch has not taken up that row before.
LEMMA HandleRows ==
  ASSUME BusInv, NEW n \in Node, ~live[n], Rows(cursor[n], batch[n], handled[n], log), Handle(n)
  PROVE  Rows(cursor'[n], batch'[n], handled'[n], log)
<1> DEFINE e == batch[n][1]
           h == handled[n]
           h1 == handled'[n]
           b1 == batch'[n]
<1>1. /\ batch[n] \in Seq(Entries) /\ cursor[n] \in Nat /\ Len(log) \in Nat
      /\ h \in Seq(Entries) /\ batch[n] # <<>>
      /\ InOrder(cursor[n], batch[n], Len(log), wiped)
  BY DEF BusInv, Types, ReadsInOrder, Handle
<1>2. /\ e \in Entries /\ e.id \in Nat /\ cursor'[n] = e.id /\ h1 = Append(h, e)
      /\ Len(batch[n]) \in Nat \ {0}
      /\ Len(Tail(batch[n])) = Len(batch[n]) - 1
      /\ \A i \in 1..Len(Tail(batch[n])) : Tail(batch[n])[i] = batch[n][i + 1]
      /\ b1 = Tail(batch[n]) \/ b1 = <<>>
  BY HandleFacts DEF BusInv
<1>3. 1 \in 1..Len(batch[n]) /\ cursor[n] < e.id /\ e.id <= Len(log) /\ e.msg = log[e.id]
  BY <1>1, <1>2 DEF InOrder, Rows
<1>4. \A i \in 1..Len(b1) : b1[i].msg = log[b1[i].id]
  <2>1. Len(<<>>) = 0
    OBVIOUS
  <2>2. CASE b1 = <<>>
    BY <2>1, <2>2
  <2>3. CASE b1 = Tail(batch[n])
    <3>1. \A i \in 1..Len(b1) : b1[i] = batch[n][i + 1] /\ i + 1 \in 1..Len(batch[n])
      BY <1>2, <2>3
    <3> HIDE DEF b1
    <3> QED
      BY <3>1 DEF Rows
  <2> QED
    BY <1>2, <2>2, <2>3
<1> HIDE DEF e, b1
<1>5. /\ Len(h1) = Len(h) + 1 /\ Len(h) \in Nat /\ h1[Len(h) + 1] = e
      /\ \A i \in 1..Len(h) : h1[i] = h[i]
  BY <1>1, <1>2, GrowsByOne
<1> HIDE DEF h1
<1>6. \A i \in 1..Len(h1) : i \in 1..Len(h) \/ i = Len(h) + 1
  BY <1>5
<1>7. \A i \in 1..Len(h) : /\ h[i].id \in 1..cursor[n] /\ h[i].id <= Len(log)
                           /\ h[i].msg = log[h[i].id]
  BY DEF Rows
<1>8. \A i \in 1..Len(h) : h[i].id \in 1..e.id /\ h[i].id # e.id
  BY <1>1, <1>2, <1>3, <1>7
<1>9. e.id \in 1..e.id
  BY <1>1, <1>2, <1>3
<1>10. \A i \in 1..Len(h1) : /\ h1[i].id \in 1..e.id /\ h1[i].id <= Len(log)
                             /\ h1[i].msg = log[h1[i].id]
  BY <1>3, <1>5, <1>6, <1>7, <1>8, <1>9
<1>11. \A i, j \in 1..Len(h1) : i # j => h1[i].id # h1[j].id
  <2>1. \A i, j \in 1..Len(h) : i # j => h[i].id # h[j].id
    BY DEF Rows
  <2> HIDE DEF h
  <2> QED
    BY <1>5, <1>6, <1>8, <2>1
<1> QED
  BY <1>2, <1>4, <1>10, <1>11 DEF Rows, h1, b1

LEMMA ReadsRowsStep ==
  ASSUME BusInv, ReadsRows, [Next]_vars
  PROVE  ReadsRows'
<1> SUFFICES ASSUME NEW n \in Node, ~live[n]
             PROVE  Rows(cursor'[n], batch'[n], handled'[n], log')
  BY LiveStays DEF ReadsRows
<1>1. Rows(cursor[n], batch[n], handled[n], log)
  BY DEF ReadsRows
<1>2. Len(log) \in Nat /\ Len(<<>>) = 0
  BY DEF BusInv, Types
<1>3. CASE UNCHANGED <<log, cursor, batch, handled>>
  BY <1>1, <1>3
<1>4. ASSUME NEW m \in Msg, log' = Append(log, m), UNCHANGED <<cursor, batch, handled>>
      PROVE  Rows(cursor'[n], batch'[n], handled'[n], log')
  <2>1. Len(log') \in Nat /\ Len(log) <= Len(log') /\ \A i \in 1..Len(log) : log'[i] = log[i]
    BY <1>4, LongerLog
  <2> QED
    BY <1>1, <1>4, <2>1, RowsStay
<1>5. ASSUME NEW k \in Node, WriteToDb(k)
      PROVE  Rows(cursor'[n], batch'[n], handled'[n], log')
  <2>1. sending[k].msg \in Msg
    BY <1>5, SendingType DEF WriteToDb, BusInv, SendKnown, Types, Msg
  <2> QED
    BY <1>4, <1>5, <2>1 DEF WriteToDb
<1>6. ASSUME NEW k \in Node, Recv(k)
      PROVE  Rows(cursor'[n], batch'[n], handled'[n], log')
  <2>1. PICK m \in axl[k] : log' \in {log, Append(log, m)}
    BY <1>6 DEF Recv
  <2>2. m \in Msg /\ UNCHANGED <<cursor, batch, handled>>
    BY <1>6, <2>1 DEF Recv, BusInv, Types
  <2> QED
    BY <1>3, <1>4, <2>1, <2>2
<1>7. ASSUME NEW k \in Node, Subscribe(k)
      PROVE  Rows(cursor'[n], batch'[n], handled'[n], log')
  <2>1. UNCHANGED <<log, cursor, handled>>
    BY <1>7 DEF Subscribe
  <2>2. CASE k = n
    <3>1. batch'[n] = RowsAfter(cursor[n])
      BY <1>7, <2>2 DEF Subscribe, BusInv, Types
    <3>2. cursor[n] \in 0..Len(log)
      BY DEF BusInv, Types, ReadsInOrder, InOrder
    <3>3. \A i \in 1..Len(batch'[n]) : batch'[n][i].msg = log[batch'[n][i].id]
      BY <3>1, <3>2, RowsFollow DEF BusInv
    <3> QED
      BY <1>1, <2>1, <3>3 DEF Rows
  <2>3. CASE k # n
    BY <1>1, <1>7, <2>1, <2>3 DEF Subscribe, BusInv, Types
  <2> QED
    BY <2>2, <2>3
<1>8. ASSUME NEW k \in Node, Handle(k)
      PROVE  Rows(cursor'[n], batch'[n], handled'[n], log')
  <2>1. log' = log
    BY <1>8 DEF Handle
  <2>2. CASE k = n
    BY <1>1, <1>8, <2>1, <2>2, HandleRows
  <2>3. CASE k # n
    BY <1>1, <1>8, <2>1, <2>3, HandleFacts DEF BusInv
  <2> QED
    BY <2>2, <2>3
<1>9. ASSUME NEW k \in Node, WriteFails(k)
      PROVE  Rows(cursor'[n], batch'[n], handled'[n], log')
  <2>1. UNCHANGED <<log, cursor, handled>>
    BY <1>9 DEF WriteFails
  <2>2. batch'[n] \in {batch[n], <<>>}
    BY <1>9, AbandonKeeps, NodeTypes DEF WriteFails, BusInv
  <2> QED
    BY <1>1, <1>2, <2>1, <2>2 DEF Rows
<1>10. ASSUME NEW k \in Node, Crash(k)
       PROVE  Rows(cursor'[n], batch'[n], handled'[n], log')
  <2>1. CASE k = n
    <3>1. batch'[n] = <<>> /\ handled'[n] = <<>>
      BY <1>10, <2>1 DEF Crash, BusInv, Types
    <3> QED
      BY <1>2, <3>1 DEF Rows
  <2>2. CASE k # n
    BY <1>1, <1>10, <2>2 DEF Crash, BusInv, Types
  <2> QED
    BY <2>1, <2>2
<1>11. (\E k \in Node : Publish(k) \/ Send(k)) \/ ClearNetwork \/ UNCHANGED vars =>
         UNCHANGED <<log, cursor, batch, handled>>
  BY DEF Publish, Send, ClearNetwork, vars
<1>12. Reader \subseteq Node
  BY BusAssumption
<1> QED
  BY <1>3, <1>5, <1>6, <1>7, <1>8, <1>9, <1>10, <1>11, <1>12 DEF Next, Publishing

LEMMA OnceInit == Init => OnceInv
<1> SUFFICES ASSUME Init PROVE OnceInv
  OBVIOUS
<1>1. Len(<<>>) = 0 /\ Msgs(<<>>) = {} /\ Differ(<<>>)
  BY MsgsNone
<1>2. \A n \in Node : /\ sending[n] = Idle /\ sending[n].to = <<>> /\ axl[n] = {}
                      /\ Held(n) = {} /\ Past(n) = {}
  BY <1>1 DEF Init, Idle, Held, Past
<1>3. SentOnce
  BY <1>1, <1>2 DEF SentOnce
<1>4. TakenOnce
  BY <1>1, <1>2 DEF Init, TakenOnce, Once
<1>5. RowsAreAuthored
  <2>1. Len(log) = 0
    BY <1>1 DEF Init
  <2>2. [i \in 1..Len(log) |-> {}] \in [1..Len(log) -> Authors]
    BY DEF Authors
  <2>3. Authorship([i \in 1..Len(log) |-> {}])
    BY <2>1 DEF Authorship
  <2> QED
    BY <2>2, <2>3 DEF RowsAreAuthored
<1>6. ReadsRows
  BY <1>1 DEF Init, ReadsRows, Rows
<1> QED
  BY <1>3, <1>4, <1>5, <1>6 DEF OnceInv

LEMMA OnceStep == PeersDiffer /\ BusInv /\ OnceInv /\ [Next]_vars => OnceInv'
BY SentOnceStep, TakenOnceStep, AuthorsStep, ReadsRowsStep DEF OnceInv

LEMMA OnceInvariance == PeersDiffer => (Spec => []OnceInv)
<1> SUFFICES ASSUME PeersDiffer PROVE Spec => []OnceInv
  OBVIOUS
<1>1. BusInv /\ OnceInv /\ [Next]_vars => OnceInv'
  BY OnceStep
<1> QED
  BY <1>1, OnceInit, BusInvariance, PTL DEF Spec

\* There are no more authors than live peers and the publisher.
LEMMA FewAuthors ==
  IsFiniteSet(Authors) /\ Cardinality(Authors) <= 1 + Cardinality({p \in Peer : live[p]})
<1> DEFINE L == {p \in Peer : live[p]}
           S == {{p} : p \in L}
           f == [s \in S |-> CHOOSE p \in L : s = {p}]
<1>1. IsFiniteSet(L)
  <2>1. L \subseteq Node
    BY BusAssumption DEF Peer
  <2> QED
    BY <2>1, BusAssumption, FS_Subset
<1>2. \A s \in S : f[s] \in L /\ s = {f[s]}
  OBVIOUS
<1> HIDE DEF f
<1>3. f \in Injection(S, L)
  <2>1. f = [s \in S |-> f[s]]
    BY DEF f
  <2>2. f \in [S -> L]
    BY <1>2, <2>1
  <2>3. \A s, t \in S : f[s] = f[t] => s = t
    BY <1>2
  <2> QED
    BY <2>2, <2>3 DEF Injection, IsInjective
<1> HIDE DEF L, S
<1>4. IsFiniteSet(S) /\ Cardinality(S) <= Cardinality(L)
  BY <1>1, <1>3, FS_Injection
<1>5. Authors = S \cup {{}}
  BY DEF Authors, S, L
<1>6. /\ IsFiniteSet(S \cup {{}})
      /\ Cardinality(S \cup {{}}) = IF {} \in S THEN Cardinality(S) ELSE Cardinality(S) + 1
  BY <1>4, FS_AddElement
<1>7. Cardinality(S) \in Nat /\ Cardinality(L) \in Nat
  BY <1>1, <1>4, FS_CardinalityType
<1>8. Cardinality(Authors) <= 1 + Cardinality(L)
  BY <1>4, <1>5, <1>6, <1>7
<1> QED
  BY <1>5, <1>6, <1>8 DEF L

\* If no peer is listed twice, a live node takes up a message at most once, even over
\* restarts, and none that it has lost; a node that reads the table takes it up at
\* most once for its publisher and once for each live peer.
THEOREM TakenAtMostOnce == PeersDiffer => (Spec => []AtMostOnce)
<1> SUFFICES ASSUME PeersDiffer PROVE Spec => []AtMostOnce
  OBVIOUS
<1>1. BusInv /\ OnceInv => AtMostOnce
  <2> SUFFICES ASSUME BusInv, OnceInv, NEW n \in Reader, NEW m \in Msg
               PROVE  IF live[n]
                      THEN Times(n, m) <= IF m \in before[n] \cup lost[n] THEN 0 ELSE 1
                      ELSE Times(n, m) <= 1 + Cardinality({p \in Peer : live[p]})
    BY DEF AtMostOnce
  <2> DEFINE T1 == {i \in 1..Len(handled[n]) : handled[n][i].msg = m}
  <2>1. n \in Node /\ Times(n, m) = Cardinality(T1)
    BY BusAssumption DEF Times
  <2>2. CASE live[n]
    <3>1. Once(inbox[n], batch[n], handled[n], Past(n))
      BY <2>1, <2>2 DEF OnceInv, TakenOnce
    <3>2. \A i, j \in T1 : i = j
      BY <3>1 DEF Once, Differ
    <3>3. m \in before[n] \cup lost[n] => T1 = {}
      <4>1. \A i \in T1 : m \in Msgs(handled[n])
        BY DEF Msgs
      <4>2. Msgs(handled[n]) \cap (before[n] \cup lost[n]) = {}
        BY <3>1 DEF Once, Past
      <4> QED
        BY <4>1, <4>2
    <3>4. T1 = {} \/ \E i : T1 = {i}
      BY <3>2
    <3> HIDE DEF T1
    <3>5. T1 = {} => Cardinality(T1) = 0
      BY FS_EmptySet
    <3>6. (\E i : T1 = {i}) => Cardinality(T1) = 1
      BY FS_Singleton
    <3> QED
      BY <2>1, <2>2, <3>3, <3>4, <3>5, <3>6
  <2>3. CASE ~live[n]
    <3>1. PICK by \in [1..Len(log) -> Authors] : Authorship(by)
      BY DEF OnceInv, RowsAreAuthored
    <3>2. Rows(cursor[n], batch[n], handled[n], log)
      BY <2>1, <2>3 DEF OnceInv, ReadsRows
    <3>3. \A i \in T1 : /\ handled[n][i].id \in 1..Len(log)
                        /\ log[handled[n][i].id] = m
      <4>1. cursor[n] \in Nat /\ Len(log) \in Nat
        BY <2>1 DEF BusInv, Types
      <4> QED
        BY <3>2, <4>1 DEF Rows
    <3>4. \A i, j \in T1 : handled[n][i].id = handled[n][j].id => i = j
      BY <3>2 DEF Rows
    <3> DEFINE g == [i \in T1 |-> by[handled[n][i].id]]
    <3>5. g \in Injection(T1, Authors)
      <4>1. \A i \in T1 : by[handled[n][i].id] \in Authors
        BY <3>3
      <4>2. \A i, j \in T1 : by[handled[n][i].id] = by[handled[n][j].id] => i = j
        <5> SUFFICES ASSUME NEW i \in T1, NEW j \in T1,
                            by[handled[n][i].id] = by[handled[n][j].id]
                     PROVE  handled[n][i].id = handled[n][j].id
          BY <3>4
        <5>1. /\ handled[n][i].id \in 1..Len(log) /\ handled[n][j].id \in 1..Len(log)
              /\ log[handled[n][i].id] = log[handled[n][j].id]
          BY <3>3
        <5> QED
          BY <3>1, <5>1 DEF Authorship
      <4> HIDE DEF T1
      <4> QED
        BY <4>1, <4>2 DEF Injection, IsInjective
    <3>6. IsFiniteSet(T1) /\ Cardinality(T1) <= Cardinality(Authors)
      <4> HIDE DEF g, T1
      <4> QED
        BY <3>5, FewAuthors, FS_Injection
    <3>7. /\ Cardinality(T1) \in Nat /\ Cardinality(Authors) \in Nat
          /\ Cardinality({p \in Peer : live[p]}) \in Nat
      <4>1. IsFiniteSet({p \in Peer : live[p]})
        <5>1. {p \in Peer : live[p]} \subseteq Node
          BY BusAssumption DEF Peer
        <5> QED
          BY <5>1, BusAssumption, FS_Subset
      <4> HIDE DEF T1
      <4> QED
        BY <3>6, <4>1, FewAuthors, FS_CardinalityType
    <3> QED
      BY <2>1, <2>3, <3>6, <3>7, FewAuthors
  <2> QED
    BY <2>2, <2>3
<1> QED
  BY <1>1, OnceInvariance, BusInvariance, PTL
================================================================================
