---------------------------------- MODULE Bus ----------------------------------
(***************************************************************************)
(* One topic of the message bus: MockAXLNode of core/network.py, and the   *)
(* loop in which every daemon reads a topic,                               *)
(*   for msg in node.subscribe(topic, last_id): last_id = msg["id"]; ...   *)
(*                                                                         *)
(* A node is live when its AXL_NODE_URL variable is set: it sends what it  *)
(* publishes to each peer through its AXL node, and a thread of it moves   *)
(* what arrives into an inbox.  Every node, live or not, also writes to    *)
(* one SQLite table, which nodes that are not live read.  The variables    *)
(* are per daemon, so the two kinds may be mixed.                          *)
(***************************************************************************)
EXTENDS Naturals, Sequences, FiniteSets

CONSTANTS
  Node,         \* the processes that have a MockAXLNode
  Injector,     \* the one that calls clear_network, and reads nothing
  Peers,        \* AXL_PEER_KEYS, one list for all
  Publisher,    \* who publishes on the topic
  Reader,       \* the daemons that read it
  MaxMessages,  \* bound: messages published
  MaxCrashes    \* bound: processes that die

ASSUME BusAssumption ==
  /\ IsFiniteSet(Node) /\ Injector \in Node /\ Peers \in Seq(Node)
  /\ Publisher \subseteq Node /\ Reader \subseteq Node \ {Injector}
  /\ MaxMessages \in Nat /\ MaxCrashes \in Nat

VARIABLES
  live,       \* use_live_axl of each node
  published,  \* messages published so far; a message is its number
  sending,    \* the publish each node is in: the message, 0 for none, and the peers to go
  log,        \* the messages table; a row's place is its id, as AUTOINCREMENT never reuses one
  wiped,      \* rows up to this id have been deleted
  axl,        \* what each AXL node holds for /recv
  inbox,      \* _inbox[topic] of each live node
  batch,      \* what subscribe returned and has not been handled yet
  cursor,     \* last_id of each node
  handled,    \* history: what each node has taken up since it started
  before,     \* history: what it had taken up before
  lost,       \* history: what a live node had received and will not take up
  crashes

vars == <<live, published, sending, log, wiped, axl, inbox, batch, cursor,
          handled, before, lost, crashes>>

Msg  == 1..MaxMessages
Peer == {Peers[i] : i \in 1..Len(Peers)}

\* What subscribe returns: the payload and the id.  A live node's ids are clock
\* readings that it never compares: 0.
Entries == [id : Nat, msg : Msg]
Idle    == [msg |-> 0, to |-> <<>>]

Msgs(entries) == {entries[i].msg : i \in 1..Len(entries)}

Init ==
  /\ live \in [Node -> BOOLEAN]
  /\ published = 0
  /\ sending = [n \in Node |-> Idle]
  /\ log = <<>> /\ wiped = 0
  /\ axl = [n \in Node |-> {}]
  /\ inbox = [n \in Node |-> <<>>]
  /\ batch = [n \in Node |-> <<>>]
  /\ cursor = [n \in Node |-> 0]
  /\ handled = [n \in Node |-> <<>>]
  /\ before = [n \in Node |-> {}]
  /\ lost = [n \in Node |-> {}]
  /\ crashes = 0

\* publish: the envelope is built and signed; a live node goes through its peers.
Publish(n) ==
  /\ n \in Publisher
  /\ sending[n] = Idle /\ published < MaxMessages
  /\ published' = published + 1
  /\ sending' = [sending EXCEPT ![n] = [msg |-> published + 1,
                                        to  |-> IF live[n] THEN Peers ELSE <<>>]]
  /\ UNCHANGED <<live, log, wiped, axl, inbox, batch, cursor, handled, before, lost, crashes>>

\* POST /send to the next peer.  A refusal or a timeout is logged and forgotten.  A
\* message may also reach the peer's AXL node and leave it without reaching the inbox:
\* its TTL is over, or the drain thread finds no JSON, no topic or a bad envelope, or
\* there is no such thread because the peer is not live.
Send(n) ==
  /\ sending[n].to # <<>>
  /\ LET p == Head(sending[n].to) IN
       \/ axl' = axl
       \/ live[p] /\ axl' = [axl EXCEPT ![p] = @ \cup {sending[n].msg}]
  /\ sending' = [sending EXCEPT ![n].to = Tail(@)]
  /\ UNCHANGED <<live, published, log, wiped, inbox, batch, cursor, handled, before, lost, crashes>>

\* _write_to_db, when all peers have been tried.
WriteToDb(n) ==
  /\ sending[n] # Idle /\ sending[n].to = <<>>
  /\ log' = Append(log, sending[n].msg)
  /\ sending' = [sending EXCEPT ![n] = Idle]
  /\ UNCHANGED <<live, published, wiped, axl, inbox, batch, cursor, handled, before, lost, crashes>>

\* An exception reaches the daemon's loop: the rest of the batch is not handled in
\* this pass.  A live node will not see it again.
Abandon(n, rest) ==
  /\ batch' = [batch EXCEPT ![n] = <<>>]
  /\ lost' = [lost EXCEPT ![n] = IF live[n] THEN @ \cup Msgs(rest) ELSE @]

\* The database is locked: publish raises although its peers have the message.
WriteFails(n) ==
  /\ sending[n] # Idle /\ sending[n].to = <<>>
  /\ sending' = [sending EXCEPT ![n] = Idle]
  /\ Abandon(n, batch[n])
  /\ UNCHANGED <<live, published, log, wiped, axl, inbox, cursor, handled, before, crashes>>

\* Mutant: the inbox keeps only the latest message.
RecvLatest(n) ==
  /\ \E m \in axl[n] :
       /\ axl' = [axl EXCEPT ![n] = @ \ {m}]
       /\ inbox' = [inbox EXCEPT ![n] = <<[id |-> 0, msg |-> m]>>]
       /\ log' \in {log, Append(log, m)}
  /\ UNCHANGED <<live, published, sending, wiped, batch, cursor, handled, before, lost, crashes>>

\* _drain_axl_inbox in the background thread: fetch a message, in whatever order the
\* network brought them, append it to the inbox, and mirror it into the table for
\* monitors; that may fail.
Recv(n) ==
  /\ \E m \in axl[n] :
       /\ axl' = [axl EXCEPT ![n] = @ \ {m}]
       /\ inbox' = [inbox EXCEPT ![n] = Append(@, [id |-> 0, msg |-> m])]
       /\ log' \in {log, Append(log, m)}
  /\ UNCHANGED <<live, published, sending, wiped, batch, cursor, handled, before, lost, crashes>>

\* The rows of the table after id k, in order.
RowsAfter(k) ==
  LET first == IF k > wiped THEN k ELSE wiped
  IN  [i \in 1..(Len(log) - first) |-> [id |-> first + i, msg |-> log[first + i]]]

\* Mutant: the id is not asked for.
SubscribeAll(n) ==
  /\ sending[n] = Idle /\ batch[n] = <<>>
  /\ batch' = [batch EXCEPT ![n] = IF live[n] THEN inbox[n] ELSE RowsAfter(0)]
  /\ inbox' = [inbox EXCEPT ![n] = <<>>]
  /\ UNCHANGED <<live, published, sending, log, wiped, axl, cursor, handled, before, lost, crashes>>

\* Mutant: a live node returns its inbox and leaves it.
SubscribeCopies(n) ==
  /\ sending[n] = Idle /\ batch[n] = <<>>
  /\ batch' = [batch EXCEPT ![n] = IF live[n] THEN inbox[n] ELSE RowsAfter(cursor[n])]
  /\ UNCHANGED <<live, published, sending, log, wiped, axl, inbox, cursor, handled, before, lost, crashes>>

\* subscribe: a live node pops the whole inbox under its lock, whatever last_id is;
\* another one selects the rows after last_id.  Every row was written with an
\* envelope that verifies.
Subscribe(n) ==
  /\ sending[n] = Idle /\ batch[n] = <<>>
  /\ batch' = [batch EXCEPT ![n] = IF live[n] THEN inbox[n] ELSE RowsAfter(cursor[n])]
  /\ inbox' = [inbox EXCEPT ![n] = <<>>]
  /\ UNCHANGED <<live, published, sending, log, wiped, axl, cursor, handled, before, lost, crashes>>

\* Mutant: the cursor is set once for the batch.
HandleFromEnd(n) ==
  /\ sending[n] = Idle /\ batch[n] # <<>>
  /\ cursor' = [cursor EXCEPT ![n] = batch[n][Len(batch[n])].id]
  /\ handled' = [handled EXCEPT ![n] = Append(@, Head(batch[n]))]
  /\ \/ batch' = [batch EXCEPT ![n] = Tail(@)] /\ lost' = lost
     \/ Abandon(n, Tail(batch[n]))
  /\ UNCHANGED <<live, published, sending, log, wiped, axl, inbox, before, crashes>>

\* The loop takes up the next message: first the cursor moves, then the handler
\* runs.  It may raise, and the daemon then goes on with the next pass.
Handle(n) ==
  /\ sending[n] = Idle /\ batch[n] # <<>>
  /\ cursor' = [cursor EXCEPT ![n] = Head(batch[n]).id]
  /\ handled' = [handled EXCEPT ![n] = Append(@, Head(batch[n]))]
  /\ \/ batch' = [batch EXCEPT ![n] = Tail(@)] /\ lost' = lost
     \/ Abandon(n, Tail(batch[n]))
  /\ UNCHANGED <<live, published, sending, log, wiped, axl, inbox, before, crashes>>

\* A process dies and starts again: its AXL node and the table stay, the rest was
\* in memory.
Crash(n) ==
  /\ crashes < MaxCrashes
  /\ crashes' = crashes + 1
  /\ sending' = [sending EXCEPT ![n] = Idle]
  /\ inbox' = [inbox EXCEPT ![n] = <<>>]
  /\ batch' = [batch EXCEPT ![n] = <<>>]
  /\ cursor' = [cursor EXCEPT ![n] = 0]
  /\ handled' = [handled EXCEPT ![n] = <<>>]
  /\ before' = [before EXCEPT ![n] = @ \cup Msgs(handled[n])]
  /\ lost' = [lost EXCEPT ![n] = IF live[n] THEN @ \cup Msgs(batch[n]) \cup Msgs(inbox[n]) ELSE @]
  /\ UNCHANGED <<live, published, log, wiped, axl>>

\* Mutant: the ids of an emptied table start from 1 again.
ClearAndRenumber ==
  /\ sending[Injector] = Idle
  /\ IF live[Injector]
     THEN /\ inbox' = [inbox EXCEPT ![Injector] = <<>>]
          /\ UNCHANGED <<log, wiped>>
     ELSE /\ log' = <<>> /\ wiped' = 0
          /\ UNCHANGED inbox
  /\ UNCHANGED <<live, published, sending, axl, batch, cursor, handled, before, lost, crashes>>

\* clear_network: a live injector clears its own inbox and nobody else's; another
\* one deletes every row.
ClearNetwork ==
  /\ sending[Injector] = Idle
  /\ IF live[Injector]
     THEN /\ inbox' = [inbox EXCEPT ![Injector] = <<>>]
          /\ UNCHANGED wiped
     ELSE /\ wiped' = Len(log)
          /\ UNCHANGED inbox
  /\ UNCHANGED <<live, published, sending, log, axl, batch, cursor, handled, before, lost, crashes>>

Publishing(n) == Publish(n) \/ Send(n) \/ WriteToDb(n) \/ WriteFails(n)

\* The main thread of a daemon, past the start of a publication.
Loop(n) == Subscribe(n) \/ Handle(n) \/ Send(n) \/ WriteToDb(n) \/ WriteFails(n)

Next ==
  \/ \E n \in Node : Publishing(n) \/ Recv(n) \/ Crash(n)
  \/ \E n \in Reader : Subscribe(n) \/ Handle(n)
  \/ ClearNetwork

Spec == Init /\ [][Next]_vars

\* A daemon's loop goes on, and a process that died is started again.  Nothing is
\* assumed of AXL.
FairSpec == Spec /\ \A n \in Reader : WF_vars(Loop(n))

--------------------------------------------------------------------------------
\* Types; and what a node that is not live has fetched follows its cursor, in order:
\* subscribe never hands out a row a second time within one start of the daemon.
TypeOK ==
  /\ live \in [Node -> BOOLEAN]
  /\ published \in 0..MaxMessages
  /\ sending \in [Node -> [msg : 0..MaxMessages, to : Seq(Peer)]]
  /\ log \in Seq(Msg) /\ wiped \in 0..Len(log)
  /\ axl \in [Node -> SUBSET Msg]
  /\ inbox \in [Node -> Seq(Entries)] /\ batch \in [Node -> Seq(Entries)]
  /\ cursor \in [Node -> Nat] /\ handled \in [Node -> Seq(Entries)]
  /\ before \in [Node -> SUBSET Msg] /\ lost \in [Node -> SUBSET Msg]
  /\ crashes \in 0..MaxCrashes
  /\ \A n \in Node : ~live[n] =>
       /\ inbox[n] = <<>> /\ axl[n] = {}
       /\ \A i \in 1..Len(batch[n]) : cursor[n] < batch[n][i].id /\ batch[n][i].id <= Len(log)
       /\ \A i, j \in 1..Len(batch[n]) : i < j => batch[n][i].id < batch[n][j].id

\* How often node n has taken up m since it started.
Times(n, m) == Cardinality({i \in 1..Len(handled[n]) : handled[n][i].msg = m})

\* A live node takes up a message once at most, even over restarts, and none that it
\* has lost.  A node that reads the table takes up a message once for the row of its
\* publisher and once for each live peer that has mirrored it: once if nobody is live.
AtMostOnce ==
  \A n \in Reader, m \in Msg :
    IF live[n]
    THEN Times(n, m) <= IF m \in before[n] \cup lost[n] THEN 0 ELSE 1
    ELSE Times(n, m) <= 1 + Cardinality({p \in Peer : live[p]})

\* For nodes that are not live the table is the topic that Settlement and Negotiation
\* take it for, although a batch is read before it is handled, handlers raise in the
\* middle of one, and rows may be deleted under it.
T == INSTANCE Topic WITH
       rows <- log, reader <- {n \in Node : ~live[n]},
       position <- [n \in Node |-> IF live[n] THEN 0 ELSE cursor[n]]

ImplementsTopic == T!TopicSpec

Stored(m) == \E i \in (wiped + 1)..Len(log) : log[i] = m

\* A row is taken up by every daemon that reads the table, after each of its starts,
\* unless it is deleted: no handler that raises, no wipe and no message that was
\* published before keeps it away.
RowIsHandled ==
  \A n \in Reader, m \in Msg :
    ~live[n] /\ Stored(m) ~> m \in Msgs(handled[n]) \/ ~Stored(m)

\* What has reached the inbox of a live daemon is taken up, unless the daemon dies
\* or the handler of an earlier message of the same batch raises.
InboxIsHandled ==
  \A n \in Reader, m \in Msg :
    m \in Msgs(inbox[n]) ~> m \in Msgs(handled[n]) \cup lost[n]
================================================================================
