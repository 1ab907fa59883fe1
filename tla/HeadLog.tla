-------------------------------- MODULE HeadLog --------------------------------
(***************************************************************************)
(* What a reader may rely on of the receipt log: the head file, and the    *)
(* receipts it leads to, without the files AuditChain models.  A write     *)
(* that no other write has disturbed leaves its own receipt as the head.   *)
(* One that has been disturbed may leave any receipt in storage, or a file *)
(* that does not parse, or fail.  AuditChain implements this               *)
(* (AuditChain!ImplementsHeadLog), and AuditWalk builds on it.             *)
(***************************************************************************)
EXTENDS Naturals, Sequences

CONSTANTS
  Writer,       \* the processes that call write_artifact
  MaxReceipts   \* bound: receipts

ASSUME HeadLogAssumption == MaxReceipts \in Nat

VARIABLES
  receipts,  \* what has been stored; a receipt's number stands for its hash
  done,      \* the receipts whose write_artifact has returned
  head,      \* the hash in the head file; 0 for no file, Garbled for no JSON
  pc,        \* where each writer is in write_artifact
  base,      \* the head each writer has read
  mine,      \* the receipt each writer has stored
  crossed    \* the writers whose files another has had its hands on

hvars == <<receipts, done, head, pc, base, mine, crossed>>

Ids     == 1..MaxReceipts
Garbled == MaxReceipts + 1
Busy(w) == pc[w] # "idle"

\* trail is history: the receipts a walk from this one visits, oldest first.
TrailOf(h) == IF h \in DOMAIN receipts THEN receipts[h].trail ELSE <<>>

HInit ==
  /\ receipts = <<>> /\ done = {} /\ head = 0
  /\ pc = [w \in Writer |-> "idle"]
  /\ base = [w \in Writer |-> 0] /\ mine = [w \in Writer |-> 0]
  /\ crossed = [w \in Writer |-> FALSE]

\* Mutant: the head file is looked for in another directory than it was left in.
BeginElsewhere(w) ==
  /\ ~Busy(w)
  /\ pc' = [pc EXCEPT ![w] = "read"]
  /\ base' = [base EXCEPT ![w] = 0]
  /\ UNCHANGED <<receipts, done, head, mine, crossed>>

\* The head is read once, when the write begins; a file that does not parse
\* raises, and nothing is written.
Begin(w) ==
  /\ ~Busy(w) /\ head # Garbled
  /\ pc' = [pc EXCEPT ![w] = "read"]
  /\ base' = [base EXCEPT ![w] = head]
  /\ UNCHANGED <<receipts, done, head, mine, crossed>>

\* The receipt is in storage under its hash and names the head that was read.
Keep(w) ==
  LET n == Len(receipts) + 1
  IN
  /\ pc[w] = "read" /\ n \in Ids
  /\ pc' = [pc EXCEPT ![w] = "stored"]
  /\ receipts' = Append(receipts, [prev |-> base[w], trail |-> Append(TrailOf(base[w]), n)])
  /\ mine' = [mine EXCEPT ![w] = n]
  /\ UNCHANGED <<done, head, base, crossed>>

\* A write that is about to replace the head may cross others that are.
Crosses(w) ==
  /\ crossed' \in [Writer -> BOOLEAN]
  /\ \A v \in Writer \ {w} : crossed'[v] => crossed[v] \/ pc[v] = "stored"
  /\ crossed'[w] => crossed[w]

\* The temporary file is opened or written.  A name that another write has renamed
\* meanwhile is the head file.
Handle(w) ==
  /\ pc[w] = "stored"
  /\ Crosses(w)
  /\ \/ UNCHANGED head
     \/ crossed[w] /\ head' \in {mine[w], Garbled}
  /\ UNCHANGED <<receipts, done, pc, base, mine>>

\* Out of write_artifact.
Ends(w) ==
  /\ pc' = [pc EXCEPT ![w] = "idle"]
  /\ base' = [base EXCEPT ![w] = 0] /\ mine' = [mine EXCEPT ![w] = 0]
  /\ Crosses(w) /\ ~crossed'[w]
  /\ UNCHANGED receipts

\* Mutant: the head file is written in place.
AdvanceInPlace(w) ==
  /\ pc[w] = "stored"
  /\ head' \in {mine[w], Garbled}
  /\ done' = done \cup {mine[w]}
  /\ Ends(w)

\* The temporary file becomes the head file, and write_artifact returns.
Advance(w) ==
  /\ pc[w] = "stored"
  /\ IF crossed[w] THEN head' \in DOMAIN receipts \cup {Garbled} ELSE head' = mine[w]
  /\ done' = done \cup {mine[w]}
  /\ Ends(w)

\* The replacement fails, or the process dies.
Abandon(w) == Busy(w) /\ Ends(w) /\ UNCHANGED <<done, head>>

Writes(w) == Begin(w) \/ Keep(w) \/ Handle(w) \/ Advance(w) \/ Abandon(w)

HNext == \E w \in Writer : Writes(w)

HSpec == HInit /\ [][HNext]_hvars
===============================================================================
