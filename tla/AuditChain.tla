------------------------------ MODULE AuditChain ------------------------------
(***************************************************************************)
(* The hash-chained receipt log: MemoryManager.write_artifact and          *)
(* AuditChainHead (memory/memory_manager.py, memory/audit_chain.py), as    *)
(* the Quant, Patriarch and Execution daemons run them, in processes of    *)
(* their own, over one storage directory, one head file and one name for   *)
(* the temporary file that replaces it.                                    *)
(*                                                                         *)
(* A write reads the head file, stores the receipt, truncates the          *)
(* temporary file, writes it and renames it onto the head file.  Nothing   *)
(* is locked, so other writers may step in between.  The file system is    *)
(* modelled as far as that matters: a name refers to an inode, and a       *)
(* process that has opened one keeps writing to it after a rename.         *)
(***************************************************************************)
EXTENDS Naturals, Sequences, FiniteSets

CONSTANTS
  Writer,       \* the processes that call write_artifact
  Inode,        \* enough for the head, the temporary file and every open file
  None,         \* no such file
  MaxReceipts,  \* bound: receipts
  MaxCrashes    \* bound: processes that die, or fail to store, inside write_artifact

ASSUME AuditAssumption ==
  /\ IsFiniteSet(Writer) /\ IsFiniteSet(Inode)
  /\ Cardinality(Inode) >= Cardinality(Writer) + 2
  /\ None \notin Inode
  /\ MaxReceipts \in Nat /\ MaxCrashes \in Nat

VARIABLES
  receipts,  \* what storage holds; a receipt's number stands for its hash
  done,      \* the receipts whose write_artifact has returned
  file,      \* the hash each inode holds, 0 when it does not parse
  head,      \* the inode of audit_chain_head.json, or None
  tmp,       \* the inode of audit_chain_head.tmp, or None
  pc,        \* where each writer is in write_artifact
  base,      \* the head each writer has read, 0 when there was none
  seen,      \* history: what was done when it read it
  mine,      \* the receipt each writer has stored
  fd,        \* the inode each writer has opened as its temporary file
  crashes

vars == <<receipts, done, file, head, tmp, pc, base, seen, mine, fd, crashes>>

Ids    == 1..MaxReceipts
Hashes == 0..MaxReceipts

\* trail is history: the receipts a walk from this one visits, oldest first.
Receipts == [prev : Hashes, trail : Seq(Ids), after : SUBSET Ids]

Places == {"idle", "read", "stored", "opened", "written"}

\* The hash the head file names; 0 for no head file, and for one that does not parse.
HeadHash == IF head = None THEN 0 ELSE file[head]

Readable == head # None => file[head] # 0

Trail(h) == IF h = 0 THEN <<>> ELSE receipts[h].trail

Init ==
  /\ receipts = <<>> /\ done = {}
  /\ file = [i \in Inode |-> 0]
  /\ head = None /\ tmp = None
  /\ pc = [w \in Writer |-> "idle"]
  /\ base = [w \in Writer |-> 0] /\ seen = [w \in Writer |-> {}]
  /\ mine = [w \in Writer |-> 0]
  /\ fd = [w \in Writer |-> None]
  /\ crashes = 0

\* Mutant: a head file that does not parse is taken for none, and the log starts
\* again.
ReadAnyHead(w) ==
  /\ pc[w] = "idle"
  /\ pc' = [pc EXCEPT ![w] = "read"]
  /\ base' = [base EXCEPT ![w] = HeadHash]
  /\ seen' = [seen EXCEPT ![w] = done]
  /\ UNCHANGED <<receipts, done, file, head, tmp, mine, fd, crashes>>

\* AuditChainHead(): the head is read once, when the write begins.  It raises,
\* and nothing is written, when the file does not parse.
ReadHead(w) ==
  /\ pc[w] = "idle"
  /\ Readable
  /\ pc' = [pc EXCEPT ![w] = "read"]
  /\ base' = [base EXCEPT ![w] = HeadHash]
  /\ seen' = [seen EXCEPT ![w] = done]
  /\ UNCHANGED <<receipts, done, file, head, tmp, mine, fd, crashes>>

\* Mutant: the hash is returned, the receipt is not stored.
StoreNothing(w) ==
  /\ pc[w] = "read" /\ Len(receipts) + 1 \in Ids
  /\ pc' = [pc EXCEPT ![w] = "stored"]
  /\ mine' = [mine EXCEPT ![w] = Len(receipts) + 1]
  /\ UNCHANGED <<receipts, done, file, head, tmp, base, seen, fd, crashes>>

\* _write_to_0g: the receipt, with prev_0g_tx_hash, is in storage under its hash.
Store(w) ==
  LET n == Len(receipts) + 1
  IN
  /\ pc[w] = "read" /\ n \in Ids
  /\ pc' = [pc EXCEPT ![w] = "stored"]
  /\ receipts' = Append(receipts, [prev  |-> base[w],
                                   trail |-> Append(Trail(base[w]), n),
                                   after |-> seen[w]])
  /\ mine' = [mine EXCEPT ![w] = n]
  /\ UNCHANGED <<done, file, head, tmp, base, seen, fd, crashes>>

\* Mutant: the head file itself is truncated and written, with no temporary file.
OpenHead(w) ==
  /\ pc[w] = "stored"
  /\ \E i \in Inode :
       /\ head # None => i = head
       /\ tmp' = i
       /\ file' = [file EXCEPT ![i] = 0]
       /\ fd' = [fd EXCEPT ![w] = i]
  /\ pc' = [pc EXCEPT ![w] = "opened"]
  /\ UNCHANGED <<receipts, done, head, base, seen, mine, crashes>>

\* Path.write_text opens the temporary file: one that is there is truncated, and
\* shared with whoever has it open.
OpenTmp(w) ==
  /\ pc[w] = "stored"
  /\ \E i \in Inode :
       /\ IF tmp # None THEN i = tmp
          ELSE i # head /\ \A v \in Writer : fd[v] # i
       /\ tmp' = i
       /\ file' = [file EXCEPT ![i] = 0]
       /\ fd' = [fd EXCEPT ![w] = i]
  /\ pc' = [pc EXCEPT ![w] = "opened"]
  /\ UNCHANGED <<receipts, done, head, base, seen, mine, crashes>>

\* It writes from the start of the file: over a longer text of another writer,
\* that text's end remains and the file does not parse.
WriteTmp(w) ==
  /\ pc[w] = "opened"
  /\ \E text \in {mine[w]} \cup (IF file[fd[w]] = 0 THEN {} ELSE {0}) :
       file' = [file EXCEPT ![fd[w]] = text]
  /\ fd' = [fd EXCEPT ![w] = None]
  /\ pc' = [pc EXCEPT ![w] = "written"]
  /\ UNCHANGED <<receipts, done, head, tmp, base, seen, mine, crashes>>

\* Mutant: the file is not closed.
LeaveOpen(w) ==
  /\ pc' = [pc EXCEPT ![w] = "idle"]
  /\ base' = [base EXCEPT ![w] = 0] /\ seen' = [seen EXCEPT ![w] = {}]
  /\ mine' = [mine EXCEPT ![w] = 0]
  /\ UNCHANGED fd

\* Out of write_artifact: its local variables are gone.
Leave(w) ==
  /\ pc' = [pc EXCEPT ![w] = "idle"]
  /\ base' = [base EXCEPT ![w] = 0] /\ seen' = [seen EXCEPT ![w] = {}]
  /\ mine' = [mine EXCEPT ![w] = 0] /\ fd' = [fd EXCEPT ![w] = None]

\* os.replace: whatever the temporary name refers to becomes the head file.
Replace(w) ==
  /\ pc[w] = "written" /\ tmp # None
  /\ head' = tmp /\ tmp' = None
  /\ done' = done \cup {mine[w]}
  /\ Leave(w)
  /\ UNCHANGED <<receipts, file, crashes>>

\* Another writer has renamed the file already: os.replace raises.
ReplaceFails(w) ==
  /\ pc[w] = "written" /\ tmp = None
  /\ Leave(w)
  /\ UNCHANGED <<receipts, done, file, head, tmp, crashes>>

\* The process dies, or its disk or node fails it.
Crash(w) ==
  /\ pc[w] # "idle" /\ crashes < MaxCrashes
  /\ crashes' = crashes + 1
  /\ Leave(w)
  /\ UNCHANGED <<receipts, done, file, head, tmp>>

Writes(w) ==
  \/ ReadHead(w) \/ Store(w) \/ OpenTmp(w) \/ WriteTmp(w)
  \/ Replace(w) \/ ReplaceFails(w) \/ Crash(w)

Next == \E w \in Writer : Writes(w)

Spec == Init /\ [][Next]_vars

-------------------------------------------------------------------------------
(* Properties *)

\* Types, and that a writer has a temporary file open exactly between opening
\* and writing it.
TypeOK ==
  /\ receipts \in Seq(Receipts) /\ Len(receipts) <= MaxReceipts
  /\ done \subseteq Ids
  /\ file \in [Inode -> Hashes]
  /\ head \in Inode \cup {None} /\ tmp \in Inode \cup {None}
  /\ pc \in [Writer -> Places]
  /\ base \in [Writer -> Hashes] /\ mine \in [Writer -> Hashes]
  /\ seen \in [Writer -> SUBSET Ids]
  /\ fd \in [Writer -> Inode \cup {None}]
  /\ \A w \in Writer : fd[w] # None <=> pc[w] = "opened"
  /\ crashes \in Nat

\* A walk from the head never misses a receipt: what the head file names, and
\* what each receipt names, was in storage before it was named (verify_audit.py
\* walks by prev_0g_tx_hash and fails on a hash it cannot fetch).  The hashes
\* that write_artifact has returned are in storage too: 0g://<hash> is in the SBT.
WalkFindsAll ==
  /\ HeadHash \in 0..Len(receipts) /\ done \subseteq 1..Len(receipts)
  /\ \A r \in 1..Len(receipts) : receipts[r].prev \in 0..(r - 1)

\* Two receipts only claim the same predecessor when their writes overlapped: a
\* write that begins after another has returned never names the head that one
\* had found.  Without a lock this needs that a head, once replaced, never
\* comes back.
SerialWritesChain ==
  \A r \in 1..Len(receipts) : \A x \in receipts[r].after :
    receipts[x].prev # receipts[r].prev

\* With one writer the log is append-only, whatever crashes on the way.
L == INSTANCE AuditLog WITH log <- Trail(HeadHash), Receipt <- Ids

ImplementsLog == L!LSpec

\* A reader may take the log for what HeadLog says of it, however many writers
\* there are: only a write that another has disturbed leaves a head that is not
\* its own receipt.
H == INSTANCE HeadLog WITH
  receipts <- [r \in DOMAIN receipts |-> [prev |-> receipts[r].prev, trail |-> receipts[r].trail]],
  head <- IF Readable THEN HeadHash ELSE MaxReceipts + 1,
  pc <- [w \in Writer |-> IF pc[w] \in {"opened", "written"} THEN "stored" ELSE pc[w]],
  crossed <- [w \in Writer |->
    \/ pc[w] = "opened" /\ (fd[w] # tmp \/ file[fd[w]] # 0)
    \/ pc[w] = "written" /\ (IF tmp = None THEN TRUE ELSE file[tmp] # mine[w])]

ImplementsHeadLog == H!HSpec

===============================================================================
