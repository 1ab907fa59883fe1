--------------------------- MODULE AuditChainProofs ---------------------------
(* Theorems about AuditChain and AuditSystem, for every value of their     *)
(* constants.                                                              *)
EXTENDS AuditSystem, TLAPS

\* A sequence that grows keeps what it holds.
LEMMA GrowsByOne ==
  ASSUME NEW S, NEW seq \in Seq(S), NEW e \in S
  PROVE  /\ Append(seq, e) \in Seq(S)
         /\ Len(Append(seq, e)) = Len(seq) + 1
         /\ \A n \in 1..Len(seq) : Append(seq, e)[n] = seq[n]
         /\ Append(seq, e)[Len(seq) + 1] = e
OBVIOUS

\* Every hash that anything holds is that of a receipt in storage.
KnownHashes ==
  /\ \A i \in Inode : file[i] \in 0..Len(receipts)
  /\ \A w \in Writer : base[w] \in 0..Len(receipts) /\ mine[w] \in 0..Len(receipts)
  /\ \A w \in Writer : pc[w] \in {"stored", "opened", "written"} => mine[w] # 0

AuditInv == TypeOK /\ KnownHashes /\ WalkFindsAll

\* The receipts grow by one, or stay, and then nothing else of the data changes
\* but by the other steps.
LEMMA StoredReceipt ==
  ASSUME AuditInv, NEW w \in Writer, Store(w)
  PROVE  LET r == [prev  |-> base[w],
                   trail |-> Append(Trail(base[w]), Len(receipts) + 1),
                   after |-> seen[w]]
         IN  /\ r \in Receipts /\ receipts' = Append(receipts, r)
             /\ Len(receipts) + 1 \in Ids
<1>1. Len(receipts) \in Nat /\ Len(receipts) + 1 \in Ids
  BY DEF AuditInv, TypeOK, Store
<1>2. \A n \in 1..Len(receipts) : receipts[n] \in Receipts
  BY DEF AuditInv, TypeOK
<1>3. Trail(base[w]) \in Seq(Ids)
  <2>1. base[w] \in 0..Len(receipts)
    BY DEF AuditInv, KnownHashes
  <2> QED
    BY <1>1, <1>2, <2>1 DEF Trail, Receipts
<1>4. Append(Trail(base[w]), Len(receipts) + 1) \in Seq(Ids)
  BY <1>1, <1>3
<1>5. base[w] \in Hashes /\ seen[w] \in SUBSET Ids
  BY DEF AuditInv, TypeOK
<1> QED
  BY <1>1, <1>4, <1>5 DEF Store, Receipts

\* A writer that leaves write_artifact keeps nothing of it.
LEMMA LeaveTypes ==
  ASSUME AuditInv, NEW w \in Writer, Leave(w)
  PROVE  /\ pc' \in [Writer -> Places]
         /\ base' \in [Writer -> Hashes] /\ mine' \in [Writer -> Hashes]
         /\ seen' \in [Writer -> SUBSET Ids]
         /\ fd' \in [Writer -> Inode \cup {None}]
         /\ \A v \in Writer : fd'[v] # None <=> pc'[v] = "opened"
         /\ \A v \in Writer : /\ base'[v] \in {base[v], 0} /\ mine'[v] \in {mine[v], 0}
                              /\ pc'[v] = "idle" \/ (pc'[v] = pc[v] /\ mine'[v] = mine[v])
<1> USE DEF AuditInv, TypeOK, Leave
<1>1. pc' \in [Writer -> Places]
  BY DEF Places
<1>2. base' \in [Writer -> Hashes] /\ mine' \in [Writer -> Hashes]
  BY AuditAssumption DEF Hashes
<1>3. seen' \in [Writer -> SUBSET Ids]
  OBVIOUS
<1>4. fd' \in [Writer -> Inode \cup {None}]
  OBVIOUS
<1>5. \A v \in Writer : fd'[v] # None <=> pc'[v] = "opened"
  BY <1>1, <1>4
<1>6. ASSUME NEW v \in Writer
      PROVE  /\ base'[v] \in {base[v], 0} /\ mine'[v] \in {mine[v], 0}
             /\ pc'[v] = "idle" \/ (pc'[v] = pc[v] /\ mine'[v] = mine[v])
  <2>1. base'[v] \in {base[v], 0} /\ mine'[v] \in {mine[v], 0}
    OBVIOUS
  <2>2. pc'[v] = "idle" \/ (pc'[v] = pc[v] /\ mine'[v] = mine[v])
    <3>1. pc' = [pc EXCEPT ![w] = "idle"] /\ mine' = [mine EXCEPT ![w] = 0]
      BY DEF Leave
    <3>2. pc \in [Writer -> Places] /\ mine \in [Writer -> Hashes]
      BY DEF AuditInv, TypeOK
    <3> HIDE DEF AuditInv, TypeOK, Leave
    <3>3. CASE v = w
      BY <3>1, <3>2, <3>3
    <3>4. CASE v # w
      BY <3>1, <3>2, <3>4
    <3> QED
      BY <3>3, <3>4
  <2> QED
    BY <2>1, <2>2
<1> QED
  BY <1>1, <1>2, <1>3, <1>4, <1>5, <1>6

\* Every step keeps the types, given what the writers know of storage.
LEMMA TypeStep == AuditInv /\ [Next]_vars => TypeOK'
<1> SUFFICES ASSUME AuditInv, [Next]_vars PROVE TypeOK'
  OBVIOUS
<1> USE DEF AuditInv
<1>1. CASE UNCHANGED vars
  BY <1>1 DEF vars, TypeOK
<1>2. ASSUME NEW w \in Writer, ReadHead(w) PROVE TypeOK'
  <2>1. HeadHash \in Hashes
    BY AuditAssumption DEF TypeOK, HeadHash, Hashes
  <2> QED
    BY <1>2, <2>1 DEF ReadHead, TypeOK, Places
<1>3. ASSUME NEW w \in Writer, Store(w) PROVE TypeOK'
  <2>0. receipts \in Seq(Receipts) /\ Len(receipts) + 1 \in 1..MaxReceipts
    BY <1>3, StoredReceipt DEF TypeOK, Ids
  <2>1. receipts' \in Seq(Receipts) /\ Len(receipts') <= MaxReceipts
    <3>1. \E r \in Receipts : receipts' = Append(receipts, r)
      BY <1>3, StoredReceipt
    <3> QED
      BY <2>0, <3>1, GrowsByOne, AuditAssumption
  <2>2. mine' \in [Writer -> Hashes]
    BY <1>3, StoredReceipt DEF Store, TypeOK, Ids, Hashes
  <2> QED
    BY <1>3, <2>1, <2>2 DEF Store, TypeOK, Places
<1>4. ASSUME NEW w \in Writer, OpenTmp(w) PROVE TypeOK'
  BY <1>4, AuditAssumption DEF OpenTmp, TypeOK, Places, Hashes
<1>5. ASSUME NEW w \in Writer, WriteTmp(w) PROVE TypeOK'
  BY <1>5, AuditAssumption DEF WriteTmp, TypeOK, Places, Hashes
<1>6. ASSUME NEW w \in Writer, Replace(w) PROVE TypeOK'
  <2>1. mine[w] \in Ids
    BY <1>6 DEF Replace, KnownHashes, TypeOK, Hashes, Ids
  <2> QED
    BY <1>6, <2>1, LeaveTypes DEF Replace, TypeOK
<1>7. ASSUME NEW w \in Writer, ReplaceFails(w) \/ Crash(w) PROVE TypeOK'
  BY <1>7, LeaveTypes DEF ReplaceFails, Crash, TypeOK
<1> QED
  BY <1>1, <1>2, <1>3, <1>4, <1>5, <1>6, <1>7 DEF Next, Writes

\* A writer that leaves forgets hashes; the ones the others know stay good.
LEMMA LeaveKnows ==
  ASSUME AuditInv, NEW w \in Writer, Leave(w), UNCHANGED <<file, receipts>>
  PROVE  KnownHashes'
<1>1. Len(receipts) \in Nat
  BY DEF AuditInv, TypeOK
<1>2. \A v \in Writer : base'[v] \in 0..Len(receipts) /\ mine'[v] \in 0..Len(receipts)
  <2>1. \A v \in Writer : base'[v] \in {base[v], 0} /\ mine'[v] \in {mine[v], 0}
    BY DEF Leave, AuditInv, TypeOK
  <2>2. \A v \in Writer : base[v] \in 0..Len(receipts) /\ mine[v] \in 0..Len(receipts)
    BY DEF AuditInv, KnownHashes
  <2> QED
    BY <1>1, <2>1, <2>2
<1>3. \A v \in Writer : pc'[v] \in {"stored", "opened", "written"} => mine'[v] # 0
  BY LeaveTypes DEF AuditInv, KnownHashes
<1> QED
  BY <1>2, <1>3 DEF AuditInv, KnownHashes

\* No step makes a hash known before its receipt is in storage.
LEMMA HashesStep == AuditInv /\ [Next]_vars => KnownHashes' /\ WalkFindsAll'
<1> SUFFICES ASSUME AuditInv, [Next]_vars PROVE KnownHashes' /\ WalkFindsAll'
  OBVIOUS
<1>0. Len(receipts) \in Nat
  BY DEF AuditInv, TypeOK
<1> USE DEF AuditInv, TypeOK, KnownHashes, WalkFindsAll, HeadHash
<1>1. CASE UNCHANGED vars
  BY <1>1 DEF vars
<1>2. ASSUME NEW w \in Writer, ReadHead(w) PROVE KnownHashes' /\ WalkFindsAll'
  BY <1>2 DEF ReadHead
<1>3. ASSUME NEW w \in Writer, Store(w) PROVE KnownHashes' /\ WalkFindsAll'
  <2> DEFINE r == [prev  |-> base[w],
                   trail |-> Append(Trail(base[w]), Len(receipts) + 1),
                   after |-> seen[w]]
  <2>1. r \in Receipts /\ receipts' = Append(receipts, r) /\ r.prev = base[w]
    BY <1>3, StoredReceipt
  <2> HIDE DEF r
  <2>2. /\ Len(receipts') = Len(receipts) + 1
        /\ \A n \in 1..Len(receipts) : receipts'[n] = receipts[n]
        /\ receipts'[Len(receipts) + 1] = r
    BY <2>1, GrowsByOne
  <2>3. KnownHashes'
    BY <1>0, <1>3, <2>2 DEF Store
  <2>4. \A n \in 1..Len(receipts') : receipts'[n].prev \in 0..(n - 1)
    <3> SUFFICES ASSUME NEW n \in 1..Len(receipts')
                 PROVE  receipts'[n].prev \in 0..(n - 1)
      OBVIOUS
    <3>1. CASE n \in 1..Len(receipts)
      BY <2>2, <3>1
    <3>2. CASE n = Len(receipts) + 1
      BY <1>0, <2>1, <2>2, <3>2
    <3>3. n \in 1..Len(receipts) \/ n = Len(receipts) + 1
      BY <1>0, <2>2
    <3> HIDE DEF AuditInv, TypeOK, KnownHashes, WalkFindsAll, HeadHash
    <3> QED
      BY <3>1, <3>2, <3>3
  <2>5. HeadHash' \in 0..Len(receipts') /\ done' \subseteq 1..Len(receipts')
    BY <1>0, <1>3, <2>2 DEF Store
  <2> QED
    BY <2>3, <2>4, <2>5
<1>4. ASSUME NEW w \in Writer, OpenTmp(w) PROVE KnownHashes' /\ WalkFindsAll'
  BY <1>0, <1>4 DEF OpenTmp
<1>5. ASSUME NEW w \in Writer, WriteTmp(w) PROVE KnownHashes' /\ WalkFindsAll'
  BY <1>0, <1>5 DEF WriteTmp
<1>6. ASSUME NEW w \in Writer, Replace(w) PROVE KnownHashes' /\ WalkFindsAll'
  <2>1. KnownHashes'
    <3>1. UNCHANGED <<file, receipts>> /\ Leave(w)
      BY <1>6 DEF Replace
    <3> QED
      BY <3>1, LeaveKnows
  <2>2. /\ head' = tmp /\ tmp # None /\ file' = file /\ receipts' = receipts
        /\ done' = done \cup {mine[w]} /\ pc[w] = "written"
    BY <1>6 DEF Replace
  <2>3. HeadHash' \in 0..Len(receipts')
    <3>1. tmp \in Inode /\ file[tmp] \in 0..Len(receipts)
      BY <2>2
    <3> QED
      BY <2>2, <3>1
  <2>4. done' \subseteq 1..Len(receipts')
    <3>1. mine[w] \in 1..Len(receipts)
      BY <1>0, <2>2
    <3> QED
      BY <2>2, <3>1
  <2> QED
    BY <2>1, <2>2, <2>3, <2>4
<1>7. ASSUME NEW w \in Writer, ReplaceFails(w) \/ Crash(w) PROVE KnownHashes' /\ WalkFindsAll'
  <2>1. KnownHashes'
    <3>1. UNCHANGED <<file, receipts>> /\ Leave(w)
      BY <1>7 DEF ReplaceFails, Crash
    <3> QED
      BY <3>1, LeaveKnows
  <2> QED
    BY <1>7, <2>1 DEF ReplaceFails, Crash
<1> QED
  BY <1>1, <1>2, <1>3, <1>4, <1>5, <1>6, <1>7 DEF Next, Writes

\* The inductive invariant holds in every behaviour.
LEMMA AuditInvariance == Spec => []AuditInv
<1>1. Init => AuditInv
  BY AuditAssumption DEF Init, AuditInv, TypeOK, KnownHashes, WalkFindsAll, HeadHash, Places, Hashes
<1> QED
  BY <1>1, TypeStep, HashesStep, PTL DEF Spec, AuditInv

\* Every variable keeps its type, and a temporary file is open exactly while it
\* is being written.
THEOREM AuditTypeCorrect == Spec => []TypeOK
<1>1. AuditInv => TypeOK
  BY DEF AuditInv
<1> QED
  BY <1>1, AuditInvariance, PTL

\* However many writers there are, and wherever they step in between or die, a
\* walk from the head finds every receipt it is sent to, and only goes back.
THEOREM WalkSucceeds == Spec => []WalkFindsAll
<1>1. AuditInv => WalkFindsAll
  BY DEF AuditInv
<1> QED
  BY <1>1, AuditInvariance, PTL

-------------------------------------------------------------------------------
(* With one writer the log is an append-only list: what it renames onto the *)
(* head file continues the list that the head file named when it began.     *)

Alone == \A v, w \in Writer : v = w

\* The head file parses, and is never the temporary file.
HeadIsApart == head # None => head # tmp /\ file[head] # 0

\* The file that is written, and then renamed, is the temporary one.
TmpIsMine ==
  \A w \in Writer :
    /\ pc[w] = "opened" => tmp = fd[w] /\ file[fd[w]] = 0
    /\ pc[w] = "written" => tmp # None /\ file[tmp] = mine[w]

\* The head is the one the writer read, and its receipt continues it.
HeadIsFresh ==
  \A w \in Writer :
    /\ pc[w] # "idle" => base[w] = HeadHash
    /\ pc[w] \in {"stored", "opened", "written"} =>
         receipts[mine[w]].trail = Append(Trail(base[w]), mine[w])

AloneInv == HeadIsApart /\ TmpIsMine /\ HeadIsFresh

\* What the head file says of the log: it stays, or one receipt is appended.
LogContinues ==
  \/ HeadHash' = HeadHash /\ Trail(HeadHash)' = Trail(HeadHash)
  \/ \E r \in Ids : Trail(HeadHash)' = Append(Trail(HeadHash), r)

\* A receipt that is in storage stays there as it is.
LEMMA TrailStays ==
  ASSUME AuditInv, NEW w \in Writer, Store(w), NEW h \in 0..Len(receipts)
  PROVE  (IF h = 0 THEN <<>> ELSE receipts'[h].trail) = Trail(h)
<1>1. PICK r \in Receipts : receipts' = Append(receipts, r)
  BY StoredReceipt
<1>2. \A n \in 1..Len(receipts) : receipts'[n] = receipts[n]
  BY <1>1, GrowsByOne DEF AuditInv, TypeOK
<1>3. Len(receipts) \in Nat
  BY DEF AuditInv, TypeOK
<1> QED
  BY <1>2, <1>3 DEF Trail

\* The steps before the file is touched.
LEMMA AloneReads ==
  ASSUME Alone, AuditInv, AloneInv, NEW w \in Writer, ReadHead(w)
  PROVE  AloneInv' /\ LogContinues
<1>1. HeadHash' = HeadHash /\ Trail(HeadHash)' = Trail(HeadHash)
  BY DEF ReadHead, HeadHash, Trail
<1>2. \A v \in Writer : v = w /\ pc'[v] = "read" /\ base'[v] = HeadHash
  BY DEF Alone, ReadHead, AuditInv, TypeOK
<1> QED
  BY <1>1, <1>2 DEF ReadHead, AloneInv, HeadIsApart, TmpIsMine, HeadIsFresh, LogContinues

\* The receipt is stored; it continues the log, and the head does not name it yet.
LEMMA AloneStores ==
  ASSUME Alone, AuditInv, AloneInv, NEW w \in Writer, Store(w)
  PROVE  AloneInv' /\ LogContinues
<1>1. HeadHash' = HeadHash /\ HeadHash \in 0..Len(receipts) /\ base[w] \in 0..Len(receipts)
  BY DEF Store, HeadHash, AuditInv, KnownHashes, WalkFindsAll
<1>2. Trail(HeadHash)' = Trail(HeadHash) /\ Trail(base[w])' = Trail(base[w])
  BY <1>1, TrailStays DEF Trail, Store
<1>3. \A v \in Writer : /\ v = w /\ pc[v] = "read" /\ pc'[v] = "stored"
                        /\ mine'[v] = Len(receipts) + 1 /\ base'[v] = base[v]
  BY DEF Alone, Store, AuditInv, TypeOK
<1>4. base[w] = HeadHash
  BY <1>3 DEF AloneInv, HeadIsFresh
<1>5. receipts'[Len(receipts) + 1].trail = Append(Trail(base[w]), Len(receipts) + 1)
  <2> DEFINE r == [prev  |-> base[w],
                   trail |-> Append(Trail(base[w]), Len(receipts) + 1),
                   after |-> seen[w]]
  <2>1. r \in Receipts /\ receipts' = Append(receipts, r)
    BY StoredReceipt
  <2>2. r.trail = Append(Trail(base[w]), Len(receipts) + 1)
    OBVIOUS
  <2> HIDE DEF r
  <2>3. receipts'[Len(receipts) + 1] = r
    BY <2>1, GrowsByOne DEF AuditInv, TypeOK
  <2> QED
    BY <2>2, <2>3
<1>6. HeadIsFresh'
  BY <1>1, <1>2, <1>3, <1>4, <1>5 DEF HeadIsFresh
<1> QED
  BY <1>1, <1>2, <1>3, <1>6 DEF Store, AloneInv, HeadIsApart, TmpIsMine, LogContinues

\* The temporary file is opened and written, and the head file is another one.
LEMMA AloneOpens ==
  ASSUME Alone, AuditInv, AloneInv, NEW w \in Writer, OpenTmp(w)
  PROVE  AloneInv' /\ LogContinues
<1>1. PICK i \in Inode : /\ i # head /\ tmp' = i
                         /\ file' = [file EXCEPT ![i] = 0] /\ fd' = [fd EXCEPT ![w] = i]
  BY AuditAssumption DEF OpenTmp, AloneInv, HeadIsApart, AuditInv, TypeOK
<1>2. HeadHash' = HeadHash /\ Trail(HeadHash)' = Trail(HeadHash)
  BY <1>1 DEF OpenTmp, HeadHash, Trail, AuditInv, TypeOK
<1>3. \A v \in Writer : v = w /\ pc[v] = "stored" /\ pc'[v] = "opened" /\ fd'[v] = i
  BY <1>1 DEF Alone, OpenTmp, AuditInv, TypeOK
<1>4. HeadIsApart' /\ TmpIsMine'
  BY <1>1, <1>3 DEF OpenTmp, AloneInv, HeadIsApart, TmpIsMine, AuditInv, TypeOK
<1>5. HeadIsFresh'
  BY <1>2, <1>3 DEF OpenTmp, AloneInv, HeadIsFresh, Trail
<1> QED
  BY <1>2, <1>4, <1>5 DEF AloneInv, LogContinues

\* A lone writer writes its own hash, whole: nobody else wrote to the file.
LEMMA AloneWrites ==
  ASSUME Alone, AuditInv, AloneInv, NEW w \in Writer, WriteTmp(w)
  PROVE  AloneInv' /\ LogContinues
<1>1. pc[w] = "opened" /\ fd[w] = tmp /\ file[tmp] = 0 /\ fd[w] \in Inode /\ tmp # None
  BY DEF WriteTmp, AloneInv, TmpIsMine, AuditInv, TypeOK
<1>2. file' = [file EXCEPT ![tmp] = mine[w]] /\ head # tmp
  BY <1>1 DEF WriteTmp, AloneInv, HeadIsApart
<1>3. HeadHash' = HeadHash /\ Trail(HeadHash)' = Trail(HeadHash)
  BY <1>2 DEF WriteTmp, HeadHash, Trail, AuditInv, TypeOK
<1>4. \A v \in Writer : v = w /\ pc'[v] = "written"
  BY DEF Alone, WriteTmp, AuditInv, TypeOK
<1>5. HeadIsApart' /\ TmpIsMine'
  BY <1>1, <1>2, <1>4 DEF WriteTmp, AloneInv, HeadIsApart, TmpIsMine, AuditInv, TypeOK
<1>6. HeadIsFresh'
  BY <1>1, <1>3, <1>4 DEF WriteTmp, AloneInv, HeadIsFresh, Trail
<1> QED
  BY <1>3, <1>5, <1>6 DEF AloneInv, LogContinues

\* The renamed file names the receipt that continues the log.
LEMMA AloneReplaces ==
  ASSUME Alone, AuditInv, AloneInv, NEW w \in Writer, Replace(w)
  PROVE  AloneInv' /\ LogContinues
<1>1. pc[w] = "written" /\ tmp # None /\ file[tmp] = mine[w] /\ mine[w] # 0 /\ mine[w] \in Ids
  BY DEF Replace, AloneInv, TmpIsMine, AuditInv, KnownHashes, TypeOK, Ids, Hashes
<1>2. receipts[mine[w]].trail = Append(Trail(HeadHash), mine[w])
  BY <1>1 DEF AloneInv, HeadIsFresh
<1>3. HeadHash' = mine[w]
  BY <1>1 DEF Replace, HeadHash
<1>4. Trail(HeadHash)' = Append(Trail(HeadHash), mine[w])
  BY <1>1, <1>2, <1>3 DEF Replace, Trail
<1>5. \A v \in Writer : v = w /\ pc'[v] = "idle"
  BY DEF Alone, Replace, Leave, AuditInv, TypeOK
<1>6. AloneInv'
  BY <1>1, <1>5 DEF Replace, AloneInv, HeadIsApart, TmpIsMine, HeadIsFresh
<1> QED
  BY <1>1, <1>4, <1>6 DEF LogContinues

\* A lone writer that fails or dies leaves the head as it was.
LEMMA AloneLeaves ==
  ASSUME Alone, AuditInv, AloneInv, NEW w \in Writer, ReplaceFails(w) \/ Crash(w)
  PROVE  AloneInv' /\ LogContinues
<1>1. HeadHash' = HeadHash /\ Trail(HeadHash)' = Trail(HeadHash)
  BY DEF ReplaceFails, Crash, HeadHash, Trail
<1>2. \A v \in Writer : v = w /\ pc'[v] = "idle"
  BY DEF Alone, ReplaceFails, Crash, Leave, AuditInv, TypeOK
<1> QED
  BY <1>1, <1>2 DEF ReplaceFails, Crash, AloneInv, HeadIsApart, TmpIsMine, HeadIsFresh, LogContinues

\* So every step of a lone writer appends to the log or leaves it.
LEMMA AloneStep ==
  ASSUME Alone, AuditInv, AloneInv, [Next]_vars
  PROVE  AloneInv' /\ LogContinues
<1>1. CASE UNCHANGED vars
  BY <1>1 DEF vars, AloneInv, HeadIsApart, TmpIsMine, HeadIsFresh, LogContinues, HeadHash, Trail
<1>2. CASE Next
  BY <1>2, AloneReads, AloneStores, AloneOpens, AloneWrites, AloneReplaces, AloneLeaves DEF Next, Writes
<1> QED
  BY <1>1, <1>2

\* A single writer keeps an append-only log, through every crash: what the walk
\* visits is only ever appended to.
THEOREM AloneImplementsLog == Alone => (Spec => ImplementsLog)
<1> SUFFICES ASSUME Alone PROVE Spec => L!LSpec
  BY DEF ImplementsLog
<1>1. Init => AloneInv /\ L!LInit
  BY DEF Init, AloneInv, HeadIsApart, TmpIsMine, HeadIsFresh, L!LInit, HeadHash, Trail
<1>2. AuditInv /\ AloneInv /\ [Next]_vars => AloneInv' /\ [L!Add]_(Trail(HeadHash))
  BY AloneStep DEF LogContinues, L!Add
<1> QED
  BY <1>1, <1>2, AuditInvariance, PTL DEF Spec, L!LSpec

-------------------------------------------------------------------------------
(* With any number of writers: a hash is written to one file, once, and the *)
(* head that a receipt's writer found is gone for good when it returns.     *)

Holds(w)   == pc[w] \in {"stored", "opened", "written"}
Pending(w) == pc[w] \in {"stored", "opened"}

\* Writers hold receipts of their own, which name the head they have read.
ReceiptsApart ==
  /\ \A v, w \in Writer : Holds(v) /\ Holds(w) /\ mine[v] = mine[w] => v = w
  /\ \A w \in Writer : Holds(w) => receipts[mine[w]].prev = base[w]

\* Until its writer writes it, nothing names a receipt.
PendingUnnamed ==
  \A w \in Writer : Pending(w) =>
    /\ \A i \in Inode : file[i] # mine[w]
    /\ \A v \in Writer : base[v] # mine[w]
    /\ \A r \in 1..Len(receipts) : receipts[r].prev # mine[w]

\* No two files hold the same hash, and the head file is not the temporary one.
FilesApart ==
  /\ \A i, j \in Inode : file[i] = file[j] /\ file[i] # 0 => i = j
  /\ head # None => head # tmp

\* The temporary file holds nothing that has been the head.
TmpIsNew(h) == h # 0 /\ tmp # None => file[tmp] # h

\* A hash that has been the head and never will be again; 0 stands for no head file.
Retired(h) ==
  /\ TmpIsNew(h)
  /\ head # None
  /\ h # 0 => HeadHash # h

\* What a writer has read was the head then, and those it saw done had found others.
HeadsRetire ==
  /\ done \subseteq 1..Len(receipts)
  /\ \A x \in done : Retired(receipts[x].prev)
  /\ \A w \in Writer : pc[w] # "idle" =>
       /\ TmpIsNew(base[w])
       /\ seen[w] \subseteq done
       /\ \A x \in seen[w] : receipts[x].prev # base[w]

SerialInv == /\ ReceiptsApart /\ PendingUnnamed /\ FilesApart /\ HeadsRetire
             /\ SerialWritesChain
             /\ \A r \in 1..Len(receipts) : receipts[r].after \subseteq 1..(r - 1)

LEMMA SerialInit == Init => SerialInv
BY DEF Init, SerialInv, ReceiptsApart, PendingUnnamed, FilesApart, HeadsRetire,
       SerialWritesChain, Holds, Pending

\* The head is read.
LEMMA SerialReads ==
  ASSUME AuditInv, SerialInv, NEW w \in Writer, ReadHead(w)
  PROVE  SerialInv'
<1>1. /\ \A v \in Writer : v # w => pc'[v] = pc[v] /\ base'[v] = base[v] /\ seen'[v] = seen[v]
      /\ pc'[w] = "read" /\ base'[w] = HeadHash /\ seen'[w] = done
      /\ receipts' = receipts /\ done' = done /\ file' = file /\ head' = head
      /\ tmp' = tmp /\ mine' = mine /\ pc[w] = "idle"
  BY DEF ReadHead, AuditInv, TypeOK
<1>2. \A v \in Writer : Holds(v)' <=> Holds(v)
  BY <1>1 DEF Holds
<1>3. \A v \in Writer : Pending(v)' <=> Pending(v)
  BY <1>1 DEF Pending
<1>4. \A v \in Writer : Holds(v) => v # w
  BY <1>1 DEF Holds
<1>5. \A v \in Writer : Pending(v) => v # w /\ mine[v] # 0
  BY <1>1 DEF Pending, AuditInv, KnownHashes
<1>6. ReceiptsApart'
  BY <1>1, <1>2, <1>4 DEF SerialInv, ReceiptsApart
<1>7. PendingUnnamed'
  <2>1. \A v \in Writer : Pending(v) => HeadHash # mine[v]
    BY <1>5 DEF SerialInv, PendingUnnamed, HeadHash, AuditInv, TypeOK
  <2> QED
    BY <1>1, <1>3, <2>1 DEF SerialInv, PendingUnnamed
<1>8. FilesApart'
  BY <1>1 DEF SerialInv, FilesApart
<1>9. HeadsRetire'
  <2>1. \A h : TmpIsNew(h)' <=> TmpIsNew(h)
    BY <1>1 DEF TmpIsNew
  <2>2. \A h : Retired(h)' <=> Retired(h)
    BY <1>1, <2>1 DEF Retired, HeadHash
  <2>3. TmpIsNew(HeadHash)
    BY DEF SerialInv, FilesApart, TmpIsNew, HeadHash, AuditInv, TypeOK
  <2>4. \A x \in done : receipts[x].prev # HeadHash
    BY DEF SerialInv, HeadsRetire, Retired, ReadHead, Readable, HeadHash
  <2> QED
    BY <1>1, <2>1, <2>2, <2>3, <2>4 DEF SerialInv, HeadsRetire
<1> QED
  BY <1>1, <1>6, <1>7, <1>8, <1>9 DEF SerialInv, SerialWritesChain

\* The receipt is stored; nothing names it yet.
LEMMA SerialStores ==
  ASSUME AuditInv, SerialInv, NEW w \in Writer, Store(w)
  PROVE  SerialInv'
<1> DEFINE n == Len(receipts) + 1
           r == [prev  |-> base[w], trail |-> Append(Trail(base[w]), n), after |-> seen[w]]
<1>1. /\ r \in Receipts /\ receipts' = Append(receipts, r)
      /\ r.prev = base[w] /\ r.after = seen[w]
  BY StoredReceipt
<1> HIDE DEF r
<1>2. /\ Len(receipts) \in Nat /\ Len(receipts') = n
      /\ \A x \in 1..Len(receipts) : receipts'[x] = receipts[x]
      /\ receipts'[n] = r
  BY <1>1, GrowsByOne DEF AuditInv, TypeOK
<1>3. /\ \A v \in Writer : v # w => pc'[v] = pc[v] /\ mine'[v] = mine[v]
      /\ pc[w] = "read" /\ pc'[w] = "stored" /\ mine'[w] = n
      /\ done' = done /\ file' = file /\ head' = head /\ tmp' = tmp
      /\ base' = base /\ seen' = seen
  BY DEF Store, AuditInv, TypeOK
<1>4. \A v \in Writer : mine[v] # n /\ base[v] # n /\ mine[v] \in 0..Len(receipts)
  BY <1>2 DEF AuditInv, KnownHashes
<1>5. \A v \in Writer : Holds(v)' <=> Holds(v) \/ v = w
  BY <1>3 DEF Holds
<1>6. \A v \in Writer : Pending(v)' <=> Pending(v) \/ v = w
  BY <1>3 DEF Pending
<1>7. \A v \in Writer : Holds(v) => mine[v] \in 1..Len(receipts)
  BY <1>2 DEF Holds, AuditInv, KnownHashes
<1>8. ReceiptsApart'
  <2>1. ASSUME NEW u \in Writer, NEW v \in Writer, Holds(u)', Holds(v)', mine'[u] = mine'[v]
        PROVE  u = v
    BY <1>3, <1>4, <1>5, <2>1 DEF SerialInv, ReceiptsApart
  <2>2. ASSUME NEW v \in Writer, Holds(v)' PROVE receipts'[mine'[v]].prev = base'[v]
    <3>1. CASE v = w
      BY <1>1, <1>2, <1>3, <3>1
    <3>2. CASE v # w
      BY <1>2, <1>3, <1>5, <1>7, <2>2, <3>2 DEF SerialInv, ReceiptsApart
    <3> QED
      BY <3>1, <3>2
  <2> QED
    BY <2>1, <2>2 DEF ReceiptsApart
<1>9. PendingUnnamed'
  <2> SUFFICES ASSUME NEW v \in Writer, Pending(v)'
               PROVE  /\ \A i \in Inode : file[i] # mine'[v]
                      /\ \A u \in Writer : base[u] # mine'[v]
                      /\ \A x \in 1..n : receipts'[x].prev # mine'[v]
    BY <1>2, <1>3 DEF PendingUnnamed
  <2>1. CASE v = w
    <3>1. \A i \in Inode : file[i] # n
      BY <1>2 DEF AuditInv, KnownHashes
    <3>2. \A x \in 1..Len(receipts) : receipts[x].prev # n
      BY <1>2 DEF AuditInv, WalkFindsAll
    <3> QED
      BY <1>1, <1>2, <1>3, <1>4, <2>1, <3>1, <3>2
  <2>2. CASE v # w
    BY <1>1, <1>2, <1>3, <1>6, <2>2 DEF SerialInv, PendingUnnamed
  <2> QED
    BY <2>1, <2>2
<1>10. FilesApart'
  BY <1>3 DEF SerialInv, FilesApart
<1>11. HeadsRetire'
  <2>1. \A h : TmpIsNew(h)' <=> TmpIsNew(h)
    BY <1>3 DEF TmpIsNew
  <2>2. \A h : Retired(h)' <=> Retired(h)
    BY <1>3, <2>1 DEF Retired, HeadHash
  <2>3. \A x \in done : receipts'[x] = receipts[x]
    BY <1>2 DEF SerialInv, HeadsRetire
  <2>4. \A v \in Writer : pc'[v] # "idle" => pc[v] # "idle"
    BY <1>3
  <2>5. done' \subseteq 1..Len(receipts')
    BY <1>2, <1>3 DEF SerialInv, HeadsRetire
  <2> QED
    BY <1>3, <2>1, <2>2, <2>3, <2>4, <2>5 DEF SerialInv, HeadsRetire
<1>12. \A x \in 1..n : receipts'[x].after \subseteq 1..(x - 1)
  <2>1. seen[w] \subseteq 1..Len(receipts)
    BY <1>3 DEF SerialInv, HeadsRetire
  <2> QED
    BY <1>1, <1>2, <2>1 DEF SerialInv
<1>13. SerialWritesChain'
  <2> SUFFICES ASSUME NEW x \in 1..n, NEW y \in receipts'[x].after
               PROVE  receipts'[y].prev # receipts'[x].prev
    BY <1>2 DEF SerialWritesChain
  <2>1. y \in 1..Len(receipts)
    BY <1>2, <1>12
  <2>2. CASE x = n
    BY <1>1, <1>2, <1>3, <2>1, <2>2 DEF SerialInv, HeadsRetire
  <2>3. CASE x # n
    BY <1>2, <2>1, <2>3 DEF SerialInv, SerialWritesChain
  <2> QED
    BY <2>2, <2>3
<1> QED
  BY <1>2, <1>8, <1>9, <1>10, <1>11, <1>12, <1>13 DEF SerialInv

\* What a step on files must not touch, so that the rest of SerialInv stays.
LEMMA SerialKept ==
  ASSUME AuditInv, SerialInv, UNCHANGED receipts,
         \A v \in Writer : Holds(v)' => Holds(v) /\ mine'[v] = mine[v] /\ base'[v] = base[v]
  PROVE  /\ ReceiptsApart' /\ SerialWritesChain'
         /\ \A r \in 1..Len(receipts') : receipts'[r].after \subseteq 1..(r - 1)
BY DEF SerialInv, ReceiptsApart, SerialWritesChain

\* The temporary file is opened: it is truncated, and no head file.
LEMMA SerialOpens ==
  ASSUME AuditInv, SerialInv, NEW w \in Writer, OpenTmp(w)
  PROVE  SerialInv'
<1>1. PICK i \in Inode : /\ i # head /\ tmp' = i /\ file' = [file EXCEPT ![i] = 0]
  BY AuditAssumption DEF OpenTmp, SerialInv, FilesApart, AuditInv, TypeOK
<1>2. /\ \A v \in Writer : v # w => pc'[v] = pc[v]
      /\ pc[w] = "stored" /\ pc'[w] = "opened"
      /\ receipts' = receipts /\ done' = done /\ head' = head
      /\ base' = base /\ seen' = seen /\ mine' = mine
  BY DEF OpenTmp, AuditInv, TypeOK
<1>3. \A j \in Inode : file'[j] = IF j = i THEN 0 ELSE file[j]
  BY <1>1 DEF AuditInv, TypeOK
<1>4. HeadHash' = HeadHash
  BY <1>1, <1>2, <1>3 DEF HeadHash, AuditInv, TypeOK
<1>5. \A v \in Writer : Pending(v)' => Pending(v) /\ mine[v] # 0
  BY <1>2 DEF Pending, AuditInv, KnownHashes
<1>6. PendingUnnamed'
  BY <1>2, <1>3, <1>5 DEF SerialInv, PendingUnnamed
<1>7. FilesApart'
  BY <1>1, <1>2, <1>3 DEF SerialInv, FilesApart
<1>8. HeadsRetire'
  <2>1. \A h : TmpIsNew(h)'
    BY <1>1, <1>3 DEF TmpIsNew
  <2>2. \A h : Retired(h) => Retired(h)'
    BY <1>2, <1>4, <2>1 DEF Retired
  <2>3. \A v \in Writer : pc'[v] # "idle" => pc[v] # "idle"
    BY <1>2
  <2> QED
    BY <1>2, <2>1, <2>2, <2>3 DEF SerialInv, HeadsRetire
<1>9. \A v \in Writer : Holds(v)' => Holds(v)
  BY <1>2 DEF Holds
<1> QED
  BY <1>2, <1>6, <1>7, <1>8, <1>9, SerialKept DEF SerialInv

\* It is written: with a receipt no file has named before, or so that it does not parse.
LEMMA SerialWrites ==
  ASSUME AuditInv, SerialInv, NEW w \in Writer, WriteTmp(w)
  PROVE  SerialInv'
<1>1. PICK text \in {mine[w], 0} : file' = [file EXCEPT ![fd[w]] = text]
  BY DEF WriteTmp
<1>2. /\ \A v \in Writer : v # w => pc'[v] = pc[v]
      /\ pc[w] = "opened" /\ pc'[w] = "written" /\ fd[w] \in Inode
      /\ receipts' = receipts /\ done' = done /\ head' = head /\ tmp' = tmp
      /\ base' = base /\ seen' = seen /\ mine' = mine
  BY DEF WriteTmp, AuditInv, TypeOK
<1>3. \A j \in Inode : file'[j] = IF j = fd[w] THEN text ELSE file[j]
  BY <1>1, <1>2 DEF AuditInv, TypeOK
<1>4. Pending(w) /\ mine[w] # 0
  BY <1>2 DEF Pending, AuditInv, KnownHashes
<1>5. \A v \in Writer : Pending(v)' => /\ Pending(v) /\ mine[v] # 0 /\ mine[v] # mine[w]
  BY <1>2, <1>4 DEF Pending, Holds, AuditInv, KnownHashes, SerialInv, ReceiptsApart
<1>6. PendingUnnamed'
  BY <1>2, <1>3, <1>5 DEF SerialInv, PendingUnnamed
<1>7. FilesApart'
  BY <1>2, <1>3, <1>4 DEF SerialInv, FilesApart, PendingUnnamed
<1>8. HeadsRetire'
  <2>1. \A h : TmpIsNew(h) /\ h # mine[w] => TmpIsNew(h)'
    BY <1>2, <1>3 DEF TmpIsNew, AuditInv, TypeOK
  <2>2. \A h : Retired(h) /\ h # mine[w] => Retired(h)'
    BY <1>2, <1>3, <2>1 DEF Retired, HeadHash, AuditInv, TypeOK
  <2>3. \A v \in Writer : pc'[v] # "idle" => pc[v] # "idle"
    BY <1>2
  <2>4. \A v \in Writer : base[v] # mine[w]
    BY <1>4 DEF SerialInv, PendingUnnamed
  <2>5. \A x \in done : receipts[x].prev # mine[w]
    BY <1>4 DEF SerialInv, PendingUnnamed, HeadsRetire
  <2> QED
    BY <1>2, <2>1, <2>2, <2>3, <2>4, <2>5 DEF SerialInv, HeadsRetire
<1>9. \A v \in Writer : Holds(v)' => Holds(v)
  BY <1>2 DEF Holds
<1> QED
  BY <1>2, <1>6, <1>7, <1>8, <1>9, SerialKept DEF SerialInv

\* A writer that leaves forgets its receipt.
LEMMA LeaveKeepsOthers ==
  ASSUME AuditInv, NEW w \in Writer, Leave(w)
  PROVE  /\ \A v \in Writer : v # w => /\ pc'[v] = pc[v] /\ base'[v] = base[v]
                                       /\ seen'[v] = seen[v] /\ mine'[v] = mine[v]
         /\ pc'[w] = "idle" /\ base'[w] = 0
BY DEF Leave, AuditInv, TypeOK

\* The temporary file becomes the head, which the new receipt has not found.
LEMMA SerialReplaces ==
  ASSUME AuditInv, SerialInv, NEW w \in Writer, Replace(w)
  PROVE  SerialInv'
<1>1. /\ \A v \in Writer : v # w => /\ pc'[v] = pc[v] /\ base'[v] = base[v]
                                    /\ seen'[v] = seen[v] /\ mine'[v] = mine[v]
      /\ pc'[w] = "idle" /\ base'[w] = 0
  BY LeaveKeepsOthers DEF Replace
<1>2. /\ pc[w] = "written" /\ tmp # None /\ head' = tmp /\ tmp' = None
      /\ done' = done \cup {mine[w]} /\ receipts' = receipts /\ file' = file
  BY DEF Replace
<1>3. /\ mine[w] \in 1..Len(receipts) /\ receipts[mine[w]].prev = base[w]
  BY <1>2 DEF Holds, AuditInv, TypeOK, KnownHashes, SerialInv, ReceiptsApart
<1>4. \A v \in Writer : Pending(v)' => Pending(v) /\ v # w /\ mine[v] # 0
  BY <1>1 DEF Pending, AuditInv, KnownHashes
<1>5. PendingUnnamed'
  BY <1>1, <1>2, <1>4 DEF SerialInv, PendingUnnamed
<1>6. FilesApart'
  BY <1>2, AuditAssumption DEF SerialInv, FilesApart, AuditInv, TypeOK
<1>7. HeadsRetire'
  <2>1. done' \subseteq 1..Len(receipts')
    BY <1>2, <1>3 DEF SerialInv, HeadsRetire
  <2>2. ASSUME NEW x \in done' PROVE Retired(receipts[x].prev)'
    <3>1. TmpIsNew(receipts[x].prev)
      BY <1>2, <1>3 DEF SerialInv, HeadsRetire, Retired, Holds
    <3> QED
      BY <1>2, <3>1 DEF Retired, TmpIsNew, HeadHash
  <2>3. ASSUME NEW v \in Writer, pc'[v] # "idle"
        PROVE  /\ TmpIsNew(base[v])'
               /\ seen'[v] \subseteq done' /\ \A x \in seen'[v] : receipts'[x].prev # base'[v]
    <3>1. v # w
      BY <1>1, <2>3
    <3>2. pc[v] # "idle"
      BY <1>1, <2>3, <3>1
    <3> QED
      BY <1>1, <1>2, <3>1, <3>2 DEF SerialInv, HeadsRetire, TmpIsNew
  <2> QED
    BY <1>2, <2>1, <2>2, <2>3 DEF HeadsRetire
<1>8. /\ ReceiptsApart' /\ SerialWritesChain'
      /\ \A r \in 1..Len(receipts') : receipts'[r].after \subseteq 1..(r - 1)
  <2>1. \A v \in Writer : Holds(v)' => Holds(v) /\ mine'[v] = mine[v] /\ base'[v] = base[v]
    BY <1>1 DEF Holds
  <2> QED
    BY <1>2, <2>1, SerialKept
<1> QED
  BY <1>5, <1>6, <1>7, <1>8 DEF SerialInv

\* A write fails, or its process dies.
LEMMA SerialLeaves ==
  ASSUME AuditInv, SerialInv, NEW w \in Writer, ReplaceFails(w) \/ Crash(w)
  PROVE  SerialInv'
<1>1. /\ \A v \in Writer : v # w => /\ pc'[v] = pc[v] /\ base'[v] = base[v]
                                    /\ seen'[v] = seen[v] /\ mine'[v] = mine[v]
      /\ pc'[w] = "idle" /\ base'[w] = 0
  BY LeaveKeepsOthers DEF ReplaceFails, Crash
<1>2. UNCHANGED <<receipts, done, file, head, tmp>>
  BY DEF ReplaceFails, Crash
<1>3. \A v \in Writer : Pending(v)' => Pending(v) /\ v # w /\ mine[v] # 0
  BY <1>1 DEF Pending, AuditInv, KnownHashes
<1>4. PendingUnnamed'
  BY <1>1, <1>2, <1>3 DEF SerialInv, PendingUnnamed
<1>5. FilesApart'
  BY <1>2 DEF SerialInv, FilesApart
<1>6. HeadsRetire'
  <2>1. \A h : TmpIsNew(h)' <=> TmpIsNew(h)
    BY <1>2 DEF TmpIsNew
  <2>2. \A h : Retired(h)' <=> Retired(h)
    BY <1>2, <2>1 DEF Retired, HeadHash
  <2> QED
    BY <1>1, <1>2, <2>1, <2>2 DEF SerialInv, HeadsRetire
<1>7. /\ ReceiptsApart' /\ SerialWritesChain'
      /\ \A r \in 1..Len(receipts') : receipts'[r].after \subseteq 1..(r - 1)
  <2>1. \A v \in Writer : Holds(v)' => Holds(v) /\ mine'[v] = mine[v] /\ base'[v] = base[v]
    BY <1>1 DEF Holds
  <2> QED
    BY <1>2, <2>1, SerialKept
<1> QED
  BY <1>4, <1>5, <1>6, <1>7 DEF SerialInv

LEMMA SerialStep == AuditInv /\ SerialInv /\ [Next]_vars => SerialInv'
<1> SUFFICES ASSUME AuditInv, SerialInv, [Next]_vars PROVE SerialInv'
  OBVIOUS
<1>1. CASE UNCHANGED vars
  BY <1>1 DEF vars, SerialInv, ReceiptsApart, PendingUnnamed, FilesApart, HeadsRetire,
              SerialWritesChain, Holds, Pending, Retired, TmpIsNew, HeadHash
<1>2. CASE Next
  BY <1>2, SerialReads, SerialStores, SerialOpens, SerialWrites, SerialReplaces, SerialLeaves
     DEF Next, Writes
<1> QED
  BY <1>1, <1>2

LEMMA SerialInvariance == Spec => []SerialInv
<1> QED
  BY SerialInit, SerialStep, AuditInvariance, PTL DEF Spec

\* A receipt whose write began after another's had returned never names the head
\* the other one had found: only overlapping writes fork the chain, whatever their
\* number and wherever they die.
THEOREM SerialChain == Spec => []SerialWritesChain
<1>1. SerialInv => SerialWritesChain
  BY DEF SerialInv
<1> QED
  BY <1>1, SerialInvariance, PTL

-------------------------------------------------------------------------------
(* AuditChain implements HeadLog: each of its steps is one of HeadLog's.      *)

BarredReceipts == [r \in DOMAIN receipts |->
                     [prev |-> receipts[r].prev, trail |-> receipts[r].trail]]
BarredHead     == IF Readable THEN HeadHash ELSE MaxReceipts + 1
BarredPc       == [w \in Writer |->
                     IF pc[w] \in {"opened", "written"} THEN "stored" ELSE pc[w]]

\* Another writer has had its hands on the temporary file.
CrossedAt(w) ==
  \/ pc[w] = "opened" /\ (fd[w] # tmp \/ file[fd[w]] # 0)
  \/ pc[w] = "written" /\ (IF tmp = None THEN TRUE ELSE file[tmp] # mine[w])
BarredCrossed == [w \in Writer |-> CrossedAt(w)]

\* Two sequences with the same elements are the same.
LEMMA SameSequence ==
  ASSUME NEW S, NEW s \in Seq(S), NEW t \in Seq(S), Len(s) = Len(t),
         \A i \in 1..Len(s) : s[i] = t[i]
  PROVE  s = t
OBVIOUS

\* A step of one writer crosses only writers that are about to replace the head.
LEMMA StepCrosses ==
  ASSUME AuditInv, NEW w \in Writer,
         \A v \in Writer \ {w} : pc'[v] = pc[v],
         CrossedAt(w)' => CrossedAt(w)
  PROVE  H!Crosses(w)
<1>1. BarredCrossed' \in [Writer -> BOOLEAN]
  <2>1. \A v \in Writer : CrossedAt(v)' \in BOOLEAN
    BY DEF CrossedAt
  <2> QED
    BY <2>1 DEF BarredCrossed
<1>2. \A v \in Writer : /\ BarredCrossed[v] <=> CrossedAt(v)
                        /\ BarredCrossed'[v] <=> CrossedAt(v)'
  BY DEF BarredCrossed
<1>3. \A v \in Writer \ {w} : CrossedAt(v)' => BarredPc[v] = "stored"
  BY DEF CrossedAt, BarredPc
<1> HIDE DEF CrossedAt
<1>4. \A v \in Writer \ {w} : BarredCrossed'[v] => BarredCrossed[v] \/ BarredPc[v] = "stored"
  BY <1>2, <1>3
<1>5. BarredCrossed'[w] => BarredCrossed[w]
  BY <1>2
<1> QED
  BY <1>1, <1>4, <1>5 DEF H!Crosses, BarredCrossed, BarredPc, CrossedAt

LEMMA ReadBegins ==
  ASSUME AuditInv, NEW w \in Writer, ReadHead(w)
  PROVE  H!Begin(w)
<1>1. /\ \A v \in Writer : v # w => pc'[v] = pc[v]
      /\ pc[w] = "idle" /\ pc'[w] = "read"
      /\ base' = [base EXCEPT ![w] = HeadHash]
      /\ UNCHANGED <<receipts, done, file, head, tmp, mine, fd>>
      /\ pc \in [Writer -> Places] /\ pc' \in [Writer -> Places]
  BY DEF ReadHead, AuditInv, TypeOK, Places
<1>2. BarredHead = HeadHash /\ HeadHash # MaxReceipts + 1
  BY AuditAssumption DEF BarredHead, ReadHead, AuditInv, TypeOK, WalkFindsAll
<1>3. BarredPc[w] = "idle" /\ BarredPc' = [BarredPc EXCEPT ![w] = "read"]
  BY <1>1 DEF BarredPc
<1>4. \A v \in Writer : CrossedAt(v)' = CrossedAt(v)
  BY <1>1 DEF CrossedAt
<1>5. BarredCrossed' = BarredCrossed
  <2> HIDE DEF CrossedAt
  <2> QED
    BY <1>4 DEF BarredCrossed
<1>6. BarredHead' = BarredHead /\ BarredReceipts' = BarredReceipts
  BY <1>1 DEF BarredHead, BarredReceipts, Readable, HeadHash
<1> QED
  BY <1>1, <1>2, <1>3, <1>5, <1>6
     DEF H!Begin, H!Busy, H!Garbled, BarredHead, BarredPc, BarredCrossed, CrossedAt, BarredReceipts

LEMMA StoreKeeps ==
  ASSUME AuditInv, NEW w \in Writer, Store(w)
  PROVE  H!Keep(w)
<1> DEFINE n == Len(receipts) + 1
           r == [prev  |-> base[w], trail |-> Append(Trail(base[w]), n), after |-> seen[w]]
           b == [prev |-> base[w], trail |-> Append(Trail(base[w]), n)]
           B == [prev : Hashes, trail : Seq(Ids)]
<1>1. /\ r \in Receipts /\ receipts' = Append(receipts, r) /\ n \in Ids
      /\ r.prev = base[w] /\ r.trail = b.trail
  BY StoredReceipt
<1>2. /\ \A v \in Writer : v # w => pc'[v] = pc[v]
      /\ pc[w] = "read" /\ pc'[w] = "stored"
      /\ mine' = [mine EXCEPT ![w] = n]
      /\ UNCHANGED <<done, file, head, tmp, base, fd>>
      /\ pc \in [Writer -> Places] /\ pc' \in [Writer -> Places]
  BY DEF Store, AuditInv, TypeOK, Places
<1>3. b \in B
  BY <1>1 DEF Receipts
<1> HIDE DEF r
<1>4. /\ receipts \in Seq(Receipts) /\ receipts' \in Seq(Receipts)
      /\ Len(receipts) \in Nat /\ Len(receipts') = n
      /\ \A x \in 1..Len(receipts) : receipts'[x] = receipts[x]
      /\ receipts'[n] = r
  BY <1>1, GrowsByOne DEF AuditInv, TypeOK
<1>5. BarredReceipts' = Append(BarredReceipts, b)
  <2>1. /\ BarredReceipts \in Seq(B) /\ Len(BarredReceipts) = Len(receipts)
        /\ \A x \in 1..Len(receipts) : BarredReceipts[x] =
             [prev |-> receipts[x].prev, trail |-> receipts[x].trail]
    <3>1. BarredReceipts \in [1..Len(receipts) -> B]
      <4>1. \A x \in DOMAIN receipts : receipts[x].prev \in Hashes /\ receipts[x].trail \in Seq(Ids)
        <5>1. \A x \in DOMAIN receipts : receipts[x] \in Receipts
          BY <1>4
        <5>2. \A e \in Receipts : e.prev \in Hashes /\ e.trail \in Seq(Ids)
          BY DEF Receipts
        <5> QED
          BY <5>1, <5>2
      <4> QED
        BY <1>4, <4>1 DEF BarredReceipts
    <3> QED
      BY <1>4, <3>1 DEF BarredReceipts
  <2>2. /\ BarredReceipts' \in Seq(B) /\ Len(BarredReceipts') = n
        /\ \A x \in 1..n : BarredReceipts'[x] =
             [prev |-> receipts'[x].prev, trail |-> receipts'[x].trail]
    <3>1. BarredReceipts' \in [1..n -> B]
      <4>1. \A x \in DOMAIN receipts' : receipts'[x].prev \in Hashes /\ receipts'[x].trail \in Seq(Ids)
        <5>1. \A x \in DOMAIN receipts' : receipts'[x] \in Receipts
          BY <1>4
        <5>2. \A e \in Receipts : e.prev \in Hashes /\ e.trail \in Seq(Ids)
          BY DEF Receipts
        <5> QED
          BY <5>1, <5>2
      <4> QED
        BY <1>4, <4>1 DEF BarredReceipts
    <3> QED
      BY <1>4, <3>1 DEF BarredReceipts
  <2> HIDE DEF B, b
  <2>3. /\ Append(BarredReceipts, b) \in Seq(B) /\ Len(Append(BarredReceipts, b)) = n
        /\ \A x \in 1..Len(receipts) : Append(BarredReceipts, b)[x] = BarredReceipts[x]
        /\ Append(BarredReceipts, b)[n] = b
    BY <1>3, <2>1, GrowsByOne
  <2>4. \A x \in 1..n : BarredReceipts'[x] = Append(BarredReceipts, b)[x]
    <3>1. BarredReceipts'[n] = b
      <4>1. n \in 1..n
        BY <1>4
      <4> QED
        BY <1>1, <1>4, <2>2, <4>1 DEF b
    <3>2. \A x \in 1..Len(receipts) : BarredReceipts'[x] = BarredReceipts[x]
      BY <1>4, <2>1, <2>2
    <3> QED
      BY <1>4, <2>3, <3>1, <3>2
  <2> QED
    BY <2>2, <2>3, <2>4, SameSequence
<1>6. H!TrailOf(base[w]) = Trail(base[w])
  <2>1. base[w] \in 0..Len(receipts) /\ DOMAIN receipts = 1..Len(receipts)
    BY <1>4 DEF AuditInv, KnownHashes
  <2> QED
    BY <2>1 DEF H!TrailOf, Trail
<1>7. Len(BarredReceipts) + 1 = n
  BY <1>4 DEF BarredReceipts
<1>8. BarredPc[w] = "read" /\ BarredPc' = [BarredPc EXCEPT ![w] = "stored"]
  BY <1>2 DEF BarredPc
<1>9. \A v \in Writer : CrossedAt(v)' = CrossedAt(v)
  BY <1>2 DEF CrossedAt, AuditInv, TypeOK
<1>10. BarredCrossed' = BarredCrossed
  <2> HIDE DEF CrossedAt
  <2> QED
    BY <1>9 DEF BarredCrossed
<1>11. BarredHead' = BarredHead
  BY <1>2 DEF BarredHead, Readable, HeadHash
<1> QED
  BY <1>1, <1>2, <1>5, <1>6, <1>7, <1>8, <1>10, <1>11
     DEF H!Keep, H!Ids, Ids, BarredHead, BarredPc, BarredCrossed, CrossedAt, BarredReceipts

LEMMA OpenHandles ==
  ASSUME AuditInv, SerialInv, NEW w \in Writer, OpenTmp(w)
  PROVE  H!Handle(w)
<1>1. PICK i \in Inode : /\ i # head /\ tmp' = i /\ file' = [file EXCEPT ![i] = 0]
                         /\ fd' = [fd EXCEPT ![w] = i]
  BY AuditAssumption DEF OpenTmp, SerialInv, FilesApart, AuditInv, TypeOK
<1>2. /\ \A v \in Writer : v # w => pc'[v] = pc[v]
      /\ pc[w] = "stored" /\ pc'[w] = "opened"
      /\ UNCHANGED <<receipts, done, head, base, mine>>
      /\ pc \in [Writer -> Places] /\ pc' \in [Writer -> Places]
  BY DEF OpenTmp, AuditInv, TypeOK, Places
<1>3. BarredPc[w] = "stored" /\ BarredPc' = BarredPc
  BY <1>2 DEF BarredPc
<1>4. ~CrossedAt(w)'
  BY <1>1, <1>2 DEF CrossedAt, AuditInv, TypeOK
<1>5. BarredHead' = BarredHead
  BY <1>1, <1>2 DEF BarredHead, Readable, HeadHash, AuditInv, TypeOK
<1>6. H!Crosses(w)
  BY <1>2, <1>4, StepCrosses
<1> QED
  BY <1>2, <1>3, <1>5, <1>6 DEF H!Handle, BarredPc, BarredHead

LEMMA WriteHandles ==
  ASSUME AuditInv, SerialInv, NEW w \in Writer, WriteTmp(w)
  PROVE  H!Handle(w)
<1>1. PICK text \in {mine[w], 0} : /\ file' = [file EXCEPT ![fd[w]] = text]
                                   /\ file[fd[w]] = 0 => text = mine[w]
  BY DEF WriteTmp
<1>2. /\ \A v \in Writer : v # w => pc'[v] = pc[v]
      /\ pc[w] = "opened" /\ pc'[w] = "written" /\ fd[w] \in Inode
      /\ UNCHANGED <<receipts, done, head, tmp, base, mine>>
      /\ pc \in [Writer -> Places] /\ pc' \in [Writer -> Places]
  BY DEF WriteTmp, AuditInv, TypeOK, Places
<1>3. BarredPc[w] = "stored" /\ BarredPc' = BarredPc
  BY <1>2 DEF BarredPc
<1>4. /\ \A j \in Inode : file'[j] = IF j = fd[w] THEN text ELSE file[j]
      /\ fd[w] # None
  BY <1>1, <1>2, AuditAssumption DEF AuditInv, TypeOK
<1>5. CrossedAt(w)' => CrossedAt(w)
  BY <1>1, <1>2, <1>4 DEF CrossedAt
<1>6. H!Crosses(w)
  BY <1>2, <1>5, StepCrosses
<1>7. CASE fd[w] = head
  <2>1. CrossedAt(w) /\ mine[w] # 0
    BY <1>2, <1>4, <1>7 DEF CrossedAt, SerialInv, FilesApart, AuditInv, KnownHashes
  <2>2. BarredHead' \in {mine[w], MaxReceipts + 1}
    BY <1>2, <1>4, <1>7 DEF BarredHead, Readable, HeadHash
  <2>3. BarredCrossed[w]
    BY <2>1 DEF BarredCrossed
  <2> QED
    BY <1>2, <1>3, <1>6, <2>2, <2>3 DEF H!Handle, H!Garbled, BarredPc, BarredHead, BarredCrossed, CrossedAt
<1>8. CASE fd[w] # head
  <2>1. BarredHead' = BarredHead
    BY <1>2, <1>4, <1>8 DEF BarredHead, Readable, HeadHash, AuditInv, TypeOK
  <2> QED
    BY <1>2, <1>3, <1>6, <2>1 DEF H!Handle, BarredPc, BarredHead
<1> QED
  BY <1>7, <1>8

LEMMA LeaveEnds ==
  ASSUME AuditInv, NEW w \in Writer, Leave(w), UNCHANGED receipts
  PROVE  H!Ends(w)
<1>1. /\ \A v \in Writer : v # w => pc'[v] = pc[v]
      /\ pc'[w] = "idle" /\ UNCHANGED receipts
      /\ base' = [base EXCEPT ![w] = 0] /\ mine' = [mine EXCEPT ![w] = 0]
      /\ pc \in [Writer -> Places] /\ pc' \in [Writer -> Places]
  BY DEF Leave, AuditInv, TypeOK, Places
<1>2. BarredPc' = [BarredPc EXCEPT ![w] = "idle"]
  BY <1>1 DEF BarredPc
<1>3. ~CrossedAt(w)'
  BY <1>1 DEF CrossedAt
<1>4. H!Crosses(w)
  BY <1>1, <1>3, StepCrosses
<1>5. ~BarredCrossed'[w]
  <2> HIDE DEF CrossedAt
  <2> QED
    BY <1>3 DEF BarredCrossed
<1> QED
  BY <1>1, <1>2, <1>4, <1>5 DEF H!Ends, BarredPc, BarredCrossed, CrossedAt

LEMMA ReplaceAdvances ==
  ASSUME AuditInv, NEW w \in Writer, Replace(w)
  PROVE  H!Advance(w)
<1>1. H!Ends(w)
  BY LeaveEnds DEF Replace
<1>2. /\ pc[w] = "written" /\ tmp # None /\ head' = tmp /\ tmp' = None
      /\ done' = done \cup {mine[w]} /\ receipts' = receipts /\ file' = file
  BY DEF Replace
<1>3. /\ mine[w] # 0 /\ tmp \in Inode /\ DOMAIN receipts = 1..Len(receipts)
      /\ file[tmp] \in 0..Len(receipts)
  BY <1>2 DEF AuditInv, TypeOK, KnownHashes
<1>4. BarredHead' = IF file[tmp] = 0 THEN MaxReceipts + 1 ELSE file[tmp]
  BY <1>2, <1>3 DEF BarredHead, Readable, HeadHash
<1>5. CrossedAt(w) <=> file[tmp] # mine[w]
  BY <1>2 DEF CrossedAt
<1>6. /\ BarredPc[w] = "stored"
      /\ IF CrossedAt(w) THEN BarredHead' \in DOMAIN receipts \cup {MaxReceipts + 1}
                         ELSE BarredHead' = mine[w]
  BY <1>2, <1>3, <1>4, <1>5 DEF BarredPc
<1>7. BarredCrossed[w] <=> CrossedAt(w)
  <2> HIDE DEF CrossedAt
  <2> QED
    BY DEF BarredCrossed
<1>8. DOMAIN BarredReceipts = DOMAIN receipts
  BY DEF BarredReceipts
<1>9. IF BarredCrossed[w] THEN BarredHead' \in DOMAIN BarredReceipts \cup {MaxReceipts + 1}
                          ELSE BarredHead' = mine[w]
  BY <1>6, <1>7, <1>8
<1> QED
  BY <1>1, <1>2, <1>6, <1>9
     DEF H!Advance, H!Garbled, BarredPc, BarredHead, BarredCrossed, CrossedAt, BarredReceipts

LEMMA LeavesAbandon ==
  ASSUME AuditInv, NEW w \in Writer, ReplaceFails(w) \/ Crash(w)
  PROVE  H!Abandon(w)
<1>1. /\ pc[w] # "idle" /\ UNCHANGED <<done, head, file, receipts>>
      /\ pc \in [Writer -> Places]
  BY DEF ReplaceFails, Crash, AuditInv, TypeOK
<1>2. H!Ends(w)
  BY LeaveEnds DEF ReplaceFails, Crash
<1>3. BarredPc[w] # "idle" /\ BarredHead' = BarredHead
  BY <1>1 DEF BarredPc, BarredHead, Readable, HeadHash
<1> QED
  BY <1>1, <1>2, <1>3 DEF H!Abandon, H!Busy, BarredPc, BarredHead

LEMMA HeadLogInit == Init => H!HInit
<1> SUFFICES ASSUME Init PROVE H!HInit
  OBVIOUS
<1>1. BarredHead = 0 /\ BarredPc = [w \in Writer |-> "idle"]
  BY DEF Init, BarredHead, BarredPc, Readable, HeadHash
<1>2. \A w \in Writer : CrossedAt(w) = FALSE
  BY DEF Init, CrossedAt
<1>3. BarredCrossed = [w \in Writer |-> FALSE]
  <2> HIDE DEF CrossedAt
  <2> QED
    BY <1>2 DEF BarredCrossed
<1>4. BarredReceipts = <<>>
  BY DEF Init, BarredReceipts
<1> QED
  BY <1>1, <1>3, <1>4
     DEF Init, H!HInit, BarredHead, BarredPc, BarredCrossed, CrossedAt, BarredReceipts

\* A step of write_artifact is one of HeadLog's writes.
LEMMA WriteMaps ==
  ASSUME AuditInv, SerialInv, NEW w \in Writer, Writes(w)
  PROVE  H!Writes(w)
<1> QED
  BY ReadBegins, StoreKeeps, OpenHandles, WriteHandles, ReplaceAdvances, LeavesAbandon
     DEF Writes, H!Writes

LEMMA HeadLogStep ==
  ASSUME AuditInv, SerialInv, [Next]_vars
  PROVE  [H!HNext]_(H!hvars)
<1>1. CASE UNCHANGED vars
  <2>1. /\ BarredHead' = BarredHead /\ BarredPc' = BarredPc
        /\ BarredCrossed' = BarredCrossed /\ BarredReceipts' = BarredReceipts
        /\ UNCHANGED <<done, base, mine>>
    BY <1>1 DEF vars, BarredHead, BarredPc, BarredCrossed, CrossedAt, BarredReceipts,
                Readable, HeadHash
  <2> QED
    BY <2>1 DEF H!hvars, BarredHead, BarredPc, BarredCrossed, CrossedAt, BarredReceipts
<1>2. CASE Next
  <2>1. \E w \in Writer : H!Writes(w)
    BY <1>2, WriteMaps DEF Next
  <2> QED
    BY <2>1 DEF H!HNext
<1> QED
  BY <1>1, <1>2

\* With any number of writers the head file and the receipts behave as HeadLog says:
\* only a write that another has disturbed leaves a head that is not its own receipt.
THEOREM ChainImplementsHeadLog == Spec => ImplementsHeadLog
<1> QED
  BY HeadLogInit, HeadLogStep, AuditInvariance, SerialInvariance, PTL
     DEF Spec, ImplementsHeadLog, H!HSpec

-------------------------------------------------------------------------------
(* The walks over the files.  P has the theorems of AuditWalkProofs, for the *)
(* log that AuditSystem!W shows a walk.                                      *)

P == INSTANCE AuditWalkProofs WITH
  PageLimit <- 50,
  receipts <- [r \in DOMAIN receipts |-> [prev |-> receipts[r].prev, trail |-> receipts[r].trail]],
  head <- IF Readable THEN HeadHash ELSE MaxReceipts + 1,
  pc <- [w \in Writer |-> IF pc[w] \in {"opened", "written"} THEN "stored" ELSE pc[w]],
  crossed <- [w \in Writer |->
    \/ pc[w] = "opened" /\ (fd[w] # tmp \/ file[fd[w]] # 0)
    \/ pc[w] = "written" /\ (IF tmp = None THEN TRUE ELSE file[tmp] # mine[w])]

\* AuditWalk's writes are HeadLog's.
LEMMA SameWrites == ASSUME NEW w \in Writer PROVE H!Writes(w) => W!Writes(w)
<1>1. H!Begin(w) => W!Begin(w)
  BY DEF H!Begin, W!Begin, H!Busy, W!Busy, H!Garbled, W!Garbled
<1>2. H!Keep(w) => W!Keep(w)
  BY DEF H!Keep, W!Keep, H!Ids, W!Ids, H!TrailOf, W!TrailOf
<1>3. H!Crosses(w) => W!Crosses(w)
  BY DEF H!Crosses, W!Crosses
<1>4. H!Ends(w) => W!Ends(w)
  BY <1>3 DEF H!Ends, W!Ends
<1>5. H!Handle(w) => W!Handle(w)
  BY <1>3 DEF H!Handle, W!Handle, H!Garbled, W!Garbled
<1>6. H!Advance(w) => W!Advance(w)
  BY <1>4 DEF H!Advance, W!Advance, H!Garbled, W!Garbled
<1>7. H!Abandon(w) => W!Abandon(w)
  BY <1>4 DEF H!Abandon, W!Abandon, H!Busy, W!Busy
<1> QED
  BY <1>1, <1>2, <1>5, <1>6, <1>7 DEF H!Writes, W!Writes

\* A daemon's step is a write of AuditWalk, whose history of overlaps is the same.
LEMMA SystemStep ==
  ASSUME AuditInv, SerialInv, [SystemNext]_systemVars
  PROVE  [W!WalkNext]_(W!walkAll)
<1>1. CASE UNCHANGED systemVars
  BY <1>1 DEF systemVars, vars, walkVars, W!walkAll, W!walkVars, W!hvars, Readable, HeadHash
<1>2. ASSUME NEW w \in Writer, DaemonWrites(w)
      PROVE  W!Write(w)
  <2>1. W!Writes(w)
    BY <1>2, WriteMaps, SameWrites DEF DaemonWrites
  <2>2. \A v \in Writer : W!Busy(v) <=> pc[v] # "idle"
    BY DEF W!Busy
  <2> QED
    BY <1>2, <2>1, <2>2 DEF DaemonWrites, W!Write, walkVars, W!walkVars
<1>3. CASE ReaderSteps
  BY <1>3 DEF ReaderSteps, W!WalkNext
<1> QED
  BY <1>1, <1>2, <1>3 DEF SystemNext, W!WalkNext

\* The daemons do to the files what AuditChain says.
LEMMA SystemIsChain == SystemSpec => Spec
<1>1. SystemInit => Init
  BY DEF SystemInit
<1>2. [SystemNext]_systemVars => [Next]_vars
  BY DEF SystemNext, systemVars, DaemonWrites, ReaderSteps, Next
<1> QED
  BY <1>1, <1>2, PTL DEF SystemSpec, Spec

\* The files are to the walks what HeadLog promises, step by step: AuditWalk leaves out
\* nothing of write_artifact and AuditChainHead that a walk could notice.
THEOREM FilesCarryTheWalk == SystemSpec => ImplementsWalk
<1>1. SystemInit => W!WalkInit
  BY DEF SystemInit
<1> QED
  BY <1>1, SystemStep, SystemIsChain, AuditInvariance, SerialInvariance, PTL
     DEF SystemSpec, ImplementsWalk, W!WalkSpec

\* P speaks of the same walk as W.
LEMMA SameInit == W!WalkInit => P!WalkInit
BY DEF W!WalkInit, P!WalkInit, W!HInit, P!HInit

\* A write of the one is a write of the other...
LEMMA SameLogWrites == ASSUME NEW w \in Writer, W!Writes(w) PROVE P!Writes(w)
<1>1. W!Begin(w) => P!Begin(w)
  BY DEF W!Begin, P!Begin, W!Busy, P!Busy, W!Garbled, P!Garbled
<1>2. W!Keep(w) => P!Keep(w)
  BY DEF W!Keep, P!Keep, W!Ids, P!Ids, W!TrailOf, P!TrailOf
<1>3. W!Crosses(w) => P!Crosses(w)
  BY DEF W!Crosses, P!Crosses
<1>4. W!Ends(w) => P!Ends(w)
  BY <1>3 DEF W!Ends, P!Ends
<1>5. W!Handle(w) => P!Handle(w)
  BY <1>3 DEF W!Handle, P!Handle, W!Garbled, P!Garbled
<1>6. W!Advance(w) => P!Advance(w)
  BY <1>4 DEF W!Advance, P!Advance, W!Garbled, P!Garbled
<1>7. W!Abandon(w) => P!Abandon(w)
  BY <1>4 DEF W!Abandon, P!Abandon, W!Busy, P!Busy
<1> QED
  BY <1>1, <1>2, <1>5, <1>6, <1>7 DEF W!Writes, P!Writes

\* ...and so is a step of the walk, or the deletion of a local copy.
LEMMA SameStep == [W!WalkNext]_(W!walkAll) => [P!WalkNext]_(P!walkAll)
<1>1. P!walkVars = W!walkVars /\ P!hvars = W!hvars /\ P!walkAll = W!walkAll
  BY DEF W!walkAll, P!walkAll, W!walkVars, P!walkVars, W!hvars, P!hvars
<1>2. W!Verdicts = P!Verdicts
  BY DEF W!Verdicts, P!Verdicts
<1>3. ASSUME NEW w \in Writer, W!Write(w)
      PROVE  P!Write(w)
  <2>1. P!Writes(w) /\ \A v \in Writer : W!Busy(v) <=> P!Busy(v)
    BY <1>3, SameLogWrites DEF W!Write, W!Busy, P!Busy
  <2> QED
    BY <1>3, <2>1 DEF W!Write, P!Write, W!walkVars, P!walkVars, W!Verdicts, P!Verdicts
<1>4. W!Lose => P!Lose
  BY DEF W!Lose, P!Lose, W!Verdicts, P!Verdicts, W!walkVars, P!walkVars, W!hvars, P!hvars
<1>5. W!Reads => P!Reads
  BY DEF W!Reads, P!Reads, W!hvars, P!hvars
<1>6. W!ReadWalkHead => P!ReadWalkHead
  BY <1>5 DEF W!ReadWalkHead, P!ReadWalkHead, W!Garbled, P!Garbled
<1>7. W!GivenHead => P!GivenHead
  BY <1>5 DEF W!GivenHead, P!GivenHead
<1>8. W!Visit => P!Visit
  BY <1>5 DEF W!Visit, P!Visit, W!Fetchable, P!Fetchable
<1>9. W!FetchFails => P!FetchFails
  BY <1>5 DEF W!FetchFails, P!FetchFails
<1>10. W!WaitTimesOut => P!WaitTimesOut
  BY <1>5 DEF W!WaitTimesOut, P!WaitTimesOut
<1>11. W!HeadOutOfReach => P!HeadOutOfReach
  BY <1>5 DEF W!HeadOutOfReach, P!HeadOutOfReach
<1>12. W!Walk => P!Walk
  BY <1>6, <1>7, <1>8, <1>9, <1>10, <1>11 DEF W!Walk, P!Walk
<1>13. W!WalkNext => P!WalkNext
  BY <1>3, <1>4, <1>12 DEF W!WalkNext, P!WalkNext
<1>14. UNCHANGED W!walkAll => UNCHANGED P!walkAll
  BY DEF W!walkAll, P!walkAll, W!walkVars, P!walkVars, W!hvars, P!hvars
<1> QED
  BY <1>13, <1>14

\* What AuditWalkProofs proves of P's states is said of W's.
LEMMA SameProperties ==
  /\ P!VerifiedIsWhole => W!VerifiedIsWhole
  /\ P!NoneLost => W!NoneLost
  /\ P!FailsForCause => W!FailsForCause
<1>1. P!NoneLost => W!NoneLost
  BY DEF P!NoneLost, W!NoneLost, P!TrailOf, W!TrailOf
<1>2. P!FailsForCause => W!FailsForCause
  BY DEF P!FailsForCause, W!FailsForCause
<1>3. P!VerifiedIsWhole => W!VerifiedIsWhole
  BY DEF P!VerifiedIsWhole, W!VerifiedIsWhole, P!NewestFirst, W!NewestFirst,
         P!TrailOf, W!TrailOf, P!Reverse, W!Reverse, P!IsPrefix, W!IsPrefix
<1> QED
  BY <1>1, <1>2, <1>3

\* CHAIN VERIFIED covers the whole chain, or the part of it down to the anchor it names;
\* as long as no two writes overlap no receipt is lost, a walk finds the head and the log
\* only grows: all this of the head file, the temporary file they share and the receipts in storage, for
\* any number of daemons that may die inside write_artifact.
THEOREM WalksOverFiles == SystemSpec => WalksAreRight
<1>1. W!WalkSpec => P!WalkSpec
  BY SameInit, SameStep, PTL DEF W!WalkSpec, P!WalkSpec
<1>2. P!HeadLogAssumption /\ P!WalkAssumption
  BY AuditAssumption DEF P!HeadLogAssumption, P!WalkAssumption
<1>3. P!WalkSpec => [](P!VerifiedIsWhole /\ P!NoneLost /\ P!FailsForCause) /\ P!AppendsWhenSerial
  BY <1>2, P!VerifiedCoversAll, P!NothingIsLost, P!FailureHasCause, P!SerialAppends, PTL
<1>4. P!AppendsWhenSerial => W!AppendsWhenSerial
  <2>1. P!TrailOf(BarredHead) = W!TrailOf(BarredHead)
    BY DEF P!TrailOf, W!TrailOf
  <2>2. [overlapped' \/ P!L!Add]_(P!TrailOf(BarredHead))
          => [overlapped' \/ W!L!Add]_(W!TrailOf(BarredHead))
    BY DEF P!TrailOf, W!TrailOf, P!L!Add, W!L!Add, P!Ids, W!Ids
  <2> QED
    BY <2>2, PTL DEF P!AppendsWhenSerial, W!AppendsWhenSerial, BarredHead
<1> QED
  BY <1>1, <1>3, <1>4, FilesCarryTheWalk, SameProperties, PTL DEF WalksAreRight, ImplementsWalk

===============================================================================
