---------------------------- MODULE AuditWalkProofs ----------------------------
(* Theorems about AuditWalk, and so about HeadLog, for every value of their  *)
(* constants.                                                                *)
EXTENDS AuditWalk, TLAPS

Kept == [prev : 0..MaxReceipts, trail : Seq(Nat)]

\* Types of the log, and what writers know of it is in storage.
LogTypeOK ==
  /\ receipts \in Seq(Kept) /\ Len(receipts) <= MaxReceipts
  /\ done \subseteq 1..Len(receipts)
  /\ head \in 0..Len(receipts) \cup {Garbled}
  /\ pc \in [Writer -> {"idle", "read", "stored"}]
  /\ base \in [Writer -> 0..Len(receipts)]
  /\ mine \in [Writer -> 0..Len(receipts)]
  /\ \A w \in Writer : pc[w] = "stored" => mine[w] # 0
  /\ crossed \in [Writer -> BOOLEAN]

\* A receipt names an older one, and its trail is that one's and itself.
Linked ==
  \A r \in 1..Len(receipts) :
    /\ receipts[r].prev \in 0..(r - 1)
    /\ receipts[r].trail = Append(TrailOf(receipts[r].prev), r)
    /\ \A i \in 1..Len(receipts[r].trail) : receipts[r].trail[i] \in 1..r

\* A write that no other has overlapped: what it has read is still the head.
Alone ==
  /\ \A v, w \in Writer : Busy(v) /\ Busy(w) => v = w
  /\ \A w \in Writer : ~crossed[w]
  /\ head # Garbled
  /\ \A w \in Writer : Busy(w) => base[w] = head
  /\ \A w \in Writer : pc[w] = "stored" => receipts[mine[w]].prev = base[w]

OnHead == \A x \in done : \E i \in 1..Len(TrailOf(head)) : TrailOf(head)[i] = x

LogInv == LogTypeOK /\ Linked /\ (~overlapped => Alone /\ OnHead)

WalkTypes ==
  /\ lost \subseteq 1..Len(receipts) /\ overlapped \in BOOLEAN
  /\ reader \in {"none", "cli", "page"} /\ (reader = "none" <=> status = "before")
  /\ status \in {"before", "walking"} \cup Verdicts
  /\ cur \in 0..Len(receipts) /\ (status = "walking" => cur # 0)
  /\ prefixed \in BOOLEAN /\ (prefixed => visited = <<>> /\ reader = "cli")
  /\ allOk \in BOOLEAN
  /\ visited \in Seq(1..Len(receipts))
  /\ status = "before" => visited = <<>>

\* What a walk has visited, oldest last, is the end of the trail of the receipt it
\* started from; what is left of that trail is the trail of the next receipt.
Followed ==
  visited # <<>> =>
    LET t == TrailOf(visited[1])
        rest == TrailOf(cur)
    IN  /\ Len(t) = Len(visited) + Len(rest)
        /\ \A i \in 1..Len(visited) : visited[i] = t[Len(t) + 1 - i]
        /\ \A i \in 1..Len(rest) : t[i] = rest[i]

\* What lies below the place where a walk has stopped.
Stopped ==
  /\ status = "walking" /\ reader = "page" => Len(visited) < PageLimit
  /\ status = "anchored" => visited # <<>> /\ cur # 0
  /\ status = "verified" => /\ visited # <<>>
                            /\ cur = 0 \/ (reader = "page" /\ Len(visited) = PageLimit)

WalkInv == LogInv /\ WalkTypes /\ Followed /\ Stopped /\ FailsForCause

-------------------------------------------------------------------------------
(* The log *)

\* A sequence that grows keeps what it holds.
LEMMA GrowsByOne ==
  ASSUME NEW S, NEW seq \in Seq(S), NEW e \in S
  PROVE  /\ Append(seq, e) \in Seq(S)
         /\ Len(Append(seq, e)) = Len(seq) + 1
         /\ \A n \in 1..Len(seq) : Append(seq, e)[n] = seq[n]
         /\ Append(seq, e)[Len(seq) + 1] = e
OBVIOUS

\* What trails are.
LEMMA Trails ==
  ASSUME LogTypeOK, Linked
  PROVE  /\ Len(receipts) \in Nat /\ DOMAIN receipts = 1..Len(receipts)
         /\ TrailOf(0) = <<>> /\ TrailOf(Garbled) = <<>>
         /\ \A h \in 1..Len(receipts) : TrailOf(h) = receipts[h].trail
         /\ \A h \in 0..Len(receipts) : /\ TrailOf(h) \in Seq(Nat)
                                        /\ \A i \in 1..Len(TrailOf(h)) : TrailOf(h)[i] \in 1..h
<1>1. /\ Len(receipts) \in Nat /\ DOMAIN receipts = 1..Len(receipts)
      /\ \A h \in 1..Len(receipts) : receipts[h] \in Kept
  BY DEF LogTypeOK
<1>2. TrailOf(0) = <<>> /\ TrailOf(Garbled) = <<>>
  BY <1>1, HeadLogAssumption DEF TrailOf, Garbled, LogTypeOK
<1>3. \A h \in 1..Len(receipts) : TrailOf(h) = receipts[h].trail
  BY <1>1 DEF TrailOf
<1>4. \A e \in Kept : e.trail \in Seq(Nat)
  BY DEF Kept
<1>5. ASSUME NEW h \in 0..Len(receipts)
      PROVE  /\ TrailOf(h) \in Seq(Nat)
             /\ \A i \in 1..Len(TrailOf(h)) : TrailOf(h)[i] \in 1..h
  <2>1. CASE h = 0
    <3>1. TrailOf(h) = <<>>
      BY <1>2, <2>1
    <3> QED
      BY <3>1
  <2>2. CASE h # 0
    <3>1. h \in 1..Len(receipts)
      BY <1>1, <2>2
    <3> QED
      BY <1>1, <1>3, <1>4, <3>1 DEF Linked
  <2> QED
    BY <2>1, <2>2
<1> QED
  BY <1>1, <1>2, <1>3, <1>5

\* A trail is one longer than that of the receipt before.
LEMMA TrailGrows ==
  ASSUME LogTypeOK, Linked, NEW r \in 1..Len(receipts)
  PROVE  LET p == TrailOf(receipts[r].prev)
         IN  /\ receipts[r].prev \in 0..Len(receipts) /\ receipts[r].prev < r
             /\ p \in Seq(Nat)
             /\ Len(TrailOf(r)) = Len(p) + 1
             /\ TrailOf(r)[Len(p) + 1] = r
             /\ \A i \in 1..Len(p) : TrailOf(r)[i] = p[i]
<1>1. receipts[r].prev \in 0..Len(receipts) /\ receipts[r].prev < r /\ r \in Nat
  BY Trails DEF Linked
<1>2. TrailOf(receipts[r].prev) \in Seq(Nat)
  BY <1>1, Trails
<1>3. TrailOf(r) = Append(TrailOf(receipts[r].prev), r)
  BY Trails DEF Linked
<1> QED
  BY <1>1, <1>2, <1>3, GrowsByOne

\* What no step but Keep disturbs.
LEMMA SameReceipts ==
  ASSUME UNCHANGED receipts
  PROVE  /\ \A h : TrailOf(h)' = TrailOf(h)
         /\ Linked => Linked'
<1>1. \A h : TrailOf(h)' = TrailOf(h)
  BY DEF TrailOf
<1> QED
  BY <1>1 DEF Linked

\* A new receipt extends the trail of the one it names, and leaves all others alone.
LEMMA KeepGrows ==
  ASSUME LogTypeOK, Linked, NEW w \in Writer, Keep(w)
  PROVE  LET n == Len(receipts) + 1
         IN  /\ receipts' \in Seq(Kept) /\ Len(receipts') = n /\ n <= MaxReceipts
             /\ \A x \in 1..Len(receipts) : receipts'[x] = receipts[x]
             /\ receipts'[n].prev = base[w]
             /\ \A h \in 0..Len(receipts) : TrailOf(h)' = TrailOf(h)
             /\ TrailOf(Garbled)' = TrailOf(Garbled)
             /\ receipts'[n].trail = Append(TrailOf(base[w]), n)
             /\ Append(TrailOf(base[w]), n) \in Seq(Nat)
<1> DEFINE n == Len(receipts) + 1
           t == Append(TrailOf(base[w]), n)
           r == [prev |-> base[w], trail |-> t]
<1>1. /\ Len(receipts) \in Nat /\ base[w] \in 0..Len(receipts) /\ n <= MaxReceipts
      /\ n \in Nat /\ base[w] \in 0..MaxReceipts
  <2>1. Len(receipts) \in Nat
    BY Trails
  <2>2. base[w] \in 0..Len(receipts) /\ n \in 1..MaxReceipts
    BY DEF Keep, Ids, LogTypeOK
  <2> QED
    BY <2>1, <2>2, HeadLogAssumption
<1>2. t \in Seq(Nat)
  BY <1>1, Trails
<1> HIDE DEF t
<1>3. r \in Kept /\ r.prev = base[w] /\ r.trail = t
  BY <1>1, <1>2 DEF Kept
<1>4. receipts' = Append(receipts, r)
  BY DEF Keep, t
<1> HIDE DEF r
<1>5. /\ receipts' \in Seq(Kept) /\ Len(receipts') = n
      /\ \A x \in 1..Len(receipts) : receipts'[x] = receipts[x]
      /\ receipts'[n] = r
  BY <1>3, <1>4, GrowsByOne DEF LogTypeOK
<1>6. DOMAIN receipts' = 1..n /\ DOMAIN receipts = 1..Len(receipts)
  BY <1>1, <1>5, Trails
<1>7. \A h \in 0..Len(receipts) : TrailOf(h)' = TrailOf(h)
  BY <1>1, <1>5, <1>6 DEF TrailOf
<1>8. TrailOf(Garbled)' = TrailOf(Garbled)
  BY <1>1, <1>6, HeadLogAssumption DEF TrailOf, Garbled
<1> QED
  BY <1>1, <1>2, <1>3, <1>5, <1>7, <1>8 DEF t

LEMMA LogInit == HInit => LogTypeOK /\ Linked /\ Alone /\ OnHead
<1> SUFFICES ASSUME HInit PROVE LogTypeOK /\ Linked /\ Alone /\ OnHead
  OBVIOUS
<1>1. receipts = <<>> /\ Len(receipts) = 0
  BY DEF HInit
<1>2. \A w \in Writer : ~Busy(w)
  BY DEF HInit, Busy
<1>3. LogTypeOK
  BY <1>1, HeadLogAssumption DEF HInit, LogTypeOK
<1>4. Linked /\ OnHead
  BY <1>1 DEF HInit, Linked, OnHead
<1>5. Alone
  BY <1>1, <1>2, HeadLogAssumption DEF HInit, Alone, Busy, Garbled
<1> QED
  BY <1>3, <1>4, <1>5

\* A write is serial when no other is under way.
Apart(w) == ~(overlapped \/ \E v \in Writer \ {w} : Busy(v))

LEMMA BeginKeepsLog ==
  ASSUME LogInv, NEW w \in Writer, Begin(w), overlapped' = ~Apart(w)
  PROVE  LogInv'
<1> USE DEF LogInv
<1>1. /\ \A v \in Writer : v # w => pc'[v] = pc[v] /\ base'[v] = base[v]
      /\ pc[w] = "idle" /\ pc'[w] = "read" /\ base'[w] = head /\ head \in 0..Len(receipts)
      /\ head # Garbled
      /\ UNCHANGED <<receipts, done, head, mine, crossed>>
  BY DEF Begin, Busy, LogTypeOK
<1>2. LogTypeOK'
  BY <1>1 DEF LogTypeOK, Begin
<1>3. Linked'
  BY <1>1, SameReceipts
<1>4. ASSUME ~overlapped' PROVE Alone' /\ OnHead'
  <2>1. \A v \in Writer : v # w => pc[v] = "idle"
    BY <1>4 DEF Apart, Busy
  <2>2. Alone'
    <3>1. Alone /\ \A v \in Writer : ~crossed'[v]
      BY <1>1, <1>4 DEF Apart, Alone
    <3>2. \A v \in Writer : Busy(v)' => v = w
      BY <1>1, <2>1 DEF Busy
    <3>3. \A v \in Writer : pc'[v] # "stored"
      BY <1>1, <2>1
    <3> QED
      BY <1>1, <3>1, <3>2, <3>3 DEF Alone, Garbled
  <2>3. OnHead'
    BY <1>1, <1>4 DEF OnHead, Apart, TrailOf
  <2> QED
    BY <2>2, <2>3
<1> QED
  BY <1>2, <1>3, <1>4

LEMMA KeepKeepsLog ==
  ASSUME LogInv, NEW w \in Writer, Keep(w), overlapped' = ~Apart(w)
  PROVE  LogInv'
<1> DEFINE n == Len(receipts) + 1
<1> USE DEF LogInv
<1>1. /\ \A v \in Writer : v # w => pc'[v] = pc[v] /\ mine'[v] = mine[v]
      /\ pc[w] = "read" /\ pc'[w] = "stored" /\ mine'[w] = n
      /\ UNCHANGED <<done, head, base, crossed>>
      /\ pc' \in [Writer -> {"idle", "read", "stored"}]
      /\ mine' = [mine EXCEPT ![w] = n]
  BY DEF Keep, LogTypeOK
<1>2. /\ Len(receipts) \in Nat /\ n \in Nat /\ base[w] \in 0..Len(receipts)
      /\ TrailOf(base[w]) \in Seq(Nat)
      /\ \A i \in 1..Len(TrailOf(base[w])) : TrailOf(base[w])[i] \in 1..base[w]
  <2>1. Len(receipts) \in Nat /\ base[w] \in 0..Len(receipts)
    BY Trails DEF LogTypeOK
  <2>2. \A h \in 0..Len(receipts) : /\ TrailOf(h) \in Seq(Nat)
                                    /\ \A i \in 1..Len(TrailOf(h)) : TrailOf(h)[i] \in 1..h
    BY Trails
  <2> QED
    BY <2>1, <2>2
<1>3. /\ receipts' \in Seq(Kept) /\ Len(receipts') = n /\ n <= MaxReceipts
      /\ \A x \in 1..Len(receipts) : receipts'[x] = receipts[x]
      /\ receipts'[n].prev = base[w]
      /\ \A h \in 0..Len(receipts) : TrailOf(h)' = TrailOf(h)
      /\ TrailOf(Garbled)' = TrailOf(Garbled)
      /\ receipts'[n].trail = Append(TrailOf(base[w]), n)
  BY KeepGrows
<1>4. LogTypeOK'
  BY <1>1, <1>2, <1>3 DEF LogTypeOK, Garbled
<1>5. Linked'
  <2> SUFFICES ASSUME NEW r \in 1..n
               PROVE  /\ receipts'[r].prev \in 0..(r - 1)
                      /\ receipts'[r].trail = Append(TrailOf(receipts[r].prev)', r)
                      /\ \A i \in 1..Len(receipts'[r].trail) : receipts'[r].trail[i] \in 1..r
    BY <1>3 DEF Linked
  <2>1. CASE r = n
    <3>1. \A i \in 1..Len(Append(TrailOf(base[w]), n)) : Append(TrailOf(base[w]), n)[i] \in 1..n
      BY <1>2, GrowsByOne
    <3>2. receipts'[r].prev = base[w] /\ TrailOf(receipts[r].prev)' = TrailOf(base[w])
      <4>1. PICK h \in 0..Len(receipts) : h = base[w]
        BY <1>2
      <4>2. TrailOf(h)' = TrailOf(h)
        BY <1>3
      <4> QED
        BY <1>3, <2>1, <4>1, <4>2 DEF TrailOf
    <3>3. receipts'[r].trail = Append(TrailOf(base[w]), n)
      BY <1>3, <2>1
    <3>4. \A i \in 1..Len(receipts'[r].trail) : receipts'[r].trail[i] \in 1..r
      BY <2>1, <3>1, <3>3
    <3>5. receipts'[r].prev \in 0..(r - 1)
      BY <1>2, <2>1, <3>2
    <3> QED
      BY <2>1, <3>2, <3>3, <3>4, <3>5
  <2>2. CASE r # n
    <3>1. r \in 1..Len(receipts) /\ receipts'[r] = receipts[r]
      BY <1>2, <1>3, <2>2
    <3>2. PICK h \in 0..Len(receipts) : h = receipts[r].prev
      BY <1>2, <3>1 DEF Linked
    <3>3. TrailOf(receipts[r].prev)' = TrailOf(receipts[r].prev)
      <4>1. TrailOf(h)' = TrailOf(h)
        BY <1>3
      <4> QED
        BY <3>1, <3>2, <4>1 DEF TrailOf
    <3> QED
      BY <3>1, <3>3 DEF Linked
  <2> QED
    BY <2>1, <2>2
<1>6. ASSUME ~overlapped' PROVE Alone' /\ OnHead'
  <2>1. \A v \in Writer : v # w => pc[v] = "idle"
    BY <1>6 DEF Apart, Busy
  <2>2. Alone'
    <3>1. Alone /\ pc[w] = "read" /\ \A v \in Writer : crossed'[v] = crossed[v]
      BY <1>1, <1>6 DEF Apart
    <3>2. \A v \in Writer : Busy(v)' => v = w
      BY <1>1, <2>1 DEF Busy
    <3>3. head' # Garbled /\ base'[w] = head'
      BY <1>1, <3>1 DEF Alone, Busy
    <3>4. receipts'[mine'[w]].prev = base'[w]
      BY <1>1, <1>3
    <3> QED
      BY <3>1, <3>2, <3>3, <3>4 DEF Alone, Busy
  <2>3. TrailOf(head)' = TrailOf(head)
    BY <1>1, <1>3 DEF TrailOf, LogTypeOK
  <2>4. OnHead'
    <3>1. OnHead /\ done' = done
      BY <1>1, <1>6 DEF Apart
    <3> QED
      BY <2>3, <3>1 DEF OnHead
  <2> QED
    BY <2>2, <2>4
<1> QED
  BY <1>4, <1>5, <1>6

LEMMA HandleKeepsLog ==
  ASSUME LogInv, NEW w \in Writer, Handle(w), overlapped' = ~Apart(w)
  PROVE  LogInv'
<1> USE DEF LogInv
<1>1. /\ pc[w] = "stored" /\ UNCHANGED <<receipts, done, pc, base, mine>>
      /\ crossed' \in [Writer -> BOOLEAN]
      /\ head' = head \/ (crossed[w] /\ head' \in {mine[w], Garbled})
      /\ \A v \in Writer \ {w} : crossed'[v] => crossed[v] \/ pc[v] = "stored"
      /\ crossed'[w] => crossed[w]
  BY DEF Handle, Crosses
<1>2. LogTypeOK'
  BY <1>1 DEF LogTypeOK, Garbled
<1>3. Linked'
  BY <1>1, SameReceipts
<1>4. ASSUME ~overlapped' PROVE Alone' /\ OnHead'
  <2>1. \A v \in Writer : v # w => pc[v] = "idle"
    BY <1>4 DEF Apart, Busy
  <2>2. /\ \A v \in Writer : ~crossed'[v]
        /\ head' = head
    BY <1>1, <1>4, <2>1 DEF Alone, Apart
  <2>3. Alone'
    BY <1>1, <1>4, <2>2 DEF Alone, Apart, Busy, Garbled
  <2>4. OnHead'
    BY <1>1, <1>4, <2>2 DEF OnHead, Apart, TrailOf
  <2> QED
    BY <2>3, <2>4
<1> QED
  BY <1>2, <1>3, <1>4

\* A writer that leaves is no longer in anyone's way.
LEMMA EndsFacts ==
  ASSUME LogInv, NEW w \in Writer, Ends(w)
  PROVE  /\ \A v \in Writer : v # w => pc'[v] = pc[v] /\ base'[v] = base[v] /\ mine'[v] = mine[v]
         /\ pc'[w] = "idle" /\ UNCHANGED receipts
         /\ pc' \in [Writer -> {"idle", "read", "stored"}]
         /\ base' \in [Writer -> 0..Len(receipts)] /\ mine' \in [Writer -> 0..Len(receipts)]
         /\ crossed' \in [Writer -> BOOLEAN] /\ ~crossed'[w]
         /\ \A v \in Writer \ {w} : crossed'[v] => crossed[v] \/ pc[v] = "stored"
         /\ Linked'
         /\ ~overlapped /\ (\A v \in Writer : v # w => pc[v] = "idle") =>
              \A v \in Writer : ~crossed'[v]
<1>1. Len(receipts) \in Nat
  BY Trails DEF LogInv
<1>2. Linked'
  BY SameReceipts DEF LogInv, Ends
<1>3. /\ \A v \in Writer : v # w => pc'[v] = pc[v] /\ base'[v] = base[v] /\ mine'[v] = mine[v]
      /\ pc'[w] = "idle" /\ UNCHANGED receipts
      /\ pc' \in [Writer -> {"idle", "read", "stored"}]
      /\ base' \in [Writer -> 0..Len(receipts)] /\ mine' \in [Writer -> 0..Len(receipts)]
  BY <1>1 DEF Ends, LogInv, LogTypeOK
<1>4. /\ crossed' \in [Writer -> BOOLEAN] /\ ~crossed'[w]
      /\ \A v \in Writer \ {w} : crossed'[v] => crossed[v] \/ pc[v] = "stored"
  BY DEF Ends, Crosses
<1>5. ~overlapped /\ (\A v \in Writer : v # w => pc[v] = "idle") => \A v \in Writer : ~crossed'[v]
  BY <1>4 DEF LogInv, Alone
<1> QED
  BY <1>2, <1>3, <1>4, <1>5

LEMMA AdvanceKeepsLog ==
  ASSUME LogInv, NEW w \in Writer, Advance(w), overlapped' = ~Apart(w)
  PROVE  /\ LogInv'
         /\ ~overlapped' => TrailOf(head)' = Append(TrailOf(head), mine[w]) /\ mine[w] \in Ids
<1> USE DEF LogInv
<1>1. /\ pc[w] = "stored" /\ done' = done \cup {mine[w]}
      /\ IF crossed[w] THEN head' \in DOMAIN receipts \cup {Garbled} ELSE head' = mine[w]
  BY DEF Advance
<1>2. /\ \A v \in Writer : v # w => pc'[v] = pc[v] /\ base'[v] = base[v] /\ mine'[v] = mine[v]
      /\ pc'[w] = "idle" /\ UNCHANGED receipts
      /\ pc' \in [Writer -> {"idle", "read", "stored"}]
      /\ base' \in [Writer -> 0..Len(receipts)] /\ mine' \in [Writer -> 0..Len(receipts)]
      /\ crossed' \in [Writer -> BOOLEAN]
      /\ Linked'
  BY EndsFacts DEF Advance
<1>3. Len(receipts) \in Nat /\ DOMAIN receipts = 1..Len(receipts) /\ mine[w] \in 1..Len(receipts)
  BY <1>1, Trails DEF LogTypeOK
<1>4. LogTypeOK'
  <2>1. head' \in 0..Len(receipts) \cup {Garbled}
    BY <1>1, <1>3 DEF Garbled
  <2>2. \A v \in Writer : pc'[v] = "stored" => mine'[v] # 0
    BY <1>2 DEF LogTypeOK
  <2> QED
    BY <1>1, <1>2, <1>3, <2>1, <2>2 DEF LogTypeOK, Garbled
<1>5. ASSUME ~overlapped'
      PROVE  /\ Alone' /\ OnHead'
             /\ TrailOf(head)' = Append(TrailOf(head), mine[w]) /\ mine[w] \in Ids
  <2>1. /\ \A v \in Writer : v # w => pc[v] = "idle"
        /\ ~overlapped
    BY <1>5 DEF Apart, Busy
  <2>2. head' = mine[w] /\ receipts[mine[w]].prev = head
    BY <1>1, <2>1 DEF Alone, Busy
  <2>3. \A v \in Writer : ~crossed'[v]
    BY <2>1, EndsFacts DEF Advance
  <2>4. \A v \in Writer : ~Busy(v)'
    BY <1>2, <2>1 DEF Busy
  <2>5. mine[w] \in Ids /\ mine[w] # Garbled
    BY <1>3, HeadLogAssumption DEF Ids, Garbled, LogTypeOK
  <2>6. Alone'
    BY <2>2, <2>3, <2>4, <2>5 DEF Alone, Busy, Garbled
  <2>7. TrailOf(head)' = TrailOf(mine[w]) /\ TrailOf(mine[w]) = Append(TrailOf(head), mine[w])
    BY <1>2, <1>3, <2>2, Trails DEF TrailOf, Linked
  <2>8. /\ TrailOf(head) \in Seq(Nat) /\ mine[w] \in Nat
        /\ Len(TrailOf(head)) \in Nat
    <3>1. mine[w] \in Nat /\ head \in 0..Len(receipts)
      BY <1>3, <2>2 DEF Linked
    <3>2. \A h \in 0..Len(receipts) : TrailOf(h) \in Seq(Nat)
      BY Trails
    <3> QED
      BY <3>1, <3>2
  <2>9. OnHead'
    <3> SUFFICES ASSUME NEW x \in done'
                 PROVE  \E i \in 1..Len(Append(TrailOf(head), mine[w])) :
                          Append(TrailOf(head), mine[w])[i] = x
      BY <2>7 DEF OnHead
    <3>1. CASE x = mine[w]
      BY <2>8, <3>1, GrowsByOne
    <3>2. CASE x \in done
      <4>1. PICK i \in 1..Len(TrailOf(head)) : TrailOf(head)[i] = x
        BY <2>1, <3>2 DEF OnHead
      <4> QED
        BY <2>8, <4>1, GrowsByOne
    <3> QED
      BY <1>1, <3>1, <3>2
  <2> QED
    BY <2>5, <2>6, <2>7, <2>9
<1> QED
  BY <1>2, <1>4, <1>5

LEMMA AbandonKeepsLog ==
  ASSUME LogInv, NEW w \in Writer, Abandon(w), overlapped' = ~Apart(w)
  PROVE  LogInv'
<1> USE DEF LogInv
<1>1. /\ \A v \in Writer : v # w => pc'[v] = pc[v] /\ base'[v] = base[v] /\ mine'[v] = mine[v]
      /\ pc'[w] = "idle" /\ UNCHANGED <<receipts, done, head>>
      /\ pc' \in [Writer -> {"idle", "read", "stored"}]
      /\ base' \in [Writer -> 0..Len(receipts)] /\ mine' \in [Writer -> 0..Len(receipts)]
      /\ crossed' \in [Writer -> BOOLEAN]
      /\ Linked'
  BY EndsFacts DEF Abandon
<1>2. LogTypeOK'
  <2>1. \A v \in Writer : pc'[v] = "stored" => mine'[v] # 0
    BY <1>1 DEF LogTypeOK
  <2> QED
    BY <1>1, <2>1 DEF LogTypeOK, Garbled
<1>3. ASSUME ~overlapped' PROVE Alone' /\ OnHead'
  <2>1. /\ \A v \in Writer : v # w => pc[v] = "idle"
        /\ ~overlapped
    BY <1>3 DEF Apart, Busy
  <2>2. \A v \in Writer : ~crossed'[v]
    BY <2>1, EndsFacts DEF Abandon
  <2>3. \A v \in Writer : ~Busy(v)'
    BY <1>1, <2>1 DEF Busy
  <2>4. Alone'
    BY <1>1, <2>1, <2>2, <2>3 DEF Alone, Busy, Garbled
  <2>5. OnHead'
    BY <1>1, <2>1, SameReceipts DEF OnHead
  <2> QED
    BY <2>4, <2>5
<1> QED
  BY <1>1, <1>2, <1>3

\* Every write keeps what is known of the log.
LEMMA WriteKeepsLog ==
  ASSUME LogInv, NEW w \in Writer, Writes(w), overlapped' = ~Apart(w)
  PROVE  LogInv'
BY BeginKeepsLog, KeepKeepsLog, HandleKeepsLog, AdvanceKeepsLog, AbandonKeepsLog DEF Writes

\* So does everything else, as it leaves the log alone.
LEMMA OthersKeepLog ==
  ASSUME LogInv, UNCHANGED <<hvars, overlapped>>
  PROVE  LogInv'
<1>1. UNCHANGED <<receipts, done, head, pc, base, mine, crossed, overlapped>>
  BY DEF hvars
<1>2. LogTypeOK'
  BY <1>1 DEF LogInv, LogTypeOK, Garbled
<1>3. Linked'
  BY <1>1, SameReceipts DEF LogInv
<1>4. Alone => Alone'
  BY <1>1 DEF Alone, Busy, Garbled
<1>5. OnHead => OnHead'
  BY <1>1 DEF OnHead, TrailOf
<1> QED
  BY <1>1, <1>2, <1>3, <1>4, <1>5 DEF LogInv

\* The trails of the receipts in storage never change.
LEMMA TrailsStay ==
  ASSUME LogInv, NEW w \in Writer, Writes(w)
  PROVE  /\ Len(receipts) <= Len(receipts') /\ Len(receipts') \in Nat
         /\ \A h \in 0..Len(receipts) : TrailOf(h)' = TrailOf(h)
<1>1. Len(receipts) \in Nat
  BY Trails DEF LogInv
<1>2. CASE Keep(w)
  BY <1>1, <1>2, KeepGrows DEF LogInv
<1>3. CASE UNCHANGED receipts
  BY <1>1, <1>3, SameReceipts
<1> QED
  BY <1>2, <1>3 DEF Writes, Begin, Handle, Advance, Abandon, Ends

-------------------------------------------------------------------------------
(* The walk *)

LEMMA WalkInitOK == WalkInit => WalkInv
<1> SUFFICES ASSUME WalkInit PROVE WalkInv
  OBVIOUS
<1>1. LogInv
  BY LogInit DEF WalkInit, LogInv
<1>2. WalkTypes
  <2>1. Len(receipts) = 0 /\ visited = <<>>
    BY DEF WalkInit, HInit
  <2>2. visited \in Seq(1..Len(receipts))
    BY <2>1
  <2>3. /\ lost = {} /\ overlapped = FALSE /\ reader = "none" /\ status = "before"
        /\ cur = 0 /\ prefixed = FALSE /\ allOk = TRUE
    BY DEF WalkInit
  <2>4. lost \subseteq 1..Len(receipts) /\ cur \in 0..Len(receipts)
    BY <2>1, <2>3
  <2> QED
    BY <2>1, <2>2, <2>3, <2>4, Zenon DEF WalkTypes
<1>3. Followed /\ Stopped /\ FailsForCause
  BY WalkAssumption DEF WalkInit, Followed, Stopped, FailsForCause
<1> QED
  BY <1>1, <1>2, <1>3 DEF WalkInv

\* What is true of a walk stays true while the log grows and the storage shrinks.
LEMMA WalkStays ==
  ASSUME WalkInv, status \notin Verdicts, UNCHANGED walkVars,
         lost' \subseteq 1..Len(receipts'), overlapped' \in BOOLEAN,
         Len(receipts) \in Nat, Len(receipts') \in Nat, Len(receipts) <= Len(receipts'),
         \A h \in 0..Len(receipts) : TrailOf(h)' = TrailOf(h)
  PROVE  WalkTypes' /\ Followed' /\ Stopped' /\ FailsForCause'
<1>1. UNCHANGED <<reader, status, cur, prefixed, allOk, visited>>
  BY DEF walkVars
<1>2. visited \in Seq(1..Len(receipts))
  BY DEF WalkInv, WalkTypes
<1>3. visited \in Seq(1..Len(receipts'))
  BY <1>2
<1>4. WalkTypes'
  BY <1>1, <1>3 DEF WalkInv, WalkTypes, Verdicts
<1>5. Followed'
  <2> SUFFICES ASSUME visited # <<>> PROVE Followed'
    BY <1>1 DEF Followed
  <2>1. PICK h \in 0..Len(receipts) : h = visited[1]
    BY <1>2
  <2>2. PICK k \in 0..Len(receipts) : k = cur
    BY DEF WalkInv, WalkTypes
  <2>3. TrailOf(h)' = TrailOf(h) /\ TrailOf(k)' = TrailOf(k)
    OBVIOUS
  <2>4. TrailOf(visited[1])' = TrailOf(visited[1]) /\ TrailOf(cur)' = TrailOf(cur)
    BY <1>1, <2>1, <2>2, <2>3 DEF TrailOf
  <2> QED
    BY <1>1, <2>4 DEF WalkInv, Followed
<1>6. Stopped' /\ FailsForCause'
  BY <1>1 DEF WalkInv, Stopped, FailsForCause, Verdicts
<1> QED
  BY <1>4, <1>5, <1>6

LEMMA WriteKeeps ==
  ASSUME WalkInv, NEW w \in Writer, Write(w)
  PROVE  WalkInv'
<1>1. /\ status \notin Verdicts /\ Writes(w) /\ UNCHANGED <<lost, walkVars>>
      /\ overlapped' = ~Apart(w)
  BY DEF Write, Apart
<1>2. LogInv'
  BY <1>1, WriteKeepsLog DEF WalkInv
<1>3. /\ Len(receipts) \in Nat /\ Len(receipts') \in Nat /\ Len(receipts) <= Len(receipts')
      /\ \A h \in 0..Len(receipts) : TrailOf(h)' = TrailOf(h)
  BY <1>1, TrailsStay, Trails DEF WalkInv, LogInv
<1>4. lost' \subseteq 1..Len(receipts') /\ overlapped' \in BOOLEAN
  BY <1>1, <1>3 DEF WalkInv, WalkTypes, Write
<1> QED
  BY <1>1, <1>2, <1>3, <1>4, WalkStays DEF WalkInv

LEMMA LoseKeeps ==
  ASSUME WalkInv, Lose
  PROVE  WalkInv'
<1>1. /\ status \notin Verdicts /\ UNCHANGED <<hvars, overlapped, walkVars, receipts>>
      /\ \E r \in DOMAIN receipts : lost' = lost \cup {r}
  BY DEF Lose, hvars
<1>2. LogInv'
  BY <1>1, OthersKeepLog DEF WalkInv
<1>3. /\ Len(receipts) \in Nat /\ DOMAIN receipts = 1..Len(receipts)
      /\ \A h : TrailOf(h)' = TrailOf(h)
  BY <1>1, Trails, SameReceipts DEF WalkInv, LogInv
<1>4. lost' \subseteq 1..Len(receipts') /\ overlapped' \in BOOLEAN
  BY <1>1, <1>3 DEF WalkInv, WalkTypes
<1> QED
  BY <1>1, <1>2, <1>3, <1>4, WalkStays DEF WalkInv

\* A walk that has visited nothing has nothing to account for.
LEMMA ReadKeeps ==
  ASSUME WalkInv, ReadWalkHead \/ HeadOutOfReach \/ GivenHead
  PROVE  WalkInv'
<1>1. /\ UNCHANGED <<hvars, lost, overlapped, receipts, done, allOk, visited>>
      /\ status = "before" /\ visited = <<>> /\ reader' \in {"cli", "page"}
      /\ status' \in {"raised", "nothing", "failed", "walking"}
      /\ prefixed' \in BOOLEAN /\ (prefixed' => reader' = "cli")
  BY DEF ReadWalkHead, HeadOutOfReach, GivenHead, Reads, hvars, WalkInv, WalkTypes
<1>2. LogInv'
  BY <1>1, OthersKeepLog DEF WalkInv
<1>3. Len(receipts) \in Nat /\ DOMAIN receipts = 1..Len(receipts)
  BY Trails DEF WalkInv, LogInv
<1>4. cur' \in 0..Len(receipts) /\ (status' = "walking" => cur' # 0)
  BY <1>3 DEF ReadWalkHead, HeadOutOfReach, GivenHead, WalkInv, WalkTypes, LogInv, LogTypeOK
<1>5. WalkTypes'
  BY <1>1, <1>4 DEF WalkInv, WalkTypes, Verdicts
<1>6. Followed' /\ Stopped'
  BY <1>1, WalkAssumption DEF Followed, Stopped
<1>7. FailsForCause'
  <2>1. CASE overlapped
    BY <1>1, <2>1 DEF FailsForCause
  <2>2. CASE ~overlapped
    <3>1. Alone /\ OnHead
      BY <2>2 DEF WalkInv, LogInv
    <3>2. head = 0 => done = {}
      BY <3>1, Trails DEF WalkInv, LogInv, OnHead
    <3> QED
      BY <1>1, <1>3, <3>1, <3>2 DEF FailsForCause, ReadWalkHead, HeadOutOfReach, GivenHead, Alone
  <2> QED
    BY <2>1, <2>2
<1> QED
  BY <1>2, <1>5, <1>6, <1>7 DEF WalkInv

\* The next receipt takes one element of the trail.
LEMMA VisitFollows ==
  ASSUME WalkInv, Visit
  PROVE  /\ cur \in 1..Len(receipts)
         /\ visited' \in Seq(1..Len(receipts)) /\ Len(visited') = Len(visited) + 1
         /\ visited' # <<>> /\ cur' \in 0..Len(receipts)
         /\ Followed'
<1>1. /\ status = "walking" /\ visited' = Append(visited, cur) /\ cur' = receipts[cur].prev
      /\ UNCHANGED receipts
  BY DEF Visit, Reads, hvars
<1>2. /\ cur \in 1..Len(receipts) /\ visited \in Seq(1..Len(receipts))
      /\ LogTypeOK /\ Linked /\ Followed /\ Len(receipts) \in Nat
  BY <1>1, Trails DEF WalkInv, WalkTypes, LogInv
<1> DEFINE p == TrailOf(receipts[cur].prev)
<1>3. /\ receipts[cur].prev \in 0..Len(receipts)
      /\ p \in Seq(Nat) /\ Len(TrailOf(cur)) = Len(p) + 1
      /\ TrailOf(cur)[Len(p) + 1] = cur
      /\ \A i \in 1..Len(p) : TrailOf(cur)[i] = p[i]
  BY <1>2, TrailGrows
<1>4. /\ visited' \in Seq(1..Len(receipts)) /\ Len(visited') = Len(visited) + 1
      /\ Len(visited) \in Nat /\ Len(p) \in Nat
      /\ \A n \in 1..Len(visited) : visited'[n] = visited[n]
      /\ visited'[Len(visited) + 1] = cur
  BY <1>1, <1>2, <1>3, GrowsByOne
<1>5. visited' # <<>>
  BY <1>4
<1>6. TrailOf(cur)' = p /\ TrailOf(visited[1])' = TrailOf(visited'[1])
  BY <1>1 DEF TrailOf
<1> HIDE DEF p
<1> DEFINE t == TrailOf(visited'[1])
<1>7. /\ Len(t) = Len(visited) + 1 + Len(p)
      /\ \A i \in 1..(Len(visited) + 1) : visited'[i] = t[Len(t) + 1 - i]
      /\ \A i \in 1..Len(p) : t[i] = p[i]
  <2>1. CASE visited = <<>>
    <3>1. Len(visited) = 0 /\ visited'[1] = cur
      BY <1>4, <2>1
    <3> QED
      BY <1>3, <1>4, <3>1
  <2>2. CASE visited # <<>>
    <3>1. visited'[1] = visited[1]
      BY <1>2, <1>4, <2>2
    <3> DEFINE c == TrailOf(cur)
    <3>2. /\ Len(t) = Len(visited) + Len(c)
          /\ \A i \in 1..Len(visited) : visited[i] = t[Len(t) + 1 - i]
          /\ \A i \in 1..Len(c) : t[i] = c[i]
      BY <1>2, <2>2, <3>1 DEF Followed
    <3> HIDE DEF c, t
    <3>3. /\ Len(c) = Len(p) + 1 /\ c[Len(p) + 1] = cur
          /\ \A i \in 1..Len(p) : c[i] = p[i]
      BY <1>3 DEF c
    <3>4. Len(t) = Len(visited) + 1 + Len(p) /\ \A i \in 1..Len(p) : t[i] = p[i]
      BY <1>4, <3>2, <3>3
    <3>5. ASSUME NEW i \in 1..(Len(visited) + 1) PROVE visited'[i] = t[Len(t) + 1 - i]
      <4>1. CASE i = Len(visited) + 1
        <5>1. Len(t) + 1 - i = Len(p) + 1
          BY <1>4, <3>4, <4>1
        <5>2. t[Len(p) + 1] = cur
          BY <1>4, <3>2, <3>3
        <5> QED
          BY <1>4, <4>1, <5>1, <5>2
      <4>2. CASE i \in 1..Len(visited)
        BY <1>4, <3>2, <4>2
      <4> QED
        BY <1>4, <4>1, <4>2
    <3> QED
      BY <3>4, <3>5
  <2> QED
    BY <2>1, <2>2
<1>8. Followed'
  BY <1>1, <1>4, <1>6, <1>7 DEF Followed
<1> QED
  BY <1>1, <1>2, <1>3, <1>4, <1>5, <1>8

LEMMA VisitKeeps ==
  ASSUME WalkInv, Visit
  PROVE  WalkInv'
<1>1. /\ UNCHANGED <<hvars, lost, overlapped, reader, receipts, done>>
      /\ status = "walking" /\ prefixed' = FALSE
      /\ allOk' \in BOOLEAN
      /\ status' = IF cur' # 0 /\ (reader = "page" => Len(visited') < PageLimit) THEN "walking"
                   ELSE IF allOk' THEN "verified" ELSE "failed"
  BY DEF Visit, Reads, hvars, WalkInv, WalkTypes
<1>2. LogInv'
  BY <1>1, OthersKeepLog DEF WalkInv
<1>3. /\ visited' \in Seq(1..Len(receipts)) /\ Len(visited') = Len(visited) + 1
      /\ visited' # <<>> /\ cur' \in 0..Len(receipts)
      /\ Followed' /\ Len(visited) \in Nat
  BY VisitFollows DEF WalkInv, WalkTypes
<1>4. WalkTypes'
  BY <1>1, <1>3 DEF WalkInv, WalkTypes, Verdicts
<1>5. Stopped'
  BY <1>1, <1>3, WalkAssumption DEF WalkInv, Stopped
<1>6. FailsForCause'
  BY <1>1 DEF FailsForCause
<1> QED
  BY <1>2, <1>3, <1>4, <1>5, <1>6 DEF WalkInv

LEMMA EndKeeps ==
  ASSUME WalkInv, FetchFails \/ WaitTimesOut
  PROVE  WalkInv'
<1>1. /\ UNCHANGED <<hvars, lost, overlapped, receipts, done, reader, cur, prefixed, allOk, visited>>
      /\ status = "walking"
      /\ status' \in {"failed", "broken", "anchored", "timeout"}
      /\ status' = "anchored" => visited # <<>>
  BY DEF FetchFails, WaitTimesOut, Reads, hvars
<1>2. LogInv'
  BY <1>1, OthersKeepLog DEF WalkInv
<1>3. WalkTypes' /\ Followed'
  BY <1>1 DEF WalkInv, WalkTypes, Verdicts, Followed, TrailOf
<1>4. Stopped' /\ FailsForCause'
  BY <1>1 DEF WalkInv, WalkTypes, Stopped, FailsForCause
<1> QED
  BY <1>2, <1>3, <1>4 DEF WalkInv

LEMMA WalkStep == WalkInv /\ [WalkNext]_walkAll => WalkInv'
<1> SUFFICES ASSUME WalkInv, [WalkNext]_walkAll PROVE WalkInv'
  OBVIOUS
<1>1. CASE UNCHANGED walkAll
  <2>1. UNCHANGED <<hvars, receipts, done, lost, overlapped, reader, status, cur, prefixed, allOk, visited>>
    BY <1>1 DEF walkAll, walkVars, hvars
  <2>2. LogInv'
    BY <2>1, OthersKeepLog DEF WalkInv
  <2>3. WalkTypes' /\ Followed' /\ Stopped' /\ FailsForCause'
    BY <2>1 DEF WalkInv, WalkTypes, Followed, Stopped, FailsForCause, TrailOf, Verdicts
  <2> QED
    BY <2>2, <2>3 DEF WalkInv
<1>2. CASE WalkNext
  BY <1>2, WriteKeeps, LoseKeeps, ReadKeeps, VisitKeeps, EndKeeps DEF WalkNext, Walk
<1> QED
  BY <1>1, <1>2

LEMMA WalkInvariance == WalkSpec => []WalkInv
<1> QED
  BY WalkInitOK, WalkStep, PTL DEF WalkSpec

-------------------------------------------------------------------------------
(* What the runs check *)

\* Types hold, for any number of writers and receipts.
THEOREM WalkTypeCorrect == WalkSpec => []WalkTypeOK
<1>1. WalkInv => WalkTypeOK
  <2> SUFFICES ASSUME WalkInv PROVE WalkTypeOK
    OBVIOUS
  <2>1. Len(receipts) \in Nat /\ Len(receipts) <= MaxReceipts /\ DOMAIN receipts = 1..Len(receipts)
    BY Trails DEF WalkInv, LogInv, LogTypeOK
  <2>2. head \in 0..Garbled /\ done \subseteq DOMAIN receipts
    BY <2>1, HeadLogAssumption DEF WalkInv, LogInv, LogTypeOK, Garbled
  <2>3. status = "walking" => cur \in DOMAIN receipts
    BY <2>1 DEF WalkInv, WalkTypes
  <2> QED
    BY <2>1, <2>2, <2>3 DEF WalkInv, WalkTypes, WalkTypeOK
<1> QED
  BY <1>1, WalkInvariance, PTL

\* CHAIN VERIFIED covers the whole chain below the receipt the walk started from, or
\* down to the anchor it names, or as much as the page walks: however many daemons write
\* while it runs, whatever becomes of them, and whichever fetch fails.
THEOREM VerifiedCoversAll == WalkSpec => []VerifiedIsWhole
<1>1. WalkInv => VerifiedIsWhole
  <2> SUFFICES ASSUME WalkInv, status \in {"verified", "anchored"}
               PROVE  /\ visited # <<>>
                      /\ LET all == NewestFirst(visited[1])
                         IN /\ IsPrefix(visited, all)
                            /\ status = "verified" =>
                                 visited = all \/ (reader = "page" /\ Len(visited) = PageLimit)
                            /\ status = "anchored" =>
                                 Len(visited) < Len(all) /\ cur = all[Len(visited) + 1]
    BY DEF VerifiedIsWhole
  <2> DEFINE t == TrailOf(visited[1])
             c == TrailOf(cur)
             all == NewestFirst(visited[1])
  <2>1. visited # <<>>
    BY DEF WalkInv, Stopped
  <2>2. /\ visited \in Seq(1..Len(receipts)) /\ Len(visited) \in Nat
        /\ visited[1] \in 0..Len(receipts) /\ cur \in 0..Len(receipts)
        /\ Len(receipts) \in Nat
    <3>1. /\ visited \in Seq(1..Len(receipts)) /\ cur \in 0..Len(receipts)
          /\ Len(receipts) \in Nat
      BY Trails DEF WalkInv, WalkTypes, LogInv
    <3>2. Len(visited) \in Nat /\ visited[1] \in 1..Len(receipts)
      BY <2>1, <3>1
    <3> QED
      BY <3>1, <3>2
  <2>3. /\ t \in Seq(Nat) /\ c \in Seq(Nat)
        /\ \A i \in 1..Len(c) : c[i] \in 1..cur
        /\ Len(t) \in Nat /\ Len(c) \in Nat
    <3>1. \A h \in 0..Len(receipts) : /\ TrailOf(h) \in Seq(Nat)
                                      /\ \A i \in 1..Len(TrailOf(h)) : TrailOf(h)[i] \in 1..h
      BY Trails DEF WalkInv, LogInv
    <3> QED
      BY <2>2, <3>1
  <2>4. /\ Len(t) = Len(visited) + Len(c)
        /\ \A i \in 1..Len(visited) : visited[i] = t[Len(t) + 1 - i]
        /\ \A i \in 1..Len(c) : t[i] = c[i]
    BY <2>1 DEF WalkInv, Followed
  <2>5. all = [i \in 1..Len(t) |-> t[(Len(t) - i) + 1]]
    BY DEF NewestFirst, Reverse
  <2> HIDE DEF t, c, all
  <2>6. /\ Len(all) = Len(t) /\ all \in Seq(Nat)
        /\ \A i \in 1..Len(t) : all[i] = t[(Len(t) - i) + 1]
    <3>1. \A i \in 1..Len(t) : t[(Len(t) - i) + 1] \in Nat
      BY <2>3
    <3> QED
      BY <2>3, <2>5, <3>1
  <2>7. IsPrefix(visited, all)
    <3>1. \A i \in 1..Len(visited) : visited[i] = all[i]
      BY <2>2, <2>3, <2>4, <2>6
    <3>2. /\ SubSeq(visited, 1, Len(visited)) = [i \in 1..Len(visited) |-> visited[i]]
          /\ SubSeq(all, 1, Len(visited)) = [i \in 1..Len(visited) |-> all[i]]
      BY <2>2, <2>6
    <3> QED
      <4>1. [i \in 1..Len(visited) |-> visited[i]] = [i \in 1..Len(visited) |-> all[i]]
        BY <3>1
      <4>2. Len(visited) <= Len(all)
        BY <2>2, <2>3, <2>4, <2>6
      <4> QED
        BY <3>2, <4>1, <4>2 DEF IsPrefix
  <2>8. CASE status = "anchored"
    <3>1. cur \in 1..Len(receipts)
      BY <2>2, <2>8 DEF WalkInv, Stopped
    <3>2. Len(c) > 0 /\ c[Len(c)] = cur
      <4>1. /\ Len(TrailOf(cur)) = Len(TrailOf(receipts[cur].prev)) + 1
            /\ TrailOf(cur)[Len(TrailOf(receipts[cur].prev)) + 1] = cur
            /\ TrailOf(receipts[cur].prev) \in Seq(Nat)
        BY <3>1, TrailGrows DEF WalkInv, LogInv
      <4>2. Len(TrailOf(receipts[cur].prev)) \in Nat
        BY <4>1
      <4> QED
        BY <4>1, <4>2 DEF c
    <3> DEFINE n == Len(visited)
               m == Len(c)
    <3>3. n \in Nat /\ m \in Nat /\ m > 0 /\ Len(t) = n + m /\ Len(all) = Len(t)
      BY <2>2, <2>3, <2>4, <2>6, <3>2
    <3>4. /\ \A i \in 1..Len(t) : all[i] = t[(Len(t) - i) + 1]
          /\ \A i \in 1..m : t[i] = c[i]
          /\ c[m] = cur
      BY <2>4, <2>6, <3>2
    <3> HIDE DEF n, m
    <3>5. n < Len(all) /\ n + 1 \in 1..Len(t) /\ (Len(t) - (n + 1)) + 1 = m /\ m \in 1..m
      BY <3>3
    <3>6. all[n + 1] = t[m] /\ t[m] = c[m]
      BY <3>4, <3>5
    <3>7. Len(visited) < Len(all) /\ all[Len(visited) + 1] = cur
      BY <3>4, <3>5, <3>6 DEF n
    <3> QED
      BY <2>1, <2>7, <2>8, <3>7 DEF all
  <2>9. CASE status = "verified"
    <3>1. cur = 0 \/ (reader = "page" /\ Len(visited) = PageLimit)
      BY <2>9 DEF WalkInv, Stopped
    <3>2. ASSUME cur = 0 PROVE visited = all
      <4>1. Len(c) = 0
        BY <2>3, <3>2
      <4>2. Len(visited) = Len(all)
        BY <2>2, <2>4, <2>6, <4>1
      <4>3. \A i \in 1..Len(visited) : visited[i] = all[i]
        BY <2>2, <2>3, <2>4, <2>6
      <4> QED
        <5>1. /\ visited = [i \in 1..Len(visited) |-> visited[i]]
              /\ all = [i \in 1..Len(all) |-> all[i]]
          BY <2>2, <2>6
        <5>2. [i \in 1..Len(visited) |-> visited[i]] = [i \in 1..Len(visited) |-> all[i]]
          BY <4>3
        <5> QED
          BY <4>2, <5>1, <5>2
    <3> QED
      BY <2>1, <2>7, <2>9, <3>1, <3>2 DEF all
  <2> QED
    BY <2>8, <2>9
<1> QED
  BY <1>1, WalkInvariance, PTL

\* As long as no two writes have overlapped, every receipt whose write has returned
\* is on the chain from the head, wherever writers have died before.
THEOREM NothingIsLost == WalkSpec => []NoneLost
<1>1. WalkInv => NoneLost
  <2> SUFFICES ASSUME WalkInv, ~overlapped, NEW x \in done
               PROVE  x \in {TrailOf(head)[i] : i \in DOMAIN TrailOf(head)}
    BY DEF NoneLost
  <2>1. PICK i \in 1..Len(TrailOf(head)) : TrailOf(head)[i] = x
    BY DEF WalkInv, LogInv, OnHead
  <2>2. TrailOf(head) \in Seq(Nat)
    BY Trails DEF WalkInv, LogInv, LogTypeOK, Alone
  <2>3. i \in DOMAIN TrailOf(head)
    BY <2>1, <2>2
  <2> QED
    BY <2>1, <2>3
<1> QED
  BY <1>1, WalkInvariance, PTL

\* Writers keep a walk from the head only when their writes overlap, or before the first
\* of them has returned.
THEOREM FailureHasCause == WalkSpec => []FailsForCause
<1>1. WalkInv => FailsForCause
  BY DEF WalkInv
<1> QED
  BY <1>1, WalkInvariance, PTL

\* Until two writes overlap, the trail of the head is only ever appended to.
THEOREM SerialAppends == WalkSpec => AppendsWhenSerial
<1>1. WalkInv /\ [WalkNext]_walkAll => [overlapped' \/ L!Add]_(TrailOf(head))
  <2> SUFFICES ASSUME WalkInv, [WalkNext]_walkAll, ~overlapped'
               PROVE  L!Add \/ TrailOf(head)' = TrailOf(head)
    OBVIOUS
  <2>1. CASE UNCHANGED <<receipts, head>>
    BY <2>1 DEF TrailOf
  <2>2. ASSUME NEW w \in Writer, Write(w)
        PROVE  L!Add \/ TrailOf(head)' = TrailOf(head)
    <3>1. LogInv /\ Writes(w) /\ overlapped' = ~Apart(w)
      BY <2>2 DEF Write, Apart, WalkInv
    <3>2. Alone /\ ~overlapped /\ (\A v \in Writer : v # w => ~Busy(v))
      BY <3>1 DEF Apart, LogInv
    <3>3. CASE Advance(w)
      BY <3>1, <3>3, AdvanceKeepsLog DEF L!Add
    <3>4. CASE Keep(w)
      <4>1. PICK h \in 0..Len(receipts) : h = head
        BY <3>1, <3>2 DEF LogInv, LogTypeOK, Alone
      <4>2. TrailOf(h)' = TrailOf(h) /\ head' = head
        BY <3>1, <3>4, KeepGrows DEF LogInv, Keep
      <4> QED
        BY <4>1, <4>2 DEF TrailOf
    <3>5. CASE Begin(w) \/ Handle(w) \/ Abandon(w)
      <4>1. UNCHANGED <<receipts, head>>
        BY <3>2, <3>5 DEF Begin, Handle, Abandon, Ends, Alone
      <4> QED
        BY <4>1 DEF TrailOf
    <3> QED
      BY <3>1, <3>3, <3>4, <3>5 DEF Writes
  <2>3. Walk \/ Lose \/ UNCHANGED walkAll => UNCHANGED <<receipts, head>>
    BY DEF Walk, ReadWalkHead, HeadOutOfReach, GivenHead, Visit, FetchFails, WaitTimesOut,
           Reads, Lose, walkAll, hvars
  <2> QED
    BY <2>1, <2>2, <2>3 DEF WalkNext
<1> QED
  BY <1>1, WalkInvariance, PTL DEF WalkSpec, AppendsWhenSerial
================================================================================
