------------------------------- MODULE AuditWalk -------------------------------
(***************************************************************************)
(* Who reads the receipt log while the daemons write it: the audit walk    *)
(* (apps/verify_audit.py) and the page that judges open in a browser       *)
(* (monitor/public_verifier: verifier.html over the API of server.py).     *)
(*                                                                         *)
(* Every receipt has a local copy; one that 0G took is also a transaction  *)
(* there, but the walks rarely ask for it: with the pinned hexbytes 1.3.1, *)
(* HexBytes.hex() has no 0x in front, so the log names every receipt       *)
(* without one and only a hash given to --head can have it.                *)
(***************************************************************************)
EXTENDS HeadLog, SequencesExt

CONSTANT PageLimit  \* receipts the page walks at most, 50 in verifier.html

ASSUME WalkAssumption == PageLimit \in Nat \ {0}

VARIABLES
  lost,        \* the receipts whose local copy has been deleted
  overlapped,  \* history: two writes have overlapped
  reader,      \* which of the two walks runs
  status,      \* its state, and in the end its verdict
  cur,         \* the receipt it fetches next, 0 for none
  prefixed,    \* its hash begins with 0x
  allOk,       \* the page has not seen a hash that does not match
  visited      \* the receipts it has fetched, newest first

walkVars == <<reader, status, cur, prefixed, allOk, visited>>
walkAll  == <<hvars, lost, overlapped, walkVars>>

Verdicts == {"nothing", "raised", "timeout", "broken", "anchored", "verified", "failed"}

WalkInit ==
  /\ HInit
  /\ lost = {} /\ overlapped = FALSE
  /\ reader = "none" /\ status = "before" /\ cur = 0
  /\ prefixed = FALSE /\ allOk = TRUE /\ visited = <<>>

-------------------------------------------------------------------------------
(* The storage.  Bound: nothing happens after the verdict.                   *)

Write(w) ==
  /\ status \notin Verdicts
  /\ Writes(w)
  /\ overlapped' = (overlapped \/ \E v \in Writer \ {w} : Busy(v))
  /\ UNCHANGED <<lost, walkVars>>

\* 0g_storage is not under version control: copies may be deleted, any of them and
\* in any order, while state/, with the head, stays.
Lose ==
  /\ status \notin Verdicts
  /\ \E r \in DOMAIN receipts \ lost : lost' = lost \cup {r}
  /\ UNCHANGED <<hvars, overlapped, walkVars>>

-------------------------------------------------------------------------------
(* The walks *)

Reads == UNCHANGED <<hvars, lost, overlapped>>

\* AuditChainHead().head, or /api/head.  A head file that does not parse makes
\* the first raise; the second answers that there is no head.
ReadWalkHead ==
  /\ Reads
  /\ status = "before" /\ reader' \in {"cli", "page"}
  /\ cur' = IF head = Garbled THEN 0 ELSE head
  /\ status' = IF head = Garbled /\ reader' = "cli" THEN "raised"
               ELSE IF cur' = 0 THEN "nothing" ELSE "walking"
  /\ UNCHANGED <<prefixed, allOk, visited>>

\* The page cannot reach /api/head.
HeadOutOfReach ==
  /\ Reads
  /\ status = "before" /\ reader' = "page"
  /\ status' = "failed"
  /\ UNCHANGED <<cur, prefixed, allOk, visited>>

\* --head: a hash as write_artifact logs it, or as an explorer of 0G shows it.
GivenHead ==
  /\ Reads
  /\ status = "before" /\ reader' = "cli"
  /\ cur' \in DOMAIN receipts
  /\ prefixed' \in BOOLEAN
  /\ status' = "walking"
  /\ UNCHANGED <<allOk, visited>>

\* What can be fetched: the local copy, whose file is named without 0x, or the
\* transaction, when it has the three confirmations the walk waits for.
Fetchable == prefixed \/ cur \notin lost

\* Mutant: the hash it finds is asked for as the given one was, with 0x.
VisitAsGiven ==
  /\ Reads
  /\ status = "walking" /\ Fetchable
  /\ visited' = Append(visited, cur) /\ cur' = receipts[cur].prev
  /\ status' = IF cur' # 0 THEN "walking" ELSE "verified"
  /\ UNCHANGED <<reader, prefixed, allOk>>

\* The next receipt is fetched and names the one before it.  Its hash is right;
\* the page's canonicalJson still finds another one when the receipt holds a
\* number that JavaScript writes differently, such as 1.0.
Visit ==
  /\ Reads
  /\ status = "walking" /\ Fetchable
  /\ visited' = Append(visited, cur)
  /\ cur' = receipts[cur].prev
  /\ prefixed' = FALSE
  /\ allOk' \in {allOk, allOk /\ reader = "cli"}
  /\ status' = IF cur' # 0 /\ (reader = "page" => Len(visited') < PageLimit) THEN "walking"
               ELSE IF allOk' THEN "verified" ELSE "failed"
  /\ UNCHANGED reader

\* Mutant: the loop is left as if the chain had ended there.
FetchEndsWalk ==
  /\ Reads
  /\ status = "walking"
  /\ status' = IF reader = "page" THEN "failed"
               ELSE IF visited = <<>> THEN "broken" ELSE "verified"
  /\ UNCHANGED <<reader, cur, prefixed, allOk, visited>>

\* The fetch raises, for whatever reason: there is no copy, it cannot be read or does
\* not parse, 0G or the page's server is out of reach.  It is a failure to the page,
\* and to the other walk when it is the first; later on that walk takes the receipt
\* for the genesis anchor and says CHAIN VERIFIED.
FetchFails ==
  /\ Reads
  /\ status = "walking"
  /\ status' = IF reader = "page" THEN "failed"
               ELSE IF visited = <<>> THEN "broken" ELSE "anchored"
  /\ UNCHANGED <<reader, cur, prefixed, allOk, visited>>

\* The walk has waited two minutes for three confirmations.
WaitTimesOut ==
  /\ Reads
  /\ status = "walking" /\ prefixed
  /\ status' = "timeout"
  /\ UNCHANGED <<reader, cur, prefixed, allOk, visited>>

Walk == ReadWalkHead \/ HeadOutOfReach \/ GivenHead \/ Visit \/ FetchFails \/ WaitTimesOut

WalkNext == (\E w \in Writer : Write(w)) \/ Lose \/ Walk

WalkSpec == WalkInit /\ [][WalkNext]_walkAll

-------------------------------------------------------------------------------
(* Properties *)

\* Types, and that a walk has an end of the list in hand exactly while it runs.
WalkTypeOK ==
  /\ head \in 0..Garbled /\ done \subseteq DOMAIN receipts
  /\ lost \subseteq DOMAIN receipts /\ overlapped \in BOOLEAN
  /\ reader \in {"none", "cli", "page"} /\ reader = "none" <=> status = "before"
  /\ status \in {"before", "walking"} \cup Verdicts
  /\ status = "walking" => cur \in DOMAIN receipts
  /\ prefixed => visited = <<>>
  /\ visited \in Seq(DOMAIN receipts)

\* The receipts from h on, as a walk meets them.
NewestFirst(h) == Reverse(TrailOf(h))

\* What CHAIN VERIFIED covers, whatever is written or deleted meanwhile.  Said without
\* an anchor (verify_audit.py:85, verifier.html:281) it covers the whole chain below
\* the receipt the walk started from, or as much of it as the page walks.  Said with
\* one (verify_audit.py:63) it covers the chain down to the receipt that is named as
\* the anchor, and none above that was passed over.  It says nothing of what is below,
\* which may well be in storage: no "missing tail" (verify_audit.py:61).
VerifiedIsWhole ==
  status \in {"verified", "anchored"} =>
    /\ visited # <<>>
    /\ LET all == NewestFirst(visited[1])
       IN /\ IsPrefix(visited, all)
          /\ status = "verified" =>
               visited = all \/ (reader = "page" /\ Len(visited) = PageLimit)
          /\ status = "anchored" =>
               Len(visited) < Len(all) /\ cur = all[Len(visited) + 1]

\* Daemons that write one at a time lose nothing: every receipt whose
\* write_artifact has returned is on the chain, so that a walk started now visits
\* it, although writers may have died half way before.
NoneLost ==
  ~overlapped => done \subseteq {TrailOf(head)[i] : i \in DOMAIN TrailOf(head)}

\* Writers alone do not keep a walk from a chain to walk: it finds no head only if no
\* write has returned or two have overlapped, and raises over the head file only if two
\* have.  A writer that has died in the middle of a write is no reason for either.
FailsForCause ==
  /\ status = "raised" => overlapped
  /\ status = "nothing" => done = {} \/ overlapped

\* The log is the append-only list of the docs as long as no two writes overlap.
L == INSTANCE AuditLog WITH log <- TrailOf(head), Receipt <- Ids

AppendsWhenSerial == [][overlapped' \/ L!Add]_(TrailOf(head))

===============================================================================
