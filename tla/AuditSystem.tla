------------------------------ MODULE AuditSystem ------------------------------
(***************************************************************************)
(* The receipt log as a whole: the daemons write it, file by file          *)
(* (AuditChain), while somebody walks it (AuditWalk).  AuditWalk's walks   *)
(* are over HeadLog, which says of the files only what a reader may rely   *)
(* on; here they are over the files themselves.                            *)
(***************************************************************************)
EXTENDS AuditChain

VARIABLES
  lost, overlapped,                              \* as in AuditWalk
  reader, status, cur, prefixed, allOk, visited  \* the walk

walkVars   == <<reader, status, cur, prefixed, allOk, visited>>
systemVars == <<vars, lost, overlapped, walkVars>>

\* The files as AuditChain!H shows them to a reader, and the page's own limit.
W == INSTANCE AuditWalk WITH
  PageLimit <- 50,
  receipts <- [r \in DOMAIN receipts |-> [prev |-> receipts[r].prev, trail |-> receipts[r].trail]],
  head <- IF Readable THEN HeadHash ELSE MaxReceipts + 1,
  pc <- [w \in Writer |-> IF pc[w] \in {"opened", "written"} THEN "stored" ELSE pc[w]],
  crossed <- [w \in Writer |->
    \/ pc[w] = "opened" /\ (fd[w] # tmp \/ file[fd[w]] # 0)
    \/ pc[w] = "written" /\ (IF tmp = None THEN TRUE ELSE file[tmp] # mine[w])]

SystemInit == Init /\ W!WalkInit

\* A daemon takes one of the steps of write_artifact.  Bound: none after the verdict.
DaemonWrites(w) ==
  /\ status \notin W!Verdicts
  /\ Writes(w)
  /\ overlapped' = (overlapped \/ \E v \in Writer \ {w} : pc[v] # "idle")
  /\ UNCHANGED <<lost, walkVars>>

\* A local copy is deleted, or the walk goes on.
ReaderSteps == UNCHANGED vars /\ (W!Lose \/ W!Walk)

SystemNext == (\E w \in Writer : DaemonWrites(w)) \/ ReaderSteps

SystemSpec == SystemInit /\ [][SystemNext]_systemVars

-------------------------------------------------------------------------------
(* Properties *)

\* Whatever the files go through, to the walks they are a HeadLog.
ImplementsWalk == W!WalkSpec

\* So what AuditWalk says of a walk and of the log is true of the files: CHAIN VERIFIED
\* covers the chain, down to the anchor if one is named, and while no writes overlap
\* nothing is lost, every walk finds the head and the log only grows.
WalksAreRight ==
  /\ [](W!VerifiedIsWhole /\ W!NoneLost /\ W!FailsForCause)
  /\ W!AppendsWhenSerial

===============================================================================
