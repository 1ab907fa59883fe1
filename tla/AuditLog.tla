------------------------------- MODULE AuditLog -------------------------------
(***************************************************************************)
(* What the docs promise of the hash-chained log: a list of receipts that  *)
(* is only ever appended to.  AuditChain implements it with one writer,    *)
(* whatever crashes (AuditChainProofs), and with more as long as their     *)
(* writes do not overlap (AuditWalk!AppendsWhenSerial).                    *)
(***************************************************************************)
EXTENDS Naturals, Sequences

CONSTANT Receipt

VARIABLE log  \* the receipts a walk from the head visits, oldest first

LInit == log = <<>>

Add == \E r \in Receipt : log' = Append(log, r)

LSpec == LInit /\ [][Add]_log
===============================================================================
