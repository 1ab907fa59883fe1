------------------------------- MODULE Treasury -------------------------------
(***************************************************************************)
(* What the treasury promises, with no bus, no daemons and no ledger: the  *)
(* Safe's transactions are consumed one nonce at a time, and the one that  *)
(* consumes a nonce is a call that enough owners signed for that very      *)
(* nonce.  Settlement implements it (see Settlement!ImplementsTreasury).   *)
(***************************************************************************)
EXTENDS Integers, Sequences

CONSTANTS
  Owner,      \* SAFE_OWNERS, the keys whose signatures count
  Quorums,    \* sets of owners whose signatures are enough
  Hash        \* the safe_tx_hash values: records with at least a field nonce

VARIABLES
  signed,     \* the <<owner, hash>> pairs that have been made public
  consumed    \* consumed[n + 1] is the hash that consumed nonce n

tvars == <<signed, consumed>>

SignersOf(h) == {o \in Owner : <<o, h>> \in signed}

TInit == signed = {} /\ consumed = <<>>

\* An owner makes its signature over a transaction hash public (again, maybe).
Sign == \E sig \in signed' :
          /\ sig \in Owner \X Hash
          /\ signed' = signed \cup {sig}
          /\ UNCHANGED consumed

\* A transaction executes: its hash binds the current nonce and enough owners
\* signed it.
Consume == \E n \in DOMAIN consumed' : LET h == consumed'[n] IN
             /\ h \in Hash /\ h.nonce = Len(consumed)
             /\ \E Q \in Quorums : Q \subseteq SignersOf(h)
             /\ consumed' = Append(consumed, h)
             /\ UNCHANGED signed

TNext == Sign \/ Consume

TSpec == TInit /\ [][TNext]_tvars
===============================================================================
