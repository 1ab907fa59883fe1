------------------------------ MODULE MCAuditWalk ------------------------------
(* Small instances of AuditWalk for TLC. *)
EXTENDS AuditWalk

CONSTANTS quant, patriarch, execution

TwoWriters   == {quant, patriarch}
ThreeWriters == {quant, patriarch, execution}

\* Writers are interchangeable.
Interchangeable == Permutations(Writer)
===============================================================================
