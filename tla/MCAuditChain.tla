----------------------------- MODULE MCAuditChain -----------------------------
(* Small instances of AuditChain for TLC. *)
EXTENDS AuditChain, TLC

CONSTANTS quant, patriarch, execution

ThreeWriters == {quant, patriarch, execution}

\* Writers and inodes are interchangeable.
Interchangeable == Permutations(Writer) \cup Permutations(Inode)
===============================================================================
