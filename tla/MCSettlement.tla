----------------------------- MODULE MCSettlement -----------------------------
(* Small instances of Settlement for TLC. *)
EXTENDS Settlement, TLC

CONSTANTS quant, patriarch

MCOwner == {quant, patriarch}

\* ProposalId and Swap are sets of interchangeable names.
Interchangeable == Permutations(ProposalId) \cup Permutations(Swap)
===============================================================================
