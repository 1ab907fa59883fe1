----------------------------- MODULE MCNegotiation -----------------------------
(* Small instances of Negotiation for TLC. *)
EXTENDS Negotiation, TLC

CONSTANTS quant, patriarch

Interchangeable == Permutations(ProposalId)
===============================================================================
