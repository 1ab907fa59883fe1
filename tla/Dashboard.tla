------------------------------- MODULE Dashboard -------------------------------
(***************************************************************************)
(* What the dashboard (monitor/public_verifier/server.py, /api/dashboard)  *)
(* makes of the rows the bus has of one proposal_id, oldest first.  A row  *)
(* is its topic, with the verdict of an evaluation and the signer of a     *)
(* signature.  Bound: fewer than the 2000 rows it reads at most.           *)
(***************************************************************************)
EXTENDS Naturals, Sequences, FiniteSets, SequencesExt

Signing == {"sig_quant", "sig_patriarch", "sig_attacker"}
Topics  == {"PROPOSALS", "ACCEPTED", "REJECTED", "EXECUTION_SUCCESS", "ATTACK_REJECTED"} \cup Signing

\* Mutant: every row counts, whatever run it is from.
WholeHistory(rows) == rows

\* Rows older than the newest PROPOSALS row are from another run.
Session(rows) ==
  LET proposed == {i \in DOMAIN rows : rows[i] = "PROPOSALS"}
      start    == CHOOSE i \in proposed \cup {0} : \A j \in proposed : j <= i
  IN SubSeq(rows, start + 1, Len(rows))

\* What one more row makes of a status.
Turn(status, row) ==
  CASE row = "EXECUTION_SUCCESS" -> "executed"
    [] row = "ATTACK_REJECTED"   -> "attack_blocked"
    [] row = "REJECTED" /\ status \notin {"executed", "attack_blocked"} -> "rejected"
    [] row \in Signing /\ status \notin {"executed", "attack_blocked", "rejected"} -> "signing"
    [] row = "ACCEPTED" /\ status = "proposed" -> "evaluated"
    [] OTHER -> status

\* The rows are read newest first, so that the oldest has the last word.
Status(rows) ==
  LET session == Session(rows)
      status[i \in 1..Len(session) + 1] ==
        IF i > Len(session) THEN "proposed" ELSE Turn(status[i + 1], session[i])
  IN status[1]

\* The signatures shown with a status, out of two.  Nobody checks them.
Signatures(rows, status) ==
  LET signers == Signing \cap ToSet(Session(rows))
  IN IF status = "executed" \/ Cardinality(signers) > 2 THEN 2 ELSE Cardinality(signers)

\* Among the attacks, or among the negotiations: there its assets must be known,
\* which only PROPOSALS tells.
Listed(rows) == Status(rows) = "attack_blocked" \/ "PROPOSALS" \in ToSet(rows)
===============================================================================
