----------------------------- MODULE MCIssueBot -----------------------------
(* IssueBot for TLC: instances are model values and may be exchanged. *)
EXTENDS IssueBot, TLC
Symmetry == Permutations(Bots)
=============================================================================
