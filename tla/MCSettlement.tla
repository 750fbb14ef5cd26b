---------------------------- MODULE MCSettlement ----------------------------
(* A small instance of Settlement for TLC. *)
EXTENDS Settlement, TLC

\* Calls and payout rows are compared for equality only.
Symmetry == Permutations(Operators) \cup Permutations(Payouts)
=============================================================================
