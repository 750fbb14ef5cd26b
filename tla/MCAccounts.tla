----------------------------- MODULE MCAccounts -----------------------------
(* A small instance of Accounts for TLC. *)
EXTENDS Accounts, TLC

\* Requests, subjects, addresses and accounts that are not suspended are compared for
\* equality only.
Symmetry ==
  Permutations(Requests) \cup Permutations(Subjects) \cup Permutations(Emails)
    \cup Permutations(UserIds \ Suspended)
=============================================================================
