-------------------------- MODULE MCServiceAccounts --------------------------
(* Model values and symmetry for the runs of ServiceAccounts.              *)
EXTENDS ServiceAccounts, TLC

Symmetry == Permutations(Own) \cup Permutations(Specs) \cup Permutations(Requests)

=============================================================================
