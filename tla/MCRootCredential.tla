-------------------------- MODULE MCRootCredential --------------------------
(* Model values and symmetry for the runs of RootCredential.               *)
EXTENDS RootCredential, TLC

Symmetry == Permutations(VaultKeys) \cup Permutations(Rotations) \cup Permutations(Admins)

=============================================================================
