--------------------------- MODULE MCCredentials ----------------------------
(* Model values and symmetry for the runs of Credentials.                  *)
EXTENDS Credentials, TLC

Symmetry == Permutations(Keys) \cup Permutations(Requests)

=============================================================================
