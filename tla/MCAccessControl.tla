--------------------------- MODULE MCAccessControl ---------------------------
(* Instances of AccessControl for TLC *)
EXTENDS AccessControl, TLC

NoFaults  == {}
AllFaults == AccessFaults

\* No action tells two requests of one kind apart.
Symmetry == Permutations(Registrations) \cup Permutations(Grants)
              \cup Permutations(Revokes) \cup Permutations(Checks)

=============================================================================
