---------------------------- MODULE MCLocalPids ----------------------------
(* Instances of LocalPids for TLC *)
EXTENDS LocalPids, TLC

AllFaults == FaultKinds
Symmetry  == Permutations(Docs) \cup Permutations(Workers)

=============================================================================
