---------------------------- MODULE MCHandleSession ----------------------------
(* Instances of HandleSession for TLC *)
EXTENDS HandleSession, TLC

NoFaults  == {}
AllFaults == SessionFaults

Symmetry == Permutations(Writers) \cup Permutations(Calls \ Writers)

=============================================================================
