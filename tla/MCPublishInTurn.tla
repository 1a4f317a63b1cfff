--------------------------- MODULE MCPublishInTurn ---------------------------
(* Instance of PublishInTurn for TLC *)
EXTENDS PublishInTurn, TLC

AllFaults == FaultKinds

\* No action tells two create requests apart.
Symmetry == Permutations(Docs)

=============================================================================
