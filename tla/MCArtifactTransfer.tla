-------------------------- MODULE MCArtifactTransfer --------------------------
(* Instances of ArtifactTransfer for TLC *)
EXTENDS ArtifactTransfer, TLC

NoFaults  == {}
AllFaults == TransferFaults

\* No action tells two uploads or two downloads apart.
Symmetry == Permutations(Uploads) \cup Permutations(Downloads)

=============================================================================
