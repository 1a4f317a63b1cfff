-------------------------- MODULE MCMetadataHistory --------------------------
(* Instance of MetadataHistory for TLC *)
EXTENDS MetadataHistory, TLC

BothStores == {"local", "minio"}

\* No action tells two PATCH requests apart.
Symmetry == Permutations(Patches)

=============================================================================
