--------------------------- MODULE MCDocumentPublish ---------------------------
(* Instances of DocumentPublish for TLC *)
EXTENDS DocumentPublish, TLC

NoFaults           == {}
RefusalsAndCrashes == {"fail", "crash"}

Symmetry == Permutations(Docs)

=============================================================================
