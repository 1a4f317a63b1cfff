------------------------- MODULE MCDocumentAnalysis -------------------------
(* Instances of DocumentAnalysis for TLC *)
EXTENDS DocumentAnalysis

BothStores == {"local", "minio"}
BothWays   == {"json", "file"}

=============================================================================
