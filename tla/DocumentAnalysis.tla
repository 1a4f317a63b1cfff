-------------------------- MODULE DocumentAnalysis --------------------------
(***************************************************************************)
(* The graph service on top of the file storage: ProvDocumentGraphService  *)
(* reads the whole content of a document and gives it to graph_subgraph.   *)
(***************************************************************************)
EXTENDS DocumentContent, ProvSubgraph

analysisVars == <<vars, graphVars>>

AnalysisInit == Init /\ GraphInit

\* Bound: the walk does not depend on how its content was stored or on failures
\* before it, so one kind of content is taken apart.
Analysed ==
  /\ upload.store = "local" /\ upload.way = "file"
  /\ ~upload.packed /\ upload.size = SizeLimit
  /\ faults = 0

\* subgraph: the content is parsed.  It is a provenance document if it is what was
\* uploaded, and the answer is empty if it is not.
Analyse ==
  /\ step = "ok" /\ ask.use = "graph"
  /\ IF Body = content THEN Analysed /\ Request
     ELSE /\ phase = "idle" /\ phase' = "empty"
          /\ UNCHANGED <<input, read, node_map, node_relations, queue, visited,
                         result_nodes, result_relations>>
  /\ UNCHANGED vars

ContentStep ==
  /\ phase = "idle"
  /\ \/ Store \/ StoreFails
     \/ StartRead \/ Read \/ OpenBlindly \/ ReadFails \/ NextRead
  /\ UNCHANGED graphVars

GraphStep == Walk /\ UNCHANGED vars

Finished == (pc = "failed" \/ phase \in GraphEnded) /\ UNCHANGED analysisVars

AnalysisNext == ContentStep \/ Analyse \/ GraphStep \/ Finished

\* A request is one coroutine that runs until it has answered; clients need not come.
Fairness ==
  /\ WF_analysisVars(phase = "idle" /\ (Store \/ Read) /\ UNCHANGED graphVars)
  /\ WF_analysisVars(GraphStep)

AnalysisSpec == AnalysisInit /\ [][AnalysisNext]_analysisVars /\ Fairness

-----------------------------------------------------------------------------
(* Properties *)

AnalysisTypeOK == TypeOK /\ GraphTypeOK

\* The graph service gets the uploaded document: a file that is stored is refused as an
\* invalid one only if MinIO did not give out its metadata.  And no document above the
\* limit is read into memory at once.
GraphReadsUpload ==
  step = "ok" /\ upload.way = "file" /\ ~Unmarked =>
    /\ ask.use = "graph" /\ ~blind => Body = content
    /\ ~ask.stream => upload.size <= SizeLimit

\* Storing, downloading and analysing end, whatever the chunks and on cyclic documents.
RequestsEnd ==
  /\ (pc = "sent") ~> (pc \in {"stored", "failed"})
  /\ (step \in {"asked", "open"}) ~> (step \in Ended)
  /\ (phase = "elements") ~> (phase \in GraphEnded)

=============================================================================
