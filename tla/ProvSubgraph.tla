---------------------------- MODULE ProvSubgraph ----------------------------
(***************************************************************************)
(* ProvUtils.graph_subgraph: which elements and relations of a provenance  *)
(* document belong to the answer of a subgraph request.  The elements are  *)
(* read first, then the relations one by one in the order of the file, and *)
(* a queue of identifiers is worked off.                                   *)
(*                                                                         *)
(* An end that a relation does not have becomes the string "None", which   *)
(* is an identifier like any other here.                                   *)
(***************************************************************************)
EXTENDS Integers, Sequences, FiniteSets

CONSTANTS
  Ids,           \* identifiers a document may declare and mention
  Missing,       \* str(None)
  MaxRelations,  \* bound on the relations of a document
  MaxAsked       \* bound on the identifiers of a request

ASSUME SubgraphAssumption ==
  /\ IsFiniteSet(Ids)
  /\ Missing \notin Ids
  /\ MaxRelations \in Nat
  /\ MaxAsked \in Nat

Names      == Ids \cup {Missing}
Directions == {"both", "forward", "backward"}

\* INFERRED_ELEMENT_CLASS has no class for the ends of some relations.
Relation == [from : Names, to : Names, inferable : BOOLEAN]

\* DirectedRelation; relation is the place in the document
Link == [source : Names, target : Names, relation : 1..MaxRelations]

UpTo(S, n) == UNION {[1..k -> S] : k \in 0..n}

VARIABLES
  elements,   \* the identifiers the document declares
  relations,  \* its relations in the order of the file
  asked,      \* entity_ids
  direction,
  phase,
  read,       \* how many relations have been read
  node_map, node_relations,
  queue, visited, result_nodes, result_relations

input == <<elements, relations, asked, direction>>
graphVars  == <<input, phase, read, node_map, node_relations,
           queue, visited, result_nodes, result_relations>>

GraphEnded == {"empty", "answered"}

GraphTypeOK ==
  /\ elements \subseteq Ids
  /\ relations \in Seq(Relation) /\ Len(relations) <= MaxRelations
  /\ asked \in Seq(Ids)
  /\ direction \in Directions
  /\ phase \in {"idle", "elements", "relations", "walk"} \cup GraphEnded
  /\ read \in 0..Len(relations)
  /\ node_map \subseteq Names
  /\ node_relations \in [Names -> SUBSET Link]
  /\ queue \in Seq(Names)
  /\ visited \subseteq Names
  /\ result_nodes \subseteq node_map
  /\ result_relations \subseteq 1..read

GraphInit ==
  /\ elements = {} /\ relations = <<>>
  /\ asked = <<>> /\ direction = "both"
  /\ phase = "idle"
  /\ read = 0
  /\ node_map = {}
  /\ node_relations = [n \in Names |-> {}]
  /\ queue = <<>>
  /\ visited = {}
  /\ result_nodes = {}
  /\ result_relations = {}

-----------------------------------------------------------------------------

Asked == {asked[i] : i \in DOMAIN asked}

\* A request, and the document that is read for it
Request ==
  /\ phase = "idle" /\ phase' = "elements"
  /\ elements' \in SUBSET Ids
  /\ relations' \in UpTo(Relation, MaxRelations)
  /\ asked' \in UpTo(Ids, MaxAsked)
  /\ direction' \in Directions
  /\ UNCHANGED <<read, node_map, node_relations, queue, visited, result_nodes, result_relations>>

\* Without an identifier, or if none of them is an element, the answer is empty.
ReadElements ==
  /\ phase = "elements"
  /\ node_map' = elements
  /\ phase' = IF Asked \cap elements = {} THEN "empty" ELSE "relations"
  /\ UNCHANGED <<input, read, node_relations, queue, visited, result_nodes, result_relations>>

\* Faulty variant: only the first end learns of the relation
ReadRelationOneWay ==
  /\ phase = "relations" /\ read < Len(relations)
  /\ LET r == relations[read + 1]  ends == {r.from, r.to} IN
       IF r.inferable \/ ends \subseteq node_map
       THEN /\ node_map' = node_map \cup ends
            /\ node_relations' = [node_relations EXCEPT
                 ![r.from] = @ \cup {[source |-> r.from, target |-> r.to, relation |-> read + 1]}]
       ELSE UNCHANGED <<node_map, node_relations>>
  /\ read' = read + 1
  /\ UNCHANGED <<input, phase, queue, visited, result_nodes, result_relations>>

\* One relation: both ends get an element and learn of the relation, each of them
\* as its source; it is skipped if an element is needed and cannot be inferred.
ReadRelation ==
  /\ phase = "relations" /\ read < Len(relations)
  /\ LET r == relations[read + 1]  ends == {r.from, r.to} IN
       IF r.inferable \/ ends \subseteq node_map
       THEN /\ node_map' = node_map \cup ends
            /\ node_relations' = [node_relations EXCEPT
                 ![r.from] = @ \cup {[source |-> r.from, target |-> r.to, relation |-> read + 1]},
                 ![r.to]   = @ \cup {[source |-> r.to, target |-> r.from, relation |-> read + 1]}]
       ELSE UNCHANGED <<node_map, node_relations>>
  /\ read' = read + 1
  /\ UNCHANGED <<input, phase, queue, visited, result_nodes, result_relations>>

StartWalk ==
  /\ phase = "relations" /\ read = Len(relations)
  /\ queue' = asked
  /\ phase' = "walk"
  /\ UNCHANGED <<input, read, node_map, node_relations, visited, result_nodes, result_relations>>

\* Whether a link of the node is followed
Follows(n, link) ==
  IF n = link.source THEN direction \in {"forward", "both"}
  ELSE n = link.target /\ direction \in {"backward", "both"}

Followed(n) == {l \in node_relations[n] : Follows(n, l)}

\* The list that node_relations keeps of these links, in the order of the document
Listed(links) == {list \in [1..Cardinality(links) -> links] :
  /\ \A l \in links : \E i \in DOMAIN list : list[i] = l
  /\ \A i, j \in DOMAIN list : i < j => list[i].relation < list[j].relation}

Targets(list) == [i \in DOMAIN list |-> list[i].target]

\* The node at the head of the queue is left, and the unvisited ends of its links are
\* queued, again if they are in the queue already.
Enqueue(links) ==
  \E list \in Listed({l \in links : l.target \notin visited'}) :
    queue' = Tail(queue) \o Targets(list)

\* Faulty variant: the other ends of relations count as visited at once
VisitShallow ==
  /\ phase = "walk" /\ queue # <<>>
  /\ queue' = Tail(queue)
  /\ LET n == Head(queue) IN
       IF n \notin visited /\ n \in node_map
       THEN /\ visited' = visited \cup {n} \cup {l.target : l \in Followed(n)}
            /\ result_nodes' = result_nodes \cup {n}
            /\ result_relations' = result_relations \cup {l.relation : l \in Followed(n)}
       ELSE visited' = visited \cup {n} /\ UNCHANGED <<result_nodes, result_relations>>
  /\ UNCHANGED <<input, phase, read, node_map, node_relations>>

\* Faulty variant: an identifier that is not in the document is not left out
VisitUnknown ==
  /\ phase = "walk" /\ queue # <<>>
  /\ LET n == Head(queue) IN
       IF n \notin visited
       THEN /\ visited' = visited \cup {n}
            /\ Enqueue(Followed(n))
            /\ result_nodes' = result_nodes \cup {n}
            /\ result_relations' = result_relations \cup {l.relation : l \in Followed(n)}
       ELSE queue' = Tail(queue) /\ UNCHANGED <<visited, result_nodes, result_relations>>
  /\ UNCHANGED <<input, phase, read, node_map, node_relations>>

\* Faulty variant: a node that has been visited stays at the head of the queue
VisitStuck ==
  /\ phase = "walk" /\ queue # <<>>
  /\ Head(queue) \notin visited
  /\ visited' = visited \cup {Head(queue)}
  /\ Enqueue(Followed(Head(queue)))
  /\ result_nodes' = result_nodes \cup ({Head(queue)} \cap node_map)
  /\ result_relations' = result_relations \cup {l.relation : l \in Followed(Head(queue))}
  /\ UNCHANGED <<input, phase, read, node_map, node_relations>>

\* The head of the queue is visited once: it and its relations are in the answer,
\* and their other ends are queued unless they have been visited.
Visit ==
  /\ phase = "walk" /\ queue # <<>>
  /\ LET n == Head(queue) IN
       IF n \notin visited /\ n \in node_map
       THEN /\ visited' = visited \cup {n}
            /\ Enqueue(Followed(n))
            /\ result_nodes' = result_nodes \cup {n}
            /\ result_relations' = result_relations \cup {l.relation : l \in Followed(n)}
       ELSE /\ queue' = Tail(queue)
            /\ visited' = visited \cup {n}
            /\ UNCHANGED <<result_nodes, result_relations>>
  /\ UNCHANGED <<input, phase, read, node_map, node_relations>>

Answer ==
  /\ phase = "walk" /\ queue = <<>>
  /\ phase' = "answered"
  /\ UNCHANGED <<input, read, node_map, node_relations, queue, visited, result_nodes, result_relations>>

-----------------------------------------------------------------------------

Walk == ReadElements \/ ReadRelation \/ StartWalk \/ Visit \/ Answer

GraphNext == Request \/ Walk \/ (phase \in GraphEnded /\ UNCHANGED graphVars)

GraphSpec == GraphInit /\ [][GraphNext]_graphVars

-----------------------------------------------------------------------------
(* Properties *)

\* The ends of a relation of the document
Ends(i) == {relations[i].from, relations[i].to}

\* The relations that have not been skipped
Kept == {i \in 1..read : \E n \in Names : \E l \in node_relations[n] : l.relation = i}

\* A set of nodes that no kept relation leaves
Closed(S) == \A i \in Kept : Ends(i) \cap S # {} => Ends(i) \subseteq S

\* A request for both directions gets the connected components of the elements it
\* asks for: all of them, nothing else, and all of their relations.
BothIsComponent ==
  phase = "answered" /\ direction = "both" =>
    /\ Asked \cap node_map \subseteq result_nodes
    /\ Closed(result_nodes)
    /\ \A S \in SUBSET result_nodes : Asked \cap node_map \subseteq S /\ Closed(S) => S = result_nodes
    /\ result_relations = {i \in Kept : Ends(i) \subseteq result_nodes}

\* Whatever the direction, no relation of an answer leads out of it, so that the
\* answer is a document of its own.
AnswerIsSelfContained ==
  phase = "answered" => \A i \in result_relations : Ends(i) \subseteq result_nodes

=============================================================================
