----------------------------- MODULE VersionChain -----------------------------
(***************************************************************************)
(* What publication promises: documents are only ever added, each one      *)
(* after a document that is already published, and what was published is   *)
(* never renumbered or moved.                                              *)
(***************************************************************************)
EXTENDS Integers

CONSTANTS Docs, None

VARIABLES
  published,  \* the documents whose PID resolves
  previous,   \* the document each one is a new version of, or None
  number      \* version numbers, 0 while unpublished

chainVars == <<published, previous, number>>

ChainInit ==
  /\ published = {}
  /\ previous = [d \in Docs |-> None]
  /\ number = [d \in Docs |-> 0]

Add(d, p, n) ==
  /\ d \notin published
  /\ published' = published \cup {d}
  /\ previous' = [previous EXCEPT ![d] = p]
  /\ number' = [number EXCEPT ![d] = n]

PublishFirst(d) == Add(d, None, 1)

\* A new version of the latest document of a chain
Append(d, p) ==
  /\ p \in published
  /\ \A x \in published : previous[x] # p
  /\ Add(d, p, number[p] + 1)

\* A new version of any published document
Branch(d, p) ==
  /\ p \in published
  /\ \E n \in 2..(number[p] + 1) : Add(d, p, n)

LinearNext ==
  \/ \E d \in Docs : PublishFirst(d)
  \/ \E d, p \in Docs : Append(d, p)

BranchingNext ==
  \/ \E d \in Docs : PublishFirst(d)
  \/ \E d, p \in Docs : Branch(d, p)

BranchingSpec == ChainInit /\ [][BranchingNext]_chainVars

=============================================================================
