---------------------------- MODULE PublishInTurn ----------------------------
(***************************************************************************)
(* What publication promises to clients as long as their requests have not *)
(* overlapped: DocumentPublish with a history variable that remembers      *)
(* whether two requests have ever been in flight at the same time.         *)
(***************************************************************************)
EXTENDS DocumentPublish

VARIABLE overlapped

turnVars == <<vars, overlapped>>

TurnInit == Init /\ overlapped = FALSE

TurnNext == Next /\ overlapped' = (overlapped \/ Cardinality(Active') > 1)

TurnSpec == TurnInit /\ [][TurnNext]_turnVars

-----------------------------------------------------------------------------
(* Properties *)

\* Requests one after the other never make a published version unusable: its
\* first document stays in reach, so that the owner and the users with WRITE
\* keep their rights on it, whatever failed between or inside the requests.
RightsStayResolvable ==
  ~overlapped => \A d \in Docs : pc[d] = "done" => FirstDocument(d, rows[d]) = root[d]

\* As long as no request has failed either, requests one after the other leave each
\* lineage in order: its record names the one document without successor and that
\* document's version, and each parent's record names its only child.
LineageTracksTip ==
  ~overlapped /\ Active = {} /\ (\A a \in Actors : pc[a] # "failed") =>
    \A x \in Docs : pids[x] # None /\ pids[x].lineage # None =>
      LET lin == lins[pids[x].lineage] IN
      /\ pids[lin.last] # None
      /\ pids[lin.last].version = lin.latest
      /\ pids[x].succ = None <=> x = lin.last
      /\ pids[x].succ # None =>
           {d \in Docs : pids[d] # None /\ pids[d].parent = x} = {pids[x].succ}

\* Requests one after the other, with failures, lost answers and crashes, only
\* ever append one document to the tip of a chain, with the next number: until
\* two of them overlap, each step is one of the linear VersionChain.
AppendsToTip ==
  /\ Chain!ChainInit
  /\ [][~overlapped' => Chain!LinearNext \/ UNCHANGED Chain!chainVars]_turnVars

=============================================================================
