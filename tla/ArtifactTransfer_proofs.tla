------------------------ MODULE ArtifactTransfer_proofs ------------------------
(***************************************************************************)
(* Proofs about ArtifactTransfer: what a client that gets a good answer    *)
(* may rely on, for every set of requests, both stores and every fault.    *)
(***************************************************************************)
EXTENDS ArtifactTransfer, FiniteSetTheorems, TLAPS

-----------------------------------------------------------------------------
(* Type correctness *)

FaultsTyped == faults \in Seq(Faults) /\ Len(faults) <= MaxFaults

LEMMA FaultsStayTyped ==
  ASSUME FaultsTyped, Succeeds \/ \E kind \in TransferFaults : Fault(kind)
  PROVE  FaultsTyped'
<1>1. MaxFaults \in Nat
  BY TransferAssumption
<1>2. CASE Succeeds
  BY <1>2 DEF Succeeds, FaultsTyped
<1>3. ASSUME NEW kind, Fault(kind)
      PROVE  FaultsTyped'
  BY <1>1, <1>3 DEF Fault, FaultsTyped
<1>4. QED
  BY <1>2, <1>3

LEMMA TypingInit ==
  ASSUME Init
  PROVE  TypeOK
BY TransferAssumption DEF Init, TypeOK, Actors, Kinds

LEMMA SavedIsARecord ==
  ASSUME NEW row \in ArtifactRecord, NEW old, NEW h \in Uploads \cup {None}, NEW v \in BOOLEAN
  PROVE  Saved(row, old, h, v) \in ArtifactRecord
BY DEF Saved, ArtifactRecord

\* A request that has been started found a token, and so an artifact's row.
Founded ==
  record = None => /\ \A k \in Kinds : tokens[k] = "none"
                   /\ \A a \in Actors : pc[a] = "idle"

Typed == TypeOK /\ Founded

LEMMA StartedIsFounded ==
  ASSUME Typed, NEW a \in Actors, pc[a] # "idle"
  PROVE  record # None
BY DEF Typed, Founded

LEMMA TokenStepsTyped ==
  ASSUME Typed,
         \/ SaveArtifact
         \/ \E k \in Kinds : IssueToken(k) \/ Expire(k)
  PROVE  Typed'
<1>1. CASE SaveArtifact
  <2>1. record' \in ArtifactRecord /\ record' # None
    <3>1. [hash |-> None, valid |-> FALSE] \in ArtifactRecord
      BY DEF ArtifactRecord
    <3>2. QED
      BY <1>1, <3>1, TransferAssumption DEF SaveArtifact
  <2>2. QED
    BY <1>1, <2>1 DEF Typed, TypeOK, Founded, SaveArtifact, request, setup
<1>2. ASSUME NEW k \in Kinds, IssueToken(k)
      PROVE  Typed'
  BY <1>2 DEF Typed, TypeOK, Founded, IssueToken, request, setup
<1>3. ASSUME NEW k \in Kinds, Expire(k)
      PROVE  Typed'
  BY <1>3 DEF Typed, TypeOK, Founded, Expire, request, setup
<1>4. QED
  BY <1>1, <1>2, <1>3

LEMMA RequestStepsTyped ==
  ASSUME Typed, NEW a \in Actors,
         Start(a) \/ FindToken(a) \/ DropToken(a) \/ Crash(a)
  PROVE  Typed'
<1>h. FaultsTyped'
  <2>1. Succeeds \/ \E kind \in TransferFaults : Fault(kind)
    BY DEF Start, FindToken, DropToken, Crash, FailedWrite, Succeeds, TransferFaults
  <2>2. QED
    BY <2>1, FaultsStayTyped DEF Typed, TypeOK, FaultsTyped
<1>k. Kind(a) \in Kinds
  BY DEF Kind, Kinds
<1>f. Founded'
  <2>1. record # None
    BY <1>k DEF Typed, Founded, Start, FindToken, DropToken, Crash, Active
  <2>2. record' = record
    BY DEF Start, FindToken, DropToken, Crash
  <2>3. QED
    BY <2>1, <2>2 DEF Founded
<1>s. FindToken(a) \/ DropToken(a) => stuck' \in SUBSET Uploads
  BY DEF Typed, TypeOK, FindToken, DropToken, EndsSession
<1>1. CASE Start(a)
  BY <1>1, <1>h, <1>f DEF Typed, TypeOK, Start, Goto, request, setup, Ended, FaultsTyped
<1>2. CASE FindToken(a)
  BY <1>2, <1>h, <1>f, <1>s DEF Typed, TypeOK, FindToken, GiveUp, Goto, Ended, FaultsTyped, setup
<1>3. CASE DropToken(a)
  BY <1>3, <1>h, <1>k, <1>f, <1>s DEF Typed, TypeOK, DropToken, GiveUp, Goto, Ended,
  FailedWrite, FaultsTyped, setup
<1>4. CASE Crash(a)
  BY <1>4, <1>h, <1>f DEF Typed, TypeOK, Crash, Goto, request, Ended, FaultsTyped, setup
<1>5. QED
  BY <1>1, <1>2, <1>3, <1>4

LEMMA UploadStepsTyped ==
  ASSUME Typed, NEW u \in Uploads, UploadStep(u)
  PROVE  Typed'
<1>h. FaultsTyped'
  <2>1. Succeeds \/ \E kind \in TransferFaults : Fault(kind)
    BY DEF UploadStep, Probe, Store, Fetch, Write, Refresh, SavePid, Clean, MarkFetch, MarkWrite,
       FailedWrite, TransferFaults
  <2>2. QED
    BY <2>1, FaultsStayTyped DEF Typed, TypeOK, FaultsTyped
<1>a. u \in Actors
  BY DEF Actors
<1>r. record \in ArtifactRecord
  <2>1. pc[u] # "idle"
    BY DEF UploadStep, Probe, Store, Fetch, Write, Refresh, SavePid, Clean, MarkFetch, MarkWrite
  <2>2. QED
    BY <1>a, <2>1, StartedIsFounded DEF Typed, TypeOK
<1>f. record' \in ArtifactRecord => Founded'
  BY TransferAssumption DEF Founded
<1>1. CASE Probe(u)
  BY <1>1, <1>h, <1>a, <1>r, <1>f DEF Typed, TypeOK, Probe, Goto, request, Ended, FaultsTyped, setup
<1>2. CASE Store(u)
  BY <1>2, <1>h, <1>a, <1>r, <1>f DEF Typed, TypeOK, Store, Goto, request, Ended, FailedWrite, FaultsTyped, setup
<1>3. CASE Fetch(u)
  BY <1>3, <1>h, <1>a, <1>r, <1>f DEF Typed, TypeOK, Fetch, Goto, request, Ended, FaultsTyped, setup
<1>4. CASE Write(u)
  <2>1. Saved(record, seen[u], u, TRUE) \in ArtifactRecord
    BY <1>r, <1>a, SavedIsARecord DEF Typed, TypeOK
  <2>2. record' \in ArtifactRecord
    BY <1>4, <1>r, <2>1 DEF Write
  <2>4. \E step \in {"refresh", "clean"} : pc' = [pc EXCEPT ![u] = step]
    BY <1>4 DEF Write, Goto
  <2>5. UNCHANGED <<setup, file, tokens, pid, request>>
    BY <1>4 DEF Write
  <2>6. TypeOK'
    BY <1>a, <1>h, <2>2, <2>4, <2>5 DEF Typed, TypeOK, request, setup, FaultsTyped, Ended
  <2>7. QED
    BY <1>f, <2>2, <2>6 DEF Typed
<1>5. CASE Refresh(u)
  <2>1. record.hash \in Uploads \cup {None}
    BY <1>r DEF ArtifactRecord
  <2>2. held' \in [Actors -> Uploads \cup {None}]
    BY <1>5, <1>a, <2>1 DEF Typed, TypeOK, Refresh
  <2>3. updated' \in [Uploads -> BOOLEAN]
    BY <1>5 DEF Typed, TypeOK, Refresh
  <2>5. \E step \in {"findToken", "clean"} : pc' = [pc EXCEPT ![u] = step]
    BY <1>5 DEF Refresh, Goto
  <2>6. UNCHANGED <<setup, record, file, tokens, pid, seen, stuck>>
    BY <1>5 DEF Refresh
  <2>7. QED
    BY <1>a, <1>r, <1>f, <1>h, <2>2, <2>3, <2>5, <2>6 DEF Typed, TypeOK, FaultsTyped, setup, Ended
<1>6. CASE SavePid(u)
  BY <1>6, <1>h, <1>a, <1>r, <1>f DEF Typed, TypeOK, SavePid, Goto, request, Ended, FailedWrite, FaultsTyped, setup
<1>7. CASE Clean(u)
  BY <1>7, <1>h, <1>a, <1>r, <1>f DEF Typed, TypeOK, Clean, Goto, request, Ended, FailedWrite, FaultsTyped, setup
<1>8. CASE MarkFetch(u)
  BY <1>8, <1>h, <1>a, <1>r, <1>f DEF Typed, TypeOK, MarkFetch, Goto, request, Ended, FaultsTyped, setup
<1>9. CASE MarkWrite(u)
  <2>1. Saved(record, seen[u], held[u], FALSE) \in ArtifactRecord
    BY <1>r, <1>a, SavedIsARecord DEF Typed, TypeOK
  <2>2. record' \in ArtifactRecord
    BY <1>9, <1>r, <2>1 DEF MarkWrite, FailedWrite
  <2>4. \E step \in {"failed"} : pc' = [pc EXCEPT ![u] = step]
    BY <1>9 DEF MarkWrite, Goto
  <2>5. UNCHANGED <<setup, file, tokens, pid, request>>
    BY <1>9 DEF MarkWrite
  <2>6. TypeOK'
    BY <1>a, <1>h, <2>2, <2>4, <2>5 DEF Typed, TypeOK, request, setup, FaultsTyped, Ended
  <2>7. QED
    BY <1>f, <2>2, <2>6 DEF Typed
<1>10. QED
  BY <1>1, <1>2, <1>3, <1>4, <1>5, <1>6, <1>7, <1>8, <1>9 DEF UploadStep

LEMMA DownloadStepsTyped ==
  ASSUME Typed, NEW d \in Downloads, Open(d) \/ Serve(d)
  PROVE  Typed'
<1>h. FaultsTyped'
  <2>1. Succeeds \/ \E kind \in TransferFaults : Fault(kind)
    BY DEF Open, Serve, TransferFaults
  <2>2. QED
    BY <2>1, FaultsStayTyped DEF Typed, TypeOK, FaultsTyped
<1>a. d \in Actors
  BY DEF Actors
<1>f. Founded'
  <2>1. record # None
    BY <1>a, StartedIsFounded DEF Open, Serve
  <2>2. record' = record
    BY DEF Open, Serve
  <2>3. QED
    BY <2>1, <2>2 DEF Founded
<1>1. CASE Open(d)
  BY <1>1, <1>h, <1>a, <1>f DEF Typed, TypeOK, Open, Goto, Ended, FaultsTyped, setup
<1>2. CASE Serve(d)
  BY <1>2, <1>h, <1>a, <1>f DEF Typed, TypeOK, Serve, Goto, request, Ended, FaultsTyped, setup
<1>3. QED
  BY <1>1, <1>2

LEMMA TypedStep ==
  ASSUME Typed, [Next]_vars
  PROVE  Typed'
<1>1. CASE Finished \/ UNCHANGED vars
  BY <1>1 DEF Finished, vars, setup, request, Typed, TypeOK, Founded
<1>2. QED
  BY <1>1, TokenStepsTyped, RequestStepsTyped, UploadStepsTyped, DownloadStepsTyped DEF Next

THEOREM TransferInvariant == Spec => []Typed
<1>1. Init => Typed
  BY TypingInit DEF Typed, Founded, Init, Actors
<1>2. QED
  BY <1>1, TypedStep, PTL DEF Spec

\* Every reachable state has the declared types, with no more faults than the
\* bound allows.
THEOREM TransferTyping == Spec => []TypeOK
<1>1. Typed => TypeOK
  BY DEF Typed
<1>2. QED
  BY <1>1, TransferInvariant, PTL

-----------------------------------------------------------------------------
(* What an acknowledged request has achieved.  Once a token is deleted it   *)
(* never comes back, and once the artifact's record exists at the Handle    *)
(* server it is never replaced; both are preserved by every step.           *)


\* Requests that have got past deleting their token
SpentSteps == {"savePid", "ok", "serve", "served"}

SpentBefore == \A a \in Actors : pc[a] \in SpentSteps => tokens[Kind(a)] = "deleted"

AckInv == AcknowledgedIsPublished /\ SpentBefore

\* What every step leaves in place
Persistent ==
  /\ \A k \in Kinds : tokens[k] = "deleted" => tokens'[k] = "deleted"
  /\ pid # None => pid' = pid

LEMMA StepIsPersistent ==
  ASSUME Typed, [Next]_vars
  PROVE  Persistent
<1>1. CASE SaveArtifact \/ Finished \/ UNCHANGED vars
  BY <1>1 DEF SaveArtifact, Finished, vars, Persistent
<1>2. ASSUME NEW k \in Kinds, IssueToken(k) \/ Expire(k)
      PROVE  Persistent
  BY <1>2 DEF IssueToken, Expire, Persistent, Typed, TypeOK
<1>3. ASSUME NEW a \in Actors, Start(a) \/ FindToken(a) \/ Crash(a)
      PROVE  Persistent
  BY <1>3 DEF Start, FindToken, Crash, Persistent
<1>4. ASSUME NEW a \in Actors, DropToken(a)
      PROVE  Persistent
  <2>1. tokens' \in {tokens, [tokens EXCEPT ![Kind(a)] = "deleted"]} /\ pid' = pid
    BY <1>4 DEF DropToken, FailedWrite
  <2>2. QED
    BY <2>1 DEF Persistent, Typed, TypeOK
<1>5. ASSUME NEW u \in Uploads, UploadStep(u)
      PROVE  Persistent
  <2>1. UNCHANGED tokens /\ (pid # None => UNCHANGED pid)
    BY <1>5 DEF UploadStep, Probe, Store, Fetch, Write, Refresh, SavePid, Clean, MarkFetch,
       MarkWrite
  <2>2. QED
    BY <2>1 DEF Persistent
<1>6. ASSUME NEW d \in Downloads, Open(d) \/ Serve(d)
      PROVE  Persistent
  BY <1>6 DEF Open, Serve, Persistent
<1>7. QED
  BY <1>1, <1>2, <1>3, <1>4, <1>5, <1>6 DEF Next

\* A request only gets past its token by deleting it, and an upload only ends
\* well by creating the artifact's record.
EntersSpent(a) ==
  pc'[a] \in SpentSteps =>
    /\ pc[a] \in SpentSteps \/ tokens'[Kind(a)] = "deleted"
    /\ a \in Uploads /\ pc'[a] = "ok" => pc[a] = "ok" \/ pid' = a

\* The requests that do not act stay where they are.
OnlyMoves(a) == \A b \in Actors \ {a} : pc'[b] = pc[b]

LEMMA ActorStep ==
  ASSUME Typed, NEW a \in Actors,
         \/ Start(a) \/ FindToken(a) \/ DropToken(a) \/ Crash(a)
         \/ a \in Uploads /\ UploadStep(a)
         \/ a \in Downloads /\ (Open(a) \/ Serve(a))
  PROVE  EntersSpent(a) /\ OnlyMoves(a)
<1>t. /\ pc = [b \in Actors |-> pc[b]] /\ tokens = [k \in Kinds |-> tokens[k]]
      /\ Kind(a) \in Kinds
  BY DEF Typed, TypeOK, Kind, Kinds
<1>1. CASE Start(a) \/ FindToken(a) \/ Crash(a)
  BY <1>1, <1>t
  DEF Start, FindToken, Crash, GiveUp, Goto, Ended, EntersSpent, OnlyMoves, SpentSteps
<1>2. CASE DropToken(a)
  <2>1. CASE tokens' = [tokens EXCEPT ![Kind(a)] = "deleted"]
             /\ Goto(a, IF a \in Uploads THEN "savePid" ELSE "serve")
    BY <2>1, <1>t DEF Goto, EntersSpent, OnlyMoves, SpentSteps
  <2>2. CASE GiveUp(a)
    BY <2>2, <1>t DEF GiveUp, Goto, EntersSpent, OnlyMoves, SpentSteps
  <2>3. QED
    BY <1>2, <2>1, <2>2 DEF DropToken
<1>3. CASE a \in Uploads /\ UploadStep(a)
  <2>1. CASE SavePid(a)
    BY <2>1, <1>t DEF SavePid, Goto, EntersSpent, OnlyMoves, SpentSteps
  <2>2. CASE \E step \in {"refused", "store", "failed", "fetch", "write", "refresh", "clean",
                          "findToken", "markFetch", "markWrite"} : Goto(a, step)
    BY <2>2, <1>t DEF Goto, EntersSpent, OnlyMoves, SpentSteps
  <2>3. QED
    BY <1>3, <2>1, <2>2
    DEF UploadStep, Probe, Store, Fetch, Write, Refresh, Clean, MarkFetch, MarkWrite
<1>4. CASE a \in Downloads /\ (Open(a) \/ Serve(a))
  <2>1. a \notin Uploads
    BY <1>4, TransferAssumption
  <2>2. QED
    BY <1>4, <1>t, <2>1 DEF Open, Serve, Goto, EntersSpent, OnlyMoves, SpentSteps
<1>5. QED
  BY <1>1, <1>2, <1>3, <1>4

LEMMA AckStep ==
  ASSUME Typed, AckInv, [Next]_vars
  PROVE  AckInv'
<1>1. Persistent
  BY StepIsPersistent
<1>2. \A a \in Actors : Kind(a) \in Kinds
  BY DEF Kind, Kinds
<1>3. CASE UNCHANGED pc
  BY <1>1, <1>2, <1>3, TransferAssumption
  DEF AckInv, AcknowledgedIsPublished, SpentBefore, Persistent, Actors
<1>4. ASSUME NEW a \in Actors, EntersSpent(a), OnlyMoves(a)
      PROVE  AckInv'
  <2>1. SpentBefore'
    BY <1>1, <1>2, <1>4 DEF AckInv, SpentBefore, Persistent, EntersSpent, OnlyMoves
  <2>2. AcknowledgedIsPublished'
    BY <1>1, <1>4, TransferAssumption
    DEF AckInv, AcknowledgedIsPublished, Persistent, EntersSpent, OnlyMoves, Actors, SpentSteps
  <2>3. QED
    BY <2>1, <2>2 DEF AckInv
<1>5. CASE SaveArtifact \/ (\E k \in Kinds : IssueToken(k) \/ Expire(k)) \/ Finished
           \/ UNCHANGED vars
  BY <1>3, <1>5 DEF SaveArtifact, IssueToken, Expire, Finished, vars
<1>6. QED
  BY <1>4, <1>5, ActorStep DEF Next, Actors

LEMMA AckInit ==
  ASSUME Init
  PROVE  AckInv
BY DEF Init, AckInv, AcknowledgedIsPublished, SpentBefore, SpentSteps, Actors

LEMMA AckInvariant == Spec => []AckInv
BY AckInit, AckStep, TransferInvariant, PTL DEF Spec

\* However many uploads race under one token and whatever fails, the client of a
\* successful upload finds its own hash in the artifact's record.
THEOREM UploadsArePublished == Spec => []AcknowledgedIsPublished
<1>1. AckInv => AcknowledgedIsPublished
  BY DEF AckInv
<1>2. QED
  BY <1>1, AckInvariant, PTL

\* A request that succeeds leaves no token behind that could be used again later.
THEOREM TokensAreSpent == Spec => []SuccessSpendsToken
<1>1. AckInv => SuccessSpendsToken
  BY DEF AckInv, SpentBefore, SpentSteps, SuccessSpendsToken
<1>2. QED
  BY <1>1, AckInvariant, PTL

-----------------------------------------------------------------------------
(* Requests that do not overlap.  With at most one request in flight, what  *)
(* an upload has written stays as it is until the upload ends: nobody else  *)
(* is there to change it.  After a good end the token is deleted, so no     *)
(* later upload gets as far as the file.                                    *)

Sole == \A a, b \in Active : a = b

Row(u) == [hash |-> u, valid |-> TRUE]

StoredSteps  == {"fetch", "write", "refresh", "findToken", "dropToken", "savePid", "ok"}
WrittenSteps == {"refresh", "findToken", "dropToken", "savePid", "ok"}

\* What upload u has written is still there.
Keeps(u) ==
  /\ pc[u] \in StoredSteps => file = u
  /\ pc[u] = "write" => seen[u] = record
  /\ pc[u] \in WrittenSteps => record = Row(u)

\* After a good upload no upload is in flight.
Closed(u) == pc[u] = "ok" => \A v \in Uploads : v \notin Active

InTurnInv == Sole /\ \A u \in Uploads : Keeps(u) /\ Closed(u)

ActorActs(a) ==
  \/ Start(a) \/ FindToken(a) \/ DropToken(a) \/ Crash(a)
  \/ a \in Uploads /\ UploadStep(a)
  \/ a \in Downloads /\ (Open(a) \/ Serve(a))

\* Nobody else is in flight when a request takes a step, its first one included.
LEMMA ActsAlone ==
  ASSUME Typed, Sole, limit = 1, NEW a \in Actors, ActorActs(a)
  PROVE  Active \subseteq {a}
<1>1. CASE Start(a)
  <2>1. SUFFICES ASSUME NEW b \in Active
                 PROVE  FALSE
    OBVIOUS
  <2>2. Active = {b}
    BY DEF Sole
  <2>3. Cardinality(Active) = 1
    BY <2>2, FS_Singleton
  <2>4. QED
    BY <1>1, <2>3 DEF Start
<1>2. CASE ~Start(a)
  <2>1. a \in Active
    BY <1>2 DEF ActorActs, FindToken, DropToken, Crash, UploadStep, Probe, Store, Fetch, Write,
       Refresh, SavePid, Clean, MarkFetch, MarkWrite, Open, Serve, Active, Ended
  <2>2. QED
    BY <2>1 DEF Sole
<1>3. QED
  BY <1>1, <1>2

\* What an upload does to its own traces
LEMMA OwnStep ==
  ASSUME Typed, NEW u \in Uploads, Keeps(u), ActorActs(u)
  PROVE  Keeps(u)'
<1>t. u \in Actors /\ pc = [b \in Actors |-> pc[b]] /\ seen = [v \in Uploads |-> seen[v]]
  BY DEF Typed, TypeOK, Actors
<1>1. CASE Start(u) \/ Crash(u)
  BY <1>1, <1>t DEF Start, Crash, Goto, Keeps, StoredSteps, WrittenSteps
<1>2. CASE FindToken(u)
  BY <1>2, <1>t DEF FindToken, GiveUp, Goto, Keeps, StoredSteps, WrittenSteps, Row
<1>3. CASE DropToken(u)
  <2>1. \E step \in {"savePid", "clean"} : Goto(u, step)
    BY <1>3 DEF DropToken, GiveUp
  <2>2. pc[u] = "dropToken" /\ UNCHANGED <<record, file>>
    BY <1>3 DEF DropToken
  <2>3. QED
    BY <1>t, <2>1, <2>2 DEF Goto, Keeps, StoredSteps, WrittenSteps, Row
<1>4. CASE Write(u)
  <2>1. CASE record' = Saved(record, seen[u], u, TRUE) /\ Goto(u, "refresh")
    <3>1. pc[u] = "write" /\ file = u /\ seen[u] = record /\ file' = file
      BY <1>4 DEF Write, Keeps, StoredSteps
    <3>2. record \in ArtifactRecord
      BY <1>t, <3>1, StartedIsFounded DEF Typed, TypeOK
    <3>3. record' = Row(u)
      BY <2>1, <3>1, <3>2 DEF Saved, Row, ArtifactRecord
    <3>4. QED
      BY <1>t, <2>1, <3>1, <3>3 DEF Goto, Keeps, StoredSteps, WrittenSteps, Row
  <2>2. CASE Goto(u, "clean")
    BY <1>t, <2>2 DEF Goto, Keeps, StoredSteps, WrittenSteps
  <2>3. QED
    BY <1>4, <2>1, <2>2 DEF Write
<1>5. CASE Probe(u) \/ Store(u)
  BY <1>5, <1>t DEF Probe, Store, Goto, Keeps, StoredSteps, WrittenSteps
<1>6. CASE Fetch(u)
  BY <1>6, <1>t DEF Fetch, Goto, Keeps, StoredSteps, WrittenSteps
<1>7. CASE Refresh(u) \/ SavePid(u)
  BY <1>7, <1>t DEF Refresh, SavePid, Goto, Keeps, StoredSteps, WrittenSteps, Row
<1>8. CASE Clean(u) \/ MarkFetch(u) \/ MarkWrite(u)
  <2>1. \E step \in {"markFetch", "failed", "markWrite"} : Goto(u, step)
    BY <1>8 DEF Clean, MarkFetch, MarkWrite
  <2>2. QED
    BY <1>t, <2>1 DEF Goto, Keeps, StoredSteps, WrittenSteps
<1>9. QED
  BY <1>1, <1>2, <1>3, <1>4, <1>5, <1>6, <1>7, <1>8, TransferAssumption
  DEF ActorActs, UploadStep

\* The traces of an upload that is not in flight, while another request acts
LEMMA OtherStep ==
  ASSUME Typed, AckInv, InTurnInv, NEW a \in Actors, ActorActs(a), Active \subseteq {a},
         NEW u \in Uploads \ {a}, OnlyMoves(a)
  PROVE  Keeps(u)'
<1>1. u \in Actors /\ pc'[u] = pc[u] /\ pc[u] \in Ended \cup {"idle"}
  BY DEF OnlyMoves, Actors, Active
<1>2. CASE pc[u] # "ok"
  BY <1>1, <1>2 DEF Ended, Keeps, StoredSteps, WrittenSteps
<1>3. CASE pc[u] = "ok"
  <2>1. UNCHANGED <<record, file>>
    <3>1. CASE Start(a) \/ FindToken(a) \/ DropToken(a) \/ Crash(a) \/ Open(a) \/ Serve(a)
      BY <3>1 DEF Start, FindToken, DropToken, Crash, Open, Serve
    <3>2. ASSUME a \in Uploads, UploadStep(a)
          PROVE  FALSE
      <4>1. a \in Active
        BY <3>2 DEF UploadStep, Probe, Store, Fetch, Write, Refresh, SavePid, Clean, MarkFetch,
           MarkWrite, Active, Ended
      <4>2. QED
        BY <1>3, <3>2, <4>1 DEF InTurnInv, Closed
    <3>3. QED
      BY <3>1, <3>2 DEF ActorActs
  <2>2. QED
    BY <1>1, <1>3, <2>1 DEF InTurnInv, Keeps, StoredSteps, WrittenSteps, Row
<1>4. QED
  BY <1>2, <1>3

LEMMA InTurnStep ==
  ASSUME Typed, AckInv, InTurnInv, limit = 1, NEW a \in Actors, ActorActs(a)
  PROVE  InTurnInv'
<1>1. Active \subseteq {a}
  BY ActsAlone DEF InTurnInv
<1>2. OnlyMoves(a) /\ EntersSpent(a)
  BY ActorStep DEF ActorActs
<1>3. Active' \subseteq {a}
  BY <1>1, <1>2 DEF OnlyMoves, Active
<1>4. ASSUME NEW u \in Uploads
      PROVE  Keeps(u)'
  <2>1. CASE u = a
    BY <2>1, OwnStep DEF InTurnInv
  <2>2. CASE u # a
    BY <1>1, <1>2, <2>2, OtherStep
  <2>3. QED
    BY <2>1, <2>2
<1>5. ASSUME NEW u \in Uploads, pc'[u] = "ok", NEW v \in Uploads, v \in Active'
      PROVE  FALSE
  <2>1. v = a /\ u # a
    BY <1>3, <1>5 DEF Active, Ended
  <2>2. u \in Actors /\ pc[u] = "ok"
    BY <1>2, <1>5, <2>1 DEF OnlyMoves, Actors
  <2>3. a \notin Active
    BY <2>1, <2>2 DEF InTurnInv, Closed
  <2>4. Start(a)
    BY <2>3 DEF ActorActs, FindToken, DropToken, Crash, UploadStep, Probe, Store, Fetch, Write,
       Refresh, SavePid, Clean, MarkFetch, MarkWrite, Open, Serve, Active, Ended
  <2>5. tokens[Kind(a)] = "deleted"
    BY <2>1, <2>2 DEF AckInv, SpentBefore, SpentSteps, Kind
  <2>6. pc'[a] = "refused"
    BY <2>4, <2>5 DEF Start, Goto, Typed, TypeOK
  <2>7. QED
    BY <1>5, <2>1, <2>6 DEF Active, Ended
<1>6. QED
  BY <1>3, <1>4, <1>5 DEF InTurnInv, Sole, Closed

\* Neither the store nor the number of clients changes while the service runs.
LEMMA SetupIsFixed ==
  ASSUME [Next]_vars
  PROVE  UNCHANGED setup
BY DEF Next, SaveArtifact, IssueToken, Expire, Start, FindToken, DropToken, Crash, UploadStep,
   Probe, Store, Fetch, Write, Refresh, SavePid, Clean, MarkFetch, MarkWrite, Open, Serve,
   Finished, vars

LEMMA InTurnNext ==
  ASSUME Typed, AckInv, InTurnInv, limit = 1, [Next]_vars
  PROVE  InTurnInv'
<1>1. ASSUME UNCHANGED <<pc, file, seen>>, record' = record \/ (Active = {} /\ record = None)
      PROVE  InTurnInv'
  <2>1. CASE record' = record
    BY <1>1, <2>1
    DEF InTurnInv, Sole, Keeps, Closed, Active, StoredSteps, WrittenSteps, Row
  <2>2. CASE Active = {} /\ record = None
    <3>1. \A u \in Uploads : pc[u] = "idle"
      BY <2>2 DEF Typed, Founded, Active, Actors
    <3>2. QED
      BY <1>1, <2>2, <3>1
      DEF InTurnInv, Sole, Keeps, Closed, Active, StoredSteps, WrittenSteps
  <2>3. QED
    BY <1>1, <2>1, <2>2
<1>2. CASE SaveArtifact
  <2>1. Active = {}
    BY <1>2 DEF SaveArtifact, Typed, Founded, Active
  <2>2. QED
    BY <1>1, <1>2, <2>1 DEF SaveArtifact, request
<1>3. CASE (\E k \in Kinds : IssueToken(k) \/ Expire(k)) \/ Finished \/ UNCHANGED vars
  <2>1. UNCHANGED <<pc, file, seen, record>>
    BY <1>3 DEF IssueToken, Expire, Finished, vars, request
  <2>2. QED
    BY <1>1, <2>1
<1>4. QED
  BY <1>2, <1>3, InTurnStep DEF Next, ActorActs, Actors

\* When requests do not overlap, a failure or a crash of one of them never
\* damages what an earlier one has acknowledged: row, file and record at the
\* Handle server go on naming the same content.
THEOREM UploadsInTurnStay == Spec => []AcknowledgedUploadStays
<1>1. Init => (limit = 1 => InTurnInv)
  BY DEF Init, InTurnInv, Sole, Keeps, Closed, Active, Actors, StoredSteps, WrittenSteps
<1>2. Typed /\ AckInv /\ (limit = 1 => InTurnInv) /\ [Next]_vars => (limit = 1 => InTurnInv)'
  <2>1. [Next]_vars => limit' = limit
    BY SetupIsFixed DEF setup
  <2>2. QED
    BY <2>1, InTurnNext
<1>3. AckInv /\ (limit = 1 => InTurnInv) => AcknowledgedUploadStays
  BY DEF AckInv, AcknowledgedIsPublished, InTurnInv, Keeps, StoredSteps, WrittenSteps, Row,
     AcknowledgedUploadStays
<1>4. QED
  BY <1>1, <1>2, <1>3, TransferInvariant, AckInvariant, PTL DEF Spec

-----------------------------------------------------------------------------
(* What is left behind by requests that do not overlap.  Whatever fails     *)
(* first, the upload that it fails for takes back its file before it ends,  *)
(* and nothing goes wrong any more while it does so.  The row it can take   *)
(* back only as long as it has its database session; the PID has not been   *)
(* written when that is lost.                                               *)

Unharmed == faults \in {<<>>, <<"fail">>}

HasToken == {"probe", "store", "fetch", "write", "refresh", "findToken", "dropToken"}
Cleaning == {"clean", "markFetch", "markWrite"}
Working  == {"fetch", "write", "refresh", "findToken", "dropToken", "savePid"} \cup Cleaning

Consistent ==
  record # None /\ record.valid => file = record.hash \/ (stuck # {} /\ pid = None)

NothingLeft == file = None /\ (record # None /\ faults = <<>> => ~record.valid)

\* What upload u has done so far, and has to take back
Traces(u) ==
  /\ pc[u] \in {"fetch", "write"} /\ faults = <<>> => ~record.valid
  /\ pc[u] \in {"findToken", "dropToken", "savePid"} => updated[u]
  /\ pc[u] = "clean" => updated[u] \/ ~record.valid
  /\ pc[u] \in Cleaning => faults # <<>>
  /\ pc[u] \in Cleaning /\ u \in stuck => pid = None
  /\ pc[u] \in {"markFetch", "markWrite"} => file = None
  /\ pc[u] = "markWrite" => seen[u] = record

\* The token and the record at the Handle server while upload u has not come to them
Unspent(u) ==
  /\ pc[u] \in HasToken => tokens["upload"] # "deleted"
  /\ pc[u] = "savePid" => pid = None

NobodyWorks == \A u \in Uploads : pc[u] \notin Working

Order ==
  /\ pid # None => tokens["upload"] = "deleted"
  /\ faults = <<>> => stuck = {}
  /\ faults \in OneFault /\ NobodyWorks => Consistent
  /\ Unharmed /\ tokens["upload"] # "deleted" /\ NobodyWorks => NothingLeft

OrderInv == Order /\ \A u \in Uploads : Unspent(u) /\ (faults \in OneFault => Traces(u))

\* A fault is remembered, so that there has been none before the first.
LEMMA FaultsGrow ==
  ASSUME Typed, NEW kind, Fault(kind)
  PROVE  /\ faults' # <<>> /\ faults' # faults
         /\ faults' \in OneFault => faults = <<>> /\ kind \in {"fail", "crash"}
         /\ Unharmed' => faults = <<>> /\ kind = "fail"
<1>1. faults \in Seq(Faults) /\ faults' = Append(faults, kind) /\ kind \in Faults
  BY DEF Typed, TypeOK, Fault
<1>2. Len(faults') = Len(faults) + 1 /\ faults'[Len(faults) + 1] = kind
  BY <1>1
<1>3. faults' # <<>> /\ faults' # faults
  BY <1>1, <1>2
<1>4. ASSUME NEW k, faults' = <<k>>  PROVE faults = <<>> /\ kind = k
  <2>1. Len(faults') = 1 /\ faults'[1] = k
    BY <1>4
  <2>2. Len(faults) = 0
    BY <1>1, <1>2, <2>1
  <2> QED  BY <1>1, <1>2, <2>1, <2>2
<1> QED  BY <1>3, <1>4 DEF OneFault, Unharmed

\* OrderInv seen from the one upload that may be at work
OwnOrder(u) ==
  /\ Unspent(u)
  /\ pid # None => tokens["upload"] = "deleted"
  /\ faults = <<>> => stuck = {}
  /\ faults \in OneFault => Traces(u) /\ (pc[u] \notin Working => Consistent)
  /\ Unharmed /\ tokens["upload"] # "deleted" /\ pc[u] \notin Working => NothingLeft

LEMMA OwnOrderStart ==
  ASSUME Typed, NEW u \in Uploads, OwnOrder(u), Start(u)
  PROVE  OwnOrder(u)'
<1>1. /\ UNCHANGED <<record, file, tokens, pid, stuck, faults>>
      /\ pc'[u] = "refused" \/ (pc'[u] = "probe" /\ tokens["upload"] = "live")
      /\ pc[u] = "idle"
  BY DEF Start, Goto, Kind, Actors, Typed, TypeOK, request
<1> QED
  BY <1>1 DEF OwnOrder, Unspent, HasToken, Cleaning, Working, Traces, Consistent, NothingLeft, Unharmed

LEMMA OwnOrderCrash ==
  ASSUME Typed, NEW u \in Uploads, Keeps(u), OwnOrder(u), u \in Active, Crash(u)
  PROVE  OwnOrder(u)'
<1>1. UNCHANGED <<record, file, tokens, pid, stuck>> /\ pc'[u] = "crashed"
  BY DEF Crash, Goto, Actors, Typed, TypeOK, request
<1>2. ~Unharmed' /\ faults' # <<>> /\ (faults' \in OneFault => faults = <<>>)
  BY FaultsGrow DEF Crash
<1>3. ASSUME faults' \in OneFault  PROVE Consistent
  <2>1. faults = <<>> /\ faults \in OneFault /\ Unharmed
    BY <1>2, <1>3 DEF OneFault, Unharmed
  <2>2. Traces(u) /\ (pc[u] \notin Working => Consistent)
    BY <2>1 DEF OwnOrder
  <2>3. CASE pc[u] \in {"fetch", "write"}
    BY <2>1, <2>2, <2>3 DEF Traces, Consistent
  <2>4. CASE pc[u] \in {"refresh", "findToken", "dropToken", "savePid"}
    BY <2>4 DEF Keeps, StoredSteps, WrittenSteps, Row, Consistent
  <2>5. pc[u] \notin Cleaning
    BY <2>1, <2>2 DEF Traces
  <2> QED  BY <2>2, <2>3, <2>4, <2>5 DEF Working
<1> QED
  BY <1>1, <1>2, <1>3 DEF OwnOrder, Unspent, HasToken, Cleaning, Working, Traces, Consistent

LEMMA OwnOrderBefore ==
  ASSUME Typed, NEW u \in Uploads, OwnOrder(u), Probe(u) \/ Store(u)
  PROVE  OwnOrder(u)'
<1>t. u \in Actors /\ pc = [b \in Actors |-> pc[b]]
  BY DEF Typed, TypeOK, Actors
<1>1. CASE Probe(u)
  <2>1. pc[u] = "probe" /\ UNCHANGED <<record, file, tokens, pid, stuck>>
    BY <1>1 DEF Probe, request
  <2>2. CASE Succeeds /\ pc'[u] \in {"refused", "store"}
    BY <2>1, <2>2 DEF Succeeds, OwnOrder, Unspent, HasToken, Cleaning, Working, Traces, Consistent, NothingLeft, Unharmed
  <2>3. CASE Fault("fail") /\ pc'[u] = "failed"
    <3>1. /\ faults' \in OneFault => faults \in OneFault
          /\ Unharmed' => Unharmed
          /\ faults' # <<>>
      BY <2>3, FaultsGrow DEF OneFault, Unharmed
    <3> QED  BY <2>1, <2>3, <3>1 DEF OwnOrder, Unspent, HasToken, Cleaning, Working, Traces, Consistent, NothingLeft
  <2> QED  BY <1>1, <1>t, <2>2, <2>3 DEF Probe, Goto
<1>2. CASE Store(u)
  <2>1. pc[u] = "store" /\ UNCHANGED <<record, tokens, pid, stuck>>
    BY <1>2 DEF Store, request
  <2>2. CASE Succeeds /\ file' = u /\ pc'[u] = "fetch"
    <3>1. record # None
      BY <1>t, <2>1, StartedIsFounded
    <3> QED
      BY <2>1, <2>2, <3>1 DEF Succeeds, OwnOrder, Unspent, HasToken, Cleaning, Working, Traces, Consistent, NothingLeft, Unharmed
  <2>3. CASE Fault("fail") /\ file' = file /\ pc'[u] = "failed"
    <3>1. /\ faults' \in OneFault => faults \in OneFault
          /\ Unharmed' => Unharmed
          /\ faults' # <<>>
      BY <2>3, FaultsGrow DEF OneFault, Unharmed
    <3> QED  BY <2>1, <2>3, <3>1 DEF OwnOrder, Unspent, HasToken, Cleaning, Working, Traces, Consistent, NothingLeft
  <2>4. CASE Fault("lost") /\ pc'[u] = "failed"
    <3>1. faults' \notin OneFault /\ ~Unharmed' /\ faults' # <<>>
      BY <2>4, FaultsGrow
    <3> QED  BY <2>1, <2>4, <3>1 DEF OwnOrder, Unspent, HasToken, Working, Cleaning
  <2> QED  BY <1>2, <1>t, <2>2, <2>3, <2>4 DEF Store, FailedWrite, Goto
<1> QED  BY <1>1, <1>2

LEMMA OwnOrderRow ==
  ASSUME Typed, NEW u \in Uploads, Keeps(u), OwnOrder(u), Fetch(u) \/ Write(u) \/ Refresh(u)
  PROVE  OwnOrder(u)'
<1>t. u \in Actors /\ pc = [b \in Actors |-> pc[b]] /\ updated = [v \in Uploads |-> updated[v]]
  BY DEF Typed, TypeOK, Actors
<1>1. /\ UNCHANGED <<file, tokens, pid, stuck>>
      /\ pc[u] \in {"fetch", "write", "refresh"} /\ pc'[u] \in {"write", "refresh", "findToken", "clean"}
  BY <1>t DEF Fetch, Write, Refresh, Goto, request
<1>2. CASE Succeeds
  <2>1. faults' = faults /\ \A kind : ~Fault(kind)
    BY <1>2, FaultsGrow DEF Succeeds
  <2>4. pc'[u] \in {"write", "refresh", "findToken"}
    BY <1>t, <2>1 DEF Fetch, Write, Refresh, Goto
  <2>2. pc'[u] = "write" => pc[u] = "fetch" /\ record' = record
    BY <1>t, <2>1 DEF Fetch, Write, Refresh, Goto
  <2>3. pc'[u] = "findToken" => updated'[u]
    BY <1>t, <2>1 DEF Fetch, Write, Refresh, Goto
  <2> QED
    BY <1>1, <2>1, <2>2, <2>3, <2>4 DEF OwnOrder, Unspent, HasToken, Cleaning, Working, Traces, Unharmed
<1>3. ASSUME NEW kind \in {"fail", "lost"}, Fault(kind)  PROVE OwnOrder(u)'
  <2>0. ~Succeeds
    BY <1>3, FaultsGrow DEF Succeeds
  <2>1. pc'[u] = "clean" /\ record' = record /\ updated' = updated
    BY <1>t, <2>0 DEF Fetch, Write, Refresh, Goto, request
  <2>2. faults' \in OneFault => pc[u] \in {"fetch", "write"} /\ faults = <<>>
    BY <1>3, <1>t, FaultsGrow DEF Fetch, Write, Refresh, Goto, Succeeds
  <2>3. faults' \in OneFault => ~record.valid /\ stuck = {}
    BY <2>2 DEF OwnOrder, Traces, OneFault
  <2>4. faults' # <<>>
    BY <1>3, FaultsGrow
  <2> QED
    BY <1>1, <2>1, <2>3, <2>4 DEF OwnOrder, Unspent, HasToken, Cleaning, Working, Traces
<1> QED  BY <1>2, <1>3 DEF Fetch, Write, Refresh

LEMMA OwnOrderToken ==
  ASSUME Typed, SpentBefore, NEW u \in Uploads, Keeps(u), OwnOrder(u),
         FindToken(u) \/ DropToken(u) \/ SavePid(u)
  PROVE  OwnOrder(u)'
<1>t. u \in Actors /\ pc = [b \in Actors |-> pc[b]] /\ tokens = [k \in Kinds |-> tokens[k]] /\ Kind(u) = "upload"
      /\ "upload" \in Kinds
  BY DEF Typed, TypeOK, Actors, Kind, Kinds
<1>1. /\ UNCHANGED <<record, file, updated, seen>> /\ pc[u] \in {"findToken", "dropToken", "savePid"}
      /\ pc'[u] \in {"dropToken", "savePid", "ok", "clean"}
      /\ faults' = faults \/ \E kind \in {"fail", "lost"} : Fault(kind)
  BY <1>t DEF FindToken, DropToken, SavePid, Goto, GiveUp, request, FailedWrite, Succeeds
<1>2. Unspent(u)' /\ (pid' # None => tokens'["upload"] = "deleted")
  <2>1. tokens["upload"] # "deleted" => pid = None
    BY DEF OwnOrder
  <2>2. CASE FindToken(u)
    <3>1. pc'[u] \in {"dropToken", "clean"} /\ UNCHANGED <<tokens, pid>> /\ pc[u] = "findToken"
      BY <1>t, <2>2 DEF FindToken, Goto, GiveUp
    <3> QED  BY <3>1 DEF OwnOrder, Unspent, HasToken
  <2>3. CASE DropToken(u)
    <3>1. pid' = pid /\ pc[u] = "dropToken" /\ tokens["upload"] # "deleted"
      BY <2>3 DEF DropToken, OwnOrder, Unspent, HasToken
    <3>2. pc'[u] \in {"savePid", "clean"}
      BY <1>t, <2>3 DEF DropToken, Goto, GiveUp
    <3> QED  BY <2>1, <3>1, <3>2 DEF Unspent, HasToken
  <2>4. CASE SavePid(u)
    <3>1. pc[u] = "savePid" /\ pc'[u] \in {"ok", "clean"} /\ tokens' = tokens
      BY <1>t, <2>4 DEF SavePid, Goto
    <3>2. tokens["upload"] = "deleted"
      BY <1>t, <3>1 DEF SpentBefore, SpentSteps
    <3> QED  BY <3>1, <3>2 DEF Unspent, HasToken
  <2> QED  BY <2>2, <2>3, <2>4
<1>3. pc'[u] = "clean" => faults' # <<>>
  BY <1>t, FaultsGrow DEF FindToken, DropToken, SavePid, Goto, GiveUp, OwnOrder, Unspent, HasToken, FailedWrite, Succeeds
<1>4. faults' \in OneFault => faults \in OneFault
  BY <1>1, FaultsGrow DEF OneFault
<1>6. faults' = <<>> => stuck' = {}
  <2>1. faults' = <<>> => faults' = faults /\ \A kind : ~Fault(kind)
    BY FaultsGrow, <1>1
  <2> QED
    BY <2>1 DEF FindToken, DropToken, SavePid, FailedWrite, request, OwnOrder
<1>7. ASSUME pc'[u] = "clean", faults' \in OneFault, u \in stuck'  PROVE pid' = None
  <2>1. CASE SavePid(u)
    <3>1. stuck' = stuck
      BY <2>1 DEF SavePid, request
    <3>2. faults' = faults
      BY <1>7, <3>1, <1>1, <1>4, FaultsGrow DEF OneFault, OwnOrder
    <3>3. pc'[u] = "ok"
      BY <1>t, <2>1, <3>2, FaultsGrow DEF SavePid, FailedWrite, Goto, OwnOrder, Unspent
    <3> QED  BY <1>7, <3>3
  <2>2. CASE FindToken(u) \/ DropToken(u)
    BY <2>2 DEF FindToken, DropToken, OwnOrder, Unspent, HasToken
  <2> QED  BY <2>1, <2>2
<1>5. ASSUME pc'[u] = "ok"  PROVE tokens'["upload"] = "deleted" /\ Consistent'
  <2>1. SavePid(u)
    BY <1>t, <1>5 DEF FindToken, DropToken, Goto, GiveUp
  <2>2. pc[u] = "savePid" /\ UNCHANGED <<tokens, record, file>>
    BY <2>1 DEF SavePid
  <2>3. tokens["upload"] = "deleted" /\ file = u /\ record = Row(u)
    BY <1>t, <2>2 DEF SpentBefore, SpentSteps, Keeps, StoredSteps, WrittenSteps
  <2> QED  BY <2>2, <2>3 DEF Consistent, Row
<1> QED
  BY <1>1, <1>2, <1>3, <1>4, <1>5, <1>6, <1>7 DEF OwnOrder, Cleaning, Working, Traces

LEMMA OwnOrderCleaning ==
  ASSUME Typed, NEW u \in Uploads, OwnOrder(u), Clean(u) \/ MarkFetch(u) \/ MarkWrite(u)
  PROVE  OwnOrder(u)'
<1>t. /\ u \in Actors /\ pc = [b \in Actors |-> pc[b]] /\ seen = [v \in Uploads |-> seen[v]]
  BY DEF Typed, TypeOK, Actors
<1>1. /\ UNCHANGED <<tokens, pid, updated, stuck>> /\ pc[u] \in Cleaning
      /\ pc'[u] \in {"markFetch", "markWrite", "failed"}
      /\ faults' = faults \/ \E kind \in {"fail", "lost"} : Fault(kind)
  BY <1>t DEF Clean, MarkFetch, MarkWrite, Cleaning, Goto, request, FailedWrite, Succeeds
<1>2. /\ Unspent(u)' /\ (pid' # None => tokens'["upload"] = "deleted")
      /\ faults' = <<>> => stuck' = {}
  BY <1>1, FaultsGrow DEF OwnOrder, Unspent, HasToken
<1>r. record \in ArtifactRecord /\ record # None
  BY <1>t, <1>1, StartedIsFounded DEF Cleaning, Typed, TypeOK
<1>3. CASE faults \notin OneFault
  <2>1. faults' \notin OneFault /\ ~Unharmed'
    BY <1>1, <1>3, FaultsGrow DEF OneFault, Unharmed
  <2> QED  BY <1>2, <2>1 DEF OwnOrder
<1>4. CASE faults \in OneFault /\ faults' # faults
  <2>1. faults # <<>>
    BY <1>1, <1>4 DEF OwnOrder, Traces
  <2>2. faults' \notin OneFault /\ ~Unharmed'
    BY <1>1, <1>4, <2>1, FaultsGrow DEF OneFault, Unharmed
  <2> QED  BY <1>2, <2>2 DEF OwnOrder
<1>5. CASE faults \in OneFault /\ faults' = faults
  <2>1. Traces(u) /\ \A kind : ~Fault(kind)
    BY <1>5, FaultsGrow DEF OwnOrder
  <2>2. CASE Clean(u)
    <3>1. file' = None /\ record' = record /\ pc'[u] = (IF updated[u] THEN "markFetch" ELSE "failed")
      BY <1>t, <2>1, <2>2 DEF Clean, FailedWrite, Goto
    <3>2. updated[u] \/ ~record.valid
      BY <2>1, <2>2 DEF Clean, Traces
    <3> QED
      BY <1>1, <1>2, <1>5, <2>1, <3>1, <3>2
         DEF OwnOrder, Cleaning, Working, Traces, Consistent, NothingLeft
  <2>3. CASE MarkFetch(u)
    <3>1. file' = file /\ file = None /\ record' = record /\ faults' # <<>>
      BY <1>1, <1>5, <2>1, <2>3 DEF MarkFetch, Traces
    <3>2. CASE u \notin stuck
      <4>1. pc'[u] = "markWrite" /\ seen'[u] = record
        BY <1>t, <2>1, <2>3, <3>2 DEF MarkFetch, Goto
      <4> QED
        BY <1>1, <1>2, <1>5, <2>1, <3>1, <3>2, <4>1 DEF OwnOrder, Cleaning, Working, Traces
    <3>3. CASE u \in stuck
      <4>1. pc'[u] = "failed" /\ pid = None
        BY <1>t, <1>1, <2>1, <2>3, <3>3 DEF MarkFetch, Goto, Traces
      <4> QED
        BY <1>1, <1>2, <1>5, <3>1, <3>3, <4>1
           DEF OwnOrder, Cleaning, Working, Traces, Consistent, NothingLeft
    <3> QED  BY <3>2, <3>3
  <2>4. CASE MarkWrite(u)
    <3>1. file' = None /\ seen[u] = record /\ pc'[u] = "failed"
      BY <1>t, <2>1, <2>4 DEF MarkWrite, Goto, Traces
    <3>2. record' = Saved(record, record, held[u], FALSE)
      BY <2>1, <2>4, <3>1 DEF MarkWrite, FailedWrite
    <3>3. ~record'.valid
      BY <1>r, <3>2 DEF Saved, ArtifactRecord
    <3> QED
      BY <1>1, <1>2, <1>5, <3>1, <3>3 DEF OwnOrder, Cleaning, Working, Traces, Consistent, NothingLeft
  <2> QED  BY <2>2, <2>3, <2>4
<1> QED  BY <1>3, <1>4, <1>5

\* A step of anybody who is no upload leaves all that matters to uploads as it is.
LEMMA OrderUntouched ==
  ASSUME Typed, OrderInv,
         \A u \in Uploads : pc'[u] = pc[u],
         UNCHANGED <<record, file, pid, seen, updated, stuck>>,
         tokens'["upload"] = "deleted" <=> tokens["upload"] = "deleted",
         Succeeds \/ \E kind : Fault(kind)
  PROVE  OrderInv'
<1>1. /\ faults' \in OneFault => faults \in OneFault
      /\ Unharmed' => Unharmed
      /\ faults' = <<>> => faults = <<>>
  BY FaultsGrow DEF Succeeds, OneFault, Unharmed
<1>2. Order'
  BY <1>1 DEF OrderInv, Order, NobodyWorks, Consistent, NothingLeft
<1>3. ASSUME NEW u \in Uploads  PROVE Unspent(u)' /\ (faults' \in OneFault => Traces(u)')
  BY <1>1 DEF OrderInv, Unspent, Traces
<1> QED  BY <1>2, <1>3 DEF OrderInv

LEMMA UploadKeepsOrder ==
  ASSUME Typed, SpentBefore, InTurnInv, InTurnInv', OrderInv, limit = 1,
         NEW u \in Uploads, ActorActs(u)
  PROVE  OrderInv'
<1>1. Active \subseteq {u} /\ OnlyMoves(u) /\ u \in Actors /\ u \notin Downloads
  BY ActsAlone, ActorStep, TransferAssumption DEF ActorActs, Actors, InTurnInv
<1>2. ASSUME NEW v \in Uploads \ {u}
      PROVE  pc[v] \in Ended \cup {"idle"} /\ pc'[v] \in Ended \cup {"idle"}
  BY <1>1 DEF OnlyMoves, Actors, Active
<1>3. OwnOrder(u)
  BY <1>2 DEF OrderInv, Order, NobodyWorks, OwnOrder, Ended, Working, Cleaning
<1>4. Keeps(u) /\ Keeps(u)'
  BY DEF InTurnInv
<1>5. OwnOrder(u)'
  BY <1>1, <1>3, <1>4, OwnOrderStart, OwnOrderCrash, OwnOrderBefore, OwnOrderRow, OwnOrderToken,
     OwnOrderCleaning DEF ActorActs, UploadStep, Crash
<1>6. ASSUME NEW v \in Uploads \ {u}  PROVE Unspent(v)' /\ Traces(v)'
  BY <1>2 DEF Ended, Unspent, HasToken, Traces, Cleaning
<1>7. NobodyWorks' <=> pc'[u] \notin Working
  BY <1>2 DEF NobodyWorks, Ended, Working, Cleaning
<1> QED
  BY <1>5, <1>6, <1>7 DEF OrderInv, Order, OwnOrder

LEMMA OrderNext ==
  ASSUME Typed, SpentBefore, InTurnInv, InTurnInv', OrderInv, limit = 1, [Next]_vars
  PROVE  OrderInv'
<1>1. ASSUME NEW u \in Uploads, ActorActs(u)  PROVE OrderInv'
  BY <1>1, UploadKeepsOrder
<1>2. ASSUME NEW d \in Downloads, ActorActs(d)  PROVE OrderInv'
  <2>1. d \in Actors /\ d \notin Uploads /\ Kind(d) = "download"
    BY TransferAssumption DEF Actors, Kind
  <2>2. \A u \in Uploads : pc'[u] = pc[u]
    BY <1>2, <2>1, ActorStep DEF ActorActs, OnlyMoves, Actors
  <2>3. UNCHANGED <<record, file, pid, seen, updated, stuck>> /\ (Succeeds \/ \E kind : Fault(kind))
    BY <1>2, <2>1 DEF ActorActs, Start, FindToken, DropToken, Crash, Open, Serve, FailedWrite,
       EndsSession, request, Succeeds
  <2>4. tokens'["upload"] = tokens["upload"]
    <3>1. tokens' \in {tokens, [tokens EXCEPT !["download"] = "deleted"]}
      BY <1>2, <2>1 DEF ActorActs, Start, FindToken, DropToken, Crash, Open, Serve, FailedWrite
    <3> QED  BY <3>1 DEF Typed, TypeOK, Kinds
  <2> QED  BY <2>2, <2>3, <2>4, OrderUntouched
<1>3. CASE SaveArtifact
  <2>1. /\ record = None /\ record' = [hash |-> None, valid |-> FALSE]
        /\ UNCHANGED <<file, tokens, pid, pc, faults, seen, updated, stuck>>
    BY <1>3 DEF SaveArtifact, request
  <2>2. \A u \in Uploads : pc[u] = "idle"
    BY <2>1 DEF Typed, Founded, Actors
  <2>3. tokens["upload"] = "none" /\ NobodyWorks
    BY <2>1, <2>2 DEF Typed, Founded, Kinds, NobodyWorks, Working, Cleaning
  <2>4. Order'
    BY <2>1, <2>3 DEF OrderInv, Order, NobodyWorks, Consistent, NothingLeft, Unharmed
  <2>5. \A u \in Uploads : Unspent(u)' /\ Traces(u)'
    BY <2>1, <2>2 DEF Unspent, HasToken, Traces, Cleaning
  <2> QED  BY <2>4, <2>5 DEF OrderInv
<1>4. ASSUME NEW k \in Kinds, IssueToken(k) \/ Expire(k)  PROVE OrderInv'
  <2>1. UNCHANGED <<record, file, pid, pc, faults, seen, updated, stuck>>
    BY <1>4 DEF IssueToken, Expire, request
  <2>2. tokens'["upload"] = "deleted" <=> tokens["upload"] = "deleted"
    BY <1>4 DEF IssueToken, Expire, Typed, TypeOK, Kinds
  <2> QED  BY <2>1, <2>2, OrderUntouched DEF Succeeds
<1>5. CASE Finished \/ UNCHANGED vars
  BY <1>5, OrderUntouched DEF Finished, vars, request, Succeeds
<1> QED
  BY <1>1, <1>2, <1>3, <1>4, <1>5 DEF Next, ActorActs, Actors

\* After one failing call, or one crash, a row promises a file that is not there only if
\* its upload has lost its database session, and then its PID does not resolve; and after
\* a failing call the client can present its token again.
THEOREM TransfersLeaveOrder == Spec => []LeftInOrder
<1>1. Init => (limit = 1 => InTurnInv /\ OrderInv)
  BY DEF Init, InTurnInv, Sole, Keeps, Closed, Active, Actors, StoredSteps, WrittenSteps, OrderInv,
     Order, Unspent, HasToken, Traces, Cleaning, NothingLeft, Consistent
<1>2. Typed /\ AckInv /\ (limit = 1 => InTurnInv /\ OrderInv) /\ [Next]_vars
        => (limit = 1 => InTurnInv /\ OrderInv)'
  <2>1. [Next]_vars => limit' = limit
    BY SetupIsFixed DEF setup
  <2> QED
    BY <2>1, InTurnNext, OrderNext DEF AckInv
<1>3. (limit = 1 => InTurnInv /\ OrderInv) => LeftInOrder
  <2> SUFFICES ASSUME limit = 1, OrderInv, Active = {}
               PROVE  /\ record # None /\ faults \in OneFault /\ record.valid =>
                           file = record.hash \/ (stuck # {} /\ pid = None)
                      /\ faults \in {<<>>, <<"fail">>} /\ backend = "local" /\ tokens["upload"] = "live" =>
                           file = None
    BY DEF LeftInOrder
  <2>1. NobodyWorks
    BY DEF NobodyWorks, Active, Actors, Working, Cleaning, Ended
  <2> QED  BY <2>1 DEF OrderInv, Order, Consistent, NothingLeft, Unharmed
<1> QED
  BY <1>1, <1>2, <1>3, TransferInvariant, AckInvariant, PTL DEF Spec

================================================================================
