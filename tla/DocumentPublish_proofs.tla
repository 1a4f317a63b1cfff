------------------------ MODULE DocumentPublish_proofs ------------------------
(***************************************************************************)
(* Proofs about DocumentPublish, for every set of documents, every number  *)
(* of requests in flight and every kind of fault.                          *)
(***************************************************************************)
EXTENDS DocumentPublish, TLAPS

(***************************************************************************)
(* The inductive invariant                                                 *)
(***************************************************************************)

Steps      == {"idle"} \cup CreateSteps \cup MetaSteps \cup CleanSteps \cup EndSteps
BeforeRow  == {"idle", "authorise", "findLineage", "findFirst", "store",
               "readParent", "readLineage", "saveRow"}
WithParent == {"authorise", "findLineage", "findFirst", "readParent", "readLineage",
               "updateParentRow", "saveLineage", "updateParentPid", "updateLineage",
               "revertRow"}
Publishing == {"saveRow", "updateParentRow", "saveLineage", "updateParentPid",
               "updateLineage", "savePid"}
Linked     == {"updateParentPid", "updateLineage", "savePid"}

\* The permission check of a create request
Checks(d) == Authorise(d) \/ FindLineage(d) \/ FindFirst(d) \/ Refuse(d)

\* What create request d holds in its locals r at a step
CreateLocals(d, step, r) ==
  /\ step \in {"idle"} \cup EndSteps => r = NoRequest
  /\ step \notin {"idle"} \cup EndSteps => r.doc = d
  /\ step \in WithParent => r.parent # None
  /\ r.parent # None => r.prevRow # None
  /\ step \in {"findLineage", "findFirst"} => r.found # None
  /\ step = "readLineage" => r.held # None /\ r.held.lineage # None
  /\ step \in Publishing /\ r.parent # None =>
       /\ r.held # None
       /\ r.heldLin # None
       /\ r.lineage # None
       /\ r.held.lineage = r.lineage
  /\ r.parent = None => r.lineage = None

\* A PATCH only goes through the two metadata steps.
PatchLocals(step, r) ==
  /\ step \in {"idle"} \cup MetaSteps \cup EndSteps
  /\ step \in MetaSteps => r.doc # None

MetaLocals(step, r) == step = "writeMeta" => r.held # None

LocalsOK(a, step, r) ==
  /\ a \in Docs => CreateLocals(a, step, r)
  /\ a \in Patchers => PatchLocals(step, r)
  /\ MetaLocals(step, r)

TypeInv == TypeOK /\ \A a \in Actors : LocalsOK(a, pc[a], req[a])

\* Lineage l has been written, and f is its first document.
Opened(l, f) == lins[l] # None /\ lins[l].first = f

\* Handle record r says nothing wrong about the chain of document x.
Truthful(x, r) ==
  /\ r.version = 1 => root[x] = x
  /\ r.lineage # None => Opened(r.lineage, root[x])

RowTruthful(x, row) ==
  row # None =>
    /\ pc[x] \notin BeforeRow
    /\ row.version = 1 => root[x] = x
    /\ row.parent # None =>
         pc[row.parent] \notin BeforeRow /\ root[x] = root[row.parent]

PidTruthful(x, r) == r # None => pc[x] \notin BeforeRow /\ Truthful(x, r)

LineageOpened(l, lin) ==
  lin # None =>
    lin.latest >= 2 /\ pc[l] \notin BeforeRow \cup {"updateParentRow", "saveLineage"}

\* What create request d holds about the chain of its parent
HoldsChain(d, step, r) ==
  r.parent # None =>
    /\ pc[r.parent] \notin BeforeRow
    /\ r.prevRow.version = 1 => root[r.parent] = r.parent
    /\ step = "authorise" /\ r.prevRow.parent # None =>
         pc[r.prevRow.parent] \notin BeforeRow /\ root[r.prevRow.parent] = root[r.parent]
    /\ step = "findLineage" => Opened(r.found, root[r.parent])
    /\ step = "findFirst" => r.found = root[r.parent]
    /\ step = "readLineage" => Truthful(r.parent, r.held)
    /\ step \in Publishing =>
         /\ r.held.version = 1 => root[r.parent] = r.parent
         /\ r.heldLin.first = root[r.parent]
         /\ r.heldLin.latest >= 2
         /\ r.lineage = d \/ Opened(r.lineage, root[r.parent])
    /\ step \in Linked => Opened(r.lineage, root[r.parent])

RootKnown(d, step, r) ==
  step \in Publishing \ {"saveRow"} =>
    root[d] = IF r.parent = None THEN d ELSE root[r.parent]

\* What a request that rewrites metadata holds
MetaTruthful(step, r) ==
  /\ step \in MetaSteps => pc[r.doc] \notin BeforeRow
  /\ step = "writeMeta" => Truthful(r.doc, r.held)

StoresTruthful ==
  \A x \in Docs : /\ RowTruthful(x, rows[x])
                  /\ PidTruthful(x, pids[x])
                  /\ LineageOpened(x, lins[x])

LocalsTruthful ==
  /\ \A d \in Docs : HoldsChain(d, pc[d], req[d]) /\ RootKnown(d, pc[d], req[d])
  /\ \A a \in Actors : MetaTruthful(pc[a], req[a])

ChainInv == TypeInv /\ StoresTruthful /\ LocalsTruthful

(***************************************************************************)
(* Type correctness                                                        *)
(***************************************************************************)

\* A failed write leaves one of the two states it could leave.
LEMMA FailedWriteOutcome ==
  ASSUME NEW before, NEW after, NEW s \in FailedWrite(before, after)
  PROVE  s = before \/ s = after
BY DEF FailedWrite

\* A step that leaves its own request with fitting locals keeps all of them so.
LEMMA GotoLocals ==
  ASSUME TypeInv, NEW a \in Actors, NEW r \in Request, NEW step \in Steps,
         Goto(a, step, r),
         step \notin EndSteps => LocalsOK(a, step, r)
  PROVE  /\ pc' \in [Actors -> Steps]
         /\ req' \in [Actors -> Request]
         /\ \A b \in Actors : LocalsOK(b, pc'[b], req'[b])
<1>1. NoRequest \in Request
  BY DEF NoRequest, Request, DocOrNone, MetaOrNone
<1>2. step \in EndSteps => LocalsOK(a, step, NoRequest)
  BY DEF LocalsOK, CreateLocals, PatchLocals, MetaLocals, NoRequest, EndSteps,
         WithParent, Publishing, MetaSteps
<1>3. pc' \in [Actors -> Steps] /\ req' \in [Actors -> Request]
  BY <1>1 DEF TypeInv, TypeOK, Goto, Steps
<1>4. ASSUME NEW b \in Actors
      PROVE  LocalsOK(b, pc'[b], req'[b])
  <2>1. CASE b = a
    <3>1. pc'[a] = step /\ req'[a] = IF step \in EndSteps THEN NoRequest ELSE r
      BY DEF Goto, TypeInv, TypeOK
    <3>2. QED
      BY <2>1, <3>1, <1>2
  <2>2. CASE b # a
    <3>1. pc'[b] = pc[b] /\ req'[b] = req[b]
      BY <2>2 DEF Goto, TypeInv, TypeOK
    <3>2. QED
      BY <3>1 DEF TypeInv
  <2>3. QED
    BY <2>1, <2>2
<1>5. QED
  BY <1>3, <1>4

\* A document's row and Handle record are built from well typed locals.
LEMMA NewRecordType ==
  ASSUME NEW r \in Request,
         r.parent # None => r.heldLin # None
  PROVE  NewRow(r) \in DocumentRow /\ NewPid(r) \in DocumentPid
BY DEF NewRow, NewPid, NewVersion, Request, DocumentRow, DocumentPid, LineagePid,
       DocOrNone, MetaOrNone

\* What the locals of a create request look like while it runs
LEMMA RunningLocals ==
  ASSUME TypeInv, NEW d \in Docs
  PROVE  /\ req[d] \in Request
         /\ d \in Actors /\ d \notin Patchers
         /\ CreateLocals(d, pc[d], req[d])
         /\ MetaLocals(pc[d], req[d])
BY PublishAssumption DEF TypeInv, TypeOK, LocalsOK, Actors

\* A new version moves the lineage record on and keeps its first document.
LEMMA LineageMovedType ==
  ASSUME NEW lin \in LineagePid, NEW d \in Docs,
         NEW l, l = [lin EXCEPT !.last = d, !.latest = lin.latest + 1]
  PROVE  l \in LineagePid /\ l.first = lin.first /\ l.latest = lin.latest + 1
<1>1. lin.latest \in Nat /\ lin.first \in Docs
  BY DEF LineagePid
<1>2. l = [first |-> lin.first, last |-> d, latest |-> lin.latest + 1]
  BY DEF LineagePid
<1>3. QED
  BY <1>1, <1>2 DEF LineagePid

LEMMA StartCreateType ==
  ASSUME TypeInv, NEW d \in Docs, NEW p \in DocOrNone, NEW m \in {d, None},
         StartCreate(d, p, m)
  PROVE  TypeInv'
<1> DEFINE r == [NoRequest EXCEPT !.doc = d, !.parent = p, !.meta = m,
                   !.prevRow = IF p = None THEN None ELSE rows[p]]
           step == IF p = None THEN "store" ELSE "authorise"
<1>1. r \in Request
  BY DEF NoRequest, Request, DocOrNone, MetaOrNone, Metas, TypeInv, TypeOK
<1>2. r.doc = d /\ r.parent = p /\ r.lineage = None
      /\ r.prevRow = IF p = None THEN None ELSE rows[p]
  BY DEF NoRequest
<1>3. step \in Steps /\ step \notin EndSteps /\ d \in Actors /\ d \notin Patchers
  BY PublishAssumption DEF Steps, CreateSteps, EndSteps, Actors
<1>4. p # None => rows[p] # None
  BY DEF StartCreate
<1>5. LocalsOK(d, step, r)
  <2> HIDE DEF r
  <2>1. CreateLocals(d, step, r)
    BY <1>2, <1>4 DEF CreateLocals, WithParent, Publishing, EndSteps
  <2>2. QED
    BY <2>1, <1>3 DEF LocalsOK, MetaLocals
<1>6. Goto(d, step, r)
  BY DEF StartCreate
<1> HIDE DEF r, step
<1>7. QED
  BY <1>1, <1>3, <1>5, <1>6, GotoLocals
  DEF StartCreate, TypeInv, TypeOK, stores, reader, Steps

\* A step of the permission check only changes what the check has found.
LEMMA CheckOutcome ==
  ASSUME TypeInv, NEW d \in Docs, Checks(d)
  PROVE  /\ pc[d] \in CheckSteps /\ UNCHANGED <<stores, reader, root>>
         /\ \E step \in {"store", "failed", "findLineage", "findFirst"}, f \in DocOrNone :
              /\ Goto(d, step, [req[d] EXCEPT !.found = f])
              /\ step \in {"findLineage", "findFirst"} => f # None
<1>1. /\ pc[d] \in CheckSteps /\ UNCHANGED <<stores, reader, root>>
      /\ req[d] \in Request /\ CreateLocals(d, pc[d], req[d])
  BY RunningLocals DEF Checks, Authorise, FindLineage, FindFirst, Refuse, CheckSteps
<1>2. req[d] = [req[d] EXCEPT !.found = req[d].found] /\ req[d].found \in DocOrNone
  BY <1>1 DEF Request
<1>3. CASE Refuse(d)
  BY <1>1, <1>2, <1>3 DEF Refuse
<1>4. CASE Authorise(d)
  <2>1. CASE Goto(d, "store", req[d])
    BY <1>1, <1>2, <2>1
  <2>2. CASE ~Goto(d, "store", req[d])
    <3> DEFINE x == req[d].prevRow.parent
    <3>1. /\ x # None /\ pids[x] # None /\ pids[x].lineage # None
          /\ Goto(d, "findLineage", [req[d] EXCEPT !.found = pids[x].lineage])
      BY <1>4, <2>2 DEF Authorise
    <3>2. req[d].prevRow \in DocumentRow
      BY <1>1, <1>4 DEF Authorise, CreateLocals, WithParent, Request
    <3>3. x \in Docs
      BY <3>1, <3>2 DEF DocumentRow, DocOrNone
    <3>4. pids[x].lineage \in DocOrNone
      BY <3>1, <3>3 DEF TypeInv, TypeOK, DocumentPid
    <3> QED  BY <1>1, <3>1, <3>4
  <2> QED  BY <2>1, <2>2
<1>5. CASE FindLineage(d)
  <2>1. req[d].found \in Docs /\ lins[req[d].found] # None
    BY <1>1, <1>5 DEF FindLineage, CreateLocals, Request, DocOrNone
  <2>2. lins[req[d].found].first \in Docs
    BY <2>1 DEF TypeInv, TypeOK, LineagePid
  <2>3. Goto(d, "findFirst", [req[d] EXCEPT !.found = lins[req[d].found].first])
    BY <1>5 DEF FindLineage
  <2> QED  BY <1>1, <2>2, <2>3, PublishAssumption DEF DocOrNone, Actors
<1>6. CASE FindFirst(d)
  <2>1. Goto(d, "store", [req[d] EXCEPT !.found = None])
    BY <1>6 DEF FindFirst
  <2> QED  BY <1>1, <2>1 DEF DocOrNone
<1> QED  BY <1>3, <1>4, <1>5, <1>6 DEF Checks

LEMMA CheckType ==
  ASSUME TypeInv, NEW d \in Docs, Checks(d)
  PROVE  TypeInv'
<1>1. /\ pc[d] \in CheckSteps /\ UNCHANGED <<stores, reader, root>>
      /\ req[d] \in Request /\ CreateLocals(d, pc[d], req[d])
      /\ d \in Actors /\ d \notin Patchers
  BY CheckOutcome, RunningLocals DEF CheckSteps
<1>2. PICK step \in {"store", "failed", "findLineage", "findFirst"}, f \in DocOrNone :
        /\ Goto(d, step, [req[d] EXCEPT !.found = f])
        /\ step \in {"findLineage", "findFirst"} => f # None
  BY CheckOutcome
<1> DEFINE r == [req[d] EXCEPT !.found = f]
<1>3. /\ r \in Request /\ r.doc = req[d].doc /\ r.parent = req[d].parent
      /\ r.prevRow = req[d].prevRow /\ r.lineage = req[d].lineage /\ r.found = f
  BY <1>1 DEF Request
<1>4. step \in Steps /\ Goto(d, step, r)
  BY <1>2 DEF Steps, CreateSteps, EndSteps
<1> HIDE DEF r
<1>5. step \notin EndSteps => LocalsOK(d, step, r)
  BY <1>1, <1>2, <1>3
  DEF LocalsOK, CreateLocals, MetaLocals, WithParent, CheckSteps, Publishing, EndSteps
<1>6. QED
  BY <1>1, <1>3, <1>4, <1>5, GotoLocals
  DEF TypeInv, TypeOK, stores, reader, Steps

\* The invariant about locals, for a step of create request d that changes the
\* stores in a well typed way.
LEMMA CreateMoves ==
  ASSUME TypeInv, NEW d \in Docs, NEW r \in Request, NEW step \in Steps,
         Goto(d, step, r),
         step \notin EndSteps => CreateLocals(d, step, r) /\ MetaLocals(step, r),
         rows' \in [Docs -> DocumentRow \cup {None}], files' \subseteq Docs,
         pids' \in [Docs -> DocumentPid \cup {None}],
         lins' \in [Docs -> LineagePid \cup {None}],
         root' \in [Docs -> Docs], UNCHANGED reader
  PROVE  TypeInv'
<1>1. d \in Actors /\ d \notin Patchers
  BY PublishAssumption DEF Actors
<1>2. step \notin EndSteps => LocalsOK(d, step, r)
  BY <1>1 DEF LocalsOK
<1>3. QED
  BY <1>1, <1>2, GotoLocals DEF TypeInv, TypeOK, reader, Steps

LEMMA StoreFileType ==
  ASSUME TypeInv, NEW d \in Docs, StoreFile(d)
  PROVE  TypeInv'
<1>1. PICK step \in {"saveRow", "readParent", "failed"} :
        /\ Goto(d, step, req[d])
        /\ step = "readParent" <=> step # "failed" /\ req[d].parent # None
  BY DEF StoreFile
<1>2. pc[d] = "store" /\ UNCHANGED <<rows, pids, lins, reader, root>>
  BY DEF StoreFile
<1>3. files' \subseteq Docs
  BY FailedWriteOutcome DEF StoreFile, TypeInv, TypeOK
<1>4. step \in Steps
  BY DEF Steps, CreateSteps, EndSteps
<1>5. step \notin EndSteps => CreateLocals(d, step, req[d]) /\ MetaLocals(step, req[d])
  BY <1>1, <1>2, RunningLocals
  DEF CreateLocals, MetaLocals, WithParent, Publishing, EndSteps
<1>6. QED
  BY <1>1, <1>2, <1>3, <1>4, <1>5, RunningLocals, CreateMoves DEF TypeInv, TypeOK

LEMMA OpenLineageType ==
  ASSUME TypeInv, NEW d \in Docs, NEW parent \in DocumentPid,
         req[d].parent # None, pc[d] \in {"readParent", "readLineage"},
         OpenLineage(d, parent), UNCHANGED <<stores, reader, root>>
  PROVE  TypeInv'
<1> DEFINE r == [req[d] EXCEPT
                   !.held = [parent EXCEPT !.lineage = d, !.succ = d],
                   !.heldLin = [first |-> req[d].parent, last |-> d, latest |-> 2],
                   !.lineage = d]
<1>1. [parent EXCEPT !.lineage = d, !.succ = d] \in DocumentPid
  BY DEF DocumentPid, DocOrNone
<1>2. [first |-> req[d].parent, last |-> d, latest |-> 2] \in LineagePid
  BY RunningLocals DEF LineagePid, Request, DocOrNone
<1>3. r \in Request
  BY <1>1, <1>2, RunningLocals DEF Request, DocOrNone
<1>4. /\ r.doc = req[d].doc /\ r.parent = req[d].parent /\ r.lineage = d
      /\ r.prevRow = req[d].prevRow
      /\ r.held \in DocumentPid /\ r.held.lineage = d
      /\ r.heldLin \in LineagePid
  BY <1>1, <1>2, RunningLocals DEF Request, DocumentPid
<1>5. Goto(d, "saveRow", r)
  BY DEF OpenLineage
<1> HIDE DEF r
<1>6. CreateLocals(d, "saveRow", r) /\ MetaLocals("saveRow", r)
  BY <1>4, RunningLocals, PublishAssumption
  DEF CreateLocals, MetaLocals, WithParent, Publishing, EndSteps, Actors
<1>7. "saveRow" \in Steps
  BY DEF Steps, CreateSteps
<1>8. QED
  BY <1>3, <1>5, <1>6, <1>7, CreateMoves DEF TypeInv, TypeOK, stores

\* Every read of the parent's records ends here when it cannot go on.
LEMMA CleanFileNext ==
  ASSUME TypeInv, NEW d \in Docs, pc[d] \in CreateSteps,
         Goto(d, "cleanFile", req[d]),
         rows' \in [Docs -> DocumentRow \cup {None}],
         pids' \in [Docs -> DocumentPid \cup {None}],
         lins' \in [Docs -> LineagePid \cup {None}],
         root' \in [Docs -> Docs], UNCHANGED <<files, reader>>
  PROVE  TypeInv'
<1>1. CreateLocals(d, "cleanFile", req[d]) /\ MetaLocals("cleanFile", req[d])
  BY RunningLocals
  DEF CreateLocals, MetaLocals, WithParent, Publishing, EndSteps, CreateSteps
<1>2. "cleanFile" \in Steps
  BY DEF Steps, CleanSteps
<1>3. QED
  BY <1>1, <1>2, RunningLocals, CreateMoves DEF TypeInv, TypeOK

LEMMA ReadParentType ==
  ASSUME TypeInv, NEW d \in Docs, ReadParent(d)
  PROVE  TypeInv'
<1> DEFINE parent == pids[req[d].parent]
<1>1. req[d].parent \in Docs
  BY RunningLocals DEF ReadParent, CreateLocals, WithParent, Request, DocOrNone
<1>2. parent \in DocumentPid \cup {None}
  BY <1>1 DEF TypeInv, TypeOK
<1>3. pc[d] = "readParent" /\ UNCHANGED <<stores, reader, root>>
  BY DEF ReadParent
<1>4. CASE parent # None /\ parent.lineage # None
           /\ Goto(d, "readLineage", [req[d] EXCEPT !.held = parent])
  <2> DEFINE r == [req[d] EXCEPT !.held = parent]
  <2>1. r \in Request /\ r.held = parent /\ r.doc = req[d].doc
        /\ r.parent = req[d].parent /\ r.lineage = req[d].lineage
        /\ r.prevRow = req[d].prevRow
    BY <1>2, <1>4, RunningLocals DEF Request
  <2> HIDE DEF r
  <2>2. CreateLocals(d, "readLineage", r) /\ MetaLocals("readLineage", r)
    BY <1>1, <1>3, <1>4, <2>1, RunningLocals
    DEF CreateLocals, MetaLocals, WithParent, Publishing, EndSteps
  <2>3. "readLineage" \in Steps
    BY DEF Steps, CreateSteps
  <2>4. Goto(d, "readLineage", r)
    BY <1>4 DEF r
  <2>5. QED
    BY <1>3, <2>1, <2>2, <2>3, <2>4, CreateMoves DEF TypeInv, TypeOK, stores
<1>5. CASE parent # None /\ OpenLineage(d, parent)
  BY <1>1, <1>2, <1>3, <1>5, OpenLineageType, RunningLocals
  DEF CreateLocals, WithParent
<1>6. CASE Goto(d, "cleanFile", req[d])
  BY <1>3, <1>6, CleanFileNext DEF TypeInv, TypeOK, stores, CreateSteps
<1>7. QED
  BY <1>4, <1>5, <1>6 DEF ReadParent

LEMMA ReadLineageType ==
  ASSUME TypeInv, NEW d \in Docs, ReadLineage(d)
  PROVE  TypeInv'
<1> DEFINE parent == req[d].held
           lin == lins[parent.lineage]
<1>1. pc[d] = "readLineage" /\ UNCHANGED <<stores, reader, root>>
  BY DEF ReadLineage
<1>2. /\ parent \in DocumentPid /\ parent.lineage \in Docs
      /\ req[d].parent # None
  BY <1>1, RunningLocals
  DEF CreateLocals, WithParent, Request, DocumentPid, DocOrNone
<1>3. lin \in LineagePid \cup {None}
  BY <1>2 DEF TypeInv, TypeOK
<1>4. ASSUME lin # None,
             Goto(d, "saveRow",
                  [req[d] EXCEPT !.held = [parent EXCEPT !.succ = d],
                                 !.heldLin = [lin EXCEPT !.last = d,
                                                         !.latest = lin.latest + 1],
                                 !.lineage = parent.lineage])
      PROVE  TypeInv'
  <2> DEFINE h == [parent EXCEPT !.succ = d]
             l == [lin EXCEPT !.last = d, !.latest = lin.latest + 1]
             r == [req[d] EXCEPT !.held = h, !.heldLin = l, !.lineage = parent.lineage]
  <2>1. h \in DocumentPid /\ h.lineage = parent.lineage
    BY <1>2 DEF DocumentPid, DocOrNone
  <2>2. l \in LineagePid
    BY <1>3, <1>4, LineageMovedType
  <2> HIDE DEF h, l
  <2>3. /\ r \in Request /\ r.held = h /\ r.heldLin = l
        /\ r.lineage = parent.lineage /\ r.doc = req[d].doc
        /\ r.parent = req[d].parent /\ r.prevRow = req[d].prevRow
    BY <1>2, <2>1, <2>2, RunningLocals DEF Request, DocOrNone
  <2>4. Goto(d, "saveRow", r)
    BY <1>4 DEF h, l
  <2> HIDE DEF r
  <2>5. CreateLocals(d, "saveRow", r) /\ MetaLocals("saveRow", r)
    BY <1>1, <1>2, <2>1, <2>2, <2>3, RunningLocals, PublishAssumption
    DEF CreateLocals, MetaLocals, WithParent, Publishing, EndSteps, Actors
  <2>6. "saveRow" \in Steps
    BY DEF Steps, CreateSteps
  <2>7. QED
    BY <1>1, <2>3, <2>4, <2>5, <2>6, CreateMoves DEF TypeInv, TypeOK, stores
<1>5. CASE OpenLineage(d, parent)
  BY <1>1, <1>2, <1>5, OpenLineageType
<1>6. CASE Goto(d, "cleanFile", req[d])
  BY <1>1, <1>6, CleanFileNext DEF TypeInv, TypeOK, stores, CreateSteps
<1>7. QED
  BY <1>4, <1>5, <1>6 DEF ReadLineage


LEMMA ReadFailsType ==
  ASSUME TypeInv, NEW d \in Docs, ReadFails(d)
  PROVE  TypeInv'
BY CleanFileNext DEF ReadFails, TypeInv, TypeOK, stores, CreateSteps

\* The deferred writes start at a step the locals are fit for.
LEMMA FinalizeLocals ==
  ASSUME TypeInv, NEW d \in Docs, pc[d] \in {"saveRow", "updateParentRow"},
         NEW r \in Request, r = [req[d] EXCEPT !.stored = TRUE]
  PROVE  /\ FinalizeStep(d) \in Publishing \cap Steps
         /\ CreateLocals(d, FinalizeStep(d), r) /\ MetaLocals(FinalizeStep(d), r)
<1>1. /\ r.doc = req[d].doc /\ r.parent = req[d].parent /\ r.prevRow = req[d].prevRow
      /\ r.held = req[d].held /\ r.heldLin = req[d].heldLin
      /\ r.lineage = req[d].lineage
  BY RunningLocals DEF Request
<1>2. /\ FinalizeStep(d) \in {"savePid", "saveLineage", "updateParentPid"}
      /\ FinalizeStep(d) # "savePid" => req[d].parent # None
  BY DEF FinalizeStep
<1> HIDE DEF FinalizeStep
<1>3. FinalizeStep(d) \in Publishing \cap Steps
  BY <1>2 DEF Publishing, Steps, CreateSteps
<1>4. QED
  BY <1>1, <1>2, <1>3, RunningLocals
  DEF CreateLocals, MetaLocals, WithParent, Publishing, EndSteps

LEMMA StoredType ==
  ASSUME TypeInv, NEW d \in Docs
  PROVE  [req[d] EXCEPT !.stored = TRUE] \in Request
BY RunningLocals DEF Request

LEMMA SaveRowType ==
  ASSUME TypeInv, NEW d \in Docs, SaveRow(d)
  PROVE  TypeInv'
<1> DEFINE after == [rows EXCEPT ![d] = NewRow(req[d])]
<1>1. pc[d] = "saveRow" /\ UNCHANGED <<files, pids, lins, reader>>
  BY DEF SaveRow
<1>2. NewRow(req[d]) \in DocumentRow
  BY <1>1, NewRecordType, RunningLocals DEF CreateLocals, Publishing
<1>3. after \in [Docs -> DocumentRow \cup {None}]
  BY <1>2 DEF TypeInv, TypeOK
<1>4. rows' \in [Docs -> DocumentRow \cup {None}]
  <2>1. rows' = after \/ rows' = rows
    BY FailedWriteOutcome DEF SaveRow
  <2>2. QED
    BY <1>3, <2>1 DEF TypeInv, TypeOK
<1>5. root' \in [Docs -> Docs]
  BY RunningLocals DEF SaveRow, TypeInv, TypeOK, Request, DocOrNone
<1>6. CASE ParentRowDiffers(req[d]) /\ Goto(d, "updateParentRow", req[d])
  <2>1. /\ CreateLocals(d, "updateParentRow", req[d])
        /\ MetaLocals("updateParentRow", req[d])
    BY <1>1, <1>6, RunningLocals
    DEF CreateLocals, MetaLocals, WithParent, Publishing, EndSteps, ParentRowDiffers
  <2>2. "updateParentRow" \in Steps
    BY DEF Steps, CreateSteps
  <2>3. QED
    BY <1>1, <1>4, <1>5, <1>6, <2>1, <2>2, RunningLocals, CreateMoves
    DEF TypeInv, TypeOK
<1>7. CASE Goto(d, FinalizeStep(d), [req[d] EXCEPT !.stored = TRUE])
  BY <1>1, <1>4, <1>5, <1>7, FinalizeLocals, StoredType, CreateMoves
  DEF TypeInv, TypeOK
<1>8. CASE Goto(d, "cleanFile", req[d])
  BY <1>1, <1>4, <1>5, <1>8, CleanFileNext DEF TypeInv, TypeOK, CreateSteps
<1>9. QED
  BY <1>6, <1>7, <1>8 DEF SaveRow

\* Changing the lineage_id of a row
LEMMA RowLineageType ==
  ASSUME TypeInv, NEW x \in Docs, rows[x] # None, NEW l \in DocOrNone
  PROVE  [rows EXCEPT ![x].lineage = l] \in [Docs -> DocumentRow \cup {None}]
<1>1. [rows[x] EXCEPT !.lineage = l] \in DocumentRow
  BY DEF TypeInv, TypeOK, DocumentRow
<1>2. QED
  BY <1>1 DEF TypeInv, TypeOK

LEMMA UpdateParentRowType ==
  ASSUME TypeInv, NEW d \in Docs, UpdateParentRow(d)
  PROVE  TypeInv'
<1> DEFINE after == [rows EXCEPT ![req[d].parent].lineage = req[d].lineage]
<1>1. pc[d] = "updateParentRow" /\ UNCHANGED <<files, pids, lins, reader, root>>
  BY DEF UpdateParentRow
<1>2. req[d].parent \in Docs /\ req[d].lineage \in DocOrNone
  BY <1>1, RunningLocals DEF CreateLocals, WithParent, Request, DocOrNone
<1>3. rows' = rows \/ (rows[req[d].parent] # None /\ rows' = after)
  BY FailedWriteOutcome DEF UpdateParentRow
<1>4. rows' \in [Docs -> DocumentRow \cup {None}]
  BY <1>2, <1>3, RowLineageType DEF TypeInv, TypeOK
<1>5. CASE Goto(d, FinalizeStep(d), [req[d] EXCEPT !.stored = TRUE])
  BY <1>1, <1>4, <1>5, FinalizeLocals, StoredType, CreateMoves
  DEF TypeInv, TypeOK
<1>6. CASE Goto(d, "cleanFile", req[d])
  BY <1>1, <1>4, <1>6, CleanFileNext DEF TypeInv, TypeOK, CreateSteps
<1>7. QED
  BY <1>5, <1>6 DEF UpdateParentRow

\* The deferred writes of the Handle records other than the new document's own
LEMMA LinkWriteType ==
  ASSUME TypeInv, NEW d \in Docs,
         SaveLineage(d) \/ UpdateParentPid(d) \/ UpdateLineage(d)
  PROVE  TypeInv'
<1>1. /\ pc[d] \in {"saveLineage", "updateParentPid", "updateLineage"}
      /\ UNCHANGED <<rows, files, reader, root>>
  BY DEF SaveLineage, UpdateParentPid, UpdateLineage
<1>2. /\ req[d].parent \in Docs /\ req[d].lineage \in Docs
      /\ req[d].held \in DocumentPid /\ req[d].heldLin \in LineagePid
  BY <1>1, RunningLocals
  DEF CreateLocals, WithParent, Publishing, Request, DocOrNone
<1>3. lins' \in [Docs -> LineagePid \cup {None}]
  <2>1. CASE SaveLineage(d)
    <3>1. lins' = lins \/ lins' = [lins EXCEPT ![d] = req[d].heldLin]
      BY <2>1, FailedWriteOutcome DEF SaveLineage
    <3>2. QED
      BY <1>2, <3>1 DEF TypeInv, TypeOK
  <2>2. CASE UpdateLineage(d)
    <3>1. lins' = lins \/ lins' = [lins EXCEPT ![req[d].lineage] = req[d].heldLin]
      BY <2>2, FailedWriteOutcome DEF UpdateLineage
    <3>2. QED
      BY <1>2, <3>1 DEF TypeInv, TypeOK
  <2>3. CASE UpdateParentPid(d)
    BY <2>3 DEF UpdateParentPid, TypeInv, TypeOK
  <2>4. QED
    BY <2>1, <2>2, <2>3
<1>4. pids' \in [Docs -> DocumentPid \cup {None}]
  <2>1. CASE UpdateParentPid(d)
    <3>1. pids' = pids \/ pids' = [pids EXCEPT ![req[d].parent] = req[d].held]
      BY <2>1, FailedWriteOutcome DEF UpdateParentPid
    <3>2. QED
      BY <1>2, <3>1 DEF TypeInv, TypeOK
  <2>2. CASE SaveLineage(d) \/ UpdateLineage(d)
    BY <2>2 DEF SaveLineage, UpdateLineage, TypeInv, TypeOK
  <2>3. QED
    BY <2>1, <2>2
<1>5. ASSUME NEW step \in {"updateParentPid", "updateLineage", "savePid"},
             Goto(d, step, req[d])
      PROVE  TypeInv'
  <2>1. step \in Steps /\ CreateLocals(d, step, req[d]) /\ MetaLocals(step, req[d])
    BY <1>1, <1>2, RunningLocals, PublishAssumption
    DEF Steps, CreateSteps, CreateLocals, MetaLocals, WithParent, Publishing,
        EndSteps, Actors
  <2>2. QED
    BY <1>1, <1>3, <1>4, <1>5, <2>1, RunningLocals, CreateMoves
    DEF TypeInv, TypeOK
<1>6. CASE Goto(d, "cleanFile", req[d])
  BY <1>1, <1>3, <1>4, <1>6, CleanFileNext DEF TypeInv, TypeOK, CreateSteps
<1>7. QED
  BY <1>5, <1>6 DEF SaveLineage, UpdateParentPid, UpdateLineage

LEMMA SavePidType ==
  ASSUME TypeInv, NEW d \in Docs, SavePid(d)
  PROVE  TypeInv'
<1> DEFINE m == IF req[d].meta = None /\ req[d].parent # None
                THEN req[d].held.meta ELSE req[d].meta
           r == [req[d] EXCEPT !.meta = m]
           step == IF m = None THEN "done" ELSE "readMeta"
<1>1. pc[d] = "savePid" /\ UNCHANGED <<rows, files, lins, reader, root>>
  BY DEF SavePid
<1>2. req[d].parent # None => req[d].held \in DocumentPid /\ req[d].heldLin # None
  BY <1>1, RunningLocals DEF CreateLocals, Publishing, Request
<1>3. NewPid(req[d]) \in DocumentPid
  BY <1>2, NewRecordType, RunningLocals
<1>4. pids' \in [Docs -> DocumentPid \cup {None}]
  <2>1. pids' = pids \/ pids' = [pids EXCEPT ![d] = NewPid(req[d])]
    BY FailedWriteOutcome DEF SavePid
  <2>2. QED
    BY <1>3, <2>1 DEF TypeInv, TypeOK
<1>5. CASE Goto(d, step, r)
  <2>1. m \in MetaOrNone
    BY <1>2, RunningLocals DEF Request, DocumentPid
  <2> HIDE DEF m
  <2>2. /\ r \in Request /\ r.doc = req[d].doc /\ r.parent = req[d].parent
        /\ r.prevRow = req[d].prevRow /\ r.lineage = req[d].lineage
    BY <2>1, RunningLocals DEF Request
  <2> HIDE DEF r
  <2>3. step \in Steps
    BY DEF Steps, MetaSteps, EndSteps
  <2>4. step \notin EndSteps => step = "readMeta"
    BY DEF EndSteps
  <2> HIDE DEF step
  <2>5. step \notin EndSteps => CreateLocals(d, step, r) /\ MetaLocals(step, r)
    BY <1>1, <2>2, <2>4, RunningLocals
    DEF CreateLocals, MetaLocals, WithParent, Publishing, EndSteps
  <2>6. QED
    BY <1>1, <1>4, <1>5, <2>2, <2>3, <2>5, CreateMoves DEF TypeInv, TypeOK
<1>6. CASE Goto(d, "cleanFile", req[d])
  BY <1>1, <1>4, <1>6, CleanFileNext DEF TypeInv, TypeOK, CreateSteps
<1>7. QED
  BY <1>5, <1>6 DEF SavePid

LEMMA CleanType ==
  ASSUME TypeInv, NEW d \in Docs, CleanFile(d) \/ CleanRow(d) \/ RevertRow(d)
  PROVE  TypeInv'
<1>1. pc[d] \in CleanSteps /\ UNCHANGED <<pids, lins, reader, root>>
  BY DEF CleanFile, CleanRow, RevertRow, CleanSteps
<1>2. files' \subseteq Docs
  <2>1. CASE CleanFile(d)
    BY <2>1, FailedWriteOutcome DEF CleanFile, TypeInv, TypeOK
  <2>2. CASE CleanRow(d) \/ RevertRow(d)
    BY <2>2 DEF CleanRow, RevertRow, TypeInv, TypeOK
  <2>3. QED
    BY <2>1, <2>2
<1>3. rows' \in [Docs -> DocumentRow \cup {None}]
  <2>1. CASE CleanFile(d)
    BY <2>1 DEF CleanFile, TypeInv, TypeOK
  <2>2. CASE CleanRow(d)
    <3>1. rows' = rows \/ rows' = [rows EXCEPT ![d] = None]
      BY <2>2, FailedWriteOutcome DEF CleanRow
    <3>2. QED
      BY <3>1 DEF TypeInv, TypeOK
  <2>3. CASE RevertRow(d)
    <3>1. req[d].parent \in Docs /\ req[d].prevRow.lineage \in DocOrNone
      BY <2>3, RunningLocals
      DEF RevertRow, CreateLocals, WithParent, Request, DocumentRow, DocOrNone
    <3>2. \/ rows' = rows
          \/ /\ rows[req[d].parent] # None
             /\ rows' = [rows EXCEPT ![req[d].parent].lineage = req[d].prevRow.lineage]
      BY <2>3, FailedWriteOutcome DEF RevertRow
    <3>3. QED
      BY <3>1, <3>2, RowLineageType DEF TypeInv, TypeOK
  <2>4. QED
    BY <2>1, <2>2, <2>3
<1>4. PICK step \in {"cleanRow", "revertRow", "failed"} :
        /\ Goto(d, step, req[d])
        /\ step = "revertRow" => req[d].parent # None
  BY DEF CleanFile, CleanRow, RevertRow, ParentRowDiffers
<1>5. /\ step \in Steps
      /\ step \notin EndSteps => CreateLocals(d, step, req[d]) /\ MetaLocals(step, req[d])
  BY <1>1, <1>4, RunningLocals
  DEF Steps, CleanSteps, CreateLocals, MetaLocals, WithParent, Publishing, EndSteps
<1>6. QED
  BY <1>1, <1>2, <1>3, <1>4, <1>5, RunningLocals, CreateMoves DEF TypeInv, TypeOK

LEMMA StartPatchType ==
  ASSUME TypeInv, NEW q \in Patchers, NEW x \in Docs, StartPatch(q, x)
  PROVE  TypeInv'
<1> DEFINE r == [NoRequest EXCEPT !.doc = x, !.meta = q]
<1>1. r \in Request /\ r.doc = x
  BY DEF NoRequest, Request, DocOrNone, MetaOrNone, Metas
<1>2. q \in Actors /\ q \notin Docs /\ x # None
  BY PublishAssumption DEF Actors
<1>3. Goto(q, "readMeta", r) /\ UNCHANGED <<stores, reader, root>>
  BY DEF StartPatch
<1> HIDE DEF r
<1>4. LocalsOK(q, "readMeta", r) /\ "readMeta" \in Steps
  BY <1>1, <1>2 DEF LocalsOK, PatchLocals, MetaLocals, MetaSteps, Steps
<1>5. QED
  BY <1>1, <1>2, <1>3, <1>4, GotoLocals DEF TypeInv, TypeOK, stores, reader, Steps

\* The document a metadata request is about
LEMMA MetaDoc ==
  ASSUME TypeInv, NEW a \in Actors, pc[a] \in MetaSteps
  PROVE  /\ req[a] \in Request /\ req[a].doc \in Docs /\ LocalsOK(a, pc[a], req[a])
         /\ MetaFailed(a) \in EndSteps
BY PublishAssumption
DEF TypeInv, TypeOK, LocalsOK, CreateLocals, PatchLocals, Actors, MetaSteps,
    EndSteps, Request, DocOrNone, MetaFailed

LEMMA MetaStepType ==
  ASSUME TypeInv, NEW a \in Actors, MetaStep(a)
  PROVE  TypeInv'
<1>1. pc[a] \in MetaSteps /\ UNCHANGED <<rows, files, lins, reader, root>>
  BY DEF MetaStep, ReadMeta, WriteMeta, MetaSteps, stores
<1>2. pids' \in [Docs -> DocumentPid \cup {None}]
  <2>1. CASE WriteMeta(a)
    <3>1. [req[a].held EXCEPT !.meta = req[a].meta] \in DocumentPid
      BY <2>1, <1>1, MetaDoc
      DEF WriteMeta, LocalsOK, MetaLocals, Request, DocumentPid
    <3>2. \/ pids' = pids
          \/ pids' = [pids EXCEPT ![req[a].doc] =
                                     [req[a].held EXCEPT !.meta = req[a].meta]]
      BY <2>1, FailedWriteOutcome DEF WriteMeta
    <3>3. QED
      BY <1>1, <3>1, <3>2, MetaDoc DEF TypeInv, TypeOK
  <2>2. CASE ReadMeta(a)
    BY <2>2 DEF ReadMeta, stores, TypeInv, TypeOK
  <2>3. QED
    BY <2>1, <2>2 DEF MetaStep
<1>3. CASE \E step \in EndSteps : Goto(a, step, req[a])
  <2>1. PICK step \in EndSteps : Goto(a, step, req[a])
    BY <1>3
  <2>2. step \in Steps
    BY DEF Steps
  <2>3. QED
    BY <1>1, <1>2, <2>1, <2>2, MetaDoc, GotoLocals DEF TypeInv, TypeOK, reader, Steps
<1>4. CASE ReadMeta(a) /\ pids[req[a].doc] # None
           /\ Goto(a, "writeMeta", [req[a] EXCEPT !.held = pids[req[a].doc]])
  <2> DEFINE r == [req[a] EXCEPT !.held = pids[req[a].doc]]
  <2>1. pids[req[a].doc] \in DocumentPid
    BY <1>1, <1>4, MetaDoc DEF TypeInv, TypeOK
  <2>2. /\ r \in Request /\ r.doc = req[a].doc /\ r.parent = req[a].parent
        /\ r.prevRow = req[a].prevRow /\ r.lineage = req[a].lineage
        /\ r.held = pids[req[a].doc]
    BY <1>1, <2>1, MetaDoc DEF Request
  <2>3. Goto(a, "writeMeta", r) /\ pc[a] = "readMeta"
    BY <1>4 DEF ReadMeta
  <2> HIDE DEF r
  <2>4. LocalsOK(a, "writeMeta", r) /\ "writeMeta" \in Steps
    BY <1>1, <1>4, <2>2, <2>3, MetaDoc, PublishAssumption
    DEF LocalsOK, CreateLocals, PatchLocals, MetaLocals, MetaSteps, Steps,
        WithParent, Publishing, EndSteps
  <2>5. QED
    BY <1>1, <1>2, <2>2, <2>3, <2>4, GotoLocals DEF TypeInv, TypeOK, reader, Steps
<1>5. QED
  BY <1>1, <1>3, <1>4, MetaDoc DEF MetaStep, ReadMeta, WriteMeta, EndSteps

LEMMA RepairType ==
  ASSUME TypeInv, NEW x \in Docs, RepairStep(x)
  PROVE  TypeInv'
<1>1. UNCHANGED <<files, pids, lins, pc, req, root>>
  BY DEF RepairStep, RepairRead, RepairGet, RepairWrite, RepairFails, stores
<1>2. rows' \in [Docs -> DocumentRow \cup {None}]
  <2>1. CASE RepairWrite(x)
    <3>1. rlin[x] \in DocOrNone
      BY DEF TypeInv, TypeOK
    <3>2. QED
      BY <2>1, <3>1, RowLineageType DEF RepairWrite, TypeInv, TypeOK
  <2>2. CASE RepairRead(x) \/ RepairGet(x) \/ RepairFails(x)
    BY <2>2 DEF RepairRead, RepairGet, RepairFails, stores, TypeInv, TypeOK
  <2>3. QED
    BY <2>1, <2>2 DEF RepairStep
<1>3. PICK s \in {"idle", "get", "write"} : rpc' = [rpc EXCEPT ![x] = s]
  BY DEF RepairStep, RepairRead, RepairGet, RepairWrite, RepairFails
<1>4. PICK l \in DocOrNone : rlin' = [rlin EXCEPT ![x] = l]
  <2>1. /\ None \in DocOrNone
        /\ RepairRead(x) => rows[x].lineage \in DocOrNone
        /\ pids[x] # None => pids[x].lineage \in DocOrNone
    BY DEF TypeInv, TypeOK, DocumentRow, DocumentPid, DocOrNone, RepairRead
  <2>2. QED
    BY <2>1 DEF RepairStep, RepairRead, RepairGet, RepairWrite, RepairFails
<1>5. QED
  BY <1>1, <1>2, <1>3, <1>4 DEF TypeInv, TypeOK

LEMMA CrashType ==
  ASSUME TypeInv, NEW a \in Actors, Crash(a)
  PROVE  TypeInv'
<1>1. "failed" \in Steps /\ "failed" \in EndSteps
  BY DEF Steps, EndSteps
<1>2. req[a] \in Request
  BY DEF TypeInv, TypeOK
<1>3. QED
  BY <1>1, <1>2, GotoLocals DEF Crash, TypeInv, TypeOK, stores, reader, Steps

LEMMA CreateStepType ==
  ASSUME TypeInv, NEW d \in Docs, CreateStep(d)
  PROVE  TypeInv'
BY CheckType, StoreFileType, ReadParentType, ReadLineageType, ReadFailsType,
   SaveRowType, UpdateParentRowType, LinkWriteType, SavePidType, CleanType
DEF CreateStep, Checks

LEMMA TypeInvInit ==
  ASSUME Init
  PROVE  TypeInv
<1>1. NoRequest \in Request
  BY DEF NoRequest, Request, DocOrNone, MetaOrNone
<1>2. TypeOK
  BY <1>1 DEF Init, TypeOK, DocOrNone
<1>3. ASSUME NEW a \in Actors
      PROVE  LocalsOK(a, pc[a], req[a])
  BY DEF Init, LocalsOK, CreateLocals, PatchLocals, MetaLocals, NoRequest,
         WithParent, Publishing, MetaSteps, EndSteps
<1>4. QED
  BY <1>2, <1>3 DEF TypeInv

LEMMA TypeInvStep ==
  ASSUME TypeInv, [Next]_vars
  PROVE  TypeInv'
<1>1. CASE \E d \in Docs : \E p \in DocOrNone, m \in {d, None} : StartCreate(d, p, m)
  BY <1>1, StartCreateType
<1>2. CASE \E q \in Patchers, x \in Docs : StartPatch(q, x)
  BY <1>2, StartPatchType
<1>3. CASE \E d \in Docs : CreateStep(d)
  BY <1>3, CreateStepType
<1>4. CASE \E a \in Actors : MetaStep(a) \/ Crash(a)
  BY <1>4, MetaStepType, CrashType
<1>5. CASE \E x \in Docs : RepairStep(x)
  BY <1>5, RepairType
<1>6. CASE UNCHANGED vars
  BY <1>6 DEF vars, stores, reader, TypeInv, TypeOK
<1>7. QED
  BY <1>1, <1>2, <1>3, <1>4, <1>5, <1>6 DEF Next, Quiescent

THEOREM TypeInvariant == Spec => []TypeInv
BY TypeInvInit, TypeInvStep, PTL DEF Spec

\* Every store, and every request's locals, keep their types: no step of a
\* request writes back a record it does not hold.
THEOREM Typing == Spec => []TypeOK
<1>1. TypeInv => TypeOK
  BY DEF TypeInv
<1>2. QED
  BY <1>1, TypeInvariant, PTL

(***************************************************************************)
(* The chain invariant: what every record and every request in flight says *)
(* about the chain of a document stays true, because what it rests on is   *)
(* only ever added.                                                        *)
(***************************************************************************)

BeforeLineage == BeforeRow \cup {"updateParentRow", "saveLineage"}

\* What no step takes back: the first document of a lineage once it has been
\* written, and the root and the progress of a document once it has a row.
Kept ==
  /\ \A l \in Docs : lins[l] # None => lins'[l] # None /\ lins'[l].first = lins[l].first
  /\ \A x \in Docs : pc[x] \notin BeforeRow =>
                       pc'[x] \notin BeforeRow /\ root'[x] = root[x]
  /\ \A x \in Docs : pc[x] \notin BeforeLineage => pc'[x] \notin BeforeLineage

\* The types the chain argument uses, in one place
LEMMA ChainTypes ==
  ASSUME TypeInv
  PROVE  /\ \A x \in Docs : /\ rows[x] \in DocumentRow \cup {None}
                            /\ pids[x] \in DocumentPid \cup {None}
                            /\ lins[x] \in LineagePid \cup {None}
                            /\ root[x] \in Docs
                            /\ x \in Actors /\ x \notin Patchers
         /\ \A a \in Actors : req[a] \in Request /\ pc[a] \in Steps
         /\ \A q \in Patchers : q \notin Docs
         /\ None \notin Actors
BY PublishAssumption DEF TypeInv, TypeOK, Actors, Steps

\* Records that were truthful and are not touched stay so.
LEMMA StoresKept ==
  ASSUME ChainInv, Kept,
         \A x \in Docs : rows'[x] = rows[x] \/ RowTruthful(x, rows[x])',
         \A x \in Docs : pids'[x] = pids[x] \/ PidTruthful(x, pids[x])',
         \A x \in Docs : lins'[x] = lins[x] \/ LineageOpened(x, lins[x])'
  PROVE  StoresTruthful'
<1> USE DEF ChainInv, StoresTruthful
<1>1. ASSUME NEW x \in Docs
      PROVE  RowTruthful(x, rows[x])'
  <2>1. SUFFICES ASSUME rows'[x] = rows[x], rows[x] # None
                 PROVE  RowTruthful(x, rows[x])'
    BY DEF RowTruthful
  <2>2. rows[x].parent \in DocOrNone
    BY <2>1, ChainTypes DEF DocumentRow
  <2>3. RowTruthful(x, rows[x])
    OBVIOUS
  <2>4. QED
    BY <2>1, <2>2, <2>3 DEF RowTruthful, Kept, DocOrNone
<1>2. ASSUME NEW x \in Docs
      PROVE  PidTruthful(x, pids[x])'
  <2>1. SUFFICES ASSUME pids'[x] = pids[x], pids[x] # None
                 PROVE  PidTruthful(x, pids[x])'
    BY DEF PidTruthful
  <2>2. pids[x].lineage \in DocOrNone
    BY <2>1, ChainTypes DEF DocumentPid
  <2>3. PidTruthful(x, pids[x])
    OBVIOUS
  <2>4. QED
    BY <2>1, <2>2, <2>3 DEF PidTruthful, Truthful, Opened, Kept, DocOrNone
<1>3. ASSUME NEW x \in Docs
      PROVE  LineageOpened(x, lins[x])'
  <2>1. SUFFICES ASSUME lins'[x] = lins[x], lins[x] # None
                 PROVE  LineageOpened(x, lins[x])'
    BY DEF LineageOpened
  <2>2. LineageOpened(x, lins[x])
    OBVIOUS
  <2>3. QED
    BY <2>1, <2>2 DEF LineageOpened, Kept, BeforeLineage
<1>4. QED
  BY <1>1, <1>2, <1>3

\* Requests that do not move keep what they hold.
LEMMA IdleKept ==
  ASSUME ChainInv, Kept, NEW b \in Actors, pc'[b] = pc[b], req'[b] = req[b]
  PROVE  /\ b \in Docs => HoldsChain(b, pc[b], req[b])' /\ RootKnown(b, pc[b], req[b])'
         /\ MetaTruthful(pc[b], req[b])'
<1> USE DEF ChainInv, LocalsTruthful
<1>1. /\ req[b] \in Request /\ req[b].parent \in DocOrNone
      /\ req[b].lineage \in DocOrNone /\ req[b].doc \in DocOrNone
      /\ LocalsOK(b, pc[b], req[b])
  BY ChainTypes DEF Request, TypeInv
<1>2. ASSUME b \in Docs
      PROVE  HoldsChain(b, pc[b], req[b])'
  <2>1. HoldsChain(b, pc[b], req[b])
    BY <1>2
  <2>2. CreateLocals(b, pc[b], req[b])
    BY <1>1, <1>2 DEF LocalsOK
  <2>3. req[b].held \in DocumentPid \cup {None}
    BY <1>1 DEF Request
  <2>4. SUFFICES ASSUME req[b].parent # None
                 PROVE  HoldsChain(b, pc[b], req[b])'
    BY DEF HoldsChain
  <2>5. req[b].parent \in Docs
    BY <1>1, <2>4 DEF DocOrNone
  <2>6. /\ pc[req[b].parent] \notin BeforeRow
        /\ pc'[req[b].parent] \notin BeforeRow
        /\ root'[req[b].parent] = root[req[b].parent]
    BY <2>1, <2>4, <2>5 DEF HoldsChain, Kept
  <2>7. pc[b] = "readLineage" => Truthful(req[b].parent, req[b].held)'
    <3>1. SUFFICES ASSUME pc[b] = "readLineage"
                   PROVE  Truthful(req[b].parent, req[b].held)'
      OBVIOUS
    <3>2. req[b].held.lineage \in Docs /\ Truthful(req[b].parent, req[b].held)
      BY <2>1, <2>2, <2>3, <2>4, <3>1
      DEF HoldsChain, CreateLocals, DocumentPid, DocOrNone
    <3>3. QED
      BY <2>6, <3>2 DEF Truthful, Opened, Kept
  <2>8. ASSUME req[b].lineage # None, Opened(req[b].lineage, root[req[b].parent])
        PROVE  Opened(req[b].lineage, root[req[b].parent])'
    BY <1>1, <2>6, <2>8 DEF Opened, Kept, DocOrNone
  <2>9. pc[b] \in Publishing => req[b].lineage # None
    BY <2>2, <2>4 DEF CreateLocals
  <2>10. pc[b] \in Linked => pc[b] \in Publishing
    BY DEF Linked, Publishing
  <2>11. pc[b] = "authorise" /\ req[b].prevRow.parent # None =>
           /\ pc'[req[b].prevRow.parent] \notin BeforeRow
           /\ root'[req[b].prevRow.parent] = root'[req[b].parent]
    <3>1. pc[b] = "authorise" /\ req[b].prevRow.parent # None =>
            req[b].prevRow.parent \in Docs
      BY <1>1, <2>2, <2>4 DEF CreateLocals, Request, DocumentRow, DocOrNone
    <3> QED
      BY <2>1, <2>4, <2>6, <3>1 DEF HoldsChain, Kept
  <2>12. pc[b] = "findLineage" => Opened(req[b].found, root[req[b].parent])'
    <3>1. pc[b] = "findLineage" => req[b].found \in Docs
      BY <1>1, <2>2 DEF CreateLocals, Request, DocOrNone
    <3> QED
      BY <2>1, <2>4, <2>6, <3>1 DEF HoldsChain, Opened, Kept
  <2>13. QED
    BY <2>1, <2>4, <2>6, <2>7, <2>8, <2>9, <2>10, <2>11, <2>12 DEF HoldsChain
<1>3. ASSUME b \in Docs
      PROVE  RootKnown(b, pc[b], req[b])'
  <2>1. SUFFICES ASSUME pc[b] \in Publishing \ {"saveRow"}
                 PROVE  RootKnown(b, pc[b], req[b])'
    BY DEF RootKnown
  <2>2. RootKnown(b, pc[b], req[b]) /\ HoldsChain(b, pc[b], req[b])
    BY <1>3
  <2>3. pc[b] \notin BeforeRow
    BY <2>1 DEF Publishing, BeforeRow
  <2>4. QED
    BY <1>1, <1>3, <2>1, <2>2, <2>3 DEF RootKnown, HoldsChain, Kept, DocOrNone
<1>4. MetaTruthful(pc[b], req[b])'
  <2>1. SUFFICES ASSUME pc[b] \in MetaSteps
                 PROVE  MetaTruthful(pc[b], req[b])'
    BY DEF MetaTruthful, MetaSteps
  <2>2. req[b].doc \in Docs /\ MetaTruthful(pc[b], req[b])
    BY <2>1, MetaDoc
  <2>3. pc[b] = "writeMeta" => req[b].held \in DocumentPid
    BY <1>1 DEF LocalsOK, MetaLocals, Request
  <2>4. QED
    BY <2>1, <2>2, <2>3
    DEF MetaTruthful, Truthful, Opened, Kept, DocumentPid, DocOrNone
<1>5. QED
  BY <1>2, <1>3, <1>4

\* One request moves; what it holds afterwards has to be shown for it alone.
LEMMA LocalsKept ==
  ASSUME ChainInv, Kept, NEW a \in Actors,
         \A b \in Actors \ {a} : pc'[b] = pc[b] /\ req'[b] = req[b],
         a \in Docs => HoldsChain(a, pc[a], req[a])' /\ RootKnown(a, pc[a], req[a])',
         MetaTruthful(pc[a], req[a])'
  PROVE  LocalsTruthful'
BY IdleKept, ChainTypes DEF LocalsTruthful, ChainInv

LEMMA GotoFrame ==
  ASSUME TypeInv, NEW a \in Actors, NEW step, NEW r, Goto(a, step, r)
  PROVE  /\ pc'[a] = step
         /\ req'[a] = IF step \in EndSteps THEN NoRequest ELSE r
         /\ \A b \in Actors \ {a} : pc'[b] = pc[b] /\ req'[b] = req[b]
BY DEF Goto, TypeInv, TypeOK

\* A request that moves forward without touching a lineage or a root
LEMMA KeptMove ==
  ASSUME TypeInv, NEW a \in Actors, NEW step, NEW r, Goto(a, step, r),
         UNCHANGED <<lins, root>>,
         pc[a] \notin BeforeRow => step \notin BeforeRow,
         pc[a] \notin BeforeLineage => step \notin BeforeLineage
  PROVE  Kept
<1>1. \A b \in Docs : b \in Actors
  BY DEF Actors
<1>2. QED
  BY <1>1, GotoFrame DEF Kept

\* A request that ends holds nothing any more.
LEMMA EndedHolds ==
  ASSUME NEW a \in Actors, pc'[a] \in EndSteps, req'[a] = NoRequest
  PROVE  /\ HoldsChain(a, pc[a], req[a])' /\ RootKnown(a, pc[a], req[a])'
         /\ MetaTruthful(pc[a], req[a])'
BY DEF HoldsChain, RootKnown, MetaTruthful, NoRequest, EndSteps, Publishing, MetaSteps

\* A create request that goes on with the locals it has, outside of the writes
LEMMA QuietHolds ==
  ASSUME ChainInv, Kept, NEW d \in Docs, req'[d] = req[d],
         pc'[d] \in {"store", "readParent", "cleanFile", "cleanRow", "revertRow",
                     "failed"}
  PROVE  /\ HoldsChain(d, pc[d], req[d])' /\ RootKnown(d, pc[d], req[d])'
         /\ MetaTruthful(pc[d], req[d])'
<1>1. HoldsChain(d, pc[d], req[d]) /\ req[d].parent \in DocOrNone
  BY ChainTypes DEF ChainInv, LocalsTruthful, Request
<1>2. HoldsChain(d, pc[d], req[d])'
  BY <1>1 DEF HoldsChain, Kept, Publishing, Linked, DocOrNone
<1>3. QED
  BY <1>2 DEF RootKnown, MetaTruthful, Publishing, MetaSteps

LEMMA StartCreateChain ==
  ASSUME ChainInv, NEW d \in Docs, NEW p \in DocOrNone, NEW m \in {d, None},
         StartCreate(d, p, m)
  PROVE  StoresTruthful' /\ LocalsTruthful'
<1> DEFINE r == [NoRequest EXCEPT !.doc = d, !.parent = p, !.meta = m,
                   !.prevRow = IF p = None THEN None ELSE rows[p]]
           step == IF p = None THEN "store" ELSE "authorise"
<1>1. TypeInv /\ d \in Actors
  BY DEF ChainInv, Actors
<1>2. Goto(d, step, r) /\ UNCHANGED <<stores, root>> /\ pc[d] = "idle"
  BY DEF StartCreate
<1>3. step \in BeforeRow /\ step \notin Publishing \cup MetaSteps \cup EndSteps
      /\ step # "readLineage" /\ step \notin Linked /\ "idle" \in BeforeRow
  BY DEF BeforeRow, Publishing, Linked, MetaSteps, EndSteps
<1>4. r.parent = p /\ r.prevRow = IF p = None THEN None ELSE rows[p]
  BY DEF NoRequest
<1>5. p # None => p \in Docs /\ rows[p] # None
  BY DEF StartCreate, DocOrNone
<1> HIDE DEF r, step
<1>6. Kept
  BY <1>1, <1>2, <1>3, KeptMove DEF stores, BeforeLineage
<1>7. StoresTruthful'
  BY <1>2, <1>6, StoresKept DEF stores
<1>8. pc'[d] = step /\ req'[d] = r
      /\ \A b \in Actors \ {d} : pc'[b] = pc[b] /\ req'[b] = req[b]
  BY <1>1, <1>2, <1>3, GotoFrame
<1>9. p # None => RowTruthful(p, rows[p])
  BY <1>5 DEF ChainInv, StoresTruthful
<1>10. HoldsChain(d, pc[d], req[d])'
  <2> SUFFICES ASSUME p # None
               PROVE  HoldsChain(d, pc[d], req[d])'
    BY <1>4, <1>8 DEF HoldsChain
  <2>1. step = "authorise"
    BY DEF step
  <2>2. rows[p].parent # None => rows[p].parent \in Docs
    BY <1>1, <1>5, ChainTypes DEF DocumentRow, DocOrNone
  <2>3. /\ pc'[p] \notin BeforeRow /\ root'[p] = root[p]
        /\ rows[p].version = 1 => root[p] = p
        /\ rows[p].parent # None => /\ pc'[rows[p].parent] \notin BeforeRow
                                    /\ root'[rows[p].parent] = root'[p]
    BY <1>5, <1>6, <1>9, <2>2 DEF RowTruthful, Kept
  <2> QED
    BY <1>3, <1>4, <1>8, <2>1, <2>3 DEF HoldsChain
<1>11. RootKnown(d, pc[d], req[d])' /\ MetaTruthful(pc[d], req[d])'
  BY <1>3, <1>8 DEF RootKnown, MetaTruthful, MetaSteps
<1>12. QED
  BY <1>1, <1>6, <1>7, <1>8, <1>10, <1>11, LocalsKept

\* Create steps that write neither Handle record nor root and keep the locals
LEMMA QuietChain ==
  ASSUME ChainInv, NEW d \in Docs,
         NEW step \in {"store", "readParent", "cleanFile", "cleanRow", "revertRow",
                       "failed"},
         Goto(d, step, req[d]), UNCHANGED <<pids, lins, root>>,
         pc[d] \notin BeforeRow => step \notin BeforeRow,
         \A x \in Docs : rows'[x] = rows[x] \/ RowTruthful(x, rows[x])'
  PROVE  StoresTruthful' /\ LocalsTruthful'
<1>1. TypeInv /\ d \in Actors
  BY DEF ChainInv, Actors
<1>2. Kept
  <2>1. pc[d] \notin BeforeLineage => step \notin BeforeLineage
    BY DEF BeforeLineage
  <2>2. QED
    BY <1>1, <2>1, KeptMove
<1>3. pc'[d] = step /\ req'[d] = (IF step \in EndSteps THEN NoRequest ELSE req[d])
      /\ \A b \in Actors \ {d} : pc'[b] = pc[b] /\ req'[b] = req[b]
  BY <1>1, GotoFrame
<1>4. StoresTruthful'
  BY <1>2, StoresKept
<1>5. /\ HoldsChain(d, pc[d], req[d])' /\ RootKnown(d, pc[d], req[d])'
      /\ MetaTruthful(pc[d], req[d])'
  BY <1>1, <1>2, <1>3, QuietHolds, EndedHolds
<1>6. QED
  BY <1>1, <1>2, <1>3, <1>4, <1>5, LocalsKept

LEMMA BeforeRowChain ==
  ASSUME ChainInv, NEW d \in Docs, StoreFile(d) \/ ReadFails(d)
  PROVE  StoresTruthful' /\ LocalsTruthful'
<1>1. UNCHANGED <<rows, pids, lins, root>> /\ pc[d] \in BeforeRow
  BY DEF StoreFile, ReadFails, stores, BeforeRow
<1>2. CASE \E step \in {"store", "readParent", "cleanFile", "failed"} :
             Goto(d, step, req[d])
  BY <1>1, <1>2, QuietChain
<1>3. CASE Goto(d, "saveRow", req[d]) /\ req[d].parent = None
  <2>1. TypeInv /\ d \in Actors
    BY DEF ChainInv, Actors
  <2>2. "saveRow" \in BeforeRow /\ "saveRow" \notin MetaSteps \cup EndSteps
    BY DEF BeforeRow, MetaSteps, EndSteps
  <2>3. Kept
    BY <1>1, <1>3, <2>1, <2>2, KeptMove DEF BeforeLineage
  <2>4. pc'[d] = "saveRow" /\ req'[d] = req[d]
        /\ \A b \in Actors \ {d} : pc'[b] = pc[b] /\ req'[b] = req[b]
    BY <1>3, <2>1, <2>2, GotoFrame
  <2>5. /\ HoldsChain(d, pc[d], req[d])' /\ RootKnown(d, pc[d], req[d])'
        /\ MetaTruthful(pc[d], req[d])'
    BY <1>3, <2>2, <2>4 DEF HoldsChain, RootKnown, MetaTruthful
  <2>6. QED
    BY <1>1, <2>1, <2>3, <2>4, <2>5, StoresKept, LocalsKept
<1>4. QED
  BY <1>2, <1>3 DEF StoreFile, ReadFails

\* What the permission check has found is the lineage, then the first document, of the
\* parent's own chain, whatever is written between two of its reads.
LEMMA CheckFinds ==
  ASSUME ChainInv, NEW d \in Docs, NEW step, NEW f, Checks(d),
         Goto(d, step, [req[d] EXCEPT !.found = f]),
         step \in {"findLineage", "findFirst"}
  PROVE  HoldsChain(d, step, [req[d] EXCEPT !.found = f])
<1> DEFINE r == [req[d] EXCEPT !.found = f]
<1>1. /\ req[d] \in Request /\ CreateLocals(d, pc[d], req[d]) /\ req[d].parent # None
      /\ HoldsChain(d, pc[d], req[d])
  BY RunningLocals DEF ChainInv, LocalsTruthful, Checks, Authorise, FindLineage, FindFirst,
                       Refuse, CreateLocals, WithParent, CheckSteps
<1>2. /\ r.parent = req[d].parent /\ r.prevRow = req[d].prevRow /\ r.found = f
  BY <1>1 DEF Request
<1>3. pc'[d] = step /\ req'[d].found = f /\ d \in Actors
  BY <1>1, GotoFrame DEF ChainInv, EndSteps, Actors, Request
<1>4. CASE step = "findLineage"
  <2> DEFINE x == req[d].prevRow.parent
  <2>1. /\ pc[d] = "authorise" /\ x # None /\ pids[x] # None /\ pids[x].lineage # None
        /\ f = pids[x].lineage
    <3>1. Authorise(d)
      BY <1>3, <1>4, GotoFrame
      DEF Checks, FindLineage, FindFirst, Refuse, EndSteps, ChainInv
    <3> QED
      BY <1>1, <1>3, <1>4, <3>1, GotoFrame DEF Authorise, ChainInv, EndSteps, Request
  <2>2. req[d].prevRow \in DocumentRow
    BY <1>1 DEF CreateLocals, Request
  <2>3. x \in Docs
    BY <2>1, <2>2 DEF DocumentRow, DocOrNone
  <2>4. Opened(f, root[req[d].parent])
    BY <1>1, <2>1, <2>3 DEF HoldsChain, ChainInv, StoresTruthful, PidTruthful, Truthful
  <2> QED
    BY <1>1, <1>2, <1>4, <2>4 DEF HoldsChain, Publishing, Linked
<1>5. CASE step = "findFirst"
  <2>1. pc[d] = "findLineage" /\ f = lins[req[d].found].first
    <3>1. FindLineage(d)
      BY <1>3, <1>5, GotoFrame
      DEF Checks, Authorise, FindFirst, Refuse, EndSteps, ChainInv
    <3> QED
      BY <1>1, <1>3, <1>5, <3>1, GotoFrame DEF FindLineage, ChainInv, EndSteps, Request
  <2>2. f = root[req[d].parent]
    BY <1>1, <2>1 DEF HoldsChain, Opened
  <2> QED
    BY <1>1, <1>2, <1>5, <2>2 DEF HoldsChain, Publishing, Linked
<1> QED  BY <1>4, <1>5

LEMMA CheckChain ==
  ASSUME ChainInv, NEW d \in Docs, Checks(d)
  PROVE  StoresTruthful' /\ LocalsTruthful'
<1>1. TypeInv /\ d \in Actors
  BY DEF ChainInv, Actors
<1>2. pc[d] \in CheckSteps /\ UNCHANGED <<stores, root>>
  BY <1>1, CheckOutcome
<1>3. PICK step \in {"store", "failed", "findLineage", "findFirst"}, f \in DocOrNone :
        Goto(d, step, [req[d] EXCEPT !.found = f])
  BY <1>1, CheckOutcome
<1> DEFINE r == [req[d] EXCEPT !.found = f]
<1>4. /\ pc'[d] = step /\ req'[d] = (IF step \in EndSteps THEN NoRequest ELSE r)
      /\ \A b \in Actors \ {d} : pc'[b] = pc[b] /\ req'[b] = req[b]
  BY <1>1, <1>3, GotoFrame
<1>5. Kept
  <2>1. pc[d] \in BeforeRow /\ pc[d] \in BeforeLineage
    BY <1>2 DEF CheckSteps, BeforeRow, BeforeLineage
  <2> QED
    BY <1>1, <1>2, <1>3, <2>1, KeptMove DEF stores
<1>6. StoresTruthful'
  BY <1>2, <1>5, StoresKept DEF stores
<1>7. req[d] \in Request /\ HoldsChain(d, pc[d], req[d])
  BY <1>1, ChainTypes DEF ChainInv, LocalsTruthful
<1>8. /\ r.parent = req[d].parent /\ r.prevRow = req[d].prevRow /\ r.found = f
      /\ r.parent \in DocOrNone
  BY <1>7 DEF Request
<1>9. CASE step = "failed"
  BY <1>1, <1>4, <1>5, <1>6, <1>9, EndedHolds, LocalsKept DEF EndSteps
<1>10. CASE step # "failed"
  <2>1. HoldsChain(d, step, r)
    <3>1. CASE step = "store"
      BY <1>7, <1>8, <3>1 DEF HoldsChain, Publishing, Linked
    <3>2. CASE step \in {"findLineage", "findFirst"}
      BY <1>3, <3>2, CheckFinds
    <3> QED  BY <1>10, <3>1, <3>2
  <2>2. req'[d] = r /\ lins' = lins /\ root' = root
    BY <1>2, <1>3, <1>4, <1>10 DEF EndSteps, stores
  <2>3. r.parent # None => pc'[r.parent] \notin BeforeRow
    BY <1>5, <1>8, <2>1 DEF HoldsChain, Kept, DocOrNone
  <2>4. pc'[d] \notin MetaSteps \cup Publishing \cup Linked \cup {"readLineage", "authorise"}
    BY <1>3, <1>4, <1>10 DEF MetaSteps, Publishing, Linked
  <2> HIDE DEF r
  <2>5. HoldsChain(d, pc[d], req[d])'
    BY <1>4, <2>1, <2>2, <2>3, <2>4 DEF HoldsChain, Opened
  <2>6. RootKnown(d, pc[d], req[d])' /\ MetaTruthful(pc[d], req[d])'
    BY <2>4 DEF RootKnown, MetaTruthful, MetaSteps
  <2> QED
    BY <1>1, <1>4, <1>5, <1>6, <2>5, <2>6, LocalsKept
<1> QED  BY <1>9, <1>10

\* A create request whose stores stay as they are takes up new locals r.
LEMMA TakesUp ==
  ASSUME ChainInv, NEW d \in Docs, NEW r, r.parent \in DocOrNone,
         NEW step \in {"readLineage", "saveRow"}, pc[d] \in BeforeRow,
         Goto(d, step, r), UNCHANGED <<stores, root>>,
         HoldsChain(d, step, r)
  PROVE  StoresTruthful' /\ LocalsTruthful'
<1>1. TypeInv /\ d \in Actors
  BY DEF ChainInv, Actors
<1>2. step \in BeforeRow /\ step \notin MetaSteps \cup EndSteps
      /\ step \notin Publishing \ {"saveRow"}
  BY DEF BeforeRow, MetaSteps, EndSteps, Publishing
<1>3. Kept
  BY <1>1, <1>2, KeptMove DEF BeforeLineage, stores
<1>4. pc'[d] = step /\ req'[d] = r
      /\ \A b \in Actors \ {d} : pc'[b] = pc[b] /\ req'[b] = req[b]
  BY <1>1, <1>2, GotoFrame
<1>5. StoresTruthful'
  BY <1>3, StoresKept DEF stores
<1>6. RootKnown(d, pc[d], req[d])' /\ MetaTruthful(pc[d], req[d])'
  BY <1>2, <1>4 DEF RootKnown, MetaTruthful, MetaSteps
<1>7. HoldsChain(d, pc[d], req[d])'
  <2>1. lins' = lins /\ root' = root
    BY DEF stores
  <2>2. r.parent # None => pc'[r.parent] \notin BeforeRow
    BY <1>3 DEF HoldsChain, Kept, DocOrNone
  <2>3. QED
    BY <1>4, <2>1, <2>2 DEF HoldsChain, Truthful, Opened
<1>8. QED
  BY <1>1, <1>3, <1>4, <1>5, <1>6, <1>7, LocalsKept

LEMMA OpenLineageChain ==
  ASSUME ChainInv, NEW d \in Docs, NEW parent \in DocumentPid,
         req[d].parent # None, pc[d] \in {"readParent", "readLineage"},
         parent.version = 1, Truthful(req[d].parent, parent),
         OpenLineage(d, parent), UNCHANGED <<stores, root>>
  PROVE  StoresTruthful' /\ LocalsTruthful'
<1> DEFINE h == [parent EXCEPT !.lineage = d, !.succ = d]
           l == [first |-> req[d].parent, last |-> d, latest |-> 2]
           r == [req[d] EXCEPT !.held = h, !.heldLin = l, !.lineage = d]
<1>1. h.version = 1
  BY DEF DocumentPid
<1>2. l.first = req[d].parent /\ l.latest >= 2
  OBVIOUS
<1> HIDE DEF h, l
<1>3. /\ r.parent = req[d].parent /\ r.prevRow = req[d].prevRow
      /\ r.held = h /\ r.heldLin = l /\ r.lineage = d
  BY RunningLocals DEF Request, ChainInv
<1>4. req[d].parent \in DocOrNone /\ HoldsChain(d, pc[d], req[d])
  BY ChainTypes DEF ChainInv, LocalsTruthful, Request
<1>5. Goto(d, "saveRow", r)
  BY DEF OpenLineage, h, l
<1> HIDE DEF r
<1>6. root[req[d].parent] = req[d].parent
  BY DEF Truthful
<1>7. HoldsChain(d, "saveRow", r)
  BY <1>1, <1>2, <1>3, <1>4, <1>6 DEF HoldsChain, Linked
<1>8. pc[d] \in BeforeRow
  BY DEF BeforeRow
<1>9. QED
  BY <1>3, <1>4, <1>5, <1>7, <1>8, TakesUp

LEMMA ReadParentChain ==
  ASSUME ChainInv, NEW d \in Docs, ReadParent(d)
  PROVE  StoresTruthful' /\ LocalsTruthful'
<1> DEFINE parent == pids[req[d].parent]
           r == [req[d] EXCEPT !.held = parent]
<1>1. pc[d] = "readParent" /\ UNCHANGED <<stores, root>>
  BY DEF ReadParent
<1>2. req[d].parent \in Docs /\ req[d] \in Request
  BY <1>1, RunningLocals
  DEF ChainInv, CreateLocals, WithParent, Request, DocOrNone
<1>3. parent # None => parent \in DocumentPid /\ Truthful(req[d].parent, parent)
  BY <1>2, ChainTypes DEF ChainInv, StoresTruthful, PidTruthful
<1>4. HoldsChain(d, pc[d], req[d]) /\ req[d].parent # None /\ pc[d] \in BeforeRow
  BY <1>1, <1>2, RunningLocals
  DEF ChainInv, LocalsTruthful, CreateLocals, WithParent, BeforeRow
<1>5. CASE parent # None /\ Goto(d, "readLineage", r)
  <2>1. r.parent = req[d].parent /\ r.prevRow = req[d].prevRow /\ r.held = parent
    BY <1>2 DEF Request
  <2> HIDE DEF r
  <2>2. HoldsChain(d, "readLineage", r)
    BY <1>3, <1>4, <1>5, <2>1 DEF HoldsChain, Publishing, Linked
  <2>3. QED
    BY <1>1, <1>2, <1>4, <1>5, <2>1, <2>2, TakesUp DEF DocOrNone
<1>6. CASE parent # None /\ parent.version = 1 /\ OpenLineage(d, parent)
  BY <1>1, <1>3, <1>4, <1>6, OpenLineageChain
<1>7. CASE Goto(d, "cleanFile", req[d])
  BY <1>1, <1>4, <1>7, QuietChain DEF stores
<1>8. QED
  BY <1>5, <1>6, <1>7 DEF ReadParent

LEMMA ReadLineageChain ==
  ASSUME ChainInv, NEW d \in Docs, ReadLineage(d)
  PROVE  StoresTruthful' /\ LocalsTruthful'
<1> DEFINE parent == req[d].held
           lin == lins[parent.lineage]
<1>1. pc[d] = "readLineage" /\ UNCHANGED <<stores, root>>
  BY DEF ReadLineage
<1>2. /\ req[d].parent \in Docs /\ req[d].parent # None /\ req[d] \in Request
      /\ parent \in DocumentPid /\ parent.lineage \in Docs /\ parent.lineage # None
  BY <1>1, RunningLocals
  DEF ChainInv, CreateLocals, WithParent, Request, DocumentPid, DocOrNone
<1>3. HoldsChain(d, pc[d], req[d]) /\ pc[d] \in BeforeRow
  BY <1>1 DEF ChainInv, LocalsTruthful, BeforeRow
<1>4. Truthful(req[d].parent, parent)
  BY <1>1, <1>2, <1>3 DEF HoldsChain
<1>5. /\ lin \in LineagePid /\ lin.first = root[req[d].parent] /\ lin.latest >= 2
      /\ lin.latest \in Nat
  <2>1. Opened(parent.lineage, root[req[d].parent])
    BY <1>2, <1>4 DEF Truthful
  <2>2. lin \in LineagePid /\ LineageOpened(parent.lineage, lin)
    BY <1>2, <2>1, ChainTypes DEF ChainInv, StoresTruthful, Opened
  <2>3. QED
    BY <1>2, <2>1, <2>2, ChainTypes DEF Opened, LineageOpened, LineagePid
<1>6. ASSUME Goto(d, "saveRow",
                  [req[d] EXCEPT !.held = [parent EXCEPT !.succ = d],
                                 !.heldLin = [lin EXCEPT !.last = d,
                                                         !.latest = lin.latest + 1],
                                 !.lineage = parent.lineage])
      PROVE  StoresTruthful' /\ LocalsTruthful'
  <2> DEFINE h == [parent EXCEPT !.succ = d]
             l == [lin EXCEPT !.last = d, !.latest = lin.latest + 1]
             r == [req[d] EXCEPT !.held = h, !.heldLin = l, !.lineage = parent.lineage]
  <2>1. h.version = parent.version
    BY <1>2 DEF DocumentPid
  <2>2. l.first = root[req[d].parent] /\ l.latest = lin.latest + 1
    BY <1>5, LineageMovedType
  <2>3. l.latest >= 2
    BY <1>5, <2>2
  <2> HIDE DEF h, l
  <2>4. /\ r.held = h /\ r.heldLin = l /\ r.lineage = parent.lineage
        /\ r.parent = req[d].parent /\ r.prevRow = req[d].prevRow
    BY <1>2 DEF Request
  <2>5. Goto(d, "saveRow", r)
    BY <1>6 DEF h, l
  <2> HIDE DEF r
  <2>6. HoldsChain(d, "saveRow", r)
    BY <1>2, <1>3, <1>4, <2>1, <2>2, <2>3, <2>4 DEF HoldsChain, Truthful, Linked
  <2>7. QED
    BY <1>1, <1>2, <1>3, <2>4, <2>5, <2>6, TakesUp DEF DocOrNone
<1>7. CASE parent.version = 1 /\ OpenLineage(d, parent)
  BY <1>1, <1>2, <1>4, <1>7, OpenLineageChain
<1>8. CASE Goto(d, "cleanFile", req[d])
  BY <1>1, <1>3, <1>8, QuietChain DEF stores
<1>9. QED
  BY <1>6, <1>7, <1>8 DEF ReadLineage

\* A request that writes new versions of a document: what it knows
LEMMA PublishingFacts ==
  ASSUME ChainInv, NEW d \in Docs, pc[d] \in Publishing
  PROVE  /\ req[d] \in Request /\ d \in Actors
         /\ HoldsChain(d, pc[d], req[d]) /\ RootKnown(d, pc[d], req[d])
         /\ CreateLocals(d, pc[d], req[d])
         /\ req[d].parent # None =>
              /\ req[d].parent \in Docs /\ req[d].lineage \in Docs
              /\ req[d].held \in DocumentPid /\ req[d].heldLin \in LineagePid
              /\ req[d].heldLin.latest \in Nat
              /\ req[d].heldLin.first = root[req[d].parent]
              /\ req[d].heldLin.latest >= 2
              /\ pc[req[d].parent] \notin BeforeRow
         /\ req[d].parent = None => req[d].lineage = None
<1>1. req[d] \in Request /\ d \in Actors /\ CreateLocals(d, pc[d], req[d])
  BY RunningLocals DEF ChainInv
<1>2. HoldsChain(d, pc[d], req[d]) /\ RootKnown(d, pc[d], req[d])
  BY DEF ChainInv, LocalsTruthful
<1>3. QED
  BY <1>1, <1>2 DEF CreateLocals, HoldsChain, Request, LineagePid, DocOrNone

\* The stores keep their roots and lineages while the request goes on writing
\* with locals that say the same about the chain.
LEMMA WritingHolds ==
  ASSUME ChainInv, Kept, NEW d \in Docs, pc[d] \in Publishing,
         pc'[d] \in Publishing \ {"saveRow"},
         req'[d].parent = req[d].parent, req'[d].prevRow = req[d].prevRow,
         req'[d].held = req[d].held, req'[d].heldLin = req[d].heldLin,
         req'[d].lineage = req[d].lineage,
         root'[d] = IF req[d].parent = None THEN d ELSE root[req[d].parent],
         pc'[d] \in Linked /\ req[d].parent # None =>
           Opened(req[d].lineage, root[req[d].parent])'
  PROVE  /\ HoldsChain(d, pc[d], req[d])' /\ RootKnown(d, pc[d], req[d])'
         /\ MetaTruthful(pc[d], req[d])'
<1>1. /\ MetaTruthful(pc[d], req[d])'
      /\ pc'[d] \notin {"authorise", "findLineage", "findFirst", "readLineage"}
  BY DEF MetaTruthful, Publishing, MetaSteps
<1>2. req[d].parent # None => root'[req[d].parent] = root[req[d].parent]
                              /\ pc'[req[d].parent] \notin BeforeRow
  BY PublishingFacts DEF Kept
<1>3. RootKnown(d, pc[d], req[d])'
  BY <1>2 DEF RootKnown
<1>4. req[d].parent # None /\ Opened(req[d].lineage, root[req[d].parent])
        => Opened(req[d].lineage, root[req[d].parent])'
  BY <1>2, PublishingFacts DEF Opened, Kept
<1>5. HoldsChain(d, pc[d], req[d])'
  BY <1>1, <1>2, <1>4, PublishingFacts DEF HoldsChain
<1>6. QED
  BY <1>1, <1>3, <1>5

LEMMA SaveRowChain ==
  ASSUME ChainInv, NEW d \in Docs, SaveRow(d)
  PROVE  StoresTruthful' /\ LocalsTruthful'
<1>1. /\ pc[d] = "saveRow" /\ UNCHANGED <<pids, lins>>
      /\ root' = [root EXCEPT ![d] = IF req[d].parent = None THEN d
                                     ELSE root[req[d].parent]]
      /\ rows' = [rows EXCEPT ![d] = NewRow(req[d])] \/ rows' = rows
  BY FailedWriteOutcome DEF SaveRow
<1>2. TypeInv /\ pc[d] \in Publishing /\ pc[d] \in BeforeRow
  BY <1>1 DEF ChainInv, Publishing, BeforeRow
<1>3. PICK step \in {"updateParentRow", "savePid", "saveLineage", "updateParentPid",
                     "cleanFile"},
           r \in {req[d], [req[d] EXCEPT !.stored = TRUE]} :
        /\ Goto(d, step, r)
        /\ step = "cleanFile" => r = req[d]
        /\ step \in Linked /\ req[d].parent # None => req[d].lineage # d
  BY DEF SaveRow, FinalizeStep, Linked
<1>4. /\ step \notin BeforeRow \cup EndSteps
      /\ step # "cleanFile" => step \in Publishing \ {"saveRow"}
  BY DEF BeforeRow, EndSteps, Publishing
<1>5. /\ pc'[d] = step /\ req'[d] = r
      /\ \A b \in Actors \ {d} : pc'[b] = pc[b] /\ req'[b] = req[b]
  BY <1>2, <1>3, <1>4, PublishingFacts, GotoFrame
<1>6. /\ r.parent = req[d].parent /\ r.prevRow = req[d].prevRow /\ r.held = req[d].held
      /\ r.heldLin = req[d].heldLin /\ r.lineage = req[d].lineage
  BY <1>2, PublishingFacts DEF Request
<1>7. /\ root'[d] = IF req[d].parent = None THEN d ELSE root[req[d].parent]
      /\ \A x \in Docs \ {d} : root'[x] = root[x]
  BY <1>1, ChainTypes, <1>2 DEF TypeInv, TypeOK
<1>8. Kept
  BY <1>1, <1>2, <1>4, <1>5, <1>7, ChainTypes DEF Kept, BeforeLineage
<1>9. ASSUME NEW x \in Docs, rows'[x] # rows[x]
      PROVE  RowTruthful(x, rows[x])'
  <2>1. x = d /\ rows'[d] = NewRow(req[d])
    BY <1>1, <1>2, <1>9 DEF TypeInv, TypeOK
  <2>2. /\ NewRow(req[d]).parent = req[d].parent
        /\ NewRow(req[d]).version = 1 => req[d].parent = None
    BY <1>2, PublishingFacts DEF NewRow, NewVersion
  <2>3. req[d].parent # None => req[d].parent # d
    BY <1>2, PublishingFacts
  <2>4. pc'[d] \notin BeforeRow
    BY <1>4, <1>5
  <2>5. req[d].parent # None =>
          /\ pc'[req[d].parent] \notin BeforeRow
          /\ root'[d] = root'[req[d].parent]
    BY <1>2, <1>7, <1>8, <2>3, PublishingFacts DEF Kept
  <2>6. req[d].parent = None => root'[d] = d
    BY <1>7
  <2>7. QED
    BY <2>1, <2>2, <2>4, <2>5, <2>6 DEF RowTruthful
<1>10. StoresTruthful'
  BY <1>1, <1>8, <1>9, StoresKept
<1>11. /\ HoldsChain(d, pc[d], req[d])' /\ RootKnown(d, pc[d], req[d])'
       /\ MetaTruthful(pc[d], req[d])'
  <2>1. CASE step = "cleanFile"
    BY <1>3, <1>5, <1>8, <2>1, QuietHolds
  <2>2. CASE step # "cleanFile"
    <3>1. pc'[d] \in Linked /\ req[d].parent # None =>
            Opened(req[d].lineage, root[req[d].parent])'
      <4>1. SUFFICES ASSUME pc'[d] \in Linked, req[d].parent # None
                     PROVE  Opened(req[d].lineage, root[req[d].parent])'
        OBVIOUS
      <4>2. Opened(req[d].lineage, root[req[d].parent])
        BY <1>2, <1>3, <1>5, <4>1, PublishingFacts DEF HoldsChain
      <4>3. root'[req[d].parent] = root[req[d].parent] /\ req'[d].parent = req[d].parent
            /\ req'[d].lineage = req[d].lineage
        BY <1>2, <1>5, <1>6, <1>8, <4>1, PublishingFacts DEF Kept
      <4>4. QED
        BY <1>1, <4>2, <4>3 DEF Opened
    <3>2. QED
      BY <1>2, <1>4, <1>5, <1>6, <1>7, <1>8, <2>2, <3>1, WritingHolds
  <2>3. QED
    BY <2>1, <2>2
<1>12. QED
  BY <1>2, <1>5, <1>8, <1>10, <1>11, PublishingFacts, LocalsKept

\* Changing the lineage_id of a row leaves everything else it says.
LEMMA RowLineageChain ==
  ASSUME ChainInv, Kept, NEW p \in Docs, NEW l,
         rows' = rows \/ (rows[p] # None /\ rows' = [rows EXCEPT ![p].lineage = l])
  PROVE  \A x \in Docs : rows'[x] = rows[x] \/ RowTruthful(x, rows[x])'
<1>1. SUFFICES ASSUME NEW x \in Docs, rows'[x] # rows[x]
               PROVE  RowTruthful(x, rows[x])'
  OBVIOUS
<1>2. x = p /\ rows[p] # None /\ rows'[p] = [rows[p] EXCEPT !.lineage = l]
  BY <1>1 DEF ChainInv, TypeInv, TypeOK
<1>3. rows[p] \in DocumentRow /\ RowTruthful(p, rows[p])
  BY <1>2, ChainTypes DEF ChainInv, StoresTruthful
<1>4. rows'[p].version = rows[p].version /\ rows'[p].parent = rows[p].parent
      /\ rows[p].parent \in DocOrNone
  BY <1>2, <1>3 DEF DocumentRow
<1>5. QED
  BY <1>2, <1>3, <1>4 DEF RowTruthful, Kept, DocOrNone

LEMMA UpdateParentRowChain ==
  ASSUME ChainInv, NEW d \in Docs, UpdateParentRow(d)
  PROVE  StoresTruthful' /\ LocalsTruthful'
<1>1. /\ pc[d] = "updateParentRow" /\ UNCHANGED <<pids, lins, root>>
      /\ \/ rows' = rows
         \/ /\ rows[req[d].parent] # None
            /\ rows' = [rows EXCEPT ![req[d].parent].lineage = req[d].lineage]
  BY FailedWriteOutcome DEF UpdateParentRow
<1>2. TypeInv /\ pc[d] \in Publishing \ {"saveRow"} /\ pc[d] \notin BeforeRow
      /\ pc[d] \in BeforeLineage
  BY <1>1 DEF ChainInv, Publishing, BeforeRow, BeforeLineage
<1>3. req[d].parent # None /\ req[d].parent \in Docs
  BY <1>1, <1>2, PublishingFacts DEF CreateLocals, WithParent
<1>4. CASE Goto(d, "cleanFile", req[d])
  <2>1. Kept
    BY <1>1, <1>2, <1>4, PublishingFacts, KeptMove DEF BeforeRow, BeforeLineage
  <2>2. \A x \in Docs : rows'[x] = rows[x] \/ RowTruthful(x, rows[x])'
    BY <1>1, <1>3, <2>1, RowLineageChain
  <2>3. QED
    BY <1>1, <1>4, <2>2, QuietChain DEF BeforeRow
<1>5. CASE Goto(d, FinalizeStep(d), [req[d] EXCEPT !.stored = TRUE])
  <2> DEFINE r == [req[d] EXCEPT !.stored = TRUE]
             step == FinalizeStep(d)
  <2>1. /\ r.parent = req[d].parent /\ r.prevRow = req[d].prevRow /\ r.held = req[d].held
        /\ r.heldLin = req[d].heldLin /\ r.lineage = req[d].lineage
    BY <1>2, PublishingFacts DEF Request
  <2>2. /\ step \in Publishing \ {"saveRow"} /\ step \notin BeforeRow \cup EndSteps
        /\ step \in Linked => req[d].lineage # d
    BY <1>3 DEF FinalizeStep, Publishing, BeforeRow, Linked, EndSteps
  <2>3. Goto(d, step, r)
    BY <1>5
  <2> HIDE DEF step, r
  <2>4. Kept
    BY <1>1, <1>2, <2>2, <2>3, PublishingFacts, KeptMove
  <2>5. pc'[d] = step /\ req'[d] = r
        /\ \A b \in Actors \ {d} : pc'[b] = pc[b] /\ req'[b] = req[b]
    BY <1>2, <2>2, <2>3, PublishingFacts, GotoFrame
  <2>6. StoresTruthful'
    BY <1>1, <1>3, <2>4, RowLineageChain, StoresKept
  <2>7. step \in Linked => Opened(req[d].lineage, root[req[d].parent])
    BY <1>2, <1>3, <2>2, PublishingFacts DEF HoldsChain
  <2>8. pc'[d] \in Linked /\ req[d].parent # None =>
          Opened(req[d].lineage, root[req[d].parent])'
    BY <1>1, <2>1, <2>5, <2>7 DEF Opened
  <2>9. root'[d] = IF req[d].parent = None THEN d ELSE root[req[d].parent]
    BY <1>1, <1>2, PublishingFacts DEF RootKnown
  <2>10. /\ HoldsChain(d, pc[d], req[d])' /\ RootKnown(d, pc[d], req[d])'
         /\ MetaTruthful(pc[d], req[d])'
    BY <1>2, <2>1, <2>2, <2>4, <2>5, <2>8, <2>9, WritingHolds
  <2>11. QED
    BY <1>2, <2>4, <2>5, <2>6, <2>10, PublishingFacts, LocalsKept
<1>6. QED
  BY <1>4, <1>5 DEF UpdateParentRow

\* What the three deferred writes before the new document's own have in common
LEMMA LinkFacts ==
  ASSUME ChainInv, NEW d \in Docs,
         pc[d] \in {"saveLineage", "updateParentPid", "updateLineage"}
  PROVE  /\ TypeInv /\ pc[d] \in Publishing \ {"saveRow"} /\ pc[d] \notin BeforeRow
         /\ req[d].parent # None /\ req[d].parent \in Docs /\ req[d].lineage \in Docs
         /\ req[d].held.lineage = req[d].lineage
         /\ pc[d] # "saveLineage" => Opened(req[d].lineage, root[req[d].parent])
         /\ req[d].lineage # d => Opened(req[d].lineage, root[req[d].parent])
<1>1. TypeInv /\ pc[d] \in Publishing \ {"saveRow"} /\ pc[d] \notin BeforeRow
  BY DEF ChainInv, Publishing, BeforeRow
<1>2. req[d].parent # None /\ req[d].parent \in Docs /\ req[d].lineage \in Docs
      /\ req[d].held.lineage = req[d].lineage
  BY <1>1, PublishingFacts DEF CreateLocals, WithParent
<1>3. QED
  BY <1>1, <1>2, PublishingFacts DEF HoldsChain, Linked

LEMMA LinkMoves ==
  ASSUME ChainInv, NEW d \in Docs,
         pc[d] \in {"saveLineage", "updateParentPid", "updateLineage"},
         NEW step \in {"updateParentPid", "updateLineage", "savePid", "cleanFile"},
         Goto(d, step, req[d]), UNCHANGED root,
         \A l \in Docs : lins[l] # None =>
                          lins'[l] # None /\ lins'[l].first = lins[l].first
  PROVE  /\ Kept /\ pc'[d] = step /\ step \notin BeforeLineage
         /\ req'[d] = req[d]
         /\ (step # "cleanFile" => Opened(req[d].lineage, root[req[d].parent])')
              => LocalsTruthful'
<1>1. /\ step \notin BeforeLineage \cup EndSteps \cup BeforeRow
      /\ step # "cleanFile" => step \in Publishing \ {"saveRow"}
  BY DEF BeforeLineage, BeforeRow, EndSteps, Publishing
<1>2. /\ pc'[d] = step /\ req'[d] = req[d]
      /\ \A b \in Actors \ {d} : pc'[b] = pc[b] /\ req'[b] = req[b]
  BY <1>1, LinkFacts, PublishingFacts, GotoFrame
<1>3. Kept
  BY <1>1, <1>2, ChainTypes, LinkFacts DEF Kept
<1>4. root'[d] = IF req[d].parent = None THEN d ELSE root[req[d].parent]
  BY LinkFacts, PublishingFacts DEF RootKnown
<1>5. ASSUME step # "cleanFile" => Opened(req[d].lineage, root[req[d].parent])'
      PROVE  /\ HoldsChain(d, pc[d], req[d])' /\ RootKnown(d, pc[d], req[d])'
             /\ MetaTruthful(pc[d], req[d])'
  <2>1. CASE step = "cleanFile"
    BY <1>2, <1>3, <2>1, QuietHolds
  <2>2. CASE step # "cleanFile"
    <3>1. Opened(req[d].lineage, root[req[d].parent])'
      BY <1>5, <2>2
    <3>2. QED
      BY <1>1, <1>2, <1>3, <1>4, <2>2, <3>1, LinkFacts, WritingHolds
  <2>3. QED
    BY <2>1, <2>2
<1>6. QED
  BY <1>1, <1>2, <1>3, <1>5, PublishingFacts, LinkFacts, LocalsKept

LEMMA SaveLineageChain ==
  ASSUME ChainInv, NEW d \in Docs, SaveLineage(d)
  PROVE  StoresTruthful' /\ LocalsTruthful'
<1>1. pc[d] = "saveLineage" /\ UNCHANGED <<rows, pids, root>>
  BY DEF SaveLineage
<1>2. lins[d] = None
  BY <1>1 DEF ChainInv, StoresTruthful, LineageOpened
<1>3. PICK step \in {"updateParentPid", "cleanFile"} :
        /\ Goto(d, step, req[d])
        /\ step # "cleanFile" => lins' = [lins EXCEPT ![d] = req[d].heldLin]
  BY DEF SaveLineage
<1>4. lins' = [lins EXCEPT ![d] = req[d].heldLin] \/ lins' = lins
  BY FailedWriteOutcome DEF SaveLineage
<1>5. \A l \in Docs \ {d} : lins'[l] = lins[l]
  BY <1>1, <1>4, LinkFacts DEF TypeInv, TypeOK
<1>6. lins'[d] = lins[d] \/ lins'[d] = req[d].heldLin
  BY <1>1, <1>4, LinkFacts DEF TypeInv, TypeOK
<1>7. Kept /\ pc'[d] = step /\ step \notin BeforeLineage /\ req'[d] = req[d]
  BY <1>1, <1>2, <1>3, <1>5, LinkMoves
<1>8. lins'[d] # lins[d] => LineageOpened(d, lins[d])'
  BY <1>1, <1>6, <1>7, LinkFacts, PublishingFacts DEF LineageOpened, BeforeLineage
<1>9. StoresTruthful'
  BY <1>1, <1>5, <1>7, <1>8, StoresKept
<1>10. step # "cleanFile" => Opened(req[d].lineage, root[req[d].parent])'
  <2>1. SUFFICES ASSUME step # "cleanFile"
                 PROVE  Opened(req[d].lineage, root[req[d].parent])'
    OBVIOUS
  <2>2. lins'[d] = req[d].heldLin
    BY <1>1, <1>3, <2>1, LinkFacts DEF TypeInv, TypeOK
  <2>3. req[d].heldLin # None /\ req[d].heldLin.first = root[req[d].parent]
    BY <1>1, LinkFacts, PublishingFacts, PublishAssumption DEF CreateLocals
  <2>4. QED
    BY <1>1, <1>5, <1>7, <2>2, <2>3, LinkFacts DEF Opened
<1>11. QED
  BY <1>1, <1>2, <1>3, <1>5, <1>9, <1>10, LinkMoves

LEMMA UpdateParentPidChain ==
  ASSUME ChainInv, NEW d \in Docs, UpdateParentPid(d)
  PROVE  StoresTruthful' /\ LocalsTruthful'
<1>1. pc[d] = "updateParentPid" /\ UNCHANGED <<rows, lins, root>>
  BY DEF UpdateParentPid
<1>2. PICK step \in {"updateLineage", "cleanFile"} : Goto(d, step, req[d])
  BY DEF UpdateParentPid
<1>3. pids' = [pids EXCEPT ![req[d].parent] = req[d].held] \/ pids' = pids
  BY FailedWriteOutcome DEF UpdateParentPid
<1>4. Kept /\ req'[d] = req[d]
  BY <1>1, <1>2, LinkMoves
<1>5. ASSUME NEW x \in Docs, pids'[x] # pids[x]
      PROVE  PidTruthful(x, pids[x])'
  <2>1. x = req[d].parent /\ pids'[x] = req[d].held
    BY <1>1, <1>3, <1>5, LinkFacts DEF TypeInv, TypeOK
  <2>2. HoldsChain(d, pc[d], req[d]) /\ pc[x] \notin BeforeRow
    BY <1>1, <2>1, LinkFacts, PublishingFacts
  <2>3. req[d].held.version = 1 => root[x] = x
    BY <1>1, <2>1, <2>2, LinkFacts DEF HoldsChain
  <2>4. Opened(req[d].held.lineage, root[x])
    BY <1>1, <2>1, LinkFacts
  <2>5. QED
    BY <1>1, <1>4, <2>1, <2>2, <2>3, <2>4 DEF PidTruthful, Truthful, Opened, Kept
<1>6. StoresTruthful'
  BY <1>1, <1>4, <1>5, StoresKept
<1>7. Opened(req[d].lineage, root[req[d].parent])'
  BY <1>1, <1>4, LinkFacts DEF Opened
<1>8. QED
  BY <1>1, <1>2, <1>6, <1>7, LinkMoves

LEMMA UpdateLineageChain ==
  ASSUME ChainInv, NEW d \in Docs, UpdateLineage(d)
  PROVE  StoresTruthful' /\ LocalsTruthful'
<1> DEFINE l == req[d].lineage
<1>1. pc[d] = "updateLineage" /\ UNCHANGED <<rows, pids, root>>
  BY DEF UpdateLineage
<1>2. /\ Opened(l, root[req[d].parent]) /\ l \in Docs
      /\ req[d].heldLin.first = root[req[d].parent] /\ req[d].heldLin # None
      /\ req[d].heldLin.latest >= 2
  BY <1>1, LinkFacts, PublishingFacts DEF CreateLocals
<1>3. PICK step \in {"savePid", "cleanFile"} : Goto(d, step, req[d])
  BY DEF UpdateLineage
<1>4. lins' = [lins EXCEPT ![l] = req[d].heldLin] \/ lins' = lins
  BY FailedWriteOutcome DEF UpdateLineage
<1>5. \A k \in Docs : lins'[k] = lins[k] \/ (k = l /\ lins'[k] = req[d].heldLin)
  BY <1>1, <1>4, LinkFacts DEF TypeInv, TypeOK
<1>6. \A k \in Docs : lins[k] # None => lins'[k] # None /\ lins'[k].first = lins[k].first
  BY <1>2, <1>5 DEF Opened
<1>7. Kept /\ req'[d] = req[d]
  BY <1>1, <1>3, <1>6, LinkMoves
<1>8. LineageOpened(l, lins[l])'
  <2>1. LineageOpened(l, lins[l]) /\ lins[l] # None
    BY <1>2 DEF ChainInv, StoresTruthful, Opened
  <2>2. pc'[l] \notin BeforeLineage
    BY <1>2, <1>7, <2>1 DEF LineageOpened, Kept, BeforeLineage
  <2>3. lins'[l].latest >= 2
    BY <1>2, <1>5, <2>1 DEF LineageOpened
  <2>4. QED
    BY <1>1, <1>2, <1>7, <2>2, <2>3 DEF LineageOpened, BeforeLineage
<1>9. StoresTruthful'
  <2>1. \A k \in Docs : lins'[k] = lins[k] \/ LineageOpened(k, lins[k])'
    BY <1>5, <1>7, <1>8
  <2>2. QED
    BY <1>1, <1>7, <2>1, StoresKept
<1>10. Opened(req[d].lineage, root[req[d].parent])'
  BY <1>1, <1>2, <1>5, <1>7 DEF Opened
<1>11. QED
  BY <1>1, <1>3, <1>6, <1>9, <1>10, LinkMoves

LEMMA SavePidChain ==
  ASSUME ChainInv, NEW d \in Docs, SavePid(d)
  PROVE  StoresTruthful' /\ LocalsTruthful'
<1>1. pc[d] = "savePid" /\ UNCHANGED <<rows, lins, root>>
  BY DEF SavePid
<1>2. TypeInv /\ pc[d] \in Publishing \ {"saveRow"} /\ pc[d] \notin BeforeRow
      /\ pc[d] \in Linked
  BY <1>1 DEF ChainInv, Publishing, BeforeRow, Linked
<1>3. PICK step \in {"done", "readMeta", "cleanFile"},
           m \in {req[d].meta, req[d].held.meta} :
        \/ step # "cleanFile" /\ Goto(d, step, [req[d] EXCEPT !.meta = m])
        \/ step = "cleanFile" /\ Goto(d, step, req[d])
  BY DEF SavePid
<1>4. step \notin BeforeLineage
  BY DEF BeforeLineage, BeforeRow
<1>5. Kept
  BY <1>1, <1>2, <1>3, <1>4, PublishingFacts, KeptMove DEF BeforeLineage
<1>6. /\ pc'[d] = step
      /\ step \in EndSteps => req'[d] = NoRequest
      /\ step = "cleanFile" => req'[d] = req[d]
      /\ step = "readMeta" => req'[d] = [req[d] EXCEPT !.meta = m]
      /\ \A b \in Actors \ {d} : pc'[b] = pc[b] /\ req'[b] = req[b]
  <2>1. "cleanFile" \notin EndSteps /\ "readMeta" \notin EndSteps
    BY DEF EndSteps
  <2>2. QED
    BY <1>2, <1>3, <2>1, PublishingFacts, GotoFrame
<1>7. ASSUME NEW x \in Docs, pids'[x] # pids[x]
      PROVE  PidTruthful(x, pids[x])'
  <2>1. pids' = [pids EXCEPT ![d] = NewPid(req[d])] \/ pids' = pids
    BY FailedWriteOutcome DEF SavePid
  <2>2. x = d /\ pids'[x] = NewPid(req[d])
    BY <1>2, <1>7, <2>1 DEF TypeInv, TypeOK
  <2>3. /\ NewPid(req[d]).lineage = req[d].lineage
        /\ NewPid(req[d]).version = 1 => req[d].parent = None
    BY <1>2, PublishingFacts DEF NewPid, NewVersion
  <2>4. root[d] = IF req[d].parent = None THEN d ELSE root[req[d].parent]
    BY <1>2, PublishingFacts DEF RootKnown
  <2>5. req[d].lineage # None => Opened(req[d].lineage, root[d])
    BY <1>2, <2>4, PublishingFacts DEF HoldsChain
  <2>6. QED
    BY <1>1, <1>2, <1>5, <2>2, <2>3, <2>4, <2>5
    DEF PidTruthful, Truthful, Opened, Kept
<1>8. StoresTruthful'
  BY <1>1, <1>5, <1>7, StoresKept
<1>9. /\ HoldsChain(d, pc[d], req[d])' /\ RootKnown(d, pc[d], req[d])'
      /\ MetaTruthful(pc[d], req[d])'
  <2>1. CASE step = "done"
    BY <1>2, <1>6, <2>1, PublishingFacts, EndedHolds DEF EndSteps
  <2>2. CASE step = "cleanFile"
    BY <1>5, <1>6, <2>2, QuietHolds
  <2>3. CASE step = "readMeta"
    <3>1. /\ req'[d].parent = req[d].parent /\ req'[d].prevRow = req[d].prevRow
          /\ req'[d].doc = d
      BY <1>2, <1>6, <2>3, PublishingFacts DEF Request, CreateLocals, Publishing, EndSteps
    <3>2. pc'[d] \notin Publishing \cup Linked \cup {"readLineage"} /\ pc'[d] = "readMeta"
      BY <1>6, <2>3 DEF Publishing, Linked
    <3>3. HoldsChain(d, pc[d], req[d])'
      BY <1>2, <1>5, <3>1, <3>2, PublishingFacts DEF HoldsChain, Kept
    <3>4. RootKnown(d, pc[d], req[d])' /\ MetaTruthful(pc[d], req[d])'
      BY <1>2, <1>5, <3>1, <3>2 DEF RootKnown, MetaTruthful, Kept
    <3>5. QED
      BY <3>3, <3>4
  <2>4. QED
    BY <2>1, <2>2, <2>3
<1>10. QED
  BY <1>2, <1>5, <1>6, <1>8, <1>9, PublishingFacts, LocalsKept

LEMMA CleanChain ==
  ASSUME ChainInv, NEW d \in Docs, CleanFile(d) \/ CleanRow(d) \/ RevertRow(d)
  PROVE  StoresTruthful' /\ LocalsTruthful'
<1>1. pc[d] \in CleanSteps /\ UNCHANGED <<pids, lins, root>>
  BY DEF CleanFile, CleanRow, RevertRow, CleanSteps
<1>2. PICK step \in {"cleanRow", "revertRow", "failed"} : Goto(d, step, req[d])
  BY DEF CleanFile, CleanRow, RevertRow
<1>3. step \notin BeforeLineage /\ TypeInv /\ d \in Actors
  BY DEF BeforeLineage, BeforeRow, ChainInv, Actors
<1>4. Kept
  BY <1>1, <1>2, <1>3, KeptMove DEF BeforeLineage
<1>5. \A x \in Docs : rows'[x] = rows[x] \/ RowTruthful(x, rows[x])'
  <2>1. CASE CleanFile(d)
    BY <2>1 DEF CleanFile
  <2>2. CASE CleanRow(d)
    <3>1. rows' = rows \/ rows' = [rows EXCEPT ![d] = None]
      BY <2>2, FailedWriteOutcome DEF CleanRow
    <3>2. QED
      BY <1>3, <3>1 DEF RowTruthful, TypeInv, TypeOK
  <2>3. CASE RevertRow(d)
    <3>1. req[d].parent \in Docs
      BY <1>3, <2>3, RunningLocals
      DEF RevertRow, CreateLocals, WithParent, Request, DocOrNone
    <3>2. \/ rows' = rows
          \/ /\ rows[req[d].parent] # None
             /\ rows' = [rows EXCEPT ![req[d].parent].lineage = req[d].prevRow.lineage]
      BY <2>3, FailedWriteOutcome DEF RevertRow
    <3>3. QED
      BY <1>4, <3>1, <3>2, RowLineageChain
  <2>4. QED
    BY <2>1, <2>2, <2>3
<1>6. QED
  BY <1>1, <1>2, <1>3, <1>5, QuietChain DEF BeforeLineage

\* A metadata request: the locals of a create request keep what it knew.
LEMMA MetaHolds ==
  ASSUME ChainInv, Kept, NEW a \in Actors, a \in Docs,
         pc'[a] \in {"readMeta", "writeMeta"},
         req'[a].parent = req[a].parent, req'[a].prevRow = req[a].prevRow
  PROVE  HoldsChain(a, pc[a], req[a])' /\ RootKnown(a, pc[a], req[a])'
<1>1. HoldsChain(a, pc[a], req[a]) /\ req[a].parent \in DocOrNone
  BY ChainTypes DEF ChainInv, LocalsTruthful, Request
<1>2. pc'[a] \notin Publishing \cup Linked \cup {"readLineage"}
  BY DEF Publishing, Linked
<1>3. QED
  BY <1>1, <1>2 DEF HoldsChain, RootKnown, Kept, DocOrNone

LEMMA StartPatchChain ==
  ASSUME ChainInv, NEW q \in Patchers, NEW x \in Docs, StartPatch(q, x)
  PROVE  StoresTruthful' /\ LocalsTruthful'
<1> DEFINE r == [NoRequest EXCEPT !.doc = x, !.meta = q]
<1>1. /\ TypeInv /\ q \in Actors /\ q \notin Docs
      /\ Goto(q, "readMeta", r) /\ UNCHANGED <<stores, root>>
      /\ pc[q] = "idle" /\ rows[x] # None
  BY PublishAssumption DEF ChainInv, Actors, StartPatch
<1>2. r.doc = x /\ "readMeta" \notin EndSteps /\ "idle" \in BeforeRow
  BY DEF NoRequest, EndSteps, BeforeRow
<1> HIDE DEF r
<1>3. Kept
  BY <1>1, <1>2, KeptMove DEF stores, BeforeLineage
<1>4. pc'[q] = "readMeta" /\ req'[q] = r
      /\ \A b \in Actors \ {q} : pc'[b] = pc[b] /\ req'[b] = req[b]
  BY <1>1, <1>2, GotoFrame
<1>5. pc[x] \notin BeforeRow
  BY <1>1 DEF ChainInv, StoresTruthful, RowTruthful
<1>6. MetaTruthful(pc[q], req[q])'
  BY <1>2, <1>3, <1>4, <1>5 DEF MetaTruthful, Kept
<1>7. StoresTruthful'
  BY <1>1, <1>3, StoresKept DEF stores
<1>8. QED
  BY <1>1, <1>3, <1>4, <1>6, <1>7, LocalsKept

LEMMA MetaStepChain ==
  ASSUME ChainInv, NEW a \in Actors, MetaStep(a)
  PROVE  StoresTruthful' /\ LocalsTruthful'
<1>1. TypeInv /\ pc[a] \in MetaSteps /\ UNCHANGED <<rows, lins, root>>
  BY DEF ChainInv, MetaStep, ReadMeta, WriteMeta, MetaSteps, stores
<1>2. /\ req[a] \in Request /\ req[a].doc \in Docs /\ MetaTruthful(pc[a], req[a])
      /\ pc[a] = "writeMeta" => req[a].held \in DocumentPid
      /\ pc[req[a].doc] \notin BeforeRow
  BY <1>1, MetaDoc
  DEF ChainInv, LocalsTruthful, MetaTruthful, LocalsOK, MetaLocals, Request
<1>3. \/ \E step \in EndSteps : Goto(a, step, req[a])
      \/ /\ ReadMeta(a) /\ pids[req[a].doc] # None
         /\ Goto(a, "writeMeta", [req[a] EXCEPT !.held = pids[req[a].doc]])
  BY <1>1, MetaDoc DEF MetaStep, ReadMeta, WriteMeta, EndSteps
<1>4. PICK step \in EndSteps \cup {"writeMeta"},
           r \in {req[a], [req[a] EXCEPT !.held = pids[req[a].doc]]} :
        /\ Goto(a, step, r)
        /\ step = "writeMeta" =>
             ReadMeta(a) /\ pids[req[a].doc] # None
             /\ r = [req[a] EXCEPT !.held = pids[req[a].doc]]
  BY <1>3 DEF EndSteps
<1>5. step \notin BeforeLineage /\ (step \notin EndSteps => step = "writeMeta")
      /\ "writeMeta" \notin EndSteps
  BY DEF BeforeLineage, BeforeRow, EndSteps
<1>6. Kept
  BY <1>1, <1>4, <1>5, KeptMove DEF BeforeLineage
<1>7. pc'[a] = step /\ req'[a] = (IF step \in EndSteps THEN NoRequest ELSE r)
      /\ \A b \in Actors \ {a} : pc'[b] = pc[b] /\ req'[b] = req[b]
  BY <1>1, <1>4, GotoFrame
<1>8. ASSUME NEW x \in Docs, pids'[x] # pids[x]
      PROVE  PidTruthful(x, pids[x])'
  <2> DEFINE h == [req[a].held EXCEPT !.meta = req[a].meta]
  <2>1. WriteMeta(a)
    BY <1>8 DEF MetaStep, ReadMeta, stores
  <2>2. pids' = pids \/ pids' = [pids EXCEPT ![req[a].doc] = h]
    BY <2>1, FailedWriteOutcome DEF WriteMeta
  <2>3. x = req[a].doc /\ pids'[x] = h
    BY <1>1, <1>2, <1>8, <2>2 DEF TypeInv, TypeOK
  <2>4. pc[a] = "writeMeta"
    BY <2>1 DEF WriteMeta
  <2>5. h.version = req[a].held.version /\ h.lineage = req[a].held.lineage
    BY <1>2, <2>4 DEF DocumentPid
  <2>6. Truthful(x, req[a].held)
    BY <1>2, <2>3, <2>4 DEF MetaTruthful
  <2> HIDE DEF h
  <2>7. QED
    BY <1>1, <1>2, <1>6, <2>3, <2>5, <2>6 DEF PidTruthful, Truthful, Opened, Kept
<1>9. StoresTruthful'
  BY <1>1, <1>6, <1>8, StoresKept
<1>10. /\ a \in Docs => HoldsChain(a, pc[a], req[a])' /\ RootKnown(a, pc[a], req[a])'
       /\ MetaTruthful(pc[a], req[a])'
  <2>1. CASE step \in EndSteps
    BY <1>7, <2>1, EndedHolds
  <2>2. CASE step \notin EndSteps
    <3>1. /\ pids[req[a].doc] \in DocumentPid
          /\ PidTruthful(req[a].doc, pids[req[a].doc])
          /\ pids' = pids
      BY <1>2, <1>4, <1>5, <2>2, ChainTypes
      DEF ChainInv, StoresTruthful, ReadMeta, stores
    <3>2. /\ req'[a].parent = req[a].parent /\ req'[a].prevRow = req[a].prevRow
          /\ req'[a].doc = req[a].doc /\ req'[a].held = pids[req[a].doc]
      BY <1>2, <1>4, <1>5, <1>7, <2>2 DEF Request
    <3>3. Truthful(req[a].doc, pids[req[a].doc]) /\ pids[req[a].doc].lineage \in DocOrNone
      BY <1>4, <1>5, <2>2, <3>1 DEF PidTruthful, DocumentPid
    <3>4. Truthful(req[a].doc, pids[req[a].doc])'
      BY <1>1, <1>2, <1>6, <3>1, <3>2, <3>3 DEF Truthful, Opened, Kept, DocOrNone
    <3>5. MetaTruthful(pc[a], req[a])'
      BY <1>2, <1>6, <3>1, <3>2, <3>4 DEF MetaTruthful, Truthful, Opened, Kept
    <3>6. QED
      BY <1>5, <1>6, <1>7, <2>2, <3>2, <3>5, MetaHolds
  <2>3. QED
    BY <2>1, <2>2
<1>11. QED
  BY <1>6, <1>7, <1>9, <1>10, LocalsKept

\* The repair of a row's lineage_id and a crash disturb nothing.
LEMMA RepairChain ==
  ASSUME ChainInv, NEW x \in Docs, RepairStep(x)
  PROVE  StoresTruthful' /\ LocalsTruthful'
<1>1. UNCHANGED <<pids, lins, pc, req, root>>
  BY DEF RepairStep, RepairRead, RepairGet, RepairWrite, RepairFails, stores
<1>2. Kept
  BY <1>1 DEF Kept
<1>3. rows' = rows \/ (rows[x] # None /\ rows' = [rows EXCEPT ![x].lineage = rlin[x]])
  BY DEF RepairStep, RepairRead, RepairGet, RepairWrite, RepairFails, stores
<1>4. StoresTruthful'
  BY <1>1, <1>2, <1>3, RowLineageChain, StoresKept
<1>5. LocalsTruthful'
  BY <1>1, <1>2, IdleKept, ChainTypes DEF LocalsTruthful, ChainInv
<1>6. QED
  BY <1>4, <1>5

LEMMA CrashChain ==
  ASSUME ChainInv, NEW a \in Actors, Crash(a)
  PROVE  StoresTruthful' /\ LocalsTruthful'
<1>1. TypeInv /\ Goto(a, "failed", req[a]) /\ UNCHANGED <<stores, root>>
  BY DEF Crash, ChainInv
<1>2. "failed" \in EndSteps /\ "failed" \notin BeforeRow
      /\ "failed" \notin BeforeLineage
  BY DEF EndSteps, BeforeRow, BeforeLineage
<1>3. Kept
  BY <1>1, <1>2, KeptMove DEF stores
<1>4. pc'[a] = "failed" /\ req'[a] = NoRequest
      /\ \A b \in Actors \ {a} : pc'[b] = pc[b] /\ req'[b] = req[b]
  BY <1>1, <1>2, GotoFrame
<1>5. StoresTruthful'
  BY <1>1, <1>3, StoresKept DEF stores
<1>6. QED
  BY <1>2, <1>3, <1>4, <1>5, EndedHolds, LocalsKept

LEMMA CreateStepChain ==
  ASSUME ChainInv, NEW d \in Docs, CreateStep(d)
  PROVE  StoresTruthful' /\ LocalsTruthful'
BY CheckChain, BeforeRowChain, ReadParentChain, ReadLineageChain, SaveRowChain,
   UpdateParentRowChain, SaveLineageChain, UpdateParentPidChain, UpdateLineageChain,
   SavePidChain, CleanChain
DEF CreateStep, Checks

LEMMA ChainInvInit ==
  ASSUME Init
  PROVE  ChainInv
<1>1. TypeInv
  BY TypeInvInit
<1>2. StoresTruthful
  BY DEF Init, StoresTruthful, RowTruthful, PidTruthful, LineageOpened
<1>3. LocalsTruthful
  BY DEF Init, LocalsTruthful, HoldsChain, RootKnown, MetaTruthful, NoRequest,
         Publishing, MetaSteps, Actors
<1>4. QED
  BY <1>1, <1>2, <1>3 DEF ChainInv

LEMMA ChainInvStep ==
  ASSUME ChainInv, [Next]_vars
  PROVE  ChainInv'
<1>1. TypeInv'
  BY TypeInvStep DEF ChainInv
<1>2. StoresTruthful' /\ LocalsTruthful'
  <2>1. CASE \E d \in Docs : \E p \in DocOrNone, m \in {d, None} : StartCreate(d, p, m)
    BY <2>1, StartCreateChain
  <2>2. CASE \E q \in Patchers, x \in Docs : StartPatch(q, x)
    BY <2>2, StartPatchChain
  <2>3. CASE \E d \in Docs : CreateStep(d)
    BY <2>3, CreateStepChain
  <2>4. CASE \E a \in Actors : MetaStep(a) \/ Crash(a)
    BY <2>4, MetaStepChain, CrashChain
  <2>5. CASE \E x \in Docs : RepairStep(x)
    BY <2>5, RepairChain
  <2>6. CASE UNCHANGED vars
    <3>1. Kept
      BY <2>6 DEF vars, stores, Kept
    <3>2. StoresTruthful'
      BY <2>6, <3>1, StoresKept DEF vars, stores
    <3>3. LocalsTruthful'
      BY <2>6, <3>1, IdleKept, ChainTypes DEF vars, LocalsTruthful, ChainInv
    <3>4. QED
      BY <3>2, <3>3
  <2>7. QED
    BY <2>1, <2>2, <2>3, <2>4, <2>5, <2>6 DEF Next, Quiescent
<1>3. QED
  BY <1>1, <1>2 DEF ChainInv

THEOREM ChainInvariant == Spec => []ChainInv
BY ChainInvInit, ChainInvStep, PTL DEF Spec

\* The permission check never takes a document of another chain for the first
\* one: whatever create and metadata requests race, fail, lose an answer or
\* crash, get_first_document_record finds the first document of the document's
\* own parent chain, or none.
THEOREM PermissionCheckFindsRoot == Spec => []FirstDocumentIsRoot
<1>1. ASSUME ChainInv
      PROVE  FirstDocumentIsRoot
  <2> \A d \in Docs : pc[d] = "findFirst" => req[d].found = root[req[d].parent]
    BY <1>1, RunningLocals
    DEF ChainInv, LocalsTruthful, HoldsChain, CreateLocals, WithParent, EndSteps
  <2>1. SUFFICES ASSUME NEW x \in Docs, rows[x] # None,
                        FirstDocument(x, rows[x]) # None
                 PROVE  FirstDocument(x, rows[x]) = root[x]
    BY DEF FirstDocumentIsRoot
  <2>2. rows[x] \in DocumentRow /\ RowTruthful(x, rows[x])
    BY <1>1, <2>1, ChainTypes DEF ChainInv, StoresTruthful
  <2>3. CASE rows[x].version = 1
    BY <2>1, <2>2, <2>3 DEF FirstDocument, RowTruthful
  <2>4. CASE rows[x].version # 1
    <3> DEFINE p == rows[x].parent
    <3>1. /\ p # None /\ pids[p] # None /\ pids[p].lineage # None
          /\ FirstDocument(x, rows[x]) = lins[pids[p].lineage].first
      BY <2>1, <2>4 DEF FirstDocument
    <3>2. p \in Docs
      BY <2>2, <3>1 DEF DocumentRow, DocOrNone
    <3>3. Opened(pids[p].lineage, root[p])
      BY <1>1, <3>1, <3>2 DEF ChainInv, StoresTruthful, PidTruthful, Truthful
    <3>4. root[x] = root[p]
      BY <2>1, <2>2, <3>1 DEF RowTruthful
    <3>5. QED
      BY <3>1, <3>3, <3>4 DEF Opened
  <2>5. QED
    BY <2>3, <2>4
<1>2. QED
  BY <1>1, ChainInvariant, PTL

\* No Handle record ever names a lineage that has not been written: the order of
\* the deferred writes in finalize_pid_records survives every failure and race.
THEOREM LineageLinksResolve == Spec => []LineageLinkResolves
<1>1. ASSUME ChainInv
      PROVE  LineageLinkResolves
  BY <1>1 DEF ChainInv, StoresTruthful, PidTruthful, Truthful, Opened,
              LineageLinkResolves
<1>2. QED
  BY <1>1, ChainInvariant, PTL

(***************************************************************************)
(* DocumentPublish implements the branching VersionChain: Handle records   *)
(* are written whole, by several requests and from copies that are several *)
(* calls old, and still a document that is published keeps its version and *)
(* its parent, and new ones only come after published ones.                *)
(***************************************************************************)

BeforePid == {"idle"} \cup CreateSteps
Holding   == {"readLineage"} \cup Publishing

\* r is an earlier or the present record of the published document x.
SameDocument(x, r) ==
  pids[x] # None /\ r.version = pids[x].version /\ r.parent = pids[x].parent

\* A create request writes back its parent's record, and goes at most one version on.
HoldsParent(step, r) ==
  r.parent # None /\ step \in Holding =>
    /\ SameDocument(r.parent, r.held)
    /\ step \in Publishing => r.heldLin.latest <= r.held.version + 1

HoldsDoc(step, r) ==
  /\ step \in MetaSteps => pids[r.doc] # None
  /\ step = "writeMeta" => SameDocument(r.doc, r.held)

AppendInv ==
  /\ \A d \in Docs : pc[d] \in BeforePid => pids[d] = None
  /\ \A d \in Docs : HoldsParent(pc[d], req[d])
  /\ \A a \in Actors : HoldsDoc(pc[a], req[a])

\* What is published stays published, as the same version of the same document.
Stays ==
  \A x \in Docs : pids[x] # None =>
    /\ pids'[x] # None
    /\ pids'[x].version = pids[x].version /\ pids'[x].parent = pids[x].parent

NothingNew == \A x \in Docs : pids'[x] # None => pids[x] # None

LEMMA SameStays ==
  ASSUME Stays, NEW x \in Docs, NEW r, SameDocument(x, r)
  PROVE  pids'[x] # None /\ r.version = pids'[x].version /\ r.parent = pids'[x].parent
BY DEF Stays, SameDocument

\* Request a moves; the others keep what they hold.
LEMMA OthersKeep ==
  ASSUME TypeInv, AppendInv, Stays, NEW a \in Actors,
         \A b \in Actors \ {a} : pc'[b] = pc[b] /\ req'[b] = req[b],
         \A x \in Docs : pids'[x] # None => pids[x] # None \/ x = a,
         a \in Docs => /\ pc'[a] \in BeforePid => pids'[a] = None
                       /\ HoldsParent(pc[a], req[a])',
         HoldsDoc(pc[a], req[a])'
  PROVE  AppendInv'
<1>1. ASSUME NEW d \in Docs, pc'[d] \in BeforePid  PROVE pids'[d] = None
  BY <1>1, ChainTypes DEF AppendInv
<1>2. ASSUME NEW d \in Docs  PROVE HoldsParent(pc[d], req[d])'
  <2>1. CASE d # a /\ req[d].parent # None /\ pc[d] \in Holding
    <3>1. req[d].parent \in Docs
      BY <2>1, ChainTypes DEF Request, DocOrNone
    <3>2. HoldsParent(pc[d], req[d]) /\ pc'[d] = pc[d] /\ req'[d] = req[d]
      BY <2>1, ChainTypes DEF AppendInv
    <3> QED
      BY <2>1, <3>1, <3>2, SameStays DEF HoldsParent, SameDocument
  <2>2. CASE d # a /\ ~(req[d].parent # None /\ pc[d] \in Holding)
    BY <2>2, ChainTypes DEF HoldsParent
  <2> QED
    BY <2>1, <2>2
<1>3. ASSUME NEW b \in Actors  PROVE HoldsDoc(pc[b], req[b])'
  <2>1. CASE b # a /\ pc[b] \in MetaSteps
    <3>1. req[b].doc \in Docs /\ HoldsDoc(pc[b], req[b])
      BY <2>1, MetaDoc DEF AppendInv
    <3>2. pids'[req[b].doc] # None
      BY <2>1, <3>1 DEF HoldsDoc, Stays
    <3> QED
      BY <2>1, <3>1, <3>2, SameStays DEF HoldsDoc, SameDocument
  <2>2. CASE b # a /\ pc[b] \notin MetaSteps
    BY <2>2 DEF HoldsDoc, MetaSteps
  <2> QED
    BY <2>1, <2>2
<1> QED
  BY <1>1, <1>2, <1>3 DEF AppendInv

\* A request goes where it holds nothing that it will write back.
LEMMA EmptyHanded ==
  ASSUME TypeInv, AppendInv, Stays, NothingNew, NEW a \in Actors, NEW step, NEW r,
         Goto(a, step, r), step \notin Holding \cup MetaSteps,
         a \in Docs /\ step \in BeforePid => pc[a] \in BeforePid
  PROVE  AppendInv'
<1>1. /\ pc'[a] = step
      /\ \A b \in Actors \ {a} : pc'[b] = pc[b] /\ req'[b] = req[b]
  BY GotoFrame
<1>2. a \in Docs /\ pc'[a] \in BeforePid => pids'[a] = None
  BY <1>1 DEF AppendInv, NothingNew
<1>3. HoldsParent(pc[a], req[a])' /\ HoldsDoc(pc[a], req[a])'
  BY <1>1 DEF HoldsParent, HoldsDoc, MetaSteps
<1> QED
  BY <1>1, <1>2, <1>3, OthersKeep DEF NothingNew

\* A create request takes its parent's record up, or goes on with it.
LEMMA GoesOnWithParent ==
  ASSUME TypeInv, AppendInv, Stays, NothingNew, NEW d \in Docs, NEW step \in Holding, NEW r,
         Goto(d, step, r), pc[d] \in BeforePid, HoldsParent(step, r),
         r.parent \in DocOrNone
  PROVE  AppendInv'
<1>1. /\ pc'[d] = step /\ req'[d] = r
      /\ \A b \in Actors \ {d} : pc'[b] = pc[b] /\ req'[b] = req[b]
      /\ d \in Actors
  BY GotoFrame, ChainTypes DEF Holding, Publishing, EndSteps
<1>2. pids'[d] = None
  BY DEF AppendInv, NothingNew
<1>3. HoldsParent(pc[d], req[d])'
  <2> SUFFICES ASSUME r.parent # None
               PROVE  /\ pids'[r.parent] # None
                      /\ r.held.version = pids'[r.parent].version
                      /\ r.held.parent = pids'[r.parent].parent
                      /\ step \in Publishing => r.heldLin.latest <= r.held.version + 1
    BY <1>1 DEF HoldsParent, SameDocument
  <2> QED
    BY SameStays DEF HoldsParent, DocOrNone
<1>4. HoldsDoc(pc[d], req[d])'
  BY <1>1 DEF HoldsDoc, Holding, Publishing, MetaSteps
<1> QED
  BY <1>1, <1>2, <1>3, <1>4, OthersKeep DEF NothingNew

-----------------------------------------------------------------------------
(* The steps *)

LEMMA SameRecords == UNCHANGED pids => Stays /\ NothingNew
BY DEF Stays, NothingNew

LEMMA QuietAppend ==
  ASSUME ChainInv, AppendInv, NEW d \in Docs,
         (\E p \in DocOrNone, m \in {d, None} : StartCreate(d, p, m))
           \/ Checks(d) \/ StoreFile(d) \/ ReadFails(d)
           \/ CleanFile(d) \/ CleanRow(d) \/ RevertRow(d)
  PROVE  AppendInv' /\ UNCHANGED pids
<1>1. UNCHANGED pids
  BY CheckOutcome DEF ChainInv, StartCreate, StoreFile, ReadFails, CleanFile, CleanRow,
         RevertRow, stores
<1>2. pc[d] \in BeforePid \cup CleanSteps
  BY CheckOutcome DEF ChainInv, StartCreate, StoreFile, ReadFails, CleanFile, CleanRow,
         RevertRow, BeforePid, CheckSteps, CreateSteps, CleanSteps
<1>3. PICK step, r : /\ Goto(d, step, r)
                     /\ \/ step \in CleanSteps \cup EndSteps
                        \/ /\ step \in CheckSteps \cup {"store", "readParent"}
                           /\ pc[d] \in CheckSteps \cup {"idle", "store"}
                        \/ pc[d] = "store" /\ step = "saveRow" /\ r = req[d] /\ r.parent = None
  <2>1. CASE \E p \in DocOrNone, m \in {d, None} : StartCreate(d, p, m)
    BY <2>1 DEF StartCreate, CheckSteps
  <2>2. CASE StoreFile(d)
    BY <2>2 DEF StoreFile, EndSteps
  <2>3. CASE ReadFails(d)
    BY <2>3 DEF ReadFails, CleanSteps
  <2>5. CASE Checks(d)
    BY <2>5, CheckOutcome DEF ChainInv, CheckSteps, EndSteps
  <2>4. CASE CleanFile(d) \/ CleanRow(d) \/ RevertRow(d)
    BY <2>4 DEF CleanFile, CleanRow, RevertRow, EndSteps, CleanSteps
  <2> QED
    BY <2>1, <2>2, <2>3, <2>4, <2>5
<1>4. d \in Actors
  BY DEF Actors
<1>5. CASE step # "saveRow"
  BY <1>1, <1>3, <1>4, <1>5, SameRecords, EmptyHanded
     DEF ChainInv, Holding, Publishing, MetaSteps, CheckSteps, CleanSteps, EndSteps,
         BeforePid, CreateSteps
<1>6. CASE step = "saveRow"
  <2>1. pc[d] \in BeforePid /\ r.parent = None /\ HoldsParent(step, r)
    BY <1>3, <1>6 DEF BeforePid, CreateSteps, CheckSteps, CleanSteps, EndSteps, HoldsParent
  <2> QED
    BY <1>1, <1>3, <1>6, <2>1, SameRecords, GoesOnWithParent
       DEF ChainInv, Holding, Publishing, DocOrNone
<1> QED
  BY <1>1, <1>5, <1>6

LEMMA OpenLineageAppend ==
  ASSUME ChainInv, AppendInv, NEW d \in Docs, NEW parent \in DocumentPid,
         OpenLineage(d, parent), UNCHANGED pids, pc[d] \in BeforePid,
         req[d].parent # None, SameDocument(req[d].parent, parent), parent.version = 1
  PROVE  AppendInv'
<1> DEFINE held == [parent EXCEPT !.lineage = d, !.succ = d]
           lin == [first |-> req[d].parent, last |-> d, latest |-> 2]
           r == [req[d] EXCEPT !.held = held, !.heldLin = lin, !.lineage = d]
<1>1. req[d] \in Request /\ req[d].parent \in DocOrNone
  BY ChainTypes DEF ChainInv, Request, Actors
<1>2. held.version = parent.version /\ held.parent = parent.parent
  BY DEF DocumentPid
<1>3. lin.latest <= held.version + 1
  BY <1>2
<1> HIDE DEF held, lin
<1>4. r.parent = req[d].parent /\ r.held = held /\ r.heldLin = lin
  BY <1>1 DEF Request
<1> HIDE DEF r
<1>5. Goto(d, "saveRow", r)
  BY DEF OpenLineage, r, held, lin
<1>6. HoldsParent("saveRow", r)
  BY <1>2, <1>3, <1>4 DEF HoldsParent, SameDocument
<1> QED
  BY <1>1, <1>4, <1>5, <1>6, SameRecords, GoesOnWithParent DEF ChainInv, Holding, Publishing

LEMMA ReadParentAppend ==
  ASSUME ChainInv, AppendInv, NEW d \in Docs, ReadParent(d)
  PROVE  AppendInv' /\ UNCHANGED pids
<1> DEFINE parent == pids[req[d].parent]
<1>1. /\ UNCHANGED pids /\ pc[d] = "readParent" /\ pc[d] \in BeforePid
      /\ req[d] \in Request /\ req[d].parent \in Docs /\ req[d].parent # None
  BY RunningLocals, PublishAssumption
  DEF ReadParent, stores, ChainInv, CreateLocals, WithParent, Request, DocOrNone,
      BeforePid, CreateSteps, Actors
<1>2. parent # None => SameDocument(req[d].parent, parent) /\ parent \in DocumentPid
  BY <1>1, ChainTypes DEF ChainInv, SameDocument
<1>3. CASE parent # None /\ Goto(d, "readLineage", [req[d] EXCEPT !.held = parent])
  <2> DEFINE r == [req[d] EXCEPT !.held = parent]
  <2>1. r.parent = req[d].parent /\ r.held = parent
    BY <1>1 DEF Request
  <2>2. HoldsParent("readLineage", r)
    BY <1>2, <1>3, <2>1 DEF HoldsParent, Publishing
  <2> HIDE DEF r
  <2> QED
    BY <1>1, <1>3, <2>1, <2>2, SameRecords, GoesOnWithParent
       DEF ChainInv, Holding, r, DocOrNone
<1>4. CASE parent # None /\ parent.version = 1 /\ OpenLineage(d, parent)
  BY <1>1, <1>2, <1>4, OpenLineageAppend
<1>5. CASE Goto(d, "cleanFile", req[d])
  BY <1>1, <1>5, SameRecords, EmptyHanded
     DEF ChainInv, Holding, Publishing, MetaSteps, Actors
<1> QED
  BY <1>1, <1>3, <1>4, <1>5 DEF ReadParent

LEMMA ReadLineageAppend ==
  ASSUME ChainInv, AppendInv, NEW d \in Docs, ReadLineage(d)
  PROVE  AppendInv' /\ UNCHANGED pids
<1> DEFINE parent == req[d].held
           lin == lins[parent.lineage]
<1>1. /\ UNCHANGED pids /\ pc[d] = "readLineage" /\ pc[d] \in BeforePid
      /\ req[d] \in Request /\ req[d].parent \in DocOrNone /\ req[d].parent # None
  BY RunningLocals
  DEF ReadLineage, stores, ChainInv, CreateLocals, WithParent, Request,
      BeforePid, CreateSteps
<1>2. parent \in DocumentPid /\ parent.lineage \in Docs
  BY <1>1, RunningLocals DEF ChainInv, CreateLocals, Request, DocumentPid, DocOrNone
<1>3. SameDocument(req[d].parent, parent)
  BY <1>1 DEF AppendInv, HoldsParent, Holding
<1>4. lin # None => lin \in LineagePid
  BY <1>2, ChainTypes DEF ChainInv
<1>5. CASE /\ lin # None /\ lin.latest <= parent.version
           /\ Goto(d, "saveRow",
                   [req[d] EXCEPT !.held = [parent EXCEPT !.succ = d],
                                  !.heldLin = [lin EXCEPT !.last = d,
                                                          !.latest = lin.latest + 1],
                                  !.lineage = parent.lineage])
  <2> DEFINE held == [parent EXCEPT !.succ = d]
             next == [lin EXCEPT !.last = d, !.latest = lin.latest + 1]
             r == [req[d] EXCEPT !.held = held, !.heldLin = next,
                                 !.lineage = parent.lineage]
  <2>1. held.version = parent.version /\ held.parent = parent.parent
    BY <1>2 DEF DocumentPid
  <2>2. next.latest <= parent.version + 1
    BY <1>2, <1>4, <1>5 DEF LineagePid, DocumentPid
  <2> HIDE DEF held, next
  <2>3. r.parent = req[d].parent /\ r.held = held /\ r.heldLin = next
    BY <1>1 DEF Request
  <2> HIDE DEF r
  <2>4. HoldsParent("saveRow", r)
    BY <1>3, <2>1, <2>2, <2>3 DEF HoldsParent, SameDocument
  <2>5. Goto(d, "saveRow", r)
    BY <1>5 DEF r, held, next
  <2> QED
    BY <1>1, <2>3, <2>4, <2>5, SameRecords, GoesOnWithParent
       DEF ChainInv, Holding, Publishing
<1>6. CASE parent.version = 1 /\ OpenLineage(d, parent)
  BY <1>1, <1>2, <1>3, <1>6, OpenLineageAppend
<1>7. CASE Goto(d, "cleanFile", req[d])
  BY <1>1, <1>7, SameRecords, EmptyHanded
     DEF ChainInv, Holding, Publishing, MetaSteps, Actors, BeforePid, CreateSteps
<1> QED
  BY <1>1, <1>5, <1>6, <1>7 DEF ReadLineage

\* From saveRow to savePid a create request goes on with the records it has made.
LEMMA GoesOn ==
  ASSUME ChainInv, AppendInv, NEW d \in Docs, pc[d] \in Publishing, Stays, NothingNew,
         NEW step \in Publishing, NEW r, Goto(d, step, r),
         r.parent = req[d].parent, r.held = req[d].held, r.heldLin = req[d].heldLin
  PROVE  AppendInv'
<1>1. HoldsParent(step, r)
  BY DEF AppendInv, HoldsParent, Holding
<1>2. r.parent \in DocOrNone /\ pc[d] \in BeforePid
  BY ChainTypes DEF ChainInv, Request, Actors, BeforePid, CreateSteps, Publishing
<1> QED
  BY <1>1, <1>2, GoesOnWithParent DEF ChainInv, Holding

LEMMA GivesUp ==
  ASSUME ChainInv, AppendInv, NEW d \in Docs, Stays, NothingNew, Goto(d, "cleanFile", req[d])
  PROVE  AppendInv'
BY EmptyHanded DEF ChainInv, Holding, Publishing, MetaSteps, BeforePid, CreateSteps, Actors

LEMMA RowAppend ==
  ASSUME ChainInv, AppendInv, NEW d \in Docs, SaveRow(d) \/ UpdateParentRow(d)
  PROVE  AppendInv' /\ UNCHANGED pids
<1> DEFINE r == [req[d] EXCEPT !.stored = TRUE]
<1>1. UNCHANGED pids /\ pc[d] \in Publishing /\ Stays /\ NothingNew
  BY SameRecords DEF SaveRow, UpdateParentRow, Publishing
<1>2. r.parent = req[d].parent /\ r.held = req[d].held /\ r.heldLin = req[d].heldLin
  BY ChainTypes DEF ChainInv, Request, Actors
<1>3. FinalizeStep(d) \in Publishing /\ "updateParentRow" \in Publishing
  BY DEF FinalizeStep, Publishing
<1>4. \/ Goto(d, FinalizeStep(d), r)
      \/ Goto(d, "updateParentRow", req[d])
      \/ Goto(d, "cleanFile", req[d])
  BY DEF SaveRow, UpdateParentRow
<1> HIDE DEF r
<1> QED
  BY <1>1, <1>2, <1>3, <1>4, GoesOn, GivesUp

\* The parent's record is written back from a copy that is several calls old.
LEMMA LinkAppend ==
  ASSUME ChainInv, AppendInv, NEW d \in Docs,
         SaveLineage(d) \/ UpdateParentPid(d) \/ UpdateLineage(d)
  PROVE  AppendInv' /\ Stays /\ NothingNew
<1>1. pc[d] \in Publishing
  BY DEF SaveLineage, UpdateParentPid, UpdateLineage, Publishing
<1>2. Stays /\ NothingNew
  <2>1. CASE UNCHANGED pids
    BY <2>1, SameRecords
  <2>2. CASE pids' = [pids EXCEPT ![req[d].parent] = req[d].held] /\ UpdateParentPid(d)
    <3>1. req[d].parent \in Docs /\ req[d].held \in DocumentPid /\ req[d].parent # None
      BY <1>1, <2>2, RunningLocals, PublishAssumption
      DEF ChainInv, UpdateParentPid, CreateLocals, WithParent, Request, DocOrNone, Actors
    <3>2. SameDocument(req[d].parent, req[d].held)
      BY <1>1, <3>1 DEF AppendInv, HoldsParent, Holding
    <3>3. req[d].held # None
      BY <3>1, PublishAssumption
    <3>4. pids \in [Docs -> DocumentPid \cup {None}]
      BY DEF ChainInv, TypeInv, TypeOK
    <3> QED
      BY <2>2, <3>1, <3>2, <3>3, <3>4 DEF Stays, NothingNew, SameDocument
  <2> QED
    BY <2>1, <2>2, FailedWriteOutcome DEF SaveLineage, UpdateParentPid, UpdateLineage
<1>3. \/ \E step \in Publishing : Goto(d, step, req[d])
      \/ Goto(d, "cleanFile", req[d])
  BY DEF SaveLineage, UpdateParentPid, UpdateLineage, Publishing
<1> QED
  BY <1>1, <1>2, <1>3, GoesOn, GivesUp

\* The record of a new document: a first version, or the next one of its parent
Adds(d) ==
  /\ pids[d] = None /\ NewPid(req[d]) # None
  /\ pids' = [pids EXCEPT ![d] = NewPid(req[d])]
  /\ req[d].parent # None =>
       /\ req[d].parent \in Docs /\ pids[req[d].parent] # None
       /\ NewVersion(req[d]) \in 2..(pids[req[d].parent].version + 1)

LEMMA SavePidAppend ==
  ASSUME ChainInv, AppendInv, NEW d \in Docs, SavePid(d)
  PROVE  AppendInv' /\ (UNCHANGED pids \/ Adds(d))
<1> DEFINE m == IF req[d].meta = None /\ req[d].parent # None
                THEN req[d].held.meta ELSE req[d].meta
           r == [req[d] EXCEPT !.meta = m]
           step == IF m = None THEN "done" ELSE "readMeta"
<1>1. /\ pc[d] = "savePid" /\ pids[d] = None
      /\ req[d] \in Request /\ d \in Actors /\ req[d].parent \in DocOrNone
      /\ CreateLocals(d, pc[d], req[d])
  BY RunningLocals DEF SavePid, AppendInv, BeforePid, CreateSteps, ChainInv, Request
<1>2. NewPid(req[d]) \in DocumentPid /\ NewPid(req[d]) # None
  BY <1>1, NewRecordType, PublishAssumption DEF CreateLocals, Publishing
<1>3. UNCHANGED pids \/ pids' = [pids EXCEPT ![d] = NewPid(req[d])]
  BY FailedWriteOutcome DEF SavePid
<1>4. pids \in [Docs -> DocumentPid \cup {None}]
  BY DEF ChainInv, TypeInv, TypeOK
<1>5. Stays /\ \A x \in Docs : pids'[x] # None => pids[x] # None \/ x = d
  BY <1>1, <1>3, <1>4 DEF Stays
<1>6. ASSUME req[d].parent # None
      PROVE  /\ req[d].parent \in Docs /\ pids[req[d].parent] # None
             /\ NewVersion(req[d]) \in 2..(pids[req[d].parent].version + 1)
  <2>1. /\ req[d].parent \in Docs
        /\ req[d].held \in DocumentPid /\ req[d].heldLin \in LineagePid
    BY <1>1, <1>6 DEF CreateLocals, Publishing, Request, DocOrNone
  <2>2. /\ SameDocument(req[d].parent, req[d].held)
        /\ req[d].heldLin.latest <= req[d].held.version + 1
    BY <1>1, <1>6 DEF AppendInv, HoldsParent, Holding, Publishing
  <2>3. req[d].heldLin.latest >= 2
    BY <1>1, <1>6 DEF ChainInv, LocalsTruthful, HoldsChain, Publishing
  <2> QED
    BY <1>6, <2>1, <2>2, <2>3 DEF SameDocument, NewVersion, LineagePid, DocumentPid
<1>7. UNCHANGED pids \/ Adds(d)
  BY <1>1, <1>2, <1>3, <1>6 DEF Adds
<1>8. CASE Goto(d, "cleanFile", req[d])
  <2>1. /\ pc'[d] = "cleanFile"
        /\ \A b \in Actors \ {d} : pc'[b] = pc[b] /\ req'[b] = req[b]
    BY <1>1, <1>8, GotoFrame DEF ChainInv
  <2>2. /\ pc'[d] \notin BeforePid
        /\ HoldsParent(pc[d], req[d])' /\ HoldsDoc(pc[d], req[d])'
    BY <2>1 DEF BeforePid, CreateSteps, HoldsParent, HoldsDoc, Holding, Publishing, MetaSteps
  <2> QED
    BY <1>1, <1>5, <1>7, <2>1, <2>2, OthersKeep DEF ChainInv
<1>9. CASE pids' = [pids EXCEPT ![d] = NewPid(req[d])] /\ Goto(d, step, r)
  <2>1. r.doc = d
    BY <1>1 DEF CreateLocals, Request, EndSteps
  <2>2. step \in {"done", "readMeta"}
    OBVIOUS
  <2> HIDE DEF step, r
  <2>3. /\ pc'[d] = step /\ (step = "readMeta" => req'[d] = r)
        /\ \A b \in Actors \ {d} : pc'[b] = pc[b] /\ req'[b] = req[b]
    BY <1>1, <1>9, GotoFrame DEF ChainInv, EndSteps
  <2>4. pids'[d] # None
    BY <1>2, <1>4, <1>9
  <2>5. /\ pc'[d] \notin BeforePid
        /\ HoldsParent(pc[d], req[d])' /\ HoldsDoc(pc[d], req[d])'
    BY <2>1, <2>2, <2>3, <2>4
       DEF BeforePid, CreateSteps, HoldsParent, HoldsDoc, Holding, Publishing, MetaSteps
  <2> QED
    BY <1>1, <1>5, <1>7, <2>3, <2>5, OthersKeep DEF ChainInv
<1> QED
  BY <1>7, <1>8, <1>9 DEF SavePid

\* A metadata update writes a record back that is at least one call old.
LEMMA MetaAppend ==
  ASSUME ChainInv, AppendInv, NEW a \in Actors, MetaStep(a)
  PROVE  AppendInv' /\ Stays /\ NothingNew
<1> DEFINE x == req[a].doc
<1>1. /\ pc[a] \in MetaSteps /\ req[a] \in Request
      /\ x \in Docs /\ pids[x] # None
      /\ MetaLocals(pc[a], req[a])
  BY MetaDoc DEF MetaStep, ReadMeta, WriteMeta, MetaSteps, AppendInv, HoldsDoc,
                 ChainInv, TypeInv, LocalsOK
<1>2. pids \in [Docs -> DocumentPid \cup {None}]
  BY DEF ChainInv, TypeInv, TypeOK
<1>3. Stays /\ NothingNew
  <2> DEFINE after == [req[a].held EXCEPT !.meta = req[a].meta]
  <2>1. CASE UNCHANGED pids
    BY <2>1, SameRecords
  <2>2. CASE pids' = [pids EXCEPT ![x] = after] /\ WriteMeta(a)
    <3>1. req[a].held \in DocumentPid /\ SameDocument(x, req[a].held)
      BY <1>1, <2>2 DEF WriteMeta, MetaLocals, Request, AppendInv, HoldsDoc
    <3>2. /\ after \in DocumentPid
          /\ after.version = pids[x].version /\ after.parent = pids[x].parent
      BY <1>1, <3>1 DEF DocumentPid, Request, SameDocument
    <3> HIDE DEF after
    <3>3. after # None
      BY <3>2, PublishAssumption
    <3> QED
      BY <1>1, <1>2, <2>2, <3>2, <3>3 DEF Stays, NothingNew
  <2> QED
    BY <2>1, <2>2, FailedWriteOutcome DEF MetaStep, ReadMeta, WriteMeta, stores
<1>4. CASE \E step \in EndSteps : Goto(a, step, req[a])
  BY <1>3, <1>4, EmptyHanded
     DEF ChainInv, Holding, Publishing, MetaSteps, EndSteps, BeforePid, CreateSteps
<1>5. CASE UNCHANGED pids /\ Goto(a, "writeMeta", [req[a] EXCEPT !.held = pids[x]])
  <2> DEFINE r == [req[a] EXCEPT !.held = pids[x]]
  <2>1. r.doc = x /\ r.held = pids[x]
    BY <1>1 DEF Request
  <2> HIDE DEF r
  <2>2. Goto(a, "writeMeta", r)
    BY <1>5 DEF r
  <2>3. /\ pc'[a] = "writeMeta" /\ req'[a] = r
        /\ \A b \in Actors \ {a} : pc'[b] = pc[b] /\ req'[b] = req[b]
    BY <2>2, GotoFrame DEF ChainInv, EndSteps
  <2>4. /\ pc'[a] \notin BeforePid
        /\ HoldsParent(pc[a], req[a])' /\ HoldsDoc(pc[a], req[a])'
    BY <1>1, <1>5, <2>1, <2>3
       DEF BeforePid, CreateSteps, HoldsParent, HoldsDoc, Holding, Publishing, SameDocument
  <2> QED
    BY <1>3, <2>3, <2>4, OthersKeep DEF ChainInv, NothingNew
<1> QED
  BY <1>3, <1>4, <1>5 DEF MetaStep, ReadMeta, WriteMeta, MetaFailed, EndSteps, stores

LEMMA StartPatchAppend ==
  ASSUME ChainInv, AppendInv, NEW q \in Patchers, NEW x \in Docs, StartPatch(q, x)
  PROVE  AppendInv' /\ UNCHANGED pids
<1> DEFINE r == [NoRequest EXCEPT !.doc = x, !.meta = q]
<1>1. /\ UNCHANGED pids /\ Goto(q, "readMeta", r) /\ pids[x] # None
      /\ q \in Actors /\ q \notin Docs
  BY PublishAssumption DEF StartPatch, stores, Actors
<1>2. r.doc = x
  BY DEF NoRequest
<1> HIDE DEF r
<1>3. /\ pc'[q] = "readMeta" /\ req'[q] = r
      /\ \A b \in Actors \ {q} : pc'[b] = pc[b] /\ req'[b] = req[b]
  BY <1>1, GotoFrame DEF ChainInv, EndSteps
<1>4. HoldsDoc(pc[q], req[q])'
  BY <1>1, <1>2, <1>3 DEF HoldsDoc
<1> QED
  BY <1>1, <1>3, <1>4, SameRecords, OthersKeep DEF ChainInv, NothingNew

LEMMA CrashAppend ==
  ASSUME ChainInv, AppendInv, NEW a \in Actors, Crash(a)
  PROVE  AppendInv' /\ UNCHANGED pids
<1>1. UNCHANGED pids /\ Goto(a, "failed", req[a])
  BY DEF Crash, stores
<1> QED
  BY <1>1, SameRecords, EmptyHanded
     DEF ChainInv, Holding, Publishing, MetaSteps, BeforePid, CreateSteps

LEMMA IdleAppend ==
  ASSUME AppendInv, UNCHANGED <<pids, pc, req>>
  PROVE  AppendInv'
BY DEF AppendInv, HoldsParent, HoldsDoc, SameDocument

\* A step rewrites published documents or adds one.
LEMMA NextAppend ==
  ASSUME ChainInv, AppendInv, [Next]_vars
  PROVE  AppendInv' /\ ((Stays /\ NothingNew) \/ \E d \in Docs : Adds(d))
<1>1. CASE \E d \in Docs : \E p \in DocOrNone, m \in {d, None} : StartCreate(d, p, m)
  BY <1>1, QuietAppend, SameRecords
<1>2. CASE \E q \in Patchers, x \in Docs : StartPatch(q, x)
  BY <1>2, StartPatchAppend, SameRecords
<1>3. ASSUME NEW d \in Docs, CreateStep(d)
      PROVE  AppendInv' /\ ((Stays /\ NothingNew) \/ Adds(d))
  BY <1>3, QuietAppend, ReadParentAppend, ReadLineageAppend, RowAppend, LinkAppend,
     SavePidAppend, SameRecords DEF CreateStep, Checks
<1>4. CASE \E a \in Actors : MetaStep(a) \/ Crash(a)
  BY <1>4, MetaAppend, CrashAppend, SameRecords
<1>5. CASE (\E x \in Docs : RepairStep(x)) \/ UNCHANGED vars
  <2>1. UNCHANGED <<pids, pc, req>>
    BY <1>5 DEF RepairStep, RepairRead, RepairGet, RepairWrite, RepairFails, stores, vars
  <2> QED
    BY <2>1, IdleAppend, SameRecords
<1> QED
  BY <1>1, <1>2, <1>3, <1>4, <1>5 DEF Next, Quiescent

LEMMA InitAppend == Init => AppendInv
BY DEF Init, AppendInv, HoldsParent, HoldsDoc, Holding, Publishing, MetaSteps, Actors

-----------------------------------------------------------------------------
(* The refinement *)

\* Rewriting a published record changes nothing that VersionChain sees.
LEMMA RewritesStutter ==
  ASSUME Stays, NothingNew
  PROVE  UNCHANGED Chain!chainVars
BY DEF Stays, NothingNew, Chain!chainVars

LEMMA AddsIsBranching ==
  ASSUME TypeInv, NEW d \in Docs, Adds(d)
  PROVE  Chain!BranchingNext
<1> DEFINE n == NewVersion(req[d])
           p == req[d].parent
<1>1. /\ pids \in [Docs -> DocumentPid \cup {None}]
      /\ req[d] \in Request
  BY ChainTypes DEF TypeInv, TypeOK, Actors
<1>2. Chain!Add(d, p, n)
  BY <1>1 DEF Adds, NewPid, Chain!Add
<1>3. CASE p = None
  <2>1. n = 1
    BY <1>3 DEF NewVersion
  <2> HIDE DEF n, p
  <2>2. Chain!PublishFirst(d)
    BY <1>2, <1>3, <2>1 DEF Chain!PublishFirst, Chain!Add
  <2> QED
    BY <2>2 DEF Chain!BranchingNext
<1>4. CASE p # None
  <2>1. p \in Docs /\ pids[p] # None /\ n \in 2..(pids[p].version + 1)
    BY <1>4 DEF Adds
  <2> HIDE DEF n, p
  <2>2. Chain!Branch(d, p)
    BY <1>2, <2>1 DEF Chain!Branch, Chain!Add
  <2> QED
    BY <2>1, <2>2 DEF Chain!BranchingNext
<1> QED
  BY <1>3, <1>4

\* Whatever requests race, fail, lose answers or crash, published documents are an
\* append-only set: each new one is a first version or comes after a published one,
\* with a number no higher than the next, and none is removed, renumbered or moved.
THEOREM PublishedOnlyGrows == Spec => AppendsToPublished
<1>1. Init => Chain!ChainInit
  BY DEF Init, Chain!ChainInit
<1>2. ChainInv /\ AppendInv /\ [Next]_vars => AppendInv' /\ [Chain!BranchingNext]_(Chain!chainVars)
  BY NextAppend, RewritesStutter, AddsIsBranching DEF ChainInv
<1> QED
  BY <1>1, <1>2, InitAppend, ChainInvariant, PTL
     DEF Spec, AppendsToPublished, Chain!BranchingSpec

-----------------------------------------------------------------------------
(* Acknowledged documents are complete *)

Stored == {"readParent", "readLineage", "done"} \cup Publishing \cup MetaSteps
InRows == (Publishing \ {"saveRow"}) \cup MetaSteps \cup {"done"}
Listed == MetaSteps \cup {"done"}

\* A document that has a parent keeps the name of its lineage.
KeepsLineage(r) == r.parent # None => r.lineage # None

\* The row of a document agrees with its Handle record, or with what the request is
\* going to write there.
RowAgreesWith(d) ==
  /\ pc[d] \in InRows => rows[d] # None
  /\ pc[d] \in InRows \ Listed =>
       rows[d].version = NewVersion(req[d]) /\ rows[d].parent = req[d].parent
  /\ pc[d] \in Listed =>
       /\ pids[d] # None
       /\ rows[d].version = pids[d].version /\ rows[d].parent = pids[d].parent

HeldKeepsLineage(a) ==
  (a \in Docs /\ req[a].parent # None /\ pc[a] \in Holding) \/ pc[a] = "writeMeta" =>
    KeepsLineage(req[a].held)

FileAndRow(d) == (pc[d] \in Stored => d \in files) /\ RowAgreesWith(d)

CompleteInv ==
  /\ \A d \in Docs : FileAndRow(d)
  /\ \A x \in Docs : pids[x] # None => KeepsLineage(pids[x])
  /\ \A a \in Actors : HeldKeepsLineage(a)

\* What a step may not do to the file and the row of a document
DocKept(d) ==
  /\ d \in files => d \in files'
  /\ rows[d] # None =>
       rows'[d] # None /\ rows'[d].version = rows[d].version /\ rows'[d].parent = rows[d].parent

RecordsKeepLineage == \A x \in Docs : pids'[x] = pids[x] \/ KeepsLineage(pids'[x])

\* The document of a request that goes on without writing its row or its Handle record
LEMMA DocGoesOn ==
  ASSUME Stays, NEW d \in Docs, FileAndRow(d), DocKept(d),
         pc'[d] \in Stored => pc[d] \in Stored,
         pc'[d] \in Listed => pc[d] \in Listed,
         pc'[d] \in InRows \ Listed =>
           /\ pc[d] \in InRows \ Listed
           /\ req'[d].parent = req[d].parent /\ req'[d].heldLin = req[d].heldLin
  PROVE  FileAndRow(d)'
<1>1. pc'[d] \in Stored => d \in files'
  BY DEF FileAndRow, DocKept
<1>2. pc'[d] \in InRows => pc[d] \in InRows
  BY DEF InRows, Listed
<1>3. RowAgreesWith(d)'
  BY <1>2 DEF FileAndRow, RowAgreesWith, DocKept, Stays, NewVersion, InRows, Listed
<1> QED
  BY <1>1, <1>3 DEF FileAndRow

\* Request a moves; the documents of the others stay as they are.
LEMMA OthersComplete ==
  ASSUME TypeInv, CompleteInv, Stays, RecordsKeepLineage, NEW a \in Actors,
         \A b \in Actors \ {a} : pc'[b] = pc[b] /\ req'[b] = req[b],
         \A d \in Docs \ {a} : DocKept(d),
         a \in Docs => FileAndRow(a)',
         HeldKeepsLineage(a)'
  PROVE  CompleteInv'
<1>1. ASSUME NEW d \in Docs  PROVE FileAndRow(d)'
  <2>1. CASE d = a
    BY <2>1
  <2>2. CASE d # a
    <3>1. pc'[d] = pc[d] /\ req'[d] = req[d] /\ FileAndRow(d) /\ DocKept(d)
      BY <2>2, ChainTypes DEF CompleteInv
    <3> QED
      BY <3>1, DocGoesOn
  <2> QED
    BY <2>1, <2>2
<1>2. \A x \in Docs : pids'[x] # None => KeepsLineage(pids'[x])
  BY DEF CompleteInv, RecordsKeepLineage
<1>3. ASSUME NEW b \in Actors  PROVE HeldKeepsLineage(b)'
  BY DEF CompleteInv, HeldKeepsLineage
<1> QED
  BY <1>1, <1>2, <1>3 DEF CompleteInv, KeepsLineage

LEMMA SameRecordsKeepLineage == UNCHANGED pids => RecordsKeepLineage
BY DEF RecordsKeepLineage

LEMMA SameDocKept ==
  ASSUME NEW d \in Docs, UNCHANGED <<files, rows>>
  PROVE  DocKept(d)
BY DEF DocKept

\* A request ends, cleans up, or has not stored anything yet.
LEMMA LeavesIncomplete ==
  ASSUME TypeInv, CompleteInv, Stays, RecordsKeepLineage, NEW a \in Actors, NEW step, NEW r,
         Goto(a, step, r), step \notin Stored,
         \A d \in Docs \ {a} : DocKept(d)
  PROVE  CompleteInv'
<1>1. /\ pc'[a] = step
      /\ \A b \in Actors \ {a} : pc'[b] = pc[b] /\ req'[b] = req[b]
  BY GotoFrame
<1>2. step \notin InRows /\ step \notin Listed /\ step \notin Holding /\ step # "writeMeta"
  BY DEF Stored, InRows, Listed, Holding, MetaSteps
<1>3. FileAndRow(a)' /\ HeldKeepsLineage(a)'
  BY <1>1, <1>2 DEF FileAndRow, RowAgreesWith, HeldKeepsLineage, InRows, Listed
<1> QED
  BY <1>1, <1>3, OthersComplete

\* A create request goes on with the parent's record that it has, or has taken up.
LEMMA GoesOnComplete ==
  ASSUME TypeInv, CompleteInv, Stays, RecordsKeepLineage, NEW d \in Docs,
         NEW step \in Stored \ Listed, NEW r, Goto(d, step, r),
         r.parent # None /\ step \in Holding => KeepsLineage(r.held),
         pc[d] \in Stored \/ d \in files',
         step \in InRows \ Listed =>
           /\ rows'[d] # None
           /\ rows'[d].version = NewVersion(r) /\ rows'[d].parent = r.parent,
         \A e \in Docs : e \in files => e \in files',
         \A e \in Docs \ {d} : DocKept(e)
  PROVE  CompleteInv'
<1>1. /\ d \in Actors /\ step \notin EndSteps
      /\ step # "writeMeta" /\ step \notin Listed
  BY DEF Actors, Stored, Listed, MetaSteps, EndSteps, Publishing
<1>2. /\ pc'[d] = step /\ req'[d] = r
      /\ \A b \in Actors \ {d} : pc'[b] = pc[b] /\ req'[b] = req[b]
  BY <1>1, GotoFrame
<1>3. d \in files'
  BY DEF CompleteInv, FileAndRow
<1>4. FileAndRow(d)'
  BY <1>1, <1>2, <1>3 DEF FileAndRow, RowAgreesWith, NewVersion
<1>5. HeldKeepsLineage(d)'
  BY <1>1, <1>2 DEF HeldKeepsLineage, KeepsLineage
<1> QED
  BY <1>1, <1>2, <1>4, <1>5, OthersComplete

\* Changing the lineage_id of a row, and nothing else
LEMMA LineageOfRowKept ==
  ASSUME NEW x \in Docs, NEW l \in DocOrNone, NEW d \in Docs, TypeInv,
         rows[x] # None, UNCHANGED files,
         rows' = rows \/ rows' = [rows EXCEPT ![x].lineage = l]
  PROVE  DocKept(d)
<1>1. CASE rows' = rows
  BY <1>1 DEF DocKept
<1>2. CASE rows' = [rows EXCEPT ![x].lineage = l]
  <2> DEFINE row == [rows[x] EXCEPT !.lineage = l]
  <2>1. rows \in [Docs -> DocumentRow \cup {None}]
    BY DEF TypeInv, TypeOK
  <2>2. /\ row \in DocumentRow
        /\ row.version = rows[x].version /\ row.parent = rows[x].parent
    BY <2>1 DEF DocumentRow
  <2>3. rows'[d] = IF d = x THEN row ELSE rows[d]
    BY <1>2, <2>1
  <2> HIDE DEF row
  <2>4. row # None
    BY <2>2, PublishAssumption
  <2> QED
    BY <2>2, <2>3, <2>4 DEF DocKept
<1> QED
  BY <1>1, <1>2

\* A create request touches no file and no row but its own, except for the lineage_id
\* of its parent's row.
LEMMA DocsKept ==
  ASSUME ChainInv, NEW d \in Docs, CreateStep(d)
  PROVE  /\ \A e \in Docs \ {d} : DocKept(e)
         /\ pc[d] \notin {"saveRow"} \cup CleanSteps => DocKept(d)
<1> SUFFICES ASSUME NEW e \in Docs, e = d => pc[d] \notin {"saveRow"} \cup CleanSteps
             PROVE  DocKept(e)
  OBVIOUS
<1>1. rows \in [Docs -> DocumentRow \cup {None}]
  BY DEF ChainInv, TypeInv, TypeOK
<1>2. CASE StoreFile(d) \/ CleanFile(d)
  <2>1. /\ UNCHANGED rows
        /\ \/ files' = files \/ files' = files \cup {d}
           \/ files' = files \ {d} /\ pc[d] = "cleanFile"
    BY <1>2, FailedWriteOutcome DEF StoreFile, CleanFile
  <2> QED
    BY <2>1 DEF DocKept, CleanSteps
<1>3. CASE SaveRow(d) \/ CleanRow(d)
  <2>1. /\ UNCHANGED files /\ pc[d] \in {"saveRow", "cleanRow"}
        /\ rows' = rows \/ \E row : rows' = [rows EXCEPT ![d] = row]
    BY <1>3, FailedWriteOutcome DEF SaveRow, CleanRow
  <2> QED
    BY <1>1, <2>1 DEF DocKept, CleanSteps
<1>4. CASE UpdateParentRow(d) \/ RevertRow(d)
  <2>1. /\ req[d].parent \in Docs /\ req[d].lineage \in DocOrNone
        /\ req[d].prevRow.lineage \in DocOrNone /\ UNCHANGED files
    BY <1>4, RunningLocals DEF ChainInv, UpdateParentRow, RevertRow, CreateLocals, WithParent,
                               Request, DocumentRow, DocOrNone
  <2>2. \/ rows' = rows
        \/ /\ rows[req[d].parent] # None
           /\ \E l \in {req[d].lineage, req[d].prevRow.lineage} :
                rows' = [rows EXCEPT ![req[d].parent].lineage = l]
    BY <1>4, FailedWriteOutcome DEF UpdateParentRow, RevertRow
  <2> QED
    BY <2>1, <2>2, LineageOfRowKept DEF ChainInv, DocKept
<1>5. CASE UNCHANGED <<files, rows>>
  BY <1>5, SameDocKept
<1> QED
  BY <1>2, <1>3, <1>4, <1>5
     DEF CreateStep, Authorise, FindLineage, FindFirst, Refuse, ReadParent, ReadLineage,
         ReadFails, SaveLineage, UpdateParentPid, UpdateLineage, SavePid, stores

-----------------------------------------------------------------------------
(* The steps *)

LEMMA UnstoredComplete ==
  ASSUME ChainInv, CompleteInv, NEW d \in Docs,
         (\E p \in DocOrNone, m \in {d, None} : StartCreate(d, p, m))
           \/ Checks(d) \/ ReadFails(d)
  PROVE  CompleteInv'
<1>1. UNCHANGED <<rows, files, pids>>
  BY CheckOutcome DEF ChainInv, StartCreate, ReadFails, stores
<1>2. PICK step, r : Goto(d, step, r) /\ step \notin Stored
  <2>1. \A step \in CheckSteps \cup {"store", "failed", "cleanFile"} : step \notin Stored
    BY DEF CheckSteps, Stored, Publishing, MetaSteps
  <2>2. CASE Checks(d)
    BY <2>1, <2>2, CheckOutcome DEF ChainInv, CheckSteps
  <2>3. CASE ReadFails(d)
    BY <2>1, <2>3 DEF ReadFails
  <2>4. CASE \E p \in DocOrNone, m \in {d, None} : StartCreate(d, p, m)
    BY <2>1, <2>4 DEF StartCreate, CheckSteps
  <2> QED
    BY <2>2, <2>3, <2>4
<1>3. d \in Actors
  BY DEF Actors
<1> QED
  BY <1>1, <1>2, <1>3, SameRecords, SameRecordsKeepLineage, SameDocKept, LeavesIncomplete
     DEF ChainInv

LEMMA CrashComplete ==
  ASSUME ChainInv, CompleteInv, NEW a \in Actors, Crash(a)
  PROVE  CompleteInv'
<1>1. UNCHANGED <<rows, files, pids>> /\ Goto(a, "failed", req[a])
  BY DEF Crash, stores
<1>2. "failed" \notin Stored
  BY DEF Stored, Publishing, MetaSteps
<1> QED
  BY <1>1, <1>2, SameRecords, SameRecordsKeepLineage, SameDocKept, LeavesIncomplete
     DEF ChainInv

LEMMA StoreFileComplete ==
  ASSUME ChainInv, CompleteInv, NEW d \in Docs, StoreFile(d)
  PROVE  CompleteInv'
<1>1. /\ UNCHANGED <<rows, pids>> /\ d \in Actors
      /\ files' = files \/ files' = files \cup {d}
  BY FailedWriteOutcome DEF StoreFile, Actors
<1>2. Stays /\ RecordsKeepLineage /\ \A e \in Docs : DocKept(e)
  BY <1>1, SameRecords, SameRecordsKeepLineage DEF DocKept
<1>3. CASE Goto(d, "failed", req[d])
  BY <1>1, <1>2, <1>3, LeavesIncomplete DEF ChainInv, Stored, Publishing, MetaSteps
<1>4. CASE /\ files' = files \cup {d}
           /\ Goto(d, IF req[d].parent = None THEN "saveRow" ELSE "readParent", req[d])
  <2>1. PICK step \in {"saveRow", "readParent"} :
          /\ Goto(d, step, req[d])
          /\ step = "saveRow" => req[d].parent = None
    BY <1>4
  <2>2. /\ step \in Stored \ Listed /\ step \notin InRows
        /\ req[d].parent # None => step \notin Holding
    BY <2>1 DEF Stored, Listed, InRows, Holding, Publishing, MetaSteps
  <2> QED
    BY <1>1, <1>2, <1>4, <2>1, <2>2, GoesOnComplete DEF ChainInv
<1> QED
  BY <1>3, <1>4 DEF StoreFile

LEMMA CleanComplete ==
  ASSUME ChainInv, CompleteInv, NEW d \in Docs, CleanFile(d) \/ CleanRow(d) \/ RevertRow(d)
  PROVE  CompleteInv'
<1>1. UNCHANGED pids /\ d \in Actors
  BY DEF CleanFile, CleanRow, RevertRow, Actors
<1>2. PICK step : Goto(d, step, req[d]) /\ step \notin Stored
  BY DEF CleanFile, CleanRow, RevertRow, Stored, Publishing, MetaSteps
<1>3. \A e \in Docs \ {d} : DocKept(e)
  BY DocsKept DEF CreateStep
<1> QED
  BY <1>1, <1>2, <1>3, SameRecords, SameRecordsKeepLineage, LeavesIncomplete DEF ChainInv

LEMMA OpenLineageComplete ==
  ASSUME ChainInv, CompleteInv, NEW d \in Docs, NEW parent \in DocumentPid,
         OpenLineage(d, parent), UNCHANGED <<rows, files, pids>>, pc[d] \in Stored
  PROVE  CompleteInv'
<1> DEFINE held == [parent EXCEPT !.lineage = d, !.succ = d]
           lin == [first |-> req[d].parent, last |-> d, latest |-> 2]
           r == [req[d] EXCEPT !.held = held, !.heldLin = lin, !.lineage = d]
<1>1. KeepsLineage(held)
  BY PublishAssumption DEF DocumentPid, KeepsLineage, Actors
<1> HIDE DEF held, lin
<1>2. r.held = held
  BY RunningLocals DEF ChainInv, Request
<1> HIDE DEF r
<1>3. Goto(d, "saveRow", r)
  BY DEF OpenLineage, r, held, lin
<1>4. "saveRow" \in Stored \ Listed /\ "saveRow" \notin InRows
  BY DEF Stored, Listed, InRows, Publishing, MetaSteps
<1> QED
  BY <1>1, <1>2, <1>3, <1>4, SameRecords, SameRecordsKeepLineage, SameDocKept, GoesOnComplete
     DEF ChainInv

LEMMA ReadParentComplete ==
  ASSUME ChainInv, CompleteInv, NEW d \in Docs, ReadParent(d)
  PROVE  CompleteInv'
<1> DEFINE parent == pids[req[d].parent]
<1>1. /\ UNCHANGED <<rows, files, pids>> /\ pc[d] = "readParent" /\ pc[d] \in Stored
      /\ req[d] \in Request /\ req[d].parent \in Docs /\ d \in Actors
  BY RunningLocals DEF ReadParent, stores, ChainInv, CreateLocals, WithParent, Request,
                       DocOrNone, Stored
<1>2. parent # None => parent \in DocumentPid /\ KeepsLineage(parent)
  BY <1>1, ChainTypes DEF ChainInv, CompleteInv
<1>3. Stays /\ RecordsKeepLineage /\ \A e \in Docs : DocKept(e)
  BY <1>1, SameRecords, SameRecordsKeepLineage, SameDocKept
<1>4. CASE parent # None /\ Goto(d, "readLineage", [req[d] EXCEPT !.held = parent])
  <2> DEFINE r == [req[d] EXCEPT !.held = parent]
  <2>1. KeepsLineage(r.held)
    BY <1>1, <1>2, <1>4 DEF Request
  <2>2. "readLineage" \in Stored \ Listed /\ "readLineage" \notin InRows
    BY DEF Stored, Listed, InRows, Publishing, MetaSteps
  <2> HIDE DEF r
  <2>3. Goto(d, "readLineage", r)
    BY <1>4 DEF r
  <2> QED
    BY <1>1, <1>3, <2>1, <2>2, <2>3, GoesOnComplete DEF ChainInv
<1>5. CASE parent # None /\ OpenLineage(d, parent)
  BY <1>1, <1>2, <1>5, OpenLineageComplete
<1>6. CASE Goto(d, "cleanFile", req[d])
  BY <1>1, <1>3, <1>6, LeavesIncomplete DEF ChainInv, Stored, Publishing, MetaSteps
<1> QED
  BY <1>1, <1>4, <1>5, <1>6 DEF ReadParent

LEMMA ReadLineageComplete ==
  ASSUME ChainInv, CompleteInv, NEW d \in Docs, ReadLineage(d)
  PROVE  CompleteInv'
<1> DEFINE parent == req[d].held
           lin == lins[parent.lineage]
<1>1. /\ UNCHANGED <<rows, files, pids>> /\ pc[d] = "readLineage" /\ pc[d] \in Stored
      /\ req[d] \in Request /\ d \in Actors
      /\ parent \in DocumentPid /\ parent.lineage # None
  BY RunningLocals DEF ReadLineage, stores, ChainInv, CreateLocals, Request, Stored
<1>2. Stays /\ RecordsKeepLineage /\ \A e \in Docs : DocKept(e)
  BY <1>1, SameRecords, SameRecordsKeepLineage, SameDocKept
<1>3. CASE Goto(d, "saveRow",
                [req[d] EXCEPT !.held = [parent EXCEPT !.succ = d],
                               !.heldLin = [lin EXCEPT !.last = d,
                                                       !.latest = lin.latest + 1],
                               !.lineage = parent.lineage])
  <2> DEFINE held == [parent EXCEPT !.succ = d]
             next == [lin EXCEPT !.last = d, !.latest = lin.latest + 1]
             r == [req[d] EXCEPT !.held = held, !.heldLin = next,
                                 !.lineage = parent.lineage]
  <2>1. KeepsLineage(held)
    BY <1>1 DEF DocumentPid, KeepsLineage
  <2> HIDE DEF held, next
  <2>2. r.held = held
    BY <1>1 DEF Request
  <2> HIDE DEF r
  <2>3. Goto(d, "saveRow", r)
    BY <1>3 DEF r, held, next
  <2>4. "saveRow" \in Stored \ Listed /\ "saveRow" \notin InRows
    BY DEF Stored, Listed, InRows, Publishing, MetaSteps
  <2> QED
    BY <1>1, <1>2, <2>1, <2>2, <2>3, <2>4, GoesOnComplete DEF ChainInv
<1>4. CASE OpenLineage(d, parent)
  BY <1>1, <1>4, OpenLineageComplete
<1>5. CASE Goto(d, "cleanFile", req[d])
  BY <1>1, <1>2, <1>5, LeavesIncomplete DEF ChainInv, Stored, Publishing, MetaSteps
<1> QED
  BY <1>1, <1>3, <1>4, <1>5 DEF ReadLineage

\* The steps after the upload end in the clean-up, or go on with the same locals.
LEMMA PublishComplete ==
  ASSUME ChainInv, CompleteInv, NEW d \in Docs, pc[d] \in Publishing, Stays,
         RecordsKeepLineage, UNCHANGED files, NEW step, NEW r, Goto(d, step, r),
         \/ step = "cleanFile"
         \/ /\ step \in Publishing \ {"saveRow"}
            /\ r.parent = req[d].parent /\ r.held = req[d].held
            /\ rows'[d] # None
            /\ rows'[d].version = NewVersion(r) /\ rows'[d].parent = r.parent,
         \A e \in Docs \ {d} : DocKept(e)
  PROVE  CompleteInv'
<1>1. d \in Actors
  BY DEF Actors
<1>2. CASE step = "cleanFile"
  BY <1>1, <1>2, LeavesIncomplete DEF ChainInv, Stored, Publishing, MetaSteps
<1>3. CASE step \in Publishing \ {"saveRow"}
  <2>1. step \in Stored \ Listed /\ pc[d] \in Stored /\ step # "cleanFile"
    BY <1>3 DEF Stored, Listed, Publishing, MetaSteps
  <2>2. r.parent # None => KeepsLineage(r.held)
    BY <1>1, <1>3, <2>1 DEF CompleteInv, HeldKeepsLineage, Holding
  <2> QED
    BY <1>1, <2>1, <2>2, GoesOnComplete DEF ChainInv
<1> QED
  BY <1>2, <1>3

LEMMA SaveRowComplete ==
  ASSUME ChainInv, CompleteInv, NEW d \in Docs, SaveRow(d)
  PROVE  CompleteInv'
<1> DEFINE r == [req[d] EXCEPT !.stored = TRUE]
<1>1. /\ UNCHANGED <<files, pids>> /\ pc[d] \in Publishing /\ d \in Actors
      /\ req[d] \in Request /\ rows \in [Docs -> DocumentRow \cup {None}]
  BY RunningLocals DEF SaveRow, Publishing, ChainInv, TypeInv, TypeOK
<1>2. NewRow(req[d]) # None
  BY <1>1, RunningLocals, NewRecordType, PublishAssumption
     DEF ChainInv, CreateLocals
<1>4. \A e \in Docs \ {d} : DocKept(e)
  BY DocsKept DEF CreateStep
<1>5. CASE Goto(d, "cleanFile", req[d])
  BY <1>1, <1>4, <1>5, SameRecords, SameRecordsKeepLineage, PublishComplete
<1>6. CASE /\ rows' = [rows EXCEPT ![d] = NewRow(req[d])]
           /\ \/ Goto(d, "updateParentRow", req[d])
              \/ Goto(d, FinalizeStep(d), r)
  <2>1. /\ r.parent = req[d].parent /\ r.held = req[d].held
        /\ NewVersion(r) = NewVersion(req[d])
    BY <1>1 DEF Request, NewVersion
  <2>2. /\ rows'[d] # None
        /\ rows'[d].version = NewVersion(req[d]) /\ rows'[d].parent = req[d].parent
    BY <1>1, <1>2, <1>6 DEF NewRow
  <2>3. {"updateParentRow", FinalizeStep(d)} \subseteq Publishing \ {"saveRow"}
    BY DEF FinalizeStep, Publishing
  <2> HIDE DEF r
  <2> QED
    BY <1>1, <1>4, <1>6, <2>1, <2>2, <2>3, SameRecords, SameRecordsKeepLineage, PublishComplete
<1> QED
  BY <1>5, <1>6 DEF SaveRow

\* The row of a document that is being published is the one its request wrote.
LEMMA RowOfPublishing ==
  ASSUME ChainInv, CompleteInv, NEW d \in Docs, pc[d] \in Publishing \ {"saveRow"}
  PROVE  /\ rows[d] # None
         /\ rows[d].version = NewVersion(req[d]) /\ rows[d].parent = req[d].parent
BY DEF CompleteInv, FileAndRow, RowAgreesWith, InRows, Listed, Publishing, MetaSteps

LEMMA UpdateParentRowComplete ==
  ASSUME ChainInv, CompleteInv, NEW d \in Docs, UpdateParentRow(d)
  PROVE  CompleteInv'
<1> DEFINE r == [req[d] EXCEPT !.stored = TRUE]
<1>1. /\ UNCHANGED <<files, pids>> /\ pc[d] \in Publishing \ {"saveRow"}
      /\ req[d] \in Request
  BY RunningLocals DEF UpdateParentRow, Publishing, ChainInv
<1>3. \A e \in Docs : DocKept(e)
  BY <1>1, DocsKept DEF CreateStep, Publishing, CleanSteps
<1>4. /\ rows'[d] # None
      /\ rows'[d].version = NewVersion(req[d]) /\ rows'[d].parent = req[d].parent
  BY <1>1, <1>3, RowOfPublishing DEF DocKept
<1>5. /\ r.parent = req[d].parent /\ r.held = req[d].held
      /\ NewVersion(r) = NewVersion(req[d])
  BY <1>1 DEF Request, NewVersion
<1>6. FinalizeStep(d) \in Publishing \ {"saveRow"}
  BY DEF FinalizeStep, Publishing
<1>7. Goto(d, FinalizeStep(d), r) \/ Goto(d, "cleanFile", req[d])
  BY DEF UpdateParentRow
<1> HIDE DEF r
<1> QED
  BY <1>1, <1>3, <1>4, <1>5, <1>6, <1>7, SameRecords, SameRecordsKeepLineage, PublishComplete

LEMMA LinkComplete ==
  ASSUME ChainInv, AppendInv, CompleteInv, NEW d \in Docs,
         SaveLineage(d) \/ UpdateParentPid(d) \/ UpdateLineage(d)
  PROVE  CompleteInv'
<1>1. UNCHANGED <<rows, files>> /\ pc[d] \in Publishing \ {"saveRow"}
  BY DEF SaveLineage, UpdateParentPid, UpdateLineage, Publishing
<1>2. Stays /\ \A e \in Docs : DocKept(e)
  BY <1>1, LinkAppend, SameDocKept
<1>3. RecordsKeepLineage
  <2>1. CASE UNCHANGED pids
    BY <2>1, SameRecordsKeepLineage
  <2>2. CASE pids' = [pids EXCEPT ![req[d].parent] = req[d].held] /\ UpdateParentPid(d)
    <3>1. req[d].parent # None /\ d \in Actors
      BY <2>2, RunningLocals DEF ChainInv, UpdateParentPid, CreateLocals, WithParent
    <3>2. KeepsLineage(req[d].held)
      BY <1>1, <3>1 DEF CompleteInv, HeldKeepsLineage, Holding
    <3>3. pids \in [Docs -> DocumentPid \cup {None}]
      BY DEF ChainInv, TypeInv, TypeOK
    <3> QED
      BY <2>2, <3>2, <3>3 DEF RecordsKeepLineage
  <2> QED
    BY <2>1, <2>2, FailedWriteOutcome DEF SaveLineage, UpdateParentPid, UpdateLineage
<1>4. /\ rows'[d] # None
      /\ rows'[d].version = NewVersion(req[d]) /\ rows'[d].parent = req[d].parent
  BY <1>1, RowOfPublishing
<1>5. PICK step : /\ Goto(d, step, req[d])
                  /\ step \in {"cleanFile"} \cup (Publishing \ {"saveRow"})
  BY DEF SaveLineage, UpdateParentPid, UpdateLineage, Publishing
<1> QED
  BY <1>1, <1>2, <1>3, <1>4, <1>5, PublishComplete

LEMMA SavePidComplete ==
  ASSUME ChainInv, AppendInv, CompleteInv, NEW d \in Docs, SavePid(d)
  PROVE  CompleteInv'
<1> DEFINE m == IF req[d].meta = None /\ req[d].parent # None
                THEN req[d].held.meta ELSE req[d].meta
           r == [req[d] EXCEPT !.meta = m]
           step == IF m = None THEN "done" ELSE "readMeta"
<1>1. /\ UNCHANGED <<rows, files>> /\ pc[d] = "savePid" /\ d \in Actors
      /\ pc[d] \in Publishing \ {"saveRow"} /\ pc[d] \in Stored
      /\ req[d] \in Request /\ CreateLocals(d, pc[d], req[d])
      /\ pids \in [Docs -> DocumentPid \cup {None}]
      /\ pids[d] = None
  BY RunningLocals DEF SavePid, ChainInv, TypeInv, TypeOK, Publishing, Stored,
                       AppendInv, BeforePid, CreateSteps
<1>2. pids' = pids \/ pids' = [pids EXCEPT ![d] = NewPid(req[d])]
  BY FailedWriteOutcome DEF SavePid
<1>3. KeepsLineage(NewPid(req[d])) /\ NewPid(req[d]) # None
  <2>1. NewPid(req[d]) \in DocumentPid
    BY <1>1, NewRecordType DEF CreateLocals, Publishing
  <2>2. req[d].parent # None => req[d].lineage # None
    BY <1>1 DEF CreateLocals
  <2> QED
    BY <2>1, <2>2, PublishAssumption DEF NewPid, KeepsLineage
<1>4. Stays /\ RecordsKeepLineage /\ \A e \in Docs : DocKept(e)
  BY <1>1, <1>2, <1>3, SameDocKept DEF Stays, RecordsKeepLineage
<1>5. CASE Goto(d, "cleanFile", req[d])
  BY <1>1, <1>4, <1>5, PublishComplete
<1>6. CASE pids' = [pids EXCEPT ![d] = NewPid(req[d])] /\ Goto(d, step, r)
  <2>1. step \in {"done", "readMeta"}
    OBVIOUS
  <2> HIDE DEF step, r
  <2>2. pc'[d] = step /\ \A b \in Actors \ {d} : pc'[b] = pc[b] /\ req'[b] = req[b]
    BY <1>1, <1>6, GotoFrame DEF ChainInv
  <2>3. /\ rows'[d] # None /\ pids'[d] = NewPid(req[d])
        /\ rows'[d].version = NewVersion(req[d]) /\ rows'[d].parent = req[d].parent
    BY <1>1, <1>6, RowOfPublishing
  <2>4. d \in files'
    BY <1>1 DEF CompleteInv, FileAndRow
  <2>5. FileAndRow(d)'
    BY <1>3, <2>1, <2>2, <2>3, <2>4
       DEF FileAndRow, RowAgreesWith, Listed, MetaSteps, NewPid
  <2>6. HeldKeepsLineage(d)'
    BY <2>1, <2>2 DEF HeldKeepsLineage, Holding, Publishing
  <2> QED
    BY <1>1, <1>4, <2>2, <2>5, <2>6, OthersComplete DEF ChainInv
<1> QED
  BY <1>5, <1>6 DEF SavePid

LEMMA MetaComplete ==
  ASSUME ChainInv, AppendInv, CompleteInv, NEW a \in Actors, MetaStep(a)
  PROVE  CompleteInv'
<1> DEFINE x == req[a].doc
<1>1. /\ UNCHANGED <<rows, files>> /\ pc[a] \in MetaSteps /\ req[a] \in Request
      /\ x \in Docs /\ pids \in [Docs -> DocumentPid \cup {None}]
      /\ MetaLocals(pc[a], req[a])
  BY MetaDoc DEF MetaStep, ReadMeta, WriteMeta, MetaSteps, stores, ChainInv, TypeInv,
                 TypeOK, LocalsOK
<1>2. Stays /\ \A e \in Docs : DocKept(e)
  BY <1>1, MetaAppend, SameDocKept
<1>3. RecordsKeepLineage
  <2>1. CASE UNCHANGED pids
    BY <2>1, SameRecordsKeepLineage
  <2>2. CASE pids' = [pids EXCEPT ![x] = [req[a].held EXCEPT !.meta = req[a].meta]]
             /\ WriteMeta(a)
    <3>1. KeepsLineage(req[a].held) /\ req[a].held \in DocumentPid
      BY <1>1, <2>2 DEF CompleteInv, HeldKeepsLineage, WriteMeta, MetaLocals, Request
    <3>2. KeepsLineage([req[a].held EXCEPT !.meta = req[a].meta])
      BY <3>1 DEF KeepsLineage, DocumentPid
    <3> QED
      BY <1>1, <2>2, <3>2 DEF RecordsKeepLineage
  <2> QED
    BY <2>1, <2>2, FailedWriteOutcome DEF MetaStep, ReadMeta, WriteMeta, stores
<1>4. PICK step, r :
        /\ step \in {"failed", "done", "writeMeta"} /\ Goto(a, step, r)
        /\ step = "failed" => a \notin Docs
        /\ step = "writeMeta" => UNCHANGED pids /\ pids[x] # None /\ r.held = pids[x]
  <2>1. [req[a] EXCEPT !.held = pids[x]].held = pids[x]
    BY <1>1 DEF Request
  <2>2. MetaFailed(a) \in {"failed", "done"} /\ (MetaFailed(a) = "failed" => a \notin Docs)
    BY PublishAssumption DEF MetaFailed
  <2>3. \E step \in {"failed", "done", "writeMeta"} : \E r :
          /\ Goto(a, step, r)
          /\ step = "failed" => a \notin Docs
          /\ step = "writeMeta" => UNCHANGED pids /\ pids[x] # None /\ r.held = pids[x]
    BY <2>1, <2>2 DEF MetaStep, ReadMeta, WriteMeta, stores
  <2> QED
    BY <2>3
<1>5. /\ pc'[a] = step /\ (step = "writeMeta" => req'[a] = r)
      /\ \A b \in Actors \ {a} : pc'[b] = pc[b] /\ req'[b] = req[b]
  BY <1>4, GotoFrame DEF ChainInv, EndSteps
<1>6. a \in Docs => FileAndRow(a)'
  <2> SUFFICES ASSUME a \in Docs  PROVE FileAndRow(a)'
    OBVIOUS
  <2>1. pc[a] \in Stored /\ pc[a] \in Listed /\ pc'[a] \in Listed
    BY <1>1, <1>4, <1>5 DEF Stored, Listed, MetaSteps
  <2> QED
    BY <1>2, <2>1, DocGoesOn DEF CompleteInv
<1>7. HeldKeepsLineage(a)'
  BY <1>1, <1>4, <1>5 DEF HeldKeepsLineage, CompleteInv, Holding, Publishing
<1> QED
  BY <1>2, <1>3, <1>5, <1>6, <1>7, OthersComplete DEF ChainInv

LEMMA StartPatchComplete ==
  ASSUME ChainInv, CompleteInv, NEW q \in Patchers, NEW x \in Docs, StartPatch(q, x)
  PROVE  CompleteInv'
<1>1. /\ UNCHANGED <<rows, files, pids>> /\ q \in Actors /\ q \notin Docs
      /\ \E r : Goto(q, "readMeta", r)
  BY PublishAssumption DEF StartPatch, stores, Actors
<1>2. /\ pc'[q] = "readMeta"
      /\ \A b \in Actors \ {q} : pc'[b] = pc[b] /\ req'[b] = req[b]
  BY <1>1, GotoFrame DEF ChainInv
<1>3. HeldKeepsLineage(q)'
  BY <1>1, <1>2 DEF HeldKeepsLineage
<1> QED
  BY <1>1, <1>2, <1>3, SameRecords, SameRecordsKeepLineage, SameDocKept, OthersComplete
     DEF ChainInv

LEMMA RepairKeeps ==
  ASSUME ChainInv, (\E x \in Docs : RepairStep(x)) \/ UNCHANGED vars, NEW e \in Docs
  PROVE  DocKept(e)
<1>1. CASE UNCHANGED <<files, rows>>
  BY <1>1, SameDocKept
<1>2. ASSUME NEW x \in Docs, RepairWrite(x)
      PROVE  DocKept(e)
  <2>1. rlin[x] \in DocOrNone
    BY DEF ChainInv, TypeInv, TypeOK
  <2> QED
    BY <1>2, <2>1, LineageOfRowKept DEF RepairWrite, ChainInv, DocKept
<1> QED
  BY <1>1, <1>2 DEF RepairStep, RepairRead, RepairGet, RepairFails, stores, vars

LEMMA IdleComplete ==
  ASSUME ChainInv, CompleteInv, (\E x \in Docs : RepairStep(x)) \/ UNCHANGED vars
  PROVE  CompleteInv'
<1>1. UNCHANGED <<files, pids, pc, req>>
  BY DEF RepairStep, RepairRead, RepairGet, RepairWrite, RepairFails, stores, vars
<1>2. \A e \in Docs : DocKept(e)
  BY RepairKeeps
<1>3. ASSUME NEW e \in Docs  PROVE FileAndRow(e)'
  BY <1>1, <1>2, SameRecords, DocGoesOn DEF CompleteInv
<1>4. \A x \in Docs : pids'[x] # None => KeepsLineage(pids'[x])
  BY <1>1 DEF CompleteInv
<1>5. \A a \in Actors : HeldKeepsLineage(a)'
  BY <1>1 DEF CompleteInv, HeldKeepsLineage
<1> QED
  BY <1>3, <1>4, <1>5 DEF CompleteInv, KeepsLineage

LEMMA NextComplete ==
  ASSUME ChainInv, AppendInv, CompleteInv, [Next]_vars
  PROVE  CompleteInv'
<1>1. ASSUME NEW d \in Docs, CreateStep(d)  PROVE CompleteInv'
  BY <1>1, UnstoredComplete, StoreFileComplete, ReadParentComplete, ReadLineageComplete,
     SaveRowComplete, UpdateParentRowComplete, LinkComplete, SavePidComplete, CleanComplete
     DEF CreateStep, Checks
<1> QED
  BY <1>1, UnstoredComplete, StartPatchComplete, MetaComplete, CrashComplete, IdleComplete
     DEF Next, Quiescent

LEMMA InitComplete == Init => CompleteInv
BY DEF Init, CompleteInv, FileAndRow, RowAgreesWith, HeldKeepsLineage, Stored, InRows, Listed,
       Holding, Publishing, MetaSteps, Actors

\* A create request that answered success keeps its file, its row, its Handle record and
\* the way to its lineage, whatever other requests on the same chain do afterwards: their
\* failures, clean-ups, crashes and rewrites of whole records never reach into it.
THEOREM AcknowledgedDocumentsAreComplete == Spec => []AcknowledgedIsComplete
<1>1. ChainInv /\ CompleteInv => AcknowledgedIsComplete
  <2> SUFFICES ASSUME ChainInv, CompleteInv, NEW d \in Docs, pc[d] = "done"
               PROVE  /\ d \in files
                      /\ rows[d] # None /\ pids[d] # None
                      /\ rows[d].version = pids[d].version
                      /\ rows[d].parent # None => lins[pids[d].lineage] # None
    BY DEF AcknowledgedIsComplete
  <2>1. /\ d \in files /\ rows[d] # None /\ pids[d] # None
        /\ rows[d].version = pids[d].version /\ rows[d].parent = pids[d].parent
    BY DEF CompleteInv, FileAndRow, RowAgreesWith, Stored, InRows, Listed
  <2>2. pids[d].parent # None => pids[d].lineage # None
    BY <2>1 DEF CompleteInv, KeepsLineage
  <2>3. pids[d].lineage # None => lins[pids[d].lineage] # None
    BY <2>1 DEF ChainInv, StoresTruthful, PidTruthful, Truthful, Opened
  <2> QED
    BY <2>1, <2>2, <2>3
<1>2. ChainInv /\ AppendInv /\ CompleteInv /\ [Next]_vars => AppendInv' /\ CompleteInv'
  BY NextAppend, NextComplete
<1> QED
  BY <1>1, <1>2, InitAppend, InitComplete, ChainInvariant, PTL DEF Spec

-----------------------------------------------------------------------------
(* Published documents are backed, as long as no answer is lost *)

Safe == Listed \cup {"failed"}

\* A request that has published its document has nothing left to clean up.
BackedInv == PidIsBacked /\ \A x \in Docs : pids[x] # None => pc[x] \in Safe

LEMMA SafeStaysSafe ==
  ASSUME TypeInv, [Next]_vars, NEW x \in Docs, pc[x] \in Safe
  PROVE  pc'[x] \in Safe
<1>1. CASE UNCHANGED pc
  BY <1>1
<1>2. ASSUME NEW a \in Actors, NEW step, NEW r, Goto(a, step, r), a = x => step \in Safe
      PROVE  pc'[x] \in Safe
  BY <1>2, GotoFrame DEF Actors
<1>3. x \notin Patchers /\ pc[x] \notin CreateSteps \cup CleanSteps \cup {"idle"}
  BY PublishAssumption DEF Safe, Listed, MetaSteps, CreateSteps, CleanSteps, Actors
<1>4. ASSUME NEW d \in Docs, NEW p \in DocOrNone, NEW m \in {d, None}, StartCreate(d, p, m)
      PROVE  pc'[x] \in Safe
  BY <1>2, <1>3, <1>4 DEF StartCreate, Actors
<1>5. ASSUME NEW q \in Patchers, NEW y \in Docs, StartPatch(q, y)
      PROVE  pc'[x] \in Safe
  BY <1>2, <1>3, <1>5 DEF StartPatch, Actors
<1>6. ASSUME NEW d \in Docs, CreateStep(d)
      PROVE  pc'[x] \in Safe
  <2>1. /\ pc[d] \in CreateSteps \cup CleanSteps /\ d \in Actors
        /\ \E step, r : Goto(d, step, r)
    BY <1>6 DEF CreateStep, Authorise, FindLineage, FindFirst, Refuse, CheckSteps, StoreFile,
       ReadParent, ReadLineage, ReadFails,
       OpenLineage, SaveRow, UpdateParentRow, SaveLineage, UpdateParentPid, UpdateLineage,
       SavePid, CleanFile, CleanRow, RevertRow, CreateSteps, CleanSteps, Actors
  <2> QED
    BY <1>2, <1>3, <2>1
<1>7. ASSUME NEW a \in Actors, MetaStep(a) \/ Crash(a)
      PROVE  pc'[x] \in Safe
  <2>1. {"writeMeta", "done", "failed", MetaFailed(a)} \subseteq Safe
    BY DEF MetaFailed, Safe, Listed, MetaSteps
  <2> QED
    BY <1>2, <1>7, <2>1 DEF MetaStep, ReadMeta, WriteMeta, Crash
<1> QED
  BY <1>1, <1>4, <1>5, <1>6, <1>7
     DEF Next, RepairStep, RepairRead, RepairGet, RepairWrite, RepairFails, Quiescent, vars

\* Only a request that is storing or cleaning up its own document disturbs it.
LEMMA PublishedKept ==
  ASSUME ChainInv, [Next]_vars, NEW x \in Docs, pc[x] \in Safe
  PROVE  DocKept(x)
<1>1. pc[x] \notin {"saveRow"} \cup CleanSteps
  BY DEF Safe, Listed, MetaSteps, CleanSteps
<1>2. CASE UNCHANGED <<files, rows>>
  BY <1>2, SameDocKept
<1>3. ASSUME NEW d \in Docs, CreateStep(d)
      PROVE  DocKept(x)
  BY <1>1, <1>3, DocsKept
<1> QED
  BY <1>2, <1>3, RepairKeeps
     DEF Next, StartCreate, StartPatch, MetaStep, ReadMeta, WriteMeta, Crash, Quiescent, stores

\* A document is published by the step that ends its creation.
LEMMA PublishedBySavePid ==
  ASSUME ChainInv, AppendInv, [Next]_vars, "lost" \notin Faults,
         NEW x \in Docs, pids[x] = None, pids'[x] # None
  PROVE  /\ pc[x] = "savePid" /\ pids'[x] = NewPid(req[x])
         /\ UNCHANGED <<rows, files>> /\ pc'[x] \in {"done", "readMeta"}
<1>1. PICK d \in Docs : SavePid(d)
  <2>1. ~NothingNew
    BY DEF NothingNew
  <2>2. \A d \in Docs : CreateStep(d) => SavePid(d)
    BY <2>1, QuietAppend, ReadParentAppend, ReadLineageAppend, RowAppend, LinkAppend,
       SameRecords DEF CreateStep, Checks
  <2>3. ~ \E a \in Actors : MetaStep(a)
    BY <2>1, MetaAppend
  <2>4. ~ UNCHANGED pids
    BY <2>1, SameRecords
  <2> QED
    BY <2>2, <2>3, <2>4
       DEF Next, StartCreate, StartPatch, Crash, RepairStep, RepairRead, RepairGet, RepairWrite,
           RepairFails, Quiescent, stores, vars
<1>2. \E step \in {"done", "readMeta"} : \E r :
        Goto(d, step, r) /\ pids' = [pids EXCEPT ![d] = NewPid(req[d])]
  BY <1>1 DEF SavePid, FailedWrite
<1>3. pids \in [Docs -> DocumentPid \cup {None}] /\ d \in Actors
  BY DEF ChainInv, TypeInv, TypeOK, Actors
<1>4. x = d
  BY <1>2, <1>3
<1> QED
  BY <1>1, <1>2, <1>3, <1>4, GotoFrame DEF SavePid, ChainInv

LEMMA NextBacked ==
  ASSUME ChainInv, AppendInv, CompleteInv, BackedInv, [Next]_vars, "lost" \notin Faults
  PROVE  BackedInv'
<1> SUFFICES ASSUME NEW x \in Docs, pids'[x] # None
             PROVE  /\ pc'[x] \in Safe /\ x \in files' /\ rows'[x] # None
                    /\ rows'[x].version = pids'[x].version
                    /\ rows'[x].parent = pids'[x].parent
  BY DEF BackedInv, PidIsBacked
<1>1. CASE pids[x] # None
  <2>1. /\ pc[x] \in Safe /\ x \in files /\ rows[x] # None
        /\ rows[x].version = pids[x].version /\ rows[x].parent = pids[x].parent
    BY <1>1 DEF BackedInv, PidIsBacked
  <2>2. pids'[x].version = pids[x].version /\ pids'[x].parent = pids[x].parent
    <3>1. Stays \/ \E d \in Docs : Adds(d)
      BY NextAppend
    <3>2. pids \in [Docs -> DocumentPid \cup {None}]
      BY DEF ChainInv, TypeInv, TypeOK
    <3> QED
      BY <1>1, <3>1, <3>2 DEF Stays, Adds
  <2> QED
    BY <2>1, <2>2, SafeStaysSafe, PublishedKept DEF ChainInv, DocKept
<1>2. CASE pids[x] = None
  <2>1. /\ pc[x] = "savePid" /\ pids'[x] = NewPid(req[x])
        /\ UNCHANGED <<rows, files>> /\ pc'[x] \in {"done", "readMeta"}
    BY <1>2, PublishedBySavePid
  <2>2. /\ x \in files /\ rows[x] # None
        /\ rows[x].version = NewVersion(req[x]) /\ rows[x].parent = req[x].parent
    BY <2>1, RowOfPublishing DEF CompleteInv, FileAndRow, Stored, Publishing
  <2> QED
    BY <2>1, <2>2 DEF NewPid, Safe, Listed, MetaSteps
<1> QED
  BY <1>1, <1>2

\* Whoever resolves a PID finds its document: as long as a call that reports an error has
\* not taken effect, no failure, crash or clean-up leaves a Handle record without its file
\* and a row that agrees with it.
THEOREM PublishedDocumentsAreBacked ==
  ASSUME "lost" \notin Faults
  PROVE  Spec => []PidIsBacked
<1>1. Init => BackedInv
  BY DEF Init, BackedInv, PidIsBacked
<1>2. ChainInv /\ AppendInv /\ CompleteInv /\ BackedInv /\ [Next]_vars
        => AppendInv' /\ CompleteInv' /\ BackedInv'
  BY NextAppend, NextComplete, NextBacked
<1>3. BackedInv => PidIsBacked
  BY DEF BackedInv
<1> QED
  BY <1>1, <1>2, <1>3, InitAppend, InitComplete, ChainInvariant, PTL DEF Spec

===============================================================================
