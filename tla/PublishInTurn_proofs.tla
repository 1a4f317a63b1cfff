------------------------- MODULE PublishInTurn_proofs -------------------------
(***************************************************************************)
(* Proofs about publication as long as requests have not overlapped: each  *)
(* request finds the end of a chain and still has it when it writes, also  *)
(* after failures, lost answers and crashes of the requests before it.     *)
(***************************************************************************)
EXTENDS PublishInTurn, DocumentPublish_proofs, FiniteSetTheorems

OneActive == \A a, b \in Active : a = b

\* No other request is under way than a.
Rests(a) == \A b \in Actors \ {a} : pc[b] \in {"idle"} \cup EndSteps

Latest(x) == lins[pids[x].lineage].latest

\* The lineage record is as far as the documents that name it, and farther than parents.
TipsTracked ==
  \A x \in Docs : pids[x] # None =>
    /\ pids[x].lineage # None => Latest(x) >= pids[x].version
    /\ pids[x].parent = None => pids[x].version = 1
    /\ pids[x].parent # None =>
         /\ pids[pids[x].parent] # None /\ pids[pids[x].parent].lineage # None
         /\ Latest(pids[x].parent) > pids[pids[x].parent].version

NoChild(x) == \A y \in Docs : pids[y] # None => pids[y].parent # x
NoneIn(l)  == \A y \in Docs : pids[y] # None => pids[y].lineage # l

Advanced == {"updateLineage", "savePid"}

\* A create request holds the end of the chain from the reading of its parent to
\* the writing of its own record.
HoldsTip(d, step, r) ==
  r.parent # None =>
    /\ step = "readLineage" => r.held = pids[r.parent]
    /\ step \in Publishing =>
         /\ NoChild(r.parent)
         /\ r.heldLin.latest = pids[r.parent].version + 1
         /\ r.heldLin.last = d /\ r.held.succ = d
         /\ step \in Advanced => pids[r.parent] = r.held
         /\ step \notin Advanced =>
              IF r.lineage = d THEN pids[r.parent].lineage = None /\ NoneIn(d)
                               ELSE pids[r.parent].lineage = r.lineage
         /\ r.lineage # d \/ step \in Linked =>
              lins[r.lineage].latest \in {r.heldLin.latest - 1, r.heldLin.latest}
         /\ step = "savePid" => lins[r.lineage] = r.heldLin

HoldsMeta(step, r) == step = "writeMeta" => r.held = pids[r.doc]

TipHeld ==
  /\ TipsTracked
  /\ \A d \in Docs : HoldsTip(d, pc[d], req[d])
  /\ \A a \in Actors : HoldsMeta(pc[a], req[a])

-----------------------------------------------------------------------------
(* One request at a time *)

LEMMA OthersRest ==
  ASSUME TypeInv, OneActive, NEW a \in Actors, a \in Active
  PROVE  Rests(a)
BY DEF OneActive, Rests, Active

\* Whoever starts is alone as well.
LEMMA StarterRests ==
  ASSUME TypeInv, OneActive', NEW a \in Actors, NEW step, NEW r, Goto(a, step, r),
         step \notin {"idle"} \cup EndSteps
  PROVE  Rests(a)
BY GotoFrame DEF OneActive, Rests, Active

LEMMA RestingHolds ==
  ASSUME TypeInv, NEW a \in Actors, Rests(a),
         \A b \in Actors \ {a} : pc'[b] = pc[b] /\ req'[b] = req[b],
         TipsTracked', a \in Docs => HoldsTip(a, pc[a], req[a])',
         HoldsMeta(pc[a], req[a])'
  PROVE  TipHeld'
<1>1. ASSUME NEW d \in Docs  PROVE HoldsTip(d, pc[d], req[d])'
  <2>1. CASE d # a
    <3>1. d \in Actors /\ CreateLocals(d, pc[d], req[d])
      BY RunningLocals
    <3>2. req'[d].parent = None
      BY <2>1, <3>1 DEF Rests, CreateLocals, NoRequest
    <3> QED
      BY <3>2 DEF HoldsTip
  <2> QED
    BY <2>1
<1>2. ASSUME NEW b \in Actors  PROVE HoldsMeta(pc[b], req[b])'
  BY <1>2 DEF Rests, HoldsMeta, EndSteps
<1> QED
  BY <1>1, <1>2 DEF TipHeld

LEMMA RunningIsActive ==
  ASSUME TypeInv, NEW a \in Actors,
         pc[a] \in CreateSteps \cup CleanSteps \cup MetaSteps
  PROVE  a \in Active
BY DEF Active, CreateSteps, CleanSteps, MetaSteps, EndSteps

\* At most one request moves in a step.
LEMMA OneMoves ==
  ASSUME TypeInv, [Next]_vars
  PROVE  \/ UNCHANGED <<pc, req>>
         \/ \E a \in Actors : \A b \in Actors \ {a} : pc'[b] = pc[b] /\ req'[b] = req[b]
<1>1. ASSUME NEW a \in Actors, NEW step, NEW r, Goto(a, step, r)
      PROVE  \A b \in Actors \ {a} : pc'[b] = pc[b] /\ req'[b] = req[b]
  BY <1>1, GotoFrame
<1>2. ASSUME NEW d \in Docs, NEW p \in DocOrNone, NEW m \in {d, None}, StartCreate(d, p, m)
      PROVE  \E a \in Actors : \A b \in Actors \ {a} : pc'[b] = pc[b] /\ req'[b] = req[b]
  BY <1>1, <1>2 DEF StartCreate, Actors
<1>3. ASSUME NEW q \in Patchers, NEW y \in Docs, StartPatch(q, y)
      PROVE  \E a \in Actors : \A b \in Actors \ {a} : pc'[b] = pc[b] /\ req'[b] = req[b]
  BY <1>1, <1>3 DEF StartPatch, Actors
<1>4. ASSUME NEW d \in Docs, CreateStep(d)
      PROVE  \E a \in Actors : \A b \in Actors \ {a} : pc'[b] = pc[b] /\ req'[b] = req[b]
  <2>1. d \in Actors /\ \E step, r : Goto(d, step, r)
    BY <1>4 DEF CreateStep, Authorise, FindLineage, FindFirst, Refuse, StoreFile, ReadParent, ReadLineage, ReadFails,
       OpenLineage, SaveRow, UpdateParentRow, SaveLineage, UpdateParentPid, UpdateLineage,
       SavePid, CleanFile, CleanRow, RevertRow, Actors
  <2> QED
    BY <1>1, <2>1
<1>5. ASSUME NEW a \in Actors, MetaStep(a) \/ Crash(a)
      PROVE  \E c \in Actors : \A b \in Actors \ {c} : pc'[b] = pc[b] /\ req'[b] = req[b]
  <2>1. \E step, r : Goto(a, step, r)
    BY <1>5 DEF MetaStep, ReadMeta, WriteMeta, Crash
  <2> QED
    BY <1>1, <2>1
<1> QED
  BY <1>2, <1>3, <1>4, <1>5
     DEF Next, RepairStep, RepairRead, RepairGet, RepairWrite, RepairFails, Quiescent, vars

LEMMA StillOneActive ==
  ASSUME TypeInv, OneActive, TurnNext, ~overlapped'
  PROVE  OneActive'
<1>1. PICK c : Active' \subseteq Active \cup {c}
  BY OneMoves DEF TurnNext, Active
<1>2. IsFiniteSet(Active')
  <2>1. \E e : Active \subseteq {e}
    BY DEF OneActive
  <2>2. PICK e : Active' \subseteq {c, e}
    BY <1>1, <2>1
  <2>3. IsFiniteSet({c, e})
    <3>1. IsFiniteSet({c}) /\ {c, e} = {c} \cup {e}
      BY FS_Singleton
    <3> QED
      BY <3>1, FS_AddElement
  <2> QED
    BY <2>2, <2>3, FS_Subset
<1>3. ~(Cardinality(Active') > 1)
  BY DEF TurnNext
<1>4. ASSUME NEW a \in Active', NEW b \in Active', a # b  PROVE FALSE
  <2>1. /\ IsFiniteSet({a}) /\ Cardinality({a}) = 1 /\ {a, b} = {a} \cup {b} /\ b \notin {a}
    BY <1>4, FS_Singleton
  <2>2. Cardinality({a, b}) = 2
    BY <2>1, FS_AddElement
  <2>3. {a, b} \in SUBSET Active'
    OBVIOUS
  <2>4. Cardinality({a, b}) <= Cardinality(Active')
    BY <1>2, <2>3, FS_Subset
  <2>5. Cardinality(Active') \in Nat
    BY <1>2, FS_CardinalityType
  <2> QED
    BY <1>3, <2>2, <2>4, <2>5
<1> QED
  BY <1>4 DEF OneActive

-----------------------------------------------------------------------------
(* The end of a chain stays with the request that holds it *)

\* A lineage record never goes back.
LineagesGrow ==
  \A l \in Docs : lins[l] # None => lins'[l] # None /\ lins'[l].latest >= lins[l].latest

LEMMA LineageOfRecord ==
  ASSUME ChainInv, NEW x \in Docs, pids[x] # None, pids[x].lineage # None
  PROVE  /\ pids[x].lineage \in Docs
         /\ lins[pids[x].lineage] # None /\ lins[pids[x].lineage] \in LineagePid
BY ChainTypes DEF ChainInv, StoresTruthful, PidTruthful, Truthful, Opened, DocumentPid, DocOrNone

\* Rewriting published documents with their lineage keeps them behind its record.
LEMMA TrackedKept ==
  ASSUME ChainInv, TipsTracked, LineagesGrow, Stays, NothingNew,
         lins' \in [Docs -> LineagePid \cup {None}],
         \A x \in Docs : pids[x] # None => pids'[x].lineage = pids[x].lineage
  PROVE  TipsTracked'
<1> SUFFICES ASSUME NEW x \in Docs, pids'[x] # None
             PROVE  /\ pids'[x].lineage # None => Latest(x)' >= pids'[x].version
                    /\ pids'[x].parent = None => pids'[x].version = 1
                    /\ pids'[x].parent # None =>
                         /\ pids'[pids'[x].parent] # None
                         /\ pids'[pids'[x].parent].lineage # None
                         /\ lins'[pids'[pids'[x].parent].lineage].latest
                              > pids'[pids'[x].parent].version
  BY DEF TipsTracked, Latest
<1>1. ASSUME NEW y \in Docs, pids[y] # None
      PROVE  /\ pids'[y] # None /\ pids'[y].lineage = pids[y].lineage
             /\ pids'[y].version = pids[y].version /\ pids'[y].parent = pids[y].parent
             /\ pids[y] \in DocumentPid
             /\ pids[y].lineage # None =>
                  Latest(y)' >= Latest(y) /\ Latest(y) \in Nat /\ Latest(y)' \in Nat
  <2>1. pids[y] \in DocumentPid
    BY <1>1, ChainTypes DEF ChainInv
  <2>2. ASSUME pids[y].lineage # None
        PROVE  Latest(y)' >= Latest(y) /\ Latest(y) \in Nat /\ Latest(y)' \in Nat
    <3> DEFINE l == pids[y].lineage
    <3>1. l \in Docs /\ lins[l] # None /\ lins[l] \in LineagePid
      BY <1>1, <2>2, LineageOfRecord
    <3>2. lins'[l] # None /\ lins'[l] \in LineagePid /\ lins'[l].latest >= lins[l].latest
      BY <3>1 DEF LineagesGrow
    <3>3. pids'[y].lineage = l
      BY <1>1
    <3> QED
      BY <3>1, <3>2, <3>3 DEF Latest, LineagePid
  <2> QED
    BY <1>1, <2>1, <2>2 DEF Stays
<1>2. pids[x] # None
  BY DEF NothingNew
<1>3. pids[x].parent # None => pids[x].parent \in Docs
  BY <1>1, <1>2 DEF DocumentPid, DocOrNone
<1>4. CASE pids[x].parent = None
  BY <1>1, <1>2, <1>4 DEF TipsTracked, DocumentPid
<1>5. CASE pids[x].parent # None
  <2> PICK p \in Docs : p = pids[x].parent
    BY <1>3, <1>5
  <2>1. pids[p] # None /\ pids[p].lineage # None /\ Latest(p) > pids[p].version
    BY <1>2, <1>5 DEF TipsTracked
  <2>2. /\ pids'[p] # None /\ pids'[p].lineage # None /\ pids'[p].version = pids[p].version
        /\ Latest(p)' >= Latest(p) /\ Latest(p) \in Nat /\ Latest(p)' \in Nat
        /\ pids[p].version \in Nat
    BY <1>1, <2>1 DEF DocumentPid
  <2>3. Latest(p)' > pids'[p].version
    BY <2>1, <2>2
  <2>4. pids'[x].lineage # None => Latest(x)' >= pids'[x].version
    BY <1>1, <1>2 DEF TipsTracked, DocumentPid
  <2> QED
    BY <1>1, <1>2, <1>5, <2>2, <2>3, <2>4 DEF Latest
<1> QED
  BY <1>4, <1>5

LEMMA SameLineages == UNCHANGED lins /\ ChainInv => LineagesGrow
BY ChainTypes DEF LineagesGrow, ChainInv, LineagePid

LEMMA TrackedUnchanged ==
  ASSUME TipsTracked, UNCHANGED <<pids, lins>>
  PROVE  TipsTracked'
BY DEF TipsTracked, Latest

\* A request goes where it does not hold the end of a chain.
LEMMA LetsGo ==
  ASSUME TypeInv, TipsTracked', NEW a \in Actors, Rests(a), NEW step, NEW r, Goto(a, step, r),
         step \notin {"readLineage", "writeMeta"} \cup Publishing
  PROVE  TipHeld'
<1>1. pc'[a] = step /\ \A b \in Actors \ {a} : pc'[b] = pc[b] /\ req'[b] = req[b]
  BY GotoFrame
<1> QED
  BY <1>1, RestingHolds DEF HoldsTip, HoldsMeta, Publishing

\* A create request holds the end of its chain.
LEMMA HoldsOn ==
  ASSUME TypeInv, TipsTracked', NEW d \in Docs, Rests(d), NEW step, NEW r, Goto(d, step, r),
         step \in {"readLineage"} \cup Publishing,
         req'[d] = r => HoldsTip(d, pc[d], req[d])'
  PROVE  TipHeld'
<1>1. /\ pc'[d] = step /\ req'[d] = r /\ d \in Actors
      /\ \A b \in Actors \ {d} : pc'[b] = pc[b] /\ req'[b] = req[b]
  BY GotoFrame, ChainTypes DEF EndSteps, Publishing
<1> QED
  BY <1>1, RestingHolds DEF HoldsMeta, Publishing

LEMMA QuietTip ==
  ASSUME ChainInv, TipHeld, NEW d \in Docs, Rests(d),
         (\E p \in DocOrNone, m \in {d, None} : StartCreate(d, p, m))
           \/ Checks(d) \/ StoreFile(d) \/ ReadFails(d)
           \/ CleanFile(d) \/ CleanRow(d) \/ RevertRow(d)
  PROVE  TipHeld'
<1>1. UNCHANGED <<pids, lins>>
  BY CheckOutcome DEF ChainInv, StartCreate, StoreFile, ReadFails, CleanFile, CleanRow,
         RevertRow, stores
<1>2. PICK step, r : /\ Goto(d, step, r)
                     /\ \/ step \notin {"readLineage", "writeMeta"} \cup Publishing
                        \/ step = "saveRow" /\ r = req[d] /\ r.parent = None
  <2>1. CASE \E p \in DocOrNone, m \in {d, None} : StartCreate(d, p, m)
    <3>1. \E step \in {"store", "authorise"} : \E r : Goto(d, step, r)
      BY <2>1 DEF StartCreate
    <3> QED
      BY <3>1 DEF Publishing
  <2>2. CASE StoreFile(d)
    BY <2>2 DEF StoreFile, Publishing
  <2>3. CASE ReadFails(d)
    BY <2>3 DEF ReadFails, Publishing
  <2>5. CASE Checks(d)
    <3>1. \E step \in {"store", "failed", "findLineage", "findFirst"} : \E r : Goto(d, step, r)
      BY <2>5, CheckOutcome DEF ChainInv
    <3> QED
      BY <3>1 DEF Publishing
  <2>4. CASE CleanFile(d) \/ CleanRow(d) \/ RevertRow(d)
    BY <2>4 DEF CleanFile, CleanRow, RevertRow, Publishing
  <2> QED
    BY <2>1, <2>2, <2>3, <2>4, <2>5
<1>3. TipsTracked' /\ d \in Actors
  BY <1>1, TrackedUnchanged DEF TipHeld, Actors
<1>4. CASE step \notin {"readLineage", "writeMeta"} \cup Publishing
  BY <1>2, <1>3, <1>4, LetsGo DEF ChainInv
<1>5. CASE step = "saveRow" /\ r = req[d] /\ r.parent = None
  BY <1>2, <1>3, <1>5, HoldsOn DEF ChainInv, HoldsTip, Publishing
<1> QED
  BY <1>2, <1>4, <1>5

\* A new lineage for a first document without a child
LEMMA OpenLineageTip ==
  ASSUME ChainInv, TipHeld, NEW d \in Docs, Rests(d), UNCHANGED <<pids, lins>>,
         pc[d] \in BeforeRow, req[d].parent \in Docs,
         pids[req[d].parent] # None, pids[req[d].parent].lineage = None,
         pids[req[d].parent].version = 1,
         OpenLineage(d, pids[req[d].parent])
  PROVE  TipHeld'
<1> DEFINE p == req[d].parent
           held == [pids[p] EXCEPT !.lineage = d, !.succ = d]
           lin == [first |-> p, last |-> d, latest |-> 2]
           r == [req[d] EXCEPT !.held = held, !.heldLin = lin, !.lineage = d]
<1>1. TipsTracked' /\ d \in Actors /\ req[d] \in Request /\ pids[p] \in DocumentPid
  BY TrackedUnchanged, ChainTypes DEF TipHeld, ChainInv
<1>2. held.succ = d /\ lin.latest = 2 /\ lin.last = d
  BY <1>1 DEF DocumentPid
<1>3. Goto(d, "saveRow", r)
  BY DEF OpenLineage
<1> HIDE DEF held, lin
<1>4. r.parent = p /\ r.held = held /\ r.heldLin = lin /\ r.lineage = d
  BY <1>1 DEF Request
<1> HIDE DEF r
<1>5. NoChild(p)
  BY PublishAssumption DEF NoChild, TipHeld, TipsTracked, Actors
<1>6. NoneIn(d)
  <2>1. lins[d] = None
    BY DEF ChainInv, StoresTruthful, LineageOpened
  <2> QED
    BY <2>1, LineageOfRecord, PublishAssumption DEF NoneIn, Actors
<1>7. NoneIn(d)' /\ \A y \in Docs : pids'[y] # None => pids'[y].parent # p
  BY <1>5, <1>6 DEF NoChild, NoneIn
<1>8. ASSUME req'[d] = r, pc'[d] = "saveRow"
      PROVE  HoldsTip(d, pc[d], req[d])'
  BY <1>2, <1>4, <1>7, <1>8 DEF HoldsTip, NoChild, Publishing, Linked, Advanced
<1>9. pc'[d] = "saveRow"
  BY <1>1, <1>3, GotoFrame DEF ChainInv
<1> QED
  BY <1>1, <1>3, <1>8, <1>9, HoldsOn DEF ChainInv, Publishing

LEMMA ReadParentTip ==
  ASSUME ChainInv, TipHeld, NEW d \in Docs, Rests(d), ReadParent(d)
  PROVE  TipHeld'
<1> DEFINE p == req[d].parent  r == [req[d] EXCEPT !.held = pids[p]]
<1>1. /\ UNCHANGED <<pids, lins>> /\ pc[d] \in BeforeRow /\ d \in Actors
      /\ req[d] \in Request /\ p \in Docs /\ TipsTracked'
  BY RunningLocals, TrackedUnchanged, PublishAssumption
  DEF ReadParent, stores, ChainInv, CreateLocals, WithParent, Request, DocOrNone,
      BeforeRow, TipHeld, Actors
<1>2. CASE Goto(d, "readLineage", r)
  <2>1. r.parent = p /\ r.held = pids[p]
    BY <1>1 DEF Request
  <2> HIDE DEF r
  <2>2. pc'[d] = "readLineage"
    BY <1>1, <1>2, GotoFrame DEF ChainInv
  <2>3. req'[d] = r => HoldsTip(d, pc[d], req[d])'
    BY <1>1, <2>1, <2>2 DEF HoldsTip, Publishing
  <2> QED
    BY <1>1, <1>2, <2>3, HoldsOn DEF ChainInv
<1>3. CASE /\ pids[p] # None /\ pids[p].lineage = None /\ pids[p].version = 1
           /\ OpenLineage(d, pids[p])
  BY <1>1, <1>3, OpenLineageTip
<1>4. CASE Goto(d, "cleanFile", req[d])
  BY <1>1, <1>4, LetsGo DEF ChainInv, Publishing
<1> QED
  BY <1>2, <1>3, <1>4 DEF ReadParent

\* A document whose version the lineage record still names as the latest has no child.
LEMMA ReadLineageTip ==
  ASSUME ChainInv, AppendInv, TipHeld, NEW d \in Docs, Rests(d), ReadLineage(d)
  PROVE  TipHeld'
<1>1. /\ UNCHANGED <<pids, lins>> /\ pc[d] = "readLineage" /\ d \in Actors
      /\ req[d] \in Request /\ TipsTracked' /\ CreateLocals(d, pc[d], req[d])
      /\ req[d].parent \in Docs /\ req[d].parent # None
  BY RunningLocals, TrackedUnchanged, PublishAssumption
  DEF ReadLineage, stores, ChainInv, CreateLocals, WithParent, Request, DocOrNone,
      TipHeld, Actors
<1> PICK p \in Docs : p = req[d].parent
  BY <1>1
<1>2. /\ req[d].held = pids[p] /\ pids[p] # None /\ pids[p].lineage # None
      /\ pids[p] \in DocumentPid
  BY <1>1, ChainTypes
     DEF TipHeld, HoldsTip, CreateLocals, AppendInv, HoldsParent, Holding, SameDocument, ChainInv
<1> PICK l \in Docs : l = pids[p].lineage
  BY <1>2, LineageOfRecord
<1>3. lins[l] # None /\ lins[l] \in LineagePid
  BY <1>2, LineageOfRecord
<1>4. CASE /\ lins[l].latest <= pids[p].version
           /\ Goto(d, "saveRow",
                   [req[d] EXCEPT !.held = [pids[p] EXCEPT !.succ = d],
                                  !.heldLin = [lins[l] EXCEPT !.last = d,
                                                              !.latest = lins[l].latest + 1],
                                  !.lineage = l])
  <2> DEFINE held == [pids[p] EXCEPT !.succ = d]
             lin == [lins[l] EXCEPT !.last = d, !.latest = lins[l].latest + 1]
             r == [req[d] EXCEPT !.held = held, !.heldLin = lin, !.lineage = l]
  <2>1. /\ held.succ = d /\ lin.latest = lins[l].latest + 1 /\ lin.last = d
    BY <1>2, <1>3 DEF DocumentPid, LineagePid
  <2> HIDE DEF held, lin
  <2>2. r.parent = p /\ r.held = held /\ r.heldLin = lin /\ r.lineage = l
    BY <1>1 DEF Request
  <2> HIDE DEF r
  <2>3. Goto(d, "saveRow", r)
    BY <1>4 DEF r, held, lin
  <2>4. lins[l].latest = pids[p].version /\ lins[l].latest \in Nat
    BY <1>2, <1>3, <1>4 DEF TipHeld, TipsTracked, Latest, LineagePid, DocumentPid
  <2>5. \A y \in Docs : pids'[y] # None => pids'[y].parent # p
    BY <1>1, <1>2, <2>4, PublishAssumption DEF TipHeld, TipsTracked, Latest, Actors
  <2>6. l # d
    BY <1>1, <1>3 DEF ChainInv, StoresTruthful, LineageOpened, BeforeRow
  <2>7. pc'[d] = "saveRow"
    BY <1>1, <2>3, GotoFrame DEF ChainInv
  <2>8. lin.latest = pids'[p].version + 1 /\ lins'[l].latest \in {lin.latest - 1, lin.latest}
    BY <1>1, <2>1, <2>4
  <2>9. pids'[p].lineage = l
    BY <1>1
  <2>10. ASSUME req'[d] = r  PROVE HoldsTip(d, pc[d], req[d])'
    BY <2>1, <2>2, <2>5, <2>6, <2>7, <2>8, <2>9, <2>10
       DEF HoldsTip, NoChild, Publishing, Linked, Advanced
  <2> QED
    BY <1>1, <2>3, <2>10, HoldsOn DEF ChainInv, Publishing
<1>5. CASE Goto(d, "cleanFile", req[d])
  BY <1>1, <1>5, LetsGo DEF ChainInv, Publishing
<1> QED
  BY <1>2, <1>3, <1>4, <1>5 DEF ReadLineage

\* A write to the database, or the first write of a lineage, on the way to the others
LEMMA RowTip ==
  ASSUME ChainInv, TipHeld, NEW d \in Docs, Rests(d), SaveRow(d) \/ UpdateParentRow(d)
  PROVE  TipHeld'
<1>1. /\ UNCHANGED <<pids, lins>> /\ pc[d] \in {"saveRow", "updateParentRow"}
      /\ pc[d] \in Publishing /\ d \in Actors /\ req[d] \in Request /\ TipsTracked'
  BY RunningLocals, TrackedUnchanged
     DEF SaveRow, UpdateParentRow, Publishing, ChainInv, TipHeld
<1>2. PICK step \in {"updateParentRow", "savePid", "saveLineage", "updateParentPid",
                     "cleanFile"},
           r \in {req[d], [req[d] EXCEPT !.stored = TRUE]} :
        /\ Goto(d, step, r)
        /\ step = "updateParentPid" /\ req[d].parent # None => req[d].lineage # d
        /\ step = "savePid" => req[d].parent = None
  BY DEF SaveRow, UpdateParentRow, FinalizeStep
<1>3. /\ r.parent = req[d].parent /\ r.held = req[d].held
      /\ r.heldLin = req[d].heldLin /\ r.lineage = req[d].lineage
  BY <1>1 DEF Request
<1>4. CASE step = "cleanFile"
  BY <1>1, <1>2, <1>4, LetsGo DEF ChainInv, Publishing
<1>5. CASE step # "cleanFile"
  <2>1. pc'[d] = step
    BY <1>1, <1>2, GotoFrame DEF ChainInv
  <2>2. HoldsTip(d, pc[d], req[d])
    BY DEF TipHeld
  <2>3. ASSUME req'[d] = r  PROVE HoldsTip(d, pc[d], req[d])'
    BY <1>1, <1>2, <1>3, <1>5, <2>1, <2>2, <2>3
       DEF HoldsTip, NoChild, NoneIn, Publishing, Linked, Advanced
  <2> QED
    BY <1>1, <1>2, <1>5, <2>3, HoldsOn DEF ChainInv, Publishing
<1> QED
  BY <1>4, <1>5

LEMMA SaveLineageTip ==
  ASSUME ChainInv, ChainInv', TipHeld, NEW d \in Docs, Rests(d), SaveLineage(d)
  PROVE  TipHeld'
<1>1. /\ UNCHANGED pids /\ pc[d] = "saveLineage" /\ pc[d] \in Publishing
      /\ d \in Actors /\ req[d] \in Request /\ req[d].parent # None
      /\ lins \in [Docs -> LineagePid \cup {None}]
      /\ lins' \in [Docs -> LineagePid \cup {None}]
  BY RunningLocals
     DEF SaveLineage, Publishing, ChainInv, CreateLocals, WithParent, TypeInv, TypeOK
<1>2. lins[d] = None
  BY <1>1 DEF ChainInv, StoresTruthful, LineageOpened
<1>3. lins' = lins \/ lins' = [lins EXCEPT ![d] = req[d].heldLin]
  BY FailedWriteOutcome DEF SaveLineage
<1>4. LineagesGrow
  BY <1>1, <1>2, <1>3 DEF LineagesGrow, LineagePid
<1>5. TipsTracked'
  BY <1>1, <1>4, SameRecords, TrackedKept DEF TipHeld
<1>6. CASE Goto(d, "cleanFile", req[d])
  BY <1>1, <1>5, <1>6, LetsGo DEF ChainInv, Publishing
<1>7. CASE lins' = [lins EXCEPT ![d] = req[d].heldLin] /\ Goto(d, "updateParentPid", req[d])
  <2>1. pc'[d] = "updateParentPid" /\ req'[d] = req[d]
    BY <1>1, <1>7, GotoFrame DEF ChainInv, EndSteps
  <2>2. HoldsTip(d, pc[d], req[d]) /\ req[d].heldLin.latest \in Nat /\ req[d].lineage \in Docs
    BY <1>1, PublishingFacts DEF TipHeld
  <2>3. lins'[req[d].lineage].latest
          \in {req[d].heldLin.latest - 1, req[d].heldLin.latest}
    BY <1>1, <1>7, <2>2 DEF HoldsTip, Publishing
  <2>4. HoldsTip(d, pc[d], req[d])'
    BY <1>1, <2>1, <2>2, <2>3 DEF HoldsTip, NoChild, NoneIn, Publishing, Linked, Advanced
  <2> QED
    BY <1>1, <1>5, <1>7, <2>4, HoldsOn DEF ChainInv, Publishing
<1> QED
  BY <1>6, <1>7 DEF SaveLineage

LEMMA UpdateParentPidTip ==
  ASSUME ChainInv, AppendInv, TipHeld, NEW d \in Docs, Rests(d), UpdateParentPid(d)
  PROVE  TipHeld'
<1> DEFINE r == req[d]
<1>1. /\ UNCHANGED lins /\ pc[d] = "updateParentPid" /\ pc[d] \in Publishing
      /\ d \in Actors /\ r.parent # None /\ CreateLocals(d, pc[d], r)
      /\ pids \in [Docs -> DocumentPid \cup {None}]
  BY RunningLocals
     DEF UpdateParentPid, Publishing, ChainInv, CreateLocals, WithParent, TypeInv, TypeOK
<1>2. /\ r.parent \in Docs /\ r.lineage \in Docs /\ r.lineage # None
      /\ r.held \in DocumentPid /\ r.held # None /\ r.held.lineage = r.lineage
      /\ SameDocument(r.parent, r.held)
  BY <1>1, PublishingFacts, PublishAssumption
     DEF AppendInv, HoldsParent, Holding, CreateLocals, Actors
<1> PICK p \in Docs : p = r.parent
  BY <1>2
<1>3. /\ NoChild(p) /\ pids[p] # None /\ pids[p] \in DocumentPid
      /\ lins[r.lineage].latest \in {r.heldLin.latest - 1, r.heldLin.latest}
      /\ r.heldLin.latest = pids[p].version + 1
      /\ r.heldLin.last = d /\ r.held.succ = d
  BY <1>1, <1>2 DEF TipHeld, HoldsTip, Publishing, Linked, SameDocument
<1>4. CASE UNCHANGED pids /\ Goto(d, "cleanFile", r)
  BY <1>1, <1>4, TrackedUnchanged, LetsGo DEF ChainInv, Publishing, TipHeld
<1>5. CASE pids' = [pids EXCEPT ![p] = r.held]
  <2>1. /\ pids'[p] = r.held /\ r.held.version = pids[p].version
        /\ r.held.parent = pids[p].parent
        /\ \A x \in Docs \ {p} : pids'[x] = pids[x]
    BY <1>1, <1>2, <1>5 DEF SameDocument
  <2>2. ASSUME NEW x \in Docs, pids[x] # None, pids[x].parent # None
        PROVE  pids[x].parent \in Docs \ {p}
    BY <1>1, <1>3, <2>2 DEF NoChild, DocumentPid, DocOrNone
  <2>3. lins[r.lineage].latest >= pids[p].version
    BY <1>3 DEF DocumentPid
  <2>4. TipsTracked'
    <3> SUFFICES ASSUME NEW x \in Docs, pids'[x] # None
                 PROVE  /\ pids'[x].lineage # None =>
                             lins[pids'[x].lineage].latest >= pids'[x].version
                        /\ pids'[x].parent = None => pids'[x].version = 1
                        /\ pids'[x].parent # None =>
                             /\ pids'[pids'[x].parent] # None
                             /\ pids'[pids'[x].parent].lineage # None
                             /\ lins[pids'[pids'[x].parent].lineage].latest
                                  > pids'[pids'[x].parent].version
      BY <1>1 DEF TipsTracked, Latest
    <3>1. pids[x] # None /\ pids'[x].parent = pids[x].parent
          /\ pids'[x].version = pids[x].version
      BY <1>3, <2>1
    <3>2. pids[x].parent = None => pids[x].version = 1
      BY <3>1 DEF TipHeld, TipsTracked
    <3>3. pids'[x].lineage # None => lins[pids'[x].lineage].latest >= pids'[x].version
      BY <1>2, <2>1, <2>3, <3>1 DEF TipHeld, TipsTracked, Latest
    <3>4. ASSUME pids[x].parent # None
          PROVE  /\ pids'[pids[x].parent] # None
                 /\ pids'[pids[x].parent].lineage # None
                 /\ lins[pids'[pids[x].parent].lineage].latest
                      > pids'[pids[x].parent].version
      BY <2>1, <2>2, <3>1, <3>4 DEF TipHeld, TipsTracked, Latest
    <3> QED
      BY <3>1, <3>2, <3>3, <3>4
  <2>5. CASE Goto(d, "cleanFile", r)
    BY <1>1, <2>4, <2>5, LetsGo DEF ChainInv, Publishing
  <2>6. CASE Goto(d, "updateLineage", r)
    <3>1. pc'[d] = "updateLineage" /\ req'[d] = r
      BY <1>1, <2>6, GotoFrame DEF ChainInv, EndSteps
    <3>2. \A y \in Docs : pids'[y] # None => pids'[y].parent # p
      BY <1>3, <2>1 DEF NoChild
    <3>3. r.heldLin.latest = pids'[p].version + 1
      BY <1>3, <2>1
    <3>4. HoldsTip(d, pc[d], req[d])'
      BY <1>1, <1>3, <2>1, <3>1, <3>2, <3>3
         DEF HoldsTip, NoChild, Publishing, Linked, Advanced
    <3> QED
      BY <1>1, <2>4, <2>6, <3>4, HoldsOn DEF ChainInv, Publishing
  <2> QED
    BY <2>5, <2>6 DEF UpdateParentPid
<1> QED
  BY <1>4, <1>5, FailedWriteOutcome DEF UpdateParentPid

LEMMA UpdateLineageTip ==
  ASSUME ChainInv, ChainInv', TipHeld, NEW d \in Docs, Rests(d), UpdateLineage(d)
  PROVE  TipHeld'
<1> DEFINE r == req[d]
<1>1. /\ UNCHANGED pids /\ pc[d] = "updateLineage" /\ pc[d] \in Publishing
      /\ d \in Actors /\ r.parent # None
      /\ lins \in [Docs -> LineagePid \cup {None}]
      /\ lins' \in [Docs -> LineagePid \cup {None}]
  BY RunningLocals
     DEF UpdateLineage, Publishing, ChainInv, CreateLocals, WithParent, TypeInv, TypeOK
<1>2. /\ r.lineage \in Docs /\ r.heldLin \in LineagePid /\ r.heldLin # None
      /\ lins[r.lineage] # None /\ lins[r.lineage] \in LineagePid
  <2>1. lins[r.lineage] # None
    BY <1>1, LinkFacts DEF Opened
  <2> QED
    BY <1>1, <2>1, PublishingFacts, PublishAssumption
<1>3. HoldsTip(d, "updateLineage", r)
  BY <1>1 DEF TipHeld
<1>4. lins' = lins \/ lins' = [lins EXCEPT ![r.lineage] = r.heldLin]
  BY FailedWriteOutcome DEF UpdateLineage
<1>5. r.heldLin.latest >= lins[r.lineage].latest
  BY <1>1, <1>2, <1>3 DEF HoldsTip, Publishing, Linked, LineagePid
<1>6. LineagesGrow
  BY <1>1, <1>2, <1>4, <1>5 DEF LineagesGrow, LineagePid
<1>7. TipsTracked'
  BY <1>1, <1>6, SameRecords, TrackedKept DEF TipHeld
<1>8. CASE Goto(d, "cleanFile", r)
  BY <1>1, <1>7, <1>8, LetsGo DEF ChainInv, Publishing
<1>9. CASE lins' = [lins EXCEPT ![r.lineage] = r.heldLin] /\ Goto(d, "savePid", r)
  <2>1. pc'[d] = "savePid" /\ req'[d] = r /\ lins'[r.lineage] = r.heldLin
    BY <1>1, <1>2, <1>9, GotoFrame DEF ChainInv, EndSteps
  <2>2. HoldsTip(d, pc[d], req[d])'
    BY <1>1, <1>3, <2>1 DEF HoldsTip, NoChild, Publishing, Linked, Advanced
  <2> QED
    BY <1>1, <1>7, <1>9, <2>2, HoldsOn DEF ChainInv, Publishing
<1> QED
  BY <1>8, <1>9 DEF UpdateLineage

\* The new document is behind the lineage record, which its parent already names.
LEMMA SavePidTip ==
  ASSUME ChainInv, AppendInv, TipHeld, NEW d \in Docs, Rests(d), SavePid(d)
  PROVE  TipHeld'
<1> DEFINE r == req[d]
<1>1. /\ UNCHANGED lins /\ pc[d] = "savePid" /\ pc[d] \in Publishing
      /\ d \in Actors /\ CreateLocals(d, pc[d], r) /\ pids[d] = None
      /\ pids \in [Docs -> DocumentPid \cup {None}]
  BY RunningLocals
     DEF SavePid, Publishing, ChainInv, TypeInv, TypeOK, AppendInv, BeforePid, CreateSteps
<1>2. PICK step, s : Goto(d, step, s) /\ step \in {"done", "readMeta", "cleanFile"}
  BY DEF SavePid
<1>3. UNCHANGED pids \/ Adds(d)
  BY SavePidAppend
<1>4. ASSUME NEW x \in Docs, pids[x] # None, pids[x].parent # None
      PROVE  pids[x].parent \in Docs \ {d}
  BY <1>1, <1>4 DEF TipHeld, TipsTracked, DocumentPid, DocOrNone
<1>5. ASSUME Adds(d)
      PROVE  TipsTracked'
  <2>1. /\ pids'[d].parent = r.parent /\ pids'[d].lineage = r.lineage
        /\ pids'[d].version = NewVersion(r) /\ pids'[d] # None
        /\ \A x \in Docs \ {d} : pids'[x] = pids[x]
    BY <1>1, <1>5 DEF Adds, NewPid
  <2>2. CASE r.parent = None
    BY <1>1, <1>4, <2>1, <2>2 DEF TipHeld, TipsTracked, Latest, NewVersion, CreateLocals
  <2>3. CASE r.parent # None
    <3> PICK p \in Docs : p = r.parent
      BY <1>5, <2>3 DEF Adds
    <3>1. /\ r.heldLin \in LineagePid /\ r.lineage # None /\ r.held.lineage = r.lineage
          /\ pids[p] # None /\ pids[p] \in DocumentPid /\ p # d
      BY <1>1, <1>5, <2>3, PublishingFacts DEF CreateLocals, Adds
    <3>2. /\ pids[p].lineage = r.lineage /\ lins[r.lineage] = r.heldLin
          /\ r.heldLin.latest = pids[p].version + 1
          /\ NewVersion(r) = r.heldLin.latest
      BY <1>1, <2>3, <3>1 DEF TipHeld, HoldsTip, Advanced, NewVersion
    <3>3. ASSUME NEW x \in Docs \ {d}, pids'[x] # None
          PROVE  /\ pids'[x].lineage # None =>
                      lins[pids'[x].lineage].latest >= pids'[x].version
                 /\ pids'[x].parent = None => pids'[x].version = 1
                 /\ pids'[x].parent # None =>
                      /\ pids'[pids'[x].parent] # None
                      /\ pids'[pids'[x].parent].lineage # None
                      /\ lins[pids'[pids'[x].parent].lineage].latest
                           > pids'[pids'[x].parent].version
      BY <1>4, <2>1, <3>3 DEF TipHeld, TipsTracked, Latest
    <3>4. /\ lins[pids'[d].lineage].latest >= pids'[d].version
          /\ pids'[d].parent = p
          /\ pids'[p] # None /\ pids'[p].lineage # None
          /\ lins[pids'[p].lineage].latest > pids'[p].version
      BY <2>1, <3>1, <3>2 DEF LineagePid, DocumentPid
    <3> QED
      BY <1>1, <2>3, <3>3, <3>4 DEF TipsTracked, Latest
  <2> QED
    BY <2>2, <2>3
<1>6. TipsTracked'
  BY <1>1, <1>3, <1>5, TrackedUnchanged DEF TipHeld
<1> QED
  BY <1>1, <1>2, <1>6, LetsGo DEF ChainInv, Publishing

\* Alone, a metadata update writes back what is there.
LinksStay ==
  \A y \in Docs : /\ pids'[y] = None <=> pids[y] = None
                  /\ pids[y] # None =>
                       /\ pids'[y].version = pids[y].version
                       /\ pids'[y].parent = pids[y].parent
                       /\ pids'[y].succ = pids[y].succ
                       /\ pids'[y].lineage = pids[y].lineage

LEMMA MetaLinks ==
  ASSUME ChainInv, TipHeld, NEW a \in Actors, MetaStep(a)
  PROVE  LinksStay
<1> DEFINE x == req[a].doc
           after == [req[a].held EXCEPT !.meta = req[a].meta]
<1>1. /\ pc[a] \in MetaSteps /\ req[a] \in Request /\ x \in Docs
      /\ MetaLocals(pc[a], req[a]) /\ pids \in [Docs -> DocumentPid \cup {None}]
  BY MetaDoc DEF MetaStep, ReadMeta, WriteMeta, MetaSteps, ChainInv, TypeInv, TypeOK, LocalsOK
<1>2. CASE UNCHANGED pids
  BY <1>2 DEF LinksStay
<1>3. CASE pids' = [pids EXCEPT ![x] = after] /\ pc[a] = "writeMeta"
  <2>1. req[a].held = pids[x] /\ pids[x] \in DocumentPid
    BY <1>1, <1>3 DEF TipHeld, HoldsMeta, MetaLocals
  <2>2. /\ after \in DocumentPid
        /\ after.version = pids[x].version /\ after.parent = pids[x].parent
        /\ after.succ = pids[x].succ /\ after.lineage = pids[x].lineage
    BY <1>1, <2>1 DEF DocumentPid, Request
  <2> HIDE DEF after
  <2> QED
    BY <1>1, <1>3, <2>1, <2>2, PublishAssumption DEF LinksStay
<1> QED
  BY <1>2, <1>3, FailedWriteOutcome DEF MetaStep, ReadMeta, WriteMeta, stores

LEMMA MetaTip ==
  ASSUME ChainInv, TipHeld, NEW a \in Actors, Rests(a), MetaStep(a)
  PROVE  TipHeld'
<1> DEFINE x == req[a].doc
<1>1. /\ UNCHANGED lins /\ req[a] \in Request
      /\ lins' \in [Docs -> LineagePid \cup {None}]
  BY ChainTypes DEF MetaStep, ReadMeta, WriteMeta, stores, ChainInv, TypeInv, TypeOK
<1>2. Stays /\ NothingNew /\ \A y \in Docs : pids[y] # None => pids'[y].lineage = pids[y].lineage
  BY MetaLinks DEF LinksStay, Stays, NothingNew
<1>3. TipsTracked'
  BY <1>1, <1>2, SameLineages, TrackedKept DEF TipHeld
<1>4. CASE \E step \in EndSteps : Goto(a, step, req[a])
  BY <1>3, <1>4, LetsGo DEF ChainInv, Publishing, EndSteps
<1>5. CASE UNCHANGED pids /\ Goto(a, "writeMeta", [req[a] EXCEPT !.held = pids[x]])
  <2> DEFINE r == [req[a] EXCEPT !.held = pids[x]]
  <2>1. r.doc = x /\ r.held = pids[x]
    BY <1>1 DEF Request
  <2> HIDE DEF r
  <2>2. /\ pc'[a] = "writeMeta" /\ req'[a] = r
        /\ \A b \in Actors \ {a} : pc'[b] = pc[b] /\ req'[b] = req[b]
    BY <1>5, GotoFrame DEF ChainInv, EndSteps, r
  <2>3. HoldsMeta(pc[a], req[a])' /\ HoldsTip(a, pc[a], req[a])'
    BY <1>5, <2>1, <2>2 DEF HoldsMeta, HoldsTip, Publishing
  <2> QED
    BY <1>3, <2>2, <2>3, RestingHolds DEF ChainInv
<1> QED
  BY <1>4, <1>5 DEF MetaStep, ReadMeta, WriteMeta, MetaFailed, EndSteps, stores

LEMMA StartPatchTip ==
  ASSUME ChainInv, TipHeld, NEW q \in Patchers, NEW x \in Docs, Rests(q), StartPatch(q, x)
  PROVE  TipHeld'
<1>1. UNCHANGED <<pids, lins>> /\ q \in Actors /\ \E r : Goto(q, "readMeta", r)
  BY DEF StartPatch, stores, Actors
<1> QED
  BY <1>1, TrackedUnchanged, LetsGo DEF ChainInv, Publishing, TipHeld

LEMMA CrashTip ==
  ASSUME ChainInv, TipHeld, NEW a \in Actors, Rests(a), Crash(a)
  PROVE  TipHeld'
<1>1. UNCHANGED <<pids, lins>> /\ Goto(a, "failed", req[a])
  BY DEF Crash, stores
<1> QED
  BY <1>1, TrackedUnchanged, LetsGo DEF ChainInv, Publishing, TipHeld

LEMMA IdleTip ==
  ASSUME TipHeld, UNCHANGED <<pids, lins, pc, req>>
  PROVE  TipHeld'
BY DEF TipHeld, TipsTracked, Latest, HoldsTip, HoldsMeta, NoChild, NoneIn

\* Who moves is alone.
LEMMA MoverRests ==
  ASSUME TypeInv, OneActive, OneActive'
  PROVE  /\ \A d \in Docs : \A p \in DocOrNone, m \in {d, None} :
              StartCreate(d, p, m) => Rests(d)
         /\ \A q \in Patchers, x \in Docs : StartPatch(q, x) => Rests(q)
         /\ \A d \in Docs : CreateStep(d) => Rests(d)
         /\ \A a \in Actors : MetaStep(a) \/ Crash(a) => Rests(a)
<1>1. ASSUME NEW d \in Docs, NEW p \in DocOrNone, NEW m \in {d, None}, StartCreate(d, p, m)
      PROVE  Rests(d)
  <2>1. \E step \in {"store", "authorise"} : \E r : Goto(d, step, r)
    BY <1>1 DEF StartCreate
  <2> QED
    BY <2>1, StarterRests DEF Actors, EndSteps
<1>2. ASSUME NEW q \in Patchers, NEW x \in Docs, StartPatch(q, x)
      PROVE  Rests(q)
  <2>1. \E r : Goto(q, "readMeta", r)
    BY <1>2 DEF StartPatch
  <2> QED
    BY <2>1, StarterRests DEF Actors, EndSteps
<1>3. ASSUME NEW d \in Docs, CreateStep(d)
      PROVE  Rests(d)
  <2>1. pc[d] \in CreateSteps \cup CleanSteps
    BY <1>3 DEF CreateStep, Authorise, FindLineage, FindFirst, Refuse, CheckSteps, StoreFile,
       ReadParent, ReadLineage, ReadFails, SaveRow, UpdateParentRow, SaveLineage,
       UpdateParentPid, UpdateLineage, SavePid, CleanFile, CleanRow, RevertRow,
       CreateSteps, CleanSteps
  <2> QED
    BY <2>1, RunningIsActive, OthersRest DEF Actors
<1>4. ASSUME NEW a \in Actors, MetaStep(a) \/ Crash(a)
      PROVE  Rests(a)
  <2>1. a \in Active
    BY <1>4, RunningIsActive DEF MetaStep, ReadMeta, WriteMeta, MetaSteps, Crash
  <2> QED
    BY <2>1, OthersRest
<1> QED
  BY <1>1, <1>2, <1>3, <1>4

LEMMA NextTip ==
  ASSUME ChainInv, ChainInv', AppendInv, TipHeld, OneActive, OneActive', [Next]_vars
  PROVE  TipHeld'
<1>1. TypeInv
  BY DEF ChainInv
<1>2. ASSUME NEW d \in Docs, CreateStep(d)  PROVE TipHeld'
  <2>1. Rests(d)
    BY <1>1, <1>2, MoverRests
  <2> QED
    BY <1>2, <2>1, QuietTip, ReadParentTip, ReadLineageTip, RowTip, SaveLineageTip,
       UpdateParentPidTip, UpdateLineageTip, SavePidTip DEF CreateStep, Checks
<1>3. ASSUME NEW d \in Docs, NEW p \in DocOrNone, NEW m \in {d, None}, StartCreate(d, p, m)
      PROVE  TipHeld'
  BY <1>1, <1>3, MoverRests, QuietTip
<1>4. ASSUME NEW q \in Patchers, NEW x \in Docs, StartPatch(q, x)
      PROVE  TipHeld'
  BY <1>1, <1>4, MoverRests, StartPatchTip
<1>5. ASSUME NEW a \in Actors, MetaStep(a) \/ Crash(a)
      PROVE  TipHeld'
  BY <1>1, <1>5, MoverRests, MetaTip, CrashTip
<1>6. CASE (\E x \in Docs : RepairStep(x)) \/ UNCHANGED vars
  BY <1>6, IdleTip
     DEF RepairStep, RepairRead, RepairGet, RepairWrite, RepairFails, stores, vars
<1> QED
  BY <1>2, <1>3, <1>4, <1>5, <1>6 DEF Next, Quiescent

LEMMA InitTip == Init => TipHeld /\ OneActive
BY DEF Init, TipHeld, TipsTracked, HoldsTip, HoldsMeta, NoRequest, OneActive, Active, Actors

-----------------------------------------------------------------------------
(* The linear chain *)

\* The record that a request adds while it holds the end of a chain
LEMMA AddsIsLinear ==
  ASSUME ChainInv, TipHeld, NEW d \in Docs, Adds(d), pc[d] = "savePid"
  PROVE  Chain!LinearNext
<1> DEFINE p == req[d].parent  n == NewVersion(req[d])
<1>1. /\ pids \in [Docs -> DocumentPid \cup {None}] /\ n \in Nat
      /\ CreateLocals(d, pc[d], req[d]) /\ req[d] \in Request
  BY RunningLocals, PublishingFacts DEF ChainInv, TypeInv, TypeOK, NewVersion, Publishing
<1>2. Chain!Add(d, p, n)
  BY <1>1 DEF Adds, NewPid, Chain!Add
<1>3. CASE p = None
  <2>1. n = 1
    BY <1>3 DEF NewVersion
  <2> HIDE DEF n, p
  <2>2. Chain!PublishFirst(d)
    BY <1>2, <1>3, <2>1 DEF Chain!PublishFirst, Chain!Add
  <2> QED
    BY <2>2 DEF Chain!LinearNext
<1>4. CASE p # None
  <2>1. p \in Docs /\ pids[p] # None
    BY <1>4 DEF Adds
  <2>2. n = pids[p].version + 1 /\ \A x \in Docs : pids[x] # None => pids[x].parent # p
    BY <1>4 DEF TipHeld, HoldsTip, NoChild, Publishing, NewVersion
  <2> HIDE DEF n, p
  <2>3. Chain!Append(d, p)
    BY <1>2, <2>1, <2>2 DEF Chain!Append, Chain!Add
  <2> QED
    BY <2>1, <2>3 DEF Chain!LinearNext
<1> QED
  BY <1>3, <1>4

\* A record is added by the last step of the publication only.
LEMMA AddedBySavePid ==
  ASSUME ChainInv, AppendInv, [Next]_vars, NEW d \in Docs, Adds(d)
  PROVE  pc[d] = "savePid"
<1>1. ~NothingNew
  <2>1. pids \in [Docs -> DocumentPid \cup {None}]
    BY DEF ChainInv, TypeInv, TypeOK
  <2> QED
    BY <2>1 DEF NothingNew, Adds
<1>2. ~ UNCHANGED pids
  BY <1>1, SameRecords
<1>3. PICK e \in Docs : SavePid(e)
  <2>1. \A e \in Docs : CreateStep(e) => SavePid(e)
    BY <1>1, QuietAppend, ReadParentAppend, ReadLineageAppend, RowAppend, LinkAppend,
       SameRecords DEF CreateStep, Checks
  <2>2. ~ \E a \in Actors : MetaStep(a)
    BY <1>1, MetaAppend
  <2> QED
    BY <1>2, <2>1, <2>2
       DEF Next, StartCreate, StartPatch, Crash, RepairStep, RepairRead, RepairGet, RepairWrite,
           RepairFails, Quiescent, stores, vars
<1>4. pids' = pids \/ pids' = [pids EXCEPT ![e] = NewPid(req[e])]
  BY <1>3, FailedWriteOutcome DEF SavePid
<1>5. d = e
  <2>1. pids \in [Docs -> DocumentPid \cup {None}]
    BY DEF ChainInv, TypeInv, TypeOK
  <2> QED
    BY <1>2, <1>4, <2>1 DEF Adds
<1> QED
  BY <1>3, <1>5 DEF SavePid

TipInv == ~overlapped => OneActive /\ TipHeld

LEMMA TipStep ==
  ASSUME ChainInv, ChainInv', AppendInv, TipInv, [TurnNext]_turnVars
  PROVE  /\ TipInv'
         /\ ~overlapped' => Chain!LinearNext \/ UNCHANGED Chain!chainVars
<1>1. [Next]_vars
  BY DEF TurnNext, turnVars
<1>2. SUFFICES ASSUME ~overlapped'
               PROVE  /\ OneActive' /\ TipHeld'
                      /\ Chain!LinearNext \/ UNCHANGED Chain!chainVars
  BY DEF TipInv
<1>3. OneActive /\ TipHeld
  BY <1>2 DEF TipInv, TurnNext, turnVars
<1>4. OneActive'
  <2>1. CASE TurnNext
    BY <1>2, <1>3, <2>1, StillOneActive DEF ChainInv
  <2>2. CASE UNCHANGED turnVars
    BY <1>3, <2>2 DEF OneActive, Active, turnVars, vars
  <2> QED
    BY <2>1, <2>2
<1>5. TipHeld'
  BY <1>1, <1>3, <1>4, NextTip
<1>6. Chain!LinearNext \/ UNCHANGED Chain!chainVars
  BY <1>1, <1>3, NextAppend, RewritesStutter, AddedBySavePid, AddsIsLinear
<1> QED
  BY <1>4, <1>5, <1>6

LEMMA TurnInvariant == TurnSpec => [](ChainInv /\ AppendInv /\ CompleteInv /\ TipInv)
<1>1. TurnInit => ChainInv /\ AppendInv /\ CompleteInv /\ TipInv
  BY ChainInvInit, InitAppend, InitComplete, InitTip DEF TurnInit, TipInv
<1>2. ChainInv /\ AppendInv /\ CompleteInv /\ TipInv /\ [TurnNext]_turnVars
        => (ChainInv /\ AppendInv /\ CompleteInv /\ TipInv)'
  <2>1. [TurnNext]_turnVars => [Next]_vars
    BY DEF TurnNext, turnVars
  <2> QED
    BY <2>1, ChainInvStep, NextAppend, NextComplete, TipStep
<1> QED
  BY <1>1, <1>2, PTL DEF TurnSpec

\* Requests one after the other, with failures, lost answers and crashes, only ever append
\* one document to the end of a chain, with the next number: create_document and
\* finalize_pid_records implement the linear VersionChain until two requests overlap.
THEOREM RequestsInTurnAppend == TurnSpec => AppendsToTip
<1>1. TurnInit => Chain!ChainInit
  BY DEF TurnInit, Init, Chain!ChainInit
<1>2. ChainInv /\ ChainInv' /\ AppendInv /\ TipInv /\ [TurnNext]_turnVars
        => [~overlapped' => Chain!LinearNext \/ UNCHANGED Chain!chainVars]_turnVars
  BY TipStep
<1> QED
  BY <1>1, <1>2, TurnInvariant, PTL DEF TurnSpec, AppendsToTip

-----------------------------------------------------------------------------
(* First documents stay in reach *)

\* The row of a document whose request has ended, or will not clean up any more
Rooted(x) == rows[x] # None /\ pc[x] \in Safe

HoldsFirst(step, r) ==
  r.parent # None =>
    Rooted(r.parent) /\ (step \in Publishing => Rooted(r.heldLin.first))

\* Every lineage starts at a row that stays, and so do the lineages to come.
FirstsStay ==
  /\ \A l \in Docs : lins[l] # None => Rooted(lins[l].first)
  /\ \A d \in Docs : HoldsFirst(pc[d], req[d])

LEMMA RootedStays ==
  ASSUME ChainInv, [Next]_vars, NEW x \in Docs, Rooted(x)
  PROVE  Rooted(x)'
BY SafeStaysSafe, PublishedKept DEF Rooted, DocKept, ChainInv

LEMMA FirstsGoOn ==
  ASSUME ChainInv, FirstsStay, [Next]_vars, NEW a \in Actors, NEW step, NEW r,
         Goto(a, step, r),
         \A l \in Docs : \/ lins'[l] = lins[l]
                         \/ lins'[l].first \in Docs /\ Rooted(lins'[l].first),
         a \in Docs /\ step \notin EndSteps /\ r.parent # None =>
           /\ r.parent \in Docs /\ Rooted(r.parent)
           /\ step \in Publishing => r.heldLin.first \in Docs /\ Rooted(r.heldLin.first)
  PROVE  FirstsStay'
<1>1. /\ pc'[a] = step /\ req'[a] = IF step \in EndSteps THEN NoRequest ELSE r
      /\ \A b \in Actors \ {a} : pc'[b] = pc[b] /\ req'[b] = req[b]
  BY GotoFrame DEF ChainInv
<1>2. ASSUME NEW l \in Docs, lins'[l] # None  PROVE Rooted(lins[l].first)'
  <2>1. CASE lins'[l] = lins[l]
    <3> PICK x \in Docs : x = lins[l].first
      BY <1>2, <2>1, ChainTypes DEF ChainInv, LineagePid
    <3>1. Rooted(x)'
      BY <1>2, <2>1, RootedStays DEF FirstsStay
    <3> QED
      BY <2>1, <3>1 DEF Rooted
  <2>2. CASE lins'[l].first \in Docs /\ Rooted(lins'[l].first)
    <3> PICK x \in Docs : x = lins'[l].first
      BY <2>2
    <3>1. Rooted(x)'
      BY <2>2, RootedStays
    <3> QED
      BY <3>1 DEF Rooted
  <2> QED
    BY <2>1, <2>2
<1>3. ASSUME NEW d \in Docs  PROVE HoldsFirst(pc[d], req[d])'
  <2> SUFFICES ASSUME req'[d].parent # None
               PROVE  /\ Rooted(req[d].parent)'
                      /\ pc'[d] \in Publishing => Rooted(req[d].heldLin.first)'
    BY DEF HoldsFirst
  <2>1. d \in Actors
    BY DEF Actors
  <2>2. /\ req'[d].parent \in Docs /\ Rooted(req'[d].parent)
        /\ pc'[d] \in Publishing =>
             req'[d].heldLin.first \in Docs /\ Rooted(req'[d].heldLin.first)
    <3>1. CASE d = a
      BY <1>1, <2>1, <3>1 DEF NoRequest
    <3>2. CASE d # a
      <4>1. req[d] \in Request /\ CreateLocals(d, pc[d], req[d]) /\ req[d].parent # None
        BY <1>1, <2>1, <3>2, RunningLocals DEF ChainInv
      <4>2. req[d].parent \in Docs
        BY <4>1 DEF Request, DocOrNone
      <4>3. pc[d] \in Publishing => req[d].heldLin.first \in Docs
        BY <4>1, PublishingFacts DEF LineagePid
      <4> QED
        BY <1>1, <2>1, <3>2, <4>1, <4>2, <4>3 DEF FirstsStay, HoldsFirst
    <3> QED
      BY <3>1, <3>2
  <2>3. Rooted(req[d].parent)'
    <3> PICK x \in Docs : x = req'[d].parent
      BY <2>2
    <3> QED
      BY <2>2, RootedStays DEF Rooted
  <2>4. ASSUME pc'[d] \in Publishing  PROVE Rooted(req[d].heldLin.first)'
    <3> PICK x \in Docs : x = req'[d].heldLin.first
      BY <2>2, <2>4
    <3> QED
      BY <2>2, <2>4, RootedStays DEF Rooted
  <2> QED
    BY <2>3, <2>4
<1> QED
  BY <1>2, <1>3 DEF FirstsStay

\* A step that keeps the parent and what a request has for its lineage
LEMMA SameFirst ==
  ASSUME ChainInv, FirstsStay, NEW d \in Docs, NEW step, NEW r,
         r.parent = req[d].parent, r.parent # None,
         step \in Publishing => pc[d] \in Publishing /\ r.heldLin = req[d].heldLin
  PROVE  /\ r.parent \in Docs /\ Rooted(r.parent)
         /\ step \in Publishing => r.heldLin.first \in Docs /\ Rooted(r.heldLin.first)
<1>1. req[d].parent \in Docs /\ Rooted(req[d].parent)
  BY ChainTypes DEF ChainInv, Request, DocOrNone, FirstsStay, HoldsFirst
<1>2. pc[d] \in Publishing => req[d].heldLin.first \in Docs /\ Rooted(req[d].heldLin.first)
  BY PublishingFacts DEF FirstsStay, HoldsFirst, LineagePid
<1> QED
  BY <1>1, <1>2

LEMMA StartCreateFirst ==
  ASSUME ChainInv, FirstsStay, [Next]_vars, NEW d \in Docs, Rests(d),
         NEW p \in DocOrNone, NEW m \in {d, None}, StartCreate(d, p, m)
  PROVE  FirstsStay'
<1>1. UNCHANGED lins /\ d \in Actors /\ pc[d] = "idle" /\ (p # None => rows[p] # None)
  BY DEF StartCreate, stores, Actors
<1>2. \E step \in {"store", "authorise"} : \E r : Goto(d, step, r) /\ r.parent = p
  <2> DEFINE r == [NoRequest EXCEPT !.doc = d, !.parent = p, !.meta = m,
                                    !.prevRow = IF p = None THEN None ELSE rows[p]]
  <2>1. r.parent = p
    BY DEF NoRequest
  <2>2. \E step \in {"store", "authorise"} : Goto(d, step, r)
    BY DEF StartCreate
  <2> HIDE DEF r
  <2> QED
    BY <2>1, <2>2
<1>3. ASSUME p # None  PROVE p \in Docs /\ Rooted(p)
  <2>1. p \in Docs /\ p \in Actors /\ pc[p] \notin BeforeRow
    BY <1>1, <1>3 DEF DocOrNone, ChainInv, StoresTruthful, RowTruthful, Actors
  <2>2. pc[p] \in EndSteps
    BY <1>1, <2>1 DEF Rests, BeforeRow
  <2> QED
    BY <1>1, <1>3, <2>1, <2>2 DEF Rooted, Safe, Listed, EndSteps
<1> QED
  BY <1>1, <1>2, <1>3, FirstsGoOn DEF Publishing, EndSteps

LEMMA ReadParentFirst ==
  ASSUME ChainInv, FirstsStay, [Next]_vars, NEW d \in Docs, ReadParent(d)
  PROVE  FirstsStay'
<1> DEFINE parent == pids[req[d].parent]
<1>1. /\ UNCHANGED lins /\ d \in Actors /\ req[d] \in Request /\ req[d].parent # None
  BY RunningLocals DEF ReadParent, stores, ChainInv, CreateLocals, WithParent
<1>2. CASE OpenLineage(d, parent)
  <2> DEFINE lin == [first |-> req[d].parent, last |-> d, latest |-> 2]
             held == [parent EXCEPT !.lineage = d, !.succ = d]
             r == [req[d] EXCEPT !.held = held, !.heldLin = lin, !.lineage = d]
  <2>1. lin.first = req[d].parent
    OBVIOUS
  <2> HIDE DEF lin, held
  <2>2. r.parent = req[d].parent /\ r.heldLin = lin
    BY <1>1 DEF Request
  <2> HIDE DEF r
  <2>3. Goto(d, "saveRow", r)
    BY <1>2 DEF OpenLineage, r, lin, held
  <2>4. req[d].parent \in Docs /\ Rooted(req[d].parent)
    BY <1>1, ChainTypes DEF ChainInv, Request, DocOrNone, FirstsStay, HoldsFirst
  <2> QED
    BY <1>1, <2>1, <2>2, <2>3, <2>4, FirstsGoOn
<1>3. CASE \/ Goto(d, "readLineage", [req[d] EXCEPT !.held = parent])
           \/ Goto(d, "cleanFile", req[d])
  <2>1. [req[d] EXCEPT !.held = parent].parent = req[d].parent
    BY <1>1 DEF Request
  <2>2. \E step \in {"readLineage", "cleanFile"} : \E r :
          Goto(d, step, r) /\ r.parent = req[d].parent
    BY <1>3, <2>1
  <2> QED
    BY <1>1, <2>2, SameFirst, FirstsGoOn DEF Publishing
<1> QED
  BY <1>2, <1>3 DEF ReadParent

LEMMA ReadLineageFirst ==
  ASSUME ChainInv, AppendInv, TipHeld, FirstsStay, [Next]_vars, NEW d \in Docs, ReadLineage(d)
  PROVE  FirstsStay'
<1>1. /\ UNCHANGED lins /\ d \in Actors /\ req[d] \in Request /\ req[d].parent # None
      /\ pc[d] = "readLineage" /\ CreateLocals(d, pc[d], req[d])
  BY RunningLocals DEF ReadLineage, stores, ChainInv, CreateLocals, WithParent
<1>2. /\ req[d].held.lineage \in Docs /\ lins[req[d].held.lineage] # None
      /\ lins[req[d].held.lineage] \in LineagePid
      /\ req[d].parent \in Docs
  <2>1. req[d].parent \in Docs
    BY <1>1 DEF Request, DocOrNone
  <2>2. req[d].held = pids[req[d].parent] /\ pids[req[d].parent] # None
    BY <1>1 DEF TipHeld, HoldsTip, AppendInv, HoldsParent, Holding, SameDocument
  <2> QED
    BY <1>1, <2>1, <2>2, LineageOfRecord DEF CreateLocals
<1> PICK l \in Docs : l = req[d].held.lineage
  BY <1>2
<1>3. CASE Goto(d, "saveRow",
                [req[d] EXCEPT !.held = [req[d].held EXCEPT !.succ = d],
                               !.heldLin = [lins[l] EXCEPT !.last = d,
                                                           !.latest = lins[l].latest + 1],
                               !.lineage = l])
  <2> DEFINE lin == [lins[l] EXCEPT !.last = d, !.latest = lins[l].latest + 1]
             held == [req[d].held EXCEPT !.succ = d]
             r == [req[d] EXCEPT !.held = held, !.heldLin = lin, !.lineage = l]
  <2>1. lin.first = lins[l].first /\ lins[l].first \in Docs /\ Rooted(lins[l].first)
    BY <1>2 DEF LineagePid, FirstsStay
  <2> HIDE DEF lin, held
  <2>2. r.parent = req[d].parent /\ r.heldLin = lin
    BY <1>1 DEF Request
  <2> HIDE DEF r
  <2>3. Goto(d, "saveRow", r)
    BY <1>3 DEF r, lin, held
  <2>4. Rooted(req[d].parent)
    BY <1>1 DEF FirstsStay, HoldsFirst
  <2> QED
    BY <1>1, <1>2, <2>1, <2>2, <2>3, <2>4, FirstsGoOn
<1>4. CASE Goto(d, "cleanFile", req[d])
  BY <1>1, <1>4, SameFirst, FirstsGoOn DEF Publishing
<1> QED
  BY <1>2, <1>3, <1>4 DEF ReadLineage

LEMMA LinkFirst ==
  ASSUME ChainInv, FirstsStay, [Next]_vars, NEW d \in Docs, SaveLineage(d) \/ UpdateLineage(d)
  PROVE  FirstsStay'
<1>1. /\ d \in Actors /\ pc[d] \in Publishing /\ req[d].parent # None
      /\ lins \in [Docs -> LineagePid \cup {None}]
  BY RunningLocals
     DEF SaveLineage, UpdateLineage, Publishing, ChainInv, CreateLocals, WithParent, TypeInv, TypeOK
<1>2. \E l \in Docs : lins' = lins \/ lins' = [lins EXCEPT ![l] = req[d].heldLin]
  BY <1>1, FailedWriteOutcome, PublishingFacts DEF SaveLineage, UpdateLineage
<1>3. req[d].heldLin.first \in Docs /\ Rooted(req[d].heldLin.first)
  BY <1>1, SameFirst
<1>4. \A l \in Docs : \/ lins'[l] = lins[l]
                      \/ lins'[l].first \in Docs /\ Rooted(lins'[l].first)
  BY <1>1, <1>2, <1>3
<1>5. \E step : Goto(d, step, req[d])
  BY DEF SaveLineage, UpdateLineage
<1> QED
  BY <1>1, <1>4, <1>5, SameFirst, FirstsGoOn

LEMMA OtherFirst ==
  ASSUME ChainInv, FirstsStay, [Next]_vars, NEW d \in Docs,
         \/ Checks(d) \/ StoreFile(d) \/ ReadFails(d)
         \/ SaveRow(d) \/ UpdateParentRow(d) \/ UpdateParentPid(d) \/ SavePid(d)
         \/ CleanFile(d) \/ CleanRow(d) \/ RevertRow(d)
  PROVE  FirstsStay'
<1>1. UNCHANGED lins /\ d \in Actors /\ req[d] \in Request
  BY ChainTypes, CheckOutcome DEF StoreFile, ReadFails, SaveRow, UpdateParentRow,
     UpdateParentPid, SavePid, CleanFile, CleanRow, RevertRow, stores, ChainInv
<1>2. ASSUME NEW step, NEW r, Goto(d, step, r),
             r.parent # None => /\ r.parent = req[d].parent
                                /\ step \in Publishing =>
                                     pc[d] \in Publishing /\ r.heldLin = req[d].heldLin
      PROVE  FirstsStay'
  BY <1>1, <1>2, SameFirst, FirstsGoOn
<1>3. CASE ReadFails(d) \/ CleanFile(d) \/ CleanRow(d) \/ RevertRow(d)
  <2>1. \E step \in {"failed", "cleanFile", "cleanRow", "revertRow"} :
          Goto(d, step, req[d])
    BY <1>3 DEF ReadFails, CleanFile, CleanRow, RevertRow
  <2> QED
    BY <1>2, <2>1 DEF Publishing
<1>4. CASE StoreFile(d)
  <2>1. \E step : /\ Goto(d, step, req[d])
                  /\ step \in Publishing => req[d].parent = None
    BY <1>4 DEF StoreFile, Publishing
  <2> QED
    BY <1>2, <2>1
<1>5. CASE SaveRow(d) \/ UpdateParentRow(d) \/ UpdateParentPid(d)
  <2> DEFINE s == [req[d] EXCEPT !.stored = TRUE]
  <2>1. s.parent = req[d].parent /\ s.heldLin = req[d].heldLin
    BY <1>1 DEF Request
  <2>2. pc[d] \in Publishing /\ \E step : Goto(d, step, req[d]) \/ Goto(d, step, s)
    BY <1>5 DEF SaveRow, UpdateParentRow, UpdateParentPid, Publishing
  <2> HIDE DEF s
  <2> QED
    BY <1>2, <2>1, <2>2
<1>6. CASE SavePid(d)
  <2>1. \E m : \E step \in {"done", "readMeta", "cleanFile"} :
          Goto(d, step, [req[d] EXCEPT !.meta = m]) \/ Goto(d, step, req[d])
    BY <1>6 DEF SavePid
  <2>2. \A m : [req[d] EXCEPT !.meta = m].parent = req[d].parent
    BY <1>1 DEF Request
  <2>3. \E step \in {"done", "readMeta", "cleanFile"} : \E r :
          Goto(d, step, r) /\ r.parent = req[d].parent
    BY <2>1, <2>2
  <2> QED
    BY <1>2, <2>3 DEF Publishing
<1>7. CASE Checks(d)
  <2>1. PICK step \in {"store", "failed", "findLineage", "findFirst"}, f \in DocOrNone :
          Goto(d, step, [req[d] EXCEPT !.found = f])
    BY <1>7, CheckOutcome DEF ChainInv
  <2>2. [req[d] EXCEPT !.found = f].parent = req[d].parent
    BY <1>1 DEF Request
  <2> QED
    BY <1>2, <2>1, <2>2 DEF Publishing
<1> QED
  BY <1>3, <1>4, <1>5, <1>6, <1>7

LEMMA MetaFirst ==
  ASSUME ChainInv, FirstsStay, [Next]_vars, NEW a \in Actors,
         MetaStep(a) \/ Crash(a) \/ \E x \in Docs : a \in Patchers /\ StartPatch(a, x)
  PROVE  FirstsStay'
<1>1. UNCHANGED lins /\ req[a] \in Request
  BY ChainTypes DEF MetaStep, ReadMeta, WriteMeta, Crash, StartPatch, stores, ChainInv
<1>2. CASE MetaStep(a) \/ Crash(a)
  <2>1. \A h : [req[a] EXCEPT !.held = h].parent = req[a].parent
    BY <1>1 DEF Request
  <2>2. \E step, r : /\ Goto(a, step, r) /\ r.parent = req[a].parent
                     /\ step \in {"done", "failed", "writeMeta"}
    BY <1>2, <2>1 DEF MetaStep, ReadMeta, WriteMeta, MetaFailed, Crash
  <2> QED
    BY <1>1, <2>2, SameFirst, FirstsGoOn DEF Publishing
<1>3. CASE \E x \in Docs : a \in Patchers /\ StartPatch(a, x)
  <2>1. a \notin Docs /\ \E step, r : Goto(a, step, r)
    BY <1>3, PublishAssumption DEF StartPatch
  <2> QED
    BY <1>1, <2>1, FirstsGoOn
<1> QED
  BY <1>2, <1>3

LEMMA IdleFirst ==
  ASSUME ChainInv, FirstsStay, [Next]_vars, UNCHANGED <<lins, pc, req>>
  PROVE  FirstsStay'
<1>1. ASSUME NEW l \in Docs, lins[l] # None  PROVE Rooted(lins[l].first)'
  <2> PICK x \in Docs : x = lins[l].first
    BY <1>1, ChainTypes DEF ChainInv, LineagePid
  <2>1. Rooted(x)'
    BY <1>1, RootedStays DEF FirstsStay
  <2> QED
    BY <2>1 DEF Rooted
<1>2. ASSUME NEW d \in Docs  PROVE HoldsFirst(pc[d], req[d])'
  <2> SUFFICES ASSUME req[d].parent # None
               PROVE  /\ Rooted(req[d].parent)'
                      /\ pc[d] \in Publishing => Rooted(req[d].heldLin.first)'
    BY DEF HoldsFirst
  <2>1. /\ req[d].parent \in Docs /\ Rooted(req[d].parent)
        /\ pc[d] \in Publishing => req[d].heldLin.first \in Docs /\ Rooted(req[d].heldLin.first)
    BY SameFirst
  <2>2. \A x \in Docs : Rooted(x) => Rooted(x)'
    BY RootedStays
  <2> QED
    BY <2>1, <2>2 DEF Rooted
<1> QED
  BY <1>1, <1>2 DEF FirstsStay

LEMMA NextFirst ==
  ASSUME ChainInv, AppendInv, TipHeld, FirstsStay, OneActive, OneActive', [Next]_vars
  PROVE  FirstsStay'
<1>1. TypeInv
  BY DEF ChainInv
<1>2. ASSUME NEW d \in Docs, CreateStep(d)  PROVE FirstsStay'
  BY <1>2, ReadParentFirst, ReadLineageFirst, LinkFirst, OtherFirst DEF CreateStep, Checks
<1>3. ASSUME NEW d \in Docs, NEW p \in DocOrNone, NEW m \in {d, None}, StartCreate(d, p, m)
      PROVE  FirstsStay'
  BY <1>1, <1>3, MoverRests, StartCreateFirst
<1>4. ASSUME NEW q \in Patchers, NEW x \in Docs, StartPatch(q, x)
      PROVE  FirstsStay'
  BY <1>4, MetaFirst DEF Actors
<1>5. ASSUME NEW a \in Actors, MetaStep(a) \/ Crash(a)
      PROVE  FirstsStay'
  BY <1>5, MetaFirst
<1>6. CASE (\E x \in Docs : RepairStep(x)) \/ UNCHANGED vars
  BY <1>6, IdleFirst
     DEF RepairStep, RepairRead, RepairGet, RepairWrite, RepairFails, stores, vars
<1> QED
  BY <1>2, <1>3, <1>4, <1>5, <1>6 DEF Next, Quiescent

LEMMA InitFirst == Init => FirstsStay
BY DEF Init, FirstsStay, HoldsFirst, NoRequest, Actors

FirstInv == ~overlapped => FirstsStay

\* Requests one after the other never make a published version unusable: the permission
\* check finds the first document of every acknowledged one, whose row no clean-up, crash
\* or lost answer of another request has taken away (get_first_document_record).
THEOREM RightsStay == TurnSpec => []RightsStayResolvable
<1>1. TurnInit => FirstInv
  BY InitFirst DEF TurnInit, FirstInv
<1>2. ChainInv /\ AppendInv /\ TipInv /\ TipInv' /\ FirstInv /\ [TurnNext]_turnVars => FirstInv'
  <2>1. [TurnNext]_turnVars => [Next]_vars
    BY DEF TurnNext, turnVars
  <2>2. [TurnNext]_turnVars /\ ~overlapped' => ~overlapped
    BY DEF TurnNext, turnVars
  <2> QED
    BY <2>1, <2>2, NextFirst DEF FirstInv, TipInv
<1>3. ASSUME ChainInv, CompleteInv, TipInv, FirstInv, FirstDocumentIsRoot
      PROVE  RightsStayResolvable
  <2> SUFFICES ASSUME ~overlapped, NEW d \in Docs, pc[d] = "done"
               PROVE  FirstDocument(d, rows[d]) = root[d]
    BY DEF RightsStayResolvable
  <2>1. /\ rows[d] # None /\ pids[d] # None
        /\ rows[d].version = pids[d].version /\ rows[d].parent = pids[d].parent
    BY <1>3 DEF CompleteInv, FileAndRow, RowAgreesWith, Stored, InRows, Listed
  <2>2. FirstDocument(d, rows[d]) # None
    <3>1. CASE rows[d].version = 1
      BY <3>1, PublishAssumption DEF FirstDocument, Actors
    <3>2. CASE rows[d].version # 1
      <4> PICK p \in Docs : p = rows[d].parent
        BY <1>3, <2>1, <3>2, ChainTypes
           DEF TipInv, TipHeld, TipsTracked, ChainInv, DocumentRow, DocOrNone
      <4>1. p # None /\ pids[p] # None /\ pids[p].lineage # None
        BY <1>3, <2>1, PublishAssumption DEF TipInv, TipHeld, TipsTracked, Actors
      <4> PICK l \in Docs : l = pids[p].lineage
        BY <1>3, <4>1, LineageOfRecord
      <4>2. lins[l] # None /\ lins[l].first # None
        BY <1>3, <4>1, LineageOfRecord, PublishAssumption DEF LineagePid, Actors
      <4>3. rows[lins[l].first] # None
        BY <1>3, <4>2 DEF FirstInv, FirstsStay, Rooted
      <4> QED
        BY <3>2, <4>1, <4>2, <4>3 DEF FirstDocument
    <3> QED
      BY <3>1, <3>2
  <2> QED
    BY <1>3, <2>1, <2>2 DEF FirstDocumentIsRoot
<1>4. TurnSpec => Spec
  <2>1. [TurnNext]_turnVars => [Next]_vars
    BY DEF TurnNext, turnVars
  <2> QED
    BY <2>1, PTL DEF TurnSpec, TurnInit, Spec
<1> QED
  BY <1>1, <1>2, <1>3, <1>4, TurnInvariant, PermissionCheckFindsRoot, PTL DEF TurnSpec

-----------------------------------------------------------------------------
(* Each lineage is in order as long as no request has failed *)

NoneFailed == \A a \in Actors : pc[a] \notin {"failed"} \cup CleanSteps

\* Request d has linked its parent into lineage l, and not yet its own document.
Advancing(d, l) == pc[d] \in Advanced /\ req[d].parent # None /\ req[d].lineage = l

\* x has one child, its successor.
Passed(x) ==
  /\ pids[x].succ \in Docs
  /\ \A y \in Docs : pids[y] # None /\ pids[y].parent = x <=> y = pids[x].succ

EndsAt(l) == pids[lins[l].last] # None /\ pids[lins[l].last].version = lins[l].latest

OnChain(x, l) ==
  \/ \E d \in Docs : Advancing(d, l) /\ (x = req[d].parent \/ Passed(x))
  \/ /\ \A d \in Docs : ~Advancing(d, l)
     /\ EndsAt(l)
     /\ x = lins[l].last => pids[x].succ = None
     /\ x # lins[l].last => Passed(x)

InOrder ==
  \A x, l \in Docs : pids[x] # None /\ pids[x].lineage = l => OnChain(x, l)

LEMMA FailsForGood ==
  ASSUME TypeInv, NEW a \in Actors, NEW step, NEW r, Goto(a, step, r),
         step \in {"failed"} \cup CleanSteps
  PROVE  ~NoneFailed'
BY GotoFrame DEF NoneFailed

\* Nobody is between the two, before and after.
LEMMA OrderQuiet ==
  ASSUME ChainInv, InOrder, LinksStay, NEW a \in Actors, Rests(a),
         \A b \in Actors \ {a} : pc'[b] = pc[b] /\ req'[b] = req[b],
         a \in Docs => /\ pc[a] \notin Advanced \/ req[a].parent = None
                       /\ pc'[a] \notin Advanced \/ req'[a].parent = None,
         \A x \in Docs : pids[x] # None /\ pids[x].lineage # None =>
                           lins'[pids[x].lineage] = lins[pids[x].lineage]
  PROVE  InOrder'
<1>1. ASSUME NEW d \in Docs, NEW l \in Docs  PROVE ~Advancing(d, l) /\ ~Advancing(d, l)'
  <2>1. d \in Actors
    BY DEF Actors
  <2> QED
    BY <2>1 DEF Advancing, Rests, Advanced, EndSteps
<1> SUFFICES ASSUME NEW x \in Docs, NEW l \in Docs, pids'[x] # None, pids'[x].lineage = l
             PROVE  OnChain(x, l)'
  BY DEF InOrder
<1>2. pids[x] # None /\ pids[x].lineage = l /\ pids'[x].succ = pids[x].succ /\ l # None
  BY PublishAssumption DEF LinksStay, Actors
<1>3. lins'[l] = lins[l] /\ lins[l].last \in Docs
  BY <1>2, LineageOfRecord DEF LineagePid
<1>4. /\ EndsAt(l)
      /\ x = lins[l].last => pids[x].succ = None
      /\ x # lins[l].last => Passed(x)
  BY <1>1, <1>2 DEF InOrder, OnChain
<1>5. EndsAt(l)'
  BY <1>3, <1>4 DEF EndsAt, LinksStay
<1>6. Passed(x) => Passed(x)'
  BY <1>2 DEF Passed, LinksStay
<1> QED
  BY <1>1, <1>2, <1>3, <1>4, <1>5, <1>6 DEF OnChain

LEMMA SameLinks == UNCHANGED pids => LinksStay
BY DEF LinksStay

LEMMA QuietOrder ==
  ASSUME ChainInv, InOrder, NoneFailed', NEW d \in Docs, Rests(d),
         \/ \E p \in DocOrNone, m \in {d, None} : StartCreate(d, p, m)
         \/ Checks(d) \/ StoreFile(d) \/ ReadParent(d) \/ ReadLineage(d)
         \/ ReadFails(d) \/ SaveRow(d) \/ UpdateParentRow(d)
         \/ CleanFile(d) \/ CleanRow(d) \/ RevertRow(d)
  PROVE  InOrder'
<1>1. UNCHANGED <<pids, lins>> /\ d \in Actors /\ TypeInv /\ req[d] \in Request
  BY RunningLocals, CheckOutcome
     DEF StartCreate, StoreFile, ReadParent, ReadLineage, ReadFails,
         SaveRow, UpdateParentRow, CleanFile, CleanRow, RevertRow, stores, ChainInv
<1>2. pc[d] \notin Advanced
  BY CheckOutcome
     DEF ChainInv, StartCreate, CheckSteps, StoreFile, ReadParent, ReadLineage, ReadFails,
         SaveRow, UpdateParentRow, CleanFile, CleanRow, RevertRow, Advanced
<1>3. \E step, r : Goto(d, step, r) /\ (step \notin Advanced \/ r.parent = None)
  <2>1. CASE \E p \in DocOrNone, m \in {d, None} : StartCreate(d, p, m)
    <3>1. \E step \in {"store", "authorise"} : \E r : Goto(d, step, r)
      BY <2>1 DEF StartCreate
    <3> QED
      BY <3>1 DEF Advanced
  <2>2. CASE StoreFile(d) \/ ReadFails(d) \/ CleanFile(d) \/ CleanRow(d) \/ RevertRow(d)
    BY <2>2 DEF StoreFile, ReadFails, CleanFile, CleanRow, RevertRow, Advanced
  <2>3. CASE ReadParent(d) \/ ReadLineage(d)
    <3>1. \E step \in {"readLineage", "saveRow", "cleanFile"} : \E r : Goto(d, step, r)
      BY <2>3 DEF ReadParent, ReadLineage, OpenLineage
    <3> QED
      BY <3>1 DEF Advanced
  <2>4. CASE SaveRow(d) \/ UpdateParentRow(d)
    <3> DEFINE s == [req[d] EXCEPT !.stored = TRUE]
    <3>1. s.parent = req[d].parent
      BY <1>1 DEF Request
    <3>2. \/ \E step \in {"updateParentRow", "saveLineage", "updateParentPid", "cleanFile"} :
               Goto(d, step, req[d]) \/ Goto(d, step, s)
          \/ req[d].parent = None /\ Goto(d, "savePid", s)
      BY <2>4 DEF SaveRow, UpdateParentRow, FinalizeStep
    <3> HIDE DEF s
    <3> QED
      BY <3>1, <3>2 DEF Advanced
  <2>5. CASE Checks(d)
    BY <2>5, CheckOutcome DEF ChainInv, Advanced
  <2> QED
    BY <2>1, <2>2, <2>3, <2>4, <2>5
<1>4. /\ pc'[d] \notin Advanced \/ req'[d].parent = None
      /\ \A b \in Actors \ {d} : pc'[b] = pc[b] /\ req'[b] = req[b]
  BY <1>1, <1>3, GotoFrame DEF NoRequest
<1> QED
  BY <1>1, <1>2, <1>4, SameLinks, OrderQuiet

LEMMA SaveLineageOrder ==
  ASSUME ChainInv, InOrder, NoneFailed', NEW d \in Docs, Rests(d), SaveLineage(d)
  PROVE  InOrder'
<1>1. /\ UNCHANGED pids /\ pc[d] = "saveLineage" /\ d \in Actors /\ TypeInv
      /\ lins \in [Docs -> LineagePid \cup {None}]
      /\ lins' = lins \/ lins' = [lins EXCEPT ![d] = req[d].heldLin]
      /\ \E step \in {"updateParentPid", "cleanFile"} : Goto(d, step, req[d])
  BY FailedWriteOutcome DEF SaveLineage, ChainInv, TypeInv, TypeOK, Actors
<1>2. /\ pc'[d] \notin Advanced
      /\ \A b \in Actors \ {d} : pc'[b] = pc[b] /\ req'[b] = req[b]
  BY <1>1, GotoFrame DEF Advanced
<1>3. lins[d] = None
  BY <1>1 DEF ChainInv, StoresTruthful, LineageOpened
<1>4. \A x \in Docs : pids[x] # None /\ pids[x].lineage # None =>
                        lins'[pids[x].lineage] = lins[pids[x].lineage]
  BY <1>1, <1>3, LineageOfRecord
<1> QED
  BY <1>1, <1>2, <1>4, SameLinks, OrderQuiet DEF Advanced

\* The parent was the last one of its lineage, or opens a new one.
LEMMA UpdateParentPidOrder ==
  ASSUME ChainInv, AppendInv, TipHeld, InOrder, NoneFailed', NEW d \in Docs, Rests(d),
         UpdateParentPid(d)
  PROVE  InOrder'
<1> DEFINE r == req[d]
<1>1. /\ UNCHANGED lins /\ pc[d] = "updateParentPid" /\ pc[d] \in Publishing
      /\ d \in Actors /\ r.parent # None /\ CreateLocals(d, pc[d], r)
      /\ pids \in [Docs -> DocumentPid \cup {None}]
  BY RunningLocals
     DEF UpdateParentPid, Publishing, ChainInv, CreateLocals, WithParent, TypeInv, TypeOK
<1> PICK p, k \in Docs : p = r.parent /\ k = r.lineage
  BY <1>1, PublishingFacts
<1>2. /\ pids' = [pids EXCEPT ![p] = r.held]
      /\ pc'[d] = "updateLineage" /\ req'[d] = r
      /\ \A b \in Actors \ {d} : pc'[b] = pc[b] /\ req'[b] = req[b]
  BY <1>1, FailsForGood, GotoFrame DEF UpdateParentPid, ChainInv, CleanSteps, EndSteps
<1>3. /\ r.held.lineage = k /\ k # None /\ p # None /\ SameDocument(p, r.held)
      /\ r.held # None /\ r.held.succ = d /\ NoChild(p)
      /\ IF k = d THEN pids[p].lineage = None /\ NoneIn(d) ELSE pids[p].lineage = k
  BY <1>1, PublishAssumption
     DEF TipHeld, HoldsTip, Advanced, CreateLocals, AppendInv, HoldsParent, Holding, Actors
<1>4. ASSUME NEW e \in Docs, NEW l \in Docs
      PROVE  ~Advancing(e, l) /\ (Advancing(e, l)' <=> e = d /\ l = k)
  <2>1. e \in Actors
    BY DEF Actors
  <2> QED
    BY <1>1, <1>2, <2>1 DEF Advancing, Rests, Advanced, EndSteps
<1>5. /\ \A x \in Docs \ {p} : pids'[x] = pids[x]
      /\ pids[p] # None /\ pids'[p] # None /\ pids'[p].lineage = k
      /\ pids'[p].version = pids[p].version /\ pids'[p].parent = pids[p].parent
  BY <1>1, <1>2, <1>3 DEF SameDocument
<1>6. ASSUME NEW x \in Docs \ {p}, Passed(x)  PROVE Passed(x)'
  BY <1>5, <1>6 DEF Passed
<1>7. ASSUME NEW x \in Docs \ {p}, NEW l \in Docs, pids[x] # None, pids[x].lineage = l
      PROVE  /\ EndsAt(l)
             /\ x = lins[l].last => pids[x].succ = None
             /\ x # lins[l].last => Passed(x)
  BY <1>4, <1>7 DEF InOrder, OnChain
<1> SUFFICES ASSUME NEW x \in Docs, NEW l \in Docs, pids'[x] # None, pids'[x].lineage = l
             PROVE  OnChain(x, l)'
  BY DEF InOrder
<1>8. CASE x = p
  <2>1. l = k
    BY <1>5, <1>8
  <2> QED
    BY <1>2, <1>4, <1>8, <2>1 DEF OnChain
<1>9. CASE x # p /\ l = k
  <2>1. pids[x] # None /\ pids[x].lineage = k
    BY <1>5, <1>9
  <2>2. k # d /\ pids[p].lineage = k
    BY <1>3, <2>1 DEF NoneIn
  <2>3. p = lins[k].last
    <3>1. OnChain(p, k)
      BY <1>5, <2>2 DEF InOrder
    <3>2. ~Passed(p)
      BY <1>3 DEF Passed, NoChild
    <3> QED
      BY <1>4, <3>1, <3>2 DEF OnChain
  <2>4. Passed(x)'
    BY <1>6, <1>7, <1>9, <2>1, <2>3
  <2> QED
    BY <1>4, <1>9, <2>4 DEF OnChain
<1>10. CASE x # p /\ l # k
  <2>1. pids[x] # None /\ pids[x].lineage = l /\ pids'[x].succ = pids[x].succ
    BY <1>5, <1>10
  <2>2. EndsAt(l)'
    <3> PICK e \in Docs : e = lins[l].last
      BY <2>1, LineageOfRecord, PublishAssumption DEF LineagePid, Actors
    <3>1. pids[e] # None /\ pids[e].version = lins[l].latest
      BY <1>7, <1>10, <2>1 DEF EndsAt
    <3>2. pids'[e] # None /\ pids'[e].version = pids[e].version
      BY <1>5, <3>1
    <3> QED
      BY <1>1, <3>1, <3>2 DEF EndsAt
  <2>3. x # lins[l].last => Passed(x)'
    BY <1>6, <1>7, <1>10, <2>1
  <2>4. x = lins[l].last => pids'[x].succ = None
    BY <1>7, <1>10, <2>1
  <2> QED
    BY <1>1, <1>4, <1>10, <2>2, <2>3, <2>4 DEF OnChain
<1> QED
  BY <1>8, <1>9, <1>10

LEMMA UpdateLineageOrder ==
  ASSUME ChainInv, TipHeld, InOrder, NoneFailed', NEW d \in Docs, Rests(d), UpdateLineage(d)
  PROVE  InOrder'
<1> DEFINE r == req[d]
<1>1. /\ UNCHANGED pids /\ pc[d] = "updateLineage" /\ pc[d] \in Publishing
      /\ d \in Actors /\ r.parent # None /\ TypeInv
      /\ lins \in [Docs -> LineagePid \cup {None}]
  BY RunningLocals
     DEF UpdateLineage, Publishing, ChainInv, CreateLocals, WithParent, TypeInv, TypeOK
<1> PICK k \in Docs : k = r.lineage
  BY <1>1, PublishingFacts
<1>2. /\ lins' = [lins EXCEPT ![k] = r.heldLin]
      /\ pc'[d] = "savePid" /\ req'[d] = r
      /\ \A b \in Actors \ {d} : pc'[b] = pc[b] /\ req'[b] = req[b]
  BY <1>1, FailsForGood, GotoFrame DEF UpdateLineage, CleanSteps, EndSteps
<1>3. ASSUME NEW e \in Docs, NEW l \in Docs
      PROVE  /\ Advancing(e, l) <=> e = d /\ l = k
             /\ Advancing(e, l)' <=> e = d /\ l = k
  <2>1. e \in Actors
    BY DEF Actors
  <2> QED
    BY <1>1, <1>2, <2>1 DEF Advancing, Rests, Advanced, EndSteps
<1> SUFFICES ASSUME NEW x \in Docs, NEW l \in Docs, pids'[x] # None, pids'[x].lineage = l
             PROVE  OnChain(x, l)'
  BY DEF InOrder
<1>4. OnChain(x, l) /\ (Passed(x) => Passed(x)')
  BY <1>1 DEF InOrder, Passed
<1>5. CASE l = k
  BY <1>2, <1>3, <1>4, <1>5 DEF OnChain
<1>6. CASE l # k
  <2>1. lins'[l] = lins[l]
    BY <1>1, <1>2, <1>6
  <2>2. EndsAt(l) => EndsAt(l)'
    BY <1>1, <2>1 DEF EndsAt
  <2> QED
    BY <1>1, <1>3, <1>4, <1>6, <2>1, <2>2 DEF OnChain
<1> QED
  BY <1>5, <1>6

\* The new document becomes the last one, and the only child of its parent.
LEMMA SavePidOrder ==
  ASSUME ChainInv, AppendInv, TipHeld, InOrder, NoneFailed', NEW d \in Docs, Rests(d), SavePid(d)
  PROVE  InOrder'
<1> DEFINE r == req[d]
<1>1. /\ UNCHANGED lins /\ pc[d] = "savePid" /\ pc[d] \in Publishing
      /\ d \in Actors /\ CreateLocals(d, pc[d], r) /\ pids[d] = None /\ TypeInv
      /\ pids \in [Docs -> DocumentPid \cup {None}] /\ r \in Request
  BY RunningLocals
     DEF SavePid, Publishing, ChainInv, TypeInv, TypeOK, AppendInv, BeforePid, CreateSteps
<1>2. /\ pids' = [pids EXCEPT ![d] = NewPid(r)]
      /\ \E step \in {"done", "readMeta"} : \E s : Goto(d, step, s)
  BY <1>1, FailsForGood DEF SavePid, CleanSteps
<1>3. /\ pc'[d] \notin Advanced
      /\ \A b \in Actors \ {d} : pc'[b] = pc[b] /\ req'[b] = req[b]
  BY <1>1, <1>2, GotoFrame DEF Advanced
<1>4. /\ \A x \in Docs \ {d} : pids'[x] = pids[x]
      /\ pids'[d] = NewPid(r) /\ NewPid(r).succ = None /\ NewPid(r).parent = r.parent
      /\ NewPid(r).lineage = r.lineage /\ NewPid(r).version = NewVersion(r)
      /\ None \notin Docs
  BY <1>1, <1>2, PublishAssumption DEF NewPid, Actors
<1>5. NewPid(r) # None
  <2>1. NewPid(r) \in DocumentPid
    BY <1>1, NewRecordType DEF CreateLocals
  <2> QED
    BY <2>1, PublishAssumption
<1>6. ASSUME NEW e \in Docs, NEW l \in Docs
      PROVE  /\ ~Advancing(e, l)'
             /\ Advancing(e, l) => e = d /\ l = r.lineage /\ r.parent # None
  <2>1. e \in Actors
    BY DEF Actors
  <2> QED
    BY <1>1, <1>3, <2>1 DEF Advancing, Rests, Advanced, EndSteps
<1>7. ASSUME NEW x \in Docs \ {d}, Passed(x), x # r.parent
      PROVE  Passed(x)'
  BY <1>1, <1>4, <1>5, <1>7 DEF Passed
<1>8. ASSUME NEW l \in Docs, EndsAt(l), lins[l].last \in Docs
      PROVE  lins[l].last # d /\ EndsAt(l)'
  BY <1>1, <1>4, <1>8 DEF EndsAt
<1> SUFFICES ASSUME NEW x \in Docs, NEW l \in Docs, pids'[x] # None, pids'[x].lineage = l
             PROVE  OnChain(x, l)'
  BY DEF InOrder
<1>9. CASE l = r.lineage
  <2>1. r.parent # None
    BY <1>1, <1>4, <1>9 DEF CreateLocals
  <2> PICK p \in Docs : p = r.parent
    BY <1>1, <2>1, PublishingFacts
  <2>2. /\ lins[l] = r.heldLin /\ r.heldLin.last = d
        /\ r.heldLin.latest = NewVersion(r)
        /\ pids[p] = r.held /\ r.held.succ = d /\ NoChild(p)
    BY <1>1, <1>9, <2>1 DEF TipHeld, HoldsTip, Advanced, NewVersion
  <2>3. EndsAt(l)'
    BY <1>1, <1>4, <1>5, <2>2 DEF EndsAt
  <2>4. p # d /\ Passed(p)'
    <3>1. p # d /\ pids'[p] = pids[p]
      BY <1>1, <1>4, <2>1, <2>2 DEF CreateLocals
    <3>2. pids'[p].succ = d
      BY <2>2, <3>1
    <3>3. \A y \in Docs : pids'[y] # None /\ pids'[y].parent = p <=> y = d
      BY <1>4, <1>5, <2>2 DEF NoChild
    <3> QED
      BY <3>1, <3>2, <3>3 DEF Passed
  <2>5. CASE x = d
    BY <1>1, <1>4, <1>6, <2>2, <2>3, <2>5 DEF OnChain
  <2>6. CASE x = p
    BY <1>1, <1>6, <2>2, <2>3, <2>4, <2>6 DEF OnChain
  <2>7. CASE x \notin {d, p}
    <3>1. Advancing(d, l) /\ OnChain(x, l)
      BY <1>1, <1>4, <1>9, <2>1, <2>7 DEF Advancing, Advanced, InOrder
    <3>2. Passed(x)
      BY <1>6, <2>7, <3>1 DEF OnChain
    <3> QED
      BY <1>1, <1>6, <1>7, <2>2, <2>3, <2>7, <3>2 DEF OnChain
  <2> QED
    BY <2>5, <2>6, <2>7
<1>10. CASE l # r.lineage
  <2>1. x # d /\ pids[x] # None /\ pids[x].lineage = l /\ pids'[x] = pids[x]
    BY <1>4, <1>10
  <2>2. x # r.parent
    <3>1. ASSUME x = r.parent  PROVE FALSE
      <4>1. r.parent # None
        BY <1>4, <3>1
      <4>2. pids[x] = r.held /\ r.held.lineage = r.lineage
        BY <1>1, <3>1, <4>1 DEF TipHeld, HoldsTip, Advanced, CreateLocals
      <4> QED
        BY <1>10, <2>1, <4>2
    <3> QED
      BY <3>1
  <2>3. lins[l].last \in Docs
    BY <1>4, <2>1, LineageOfRecord DEF LineagePid
  <2>4. /\ EndsAt(l)
        /\ x = lins[l].last => pids[x].succ = None
        /\ x # lins[l].last => Passed(x)
    BY <1>6, <1>10, <2>1 DEF InOrder, OnChain
  <2> QED
    BY <1>1, <1>6, <1>7, <1>8, <2>1, <2>2, <2>3, <2>4 DEF OnChain
<1> QED
  BY <1>9, <1>10

LEMMA MetaOrder ==
  ASSUME ChainInv, TipHeld, InOrder, NoneFailed', NEW a \in Actors, Rests(a),
         MetaStep(a) \/ Crash(a) \/ \E x \in Docs : a \in Patchers /\ StartPatch(a, x)
  PROVE  InOrder'
<1>1. CASE Crash(a)
  BY <1>1, FailsForGood DEF Crash, ChainInv
<1>2. CASE MetaStep(a)
  <2>1. /\ UNCHANGED lins /\ pc[a] \in MetaSteps /\ LinksStay
        /\ \E step \in {"done", "failed", "writeMeta"} : \E r : Goto(a, step, r)
    BY <1>2, MetaLinks
       DEF MetaStep, ReadMeta, WriteMeta, MetaFailed, MetaSteps, stores
  <2>2. /\ pc'[a] \notin Advanced /\ pc[a] \notin Advanced
        /\ \A b \in Actors \ {a} : pc'[b] = pc[b] /\ req'[b] = req[b]
    BY <2>1, GotoFrame DEF ChainInv, Advanced, MetaSteps
  <2> QED
    BY <2>1, <2>2, OrderQuiet
<1>3. CASE \E x \in Docs : a \in Patchers /\ StartPatch(a, x)
  <2>1. UNCHANGED <<pids, lins>> /\ a \notin Docs /\ \E step, r : Goto(a, step, r)
    BY <1>3, PublishAssumption DEF StartPatch, stores
  <2> QED
    BY <2>1, GotoFrame, SameLinks, OrderQuiet DEF ChainInv
<1> QED
  BY <1>1, <1>2, <1>3

LEMMA IdleOrder ==
  ASSUME InOrder, UNCHANGED <<pids, lins, pc, req>>
  PROVE  InOrder'
BY DEF InOrder, OnChain, Advancing, Passed, EndsAt

LEMMA NextOrder ==
  ASSUME ChainInv, AppendInv, TipHeld, InOrder, NoneFailed', OneActive, OneActive', [Next]_vars
  PROVE  InOrder'
<1>1. TypeInv
  BY DEF ChainInv
<1>2. ASSUME NEW d \in Docs, CreateStep(d)  PROVE InOrder'
  <2>1. Rests(d)
    BY <1>1, <1>2, MoverRests
  <2> QED
    BY <1>2, <2>1, QuietOrder, SaveLineageOrder, UpdateParentPidOrder, UpdateLineageOrder,
       SavePidOrder DEF CreateStep, Checks
<1>3. ASSUME NEW d \in Docs, NEW p \in DocOrNone, NEW m \in {d, None}, StartCreate(d, p, m)
      PROVE  InOrder'
  BY <1>1, <1>3, MoverRests, QuietOrder
<1>4. ASSUME NEW q \in Patchers, NEW x \in Docs, StartPatch(q, x)
      PROVE  InOrder'
  BY <1>1, <1>4, MoverRests, MetaOrder DEF Actors
<1>5. ASSUME NEW a \in Actors, MetaStep(a) \/ Crash(a)
      PROVE  InOrder'
  BY <1>1, <1>5, MoverRests, MetaOrder
<1>6. CASE (\E x \in Docs : RepairStep(x)) \/ UNCHANGED vars
  BY <1>6, IdleOrder
     DEF RepairStep, RepairRead, RepairGet, RepairWrite, RepairFails, stores, vars
<1> QED
  BY <1>2, <1>3, <1>4, <1>5, <1>6 DEF Next, Quiescent

LEMMA FailedForEver ==
  ASSUME TypeInv, [Next]_vars, NoneFailed'
  PROVE  NoneFailed
<1> DEFINE Fails == {"failed"} \cup CleanSteps
<1> SUFFICES ASSUME NEW x \in Actors, pc[x] \in Fails  PROVE pc'[x] \in Fails
  BY DEF NoneFailed
<1>1. CASE UNCHANGED pc
  BY <1>1
<1>2. ASSUME NEW a \in Actors, NEW step, NEW r, Goto(a, step, r), a = x => step \in Fails
      PROVE  pc'[x] \in Fails
  BY <1>2, GotoFrame
<1>3. pc[x] \notin CreateSteps \cup MetaSteps \cup {"idle"}
  BY DEF CleanSteps, CreateSteps, MetaSteps
<1>4. ASSUME NEW d \in Docs, NEW p \in DocOrNone, NEW m \in {d, None}, StartCreate(d, p, m)
      PROVE  pc'[x] \in Fails
  BY <1>2, <1>3, <1>4 DEF StartCreate, Actors
<1>5. ASSUME NEW q \in Patchers, NEW y \in Docs, StartPatch(q, y)
      PROVE  pc'[x] \in Fails
  BY <1>2, <1>3, <1>5 DEF StartPatch, Actors
<1>6. ASSUME NEW d \in Docs, CreateStep(d)
      PROVE  pc'[x] \in Fails
  <2>1. CASE CleanFile(d) \/ CleanRow(d) \/ RevertRow(d)
    <3>1. \E step \in Fails : \E r : Goto(d, step, r)
      BY <2>1 DEF CleanFile, CleanRow, RevertRow, CleanSteps
    <3> QED
      BY <1>2, <3>1 DEF Actors
  <2>2. CASE ~(CleanFile(d) \/ CleanRow(d) \/ RevertRow(d))
    <3>1. pc[d] \in CreateSteps /\ d \in Actors /\ \E step, r : Goto(d, step, r)
      BY <1>6, <2>2 DEF CreateStep, Authorise, FindLineage, FindFirst, Refuse, CheckSteps,
         StoreFile, ReadParent, ReadLineage,
         ReadFails, OpenLineage, SaveRow, UpdateParentRow, SaveLineage, UpdateParentPid,
         UpdateLineage, SavePid, CreateSteps, Actors
    <3> QED
      BY <1>2, <1>3, <3>1
  <2> QED
    BY <2>1, <2>2
<1>7. ASSUME NEW a \in Actors, MetaStep(a)
      PROVE  pc'[x] \in Fails
  BY <1>2, <1>3, <1>7 DEF MetaStep, ReadMeta, WriteMeta, MetaSteps
<1>8. ASSUME NEW a \in Actors, Crash(a)
      PROVE  pc'[x] \in Fails
  BY <1>2, <1>8 DEF Crash
<1> QED
  BY <1>1, <1>4, <1>5, <1>6, <1>7, <1>8
     DEF Next, RepairStep, RepairRead, RepairGet, RepairWrite, RepairFails, Quiescent, vars

OrderInv == ~overlapped /\ NoneFailed => InOrder

\* As long as no request fails, requests one after the other leave each lineage in order:
\* its record names the one document without successor and that document's version, and each
\* parent names its only child (finalize_pid_records, three records and as many calls).
THEOREM LineagesInOrder == TurnSpec => []LineageTracksTip
<1>1. TurnInit => OrderInv
  BY DEF TurnInit, Init, OrderInv, InOrder
<1>2. ChainInv /\ AppendInv /\ TipInv /\ TipInv' /\ OrderInv /\ [TurnNext]_turnVars => OrderInv'
  <2>1. [TurnNext]_turnVars => [Next]_vars
    BY DEF TurnNext, turnVars
  <2>2. [TurnNext]_turnVars /\ ~overlapped' => ~overlapped
    BY DEF TurnNext, turnVars
  <2> QED
    BY <2>1, <2>2, FailedForEver, NextOrder DEF OrderInv, TipInv, ChainInv
<1>3. ASSUME ChainInv, OrderInv  PROVE LineageTracksTip
  <2> SUFFICES ASSUME ~overlapped, Active = {}, \A a \in Actors : pc[a] # "failed",
                      NEW x \in Docs, pids[x] # None, pids[x].lineage # None
               PROVE  LET lin == lins[pids[x].lineage] IN
                      /\ pids[lin.last] # None
                      /\ pids[lin.last].version = lin.latest
                      /\ pids[x].succ = None <=> x = lin.last
                      /\ pids[x].succ # None =>
                           {d \in Docs : pids[d] # None /\ pids[d].parent = x} = {pids[x].succ}
    BY DEF LineageTracksTip
  <2> PICK l \in Docs : l = pids[x].lineage
    BY <1>3, LineageOfRecord
  <2>1. NoneFailed
    BY <1>3 DEF NoneFailed, CleanSteps, Active, EndSteps
  <2>2. \A d \in Docs : ~Advancing(d, l)
    BY DEF Advancing, Advanced, Active, Actors, EndSteps
  <2>3. /\ EndsAt(l)
        /\ x = lins[l].last => pids[x].succ = None
        /\ x # lins[l].last => Passed(x)
    BY <1>3, <2>1, <2>2 DEF OrderInv, InOrder, OnChain
  <2> QED
    BY <2>3, PublishAssumption DEF EndsAt, Passed, Actors
<1> QED
  BY <1>1, <1>2, <1>3, TurnInvariant, PTL DEF TurnSpec
===============================================================================
