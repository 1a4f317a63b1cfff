--------------------------- MODULE LocalPids_proofs ---------------------------
(***************************************************************************)
(* Proofs about LocalPids: no lost update, torn file or failed request     *)
(* breaks a chain, only first versions can get two successors, and one     *)
(* worker at a time forgets nothing that it has acknowledged and keeps     *)
(* every lineage pointing at its latest document until a request fails.    *)
(***************************************************************************)
EXTENDS LocalPids, TLAPS

-----------------------------------------------------------------------------
(* Stores *)

\* What a document's record, or the locals of the request that will save it, owe to
\* the other records of the store s
Follows(s, r) ==
  IF r.parent = None THEN r.version = 1
  ELSE /\ s.pids[r.parent] # None
       /\ r.version = s.pids[r.parent].version + 1
       /\ r.lineage # None
       /\ s.lins[r.lineage] # None
       /\ s.lins[r.lineage].latest >= r.version
       /\ IF s.pids[r.parent].version = 1
          THEN s.lins[r.lineage].first = r.parent
          ELSE r.lineage = s.pids[r.parent].lineage

OneNext(s) ==
  \A c, d \in Docs :
    /\ c # d /\ s.pids[c] # None /\ s.pids[d] # None
    /\ s.pids[c].parent = s.pids[d].parent /\ s.pids[c].parent # None
    => s.pids[s.pids[c].parent].version = 1

Sound(s) ==
  /\ \A d \in Docs : s.pids[d] # None => s.pids[d].version >= 1 /\ Follows(s, s.pids[d])
  /\ \A l \in Docs : s.lins[l] # None => s.lins[l].latest >= 2
  /\ OneNext(s)

\* The store t has the documents of s with all that matters to their chains.
Grown(s, t) ==
  /\ \A d \in Docs :
       /\ s.pids[d] = None <=> t.pids[d] = None
       /\ s.pids[d] # None =>
            /\ t.pids[d].version = s.pids[d].version
            /\ t.pids[d].parent = s.pids[d].parent
            /\ s.pids[d].version # 1 => t.pids[d].lineage = s.pids[d].lineage
  /\ \A l \in Docs : s.lins[l] # None =>
       /\ t.lins[l] # None
       /\ t.lins[l].first = s.lins[l].first
       /\ t.lins[l].latest >= s.lins[l].latest
  /\ \A l \in Docs : t.lins[l] # None => t.lins[l].latest >= 2

LEMMA EmptyStore == Empty \in Store /\ Sound(Empty)
BY DEF Empty, Store, Sound, OneNext, DocOrNone

\* What follows in a store follows in one that has grown from it.
LEMMA FollowsGrown ==
  ASSUME NEW s \in Store, NEW t \in Store, Grown(s, t),
         NEW r, r.parent \in DocOrNone, r.lineage \in DocOrNone, r.version \in Nat,
         Follows(s, r)
  PROVE  Follows(t, r)
<1>1. CASE r.parent = None
  BY <1>1 DEF Follows
<1>2. CASE r.parent # None
  <2>1. r.parent \in Docs /\ r.lineage \in Docs
    BY <1>2 DEF Follows, DocOrNone
  <2>2. s.lins[r.lineage] \in LineagePid /\ t.lins[r.lineage] \in LineagePid
    BY <1>2, <2>1 DEF Follows, Grown, Store
  <2> QED
    BY <1>2, <2>1, <2>2 DEF Follows, Grown, LineagePid
<1> QED
  BY <1>1, <1>2

LEMMA GrownIsSound ==
  ASSUME NEW s \in Store, NEW t \in Store, Grown(s, t), Sound(s)
  PROVE  Sound(t)
<1>1. ASSUME NEW d \in Docs, t.pids[d] # None
      PROVE  t.pids[d].version >= 1 /\ Follows(t, t.pids[d])
  <2>1. s.pids[d] # None /\ s.pids[d] \in DocumentPid /\ t.pids[d] \in DocumentPid
    BY <1>1 DEF Grown, Store
  <2>2. Follows(t, s.pids[d])
    BY <2>1, FollowsGrown DEF Sound, DocumentPid
  <2>3. /\ t.pids[d].version = s.pids[d].version
        /\ t.pids[d].parent = s.pids[d].parent
        /\ s.pids[d].version # 1 => t.pids[d].lineage = s.pids[d].lineage
    BY <2>1 DEF Grown
  <2>4. s.pids[d].parent # None => s.pids[d].version # 1
    <3> SUFFICES ASSUME s.pids[d].parent # None  PROVE s.pids[d].version # 1
      OBVIOUS
    <3> DEFINE p == s.pids[d].parent
    <3>1. p \in Docs /\ s.pids[p] # None /\ s.pids[d].version = s.pids[p].version + 1
      BY <2>1 DEF Sound, Follows, DocumentPid, DocOrNone
    <3>2. s.pids[p].version >= 1 /\ s.pids[p].version \in Nat
      BY <3>1 DEF Sound, Store, DocumentPid
    <3> QED
      BY <3>1, <3>2
  <2> QED
    BY <2>1, <2>2, <2>3, <2>4 DEF Follows, Sound
<1>2. \A l \in Docs : t.lins[l] # None => t.lins[l].latest >= 2
  BY DEF Grown
<1>3. OneNext(t)
  <2> SUFFICES ASSUME NEW c \in Docs, NEW d \in Docs, c # d,
                      t.pids[c] # None, t.pids[d] # None,
                      t.pids[c].parent = t.pids[d].parent, t.pids[c].parent # None
               PROVE  t.pids[t.pids[c].parent].version = 1
    BY DEF OneNext
  <2>1. /\ s.pids[c] # None /\ s.pids[d] # None
        /\ s.pids[c].parent = t.pids[c].parent /\ s.pids[d].parent = t.pids[d].parent
    BY DEF Grown
  <2>2. s.pids[s.pids[c].parent].version = 1
    BY <2>1 DEF Sound, OneNext
  <2>3. s.pids[c].parent \in Docs /\ s.pids[s.pids[c].parent] # None
    BY <2>1 DEF Sound, Follows, Store, DocumentPid, DocOrNone
  <2> QED
    BY <2>1, <2>2, <2>3 DEF Grown
<1> QED
  BY <1>1, <1>2, <1>3 DEF Sound

\* A document that follows and is the only next one of its parent can be added.
LEMMA AddedIsSound ==
  ASSUME NEW s \in Store, Sound(s), NEW d \in Docs, s.pids[d] = None,
         NEW r \in DocumentPid, r.version >= 1, Follows(s, r),
         \A c \in Docs : s.pids[c] # None /\ r.parent # None /\ s.pids[c].parent = r.parent =>
                           s.pids[r.parent].version = 1
  PROVE  [s EXCEPT !.pids[d] = r] \in Store /\ Sound([s EXCEPT !.pids[d] = r])
<1> DEFINE t == [s EXCEPT !.pids[d] = r]
<1>1. /\ t \in Store
      /\ t.lins = s.lins
      /\ t.pids[d] = r
      /\ \A c \in Docs \ {d} : t.pids[c] = s.pids[c]
  BY DEF Store
<1>2. r # None
  BY LocalAssumption
<1>3. \A q : Follows(s, q) /\ q.parent \in DocOrNone => Follows(t, q)
  BY <1>1 DEF Follows, DocOrNone
<1>4. \A c \in Docs : s.pids[c] # None => s.pids[c].parent \in DocOrNone
  BY DEF Store, DocumentPid
<1>5. \A c \in Docs : t.pids[c] # None => t.pids[c].version >= 1 /\ Follows(t, t.pids[c])
  BY <1>1, <1>3, <1>4 DEF Sound, DocumentPid
<1>6. OneNext(t)
  <2> SUFFICES ASSUME NEW c \in Docs, NEW e \in Docs, c # e,
                      t.pids[c] # None, t.pids[e] # None,
                      t.pids[c].parent = t.pids[e].parent, t.pids[c].parent # None
               PROVE  t.pids[t.pids[c].parent].version = 1
    BY DEF OneNext
  <2>1. t.pids[c].parent \in Docs /\ s.pids[t.pids[c].parent] # None /\ t.pids[c].parent # d
    <3>1. CASE c = d
      BY <3>1, <1>1 DEF Follows, DocumentPid, DocOrNone
    <3>2. CASE c # d
      BY <3>2, <1>1, <1>4 DEF Sound, Follows, DocOrNone
    <3> QED
      BY <3>1, <3>2
  <2>2. s.pids[t.pids[c].parent].version = 1
    BY <1>1 DEF Sound, OneNext
  <2> QED
    BY <1>1, <2>1, <2>2
<1> QED
  BY <1>1, <1>5, <1>6 DEF Sound

\* A new lineage record can be added, and hides nothing.
LEMMA OpenedIsGrown ==
  ASSUME NEW s \in Store, Sound(s), NEW d \in Docs, s.lins[d] = None,
         NEW p \in Docs
  PROVE  LET t == [s EXCEPT !.lins[d] = [first |-> p, last |-> d, latest |-> 2]] IN
         /\ t \in Store /\ Grown(s, t)
         /\ t.pids = s.pids
         /\ t.lins[d] = [first |-> p, last |-> d, latest |-> 2]
         /\ \A l \in Docs \ {d} : t.lins[l] = s.lins[l]
<1> DEFINE t == [s EXCEPT !.lins[d] = [first |-> p, last |-> d, latest |-> 2]]
<1>1. [first |-> p, last |-> d, latest |-> 2] \in LineagePid
  BY DEF LineagePid
<1>2. /\ t \in Store
      /\ t.pids = s.pids
      /\ t.lins[d] = [first |-> p, last |-> d, latest |-> 2]
      /\ \A l \in Docs \ {d} : t.lins[l] = s.lins[l]
  BY <1>1 DEF Store
<1>3. \A l \in Docs : s.lins[l] # None => s.lins[l].latest \in Nat
  BY DEF Store, LineagePid
<1> QED
  BY <1>2, <1>3 DEF Grown, Sound

-----------------------------------------------------------------------------
(* The invariant *)

\* Requests that have made their records and not yet stored all of them
Pending == {d \in Docs : pc[d] \in {"saveRow"} \cup FinalSteps}

\* A request under way belongs to a worker that is up, and no two requests of a
\* worker finalize their records at the same time.
RequestsHaveWorkers ==
  /\ \A d \in Docs :
       /\ pc[d] \in {"idle"} \cup EndSteps <=> req[d].at = None
       /\ req[d].at # None => up[req[d].at] = "yes"
  /\ \A c, d \in Docs :
       c # d /\ pc[c] \in FinalSteps /\ pc[d] \in FinalSteps => req[c].at # req[d].at

NoLineageYet(d) ==
  pc[d] \in {"idle", "prepare", "saveRow"} \/ (pc[d] = "saveLineage" /\ writing[req[d].at] = "no")
NoPidYet(d) ==
  \/ pc[d] \in {"idle", "prepare", "saveRow", "saveLineage", "updateParent", "updateLineage"}
  \/ pc[d] = "savePid" /\ writing[req[d].at] = "no"

\* Nobody knows a record that its request has not stored.
Fresh(s) ==
  \A d \in Docs : (NoLineageYet(d) => s.lins[d] = None) /\ (NoPidYet(d) => s.pids[d] = None)

StoresAreSound == \A s \in Stores : Sound(s) /\ Fresh(s)

\* The records of a pending request follow in its worker's memory, but for the
\* lineage record that it is going to store itself.
Following(d) ==
  LET r == req[d]  s == mem[r.at] IN
  /\ pc[d] = "saveLineage" => r.lineage = d /\ r.parent # None
  /\ IF r.parent # None /\ r.lineage = d /\ NoLineageYet(d)
     THEN /\ s.pids[r.parent] # None
          /\ s.pids[r.parent].version = 1 /\ r.version = 2
     ELSE Follows(s, r)

\* Unless its parent is a first version, its parent has no other next document in
\* the worker's memory, and no other request of the worker is about to make one.
NoneStored(d) ==
  LET p == req[d].parent  s == mem[req[d].at] IN
  p # None /\ s.pids[p].version # 1 =>
    \A c \in Docs \ {d} : s.pids[c] # None => s.pids[c].parent # p
NotBoth(c, d) ==
  LET p == req[d].parent  s == mem[req[d].at] IN
  c # d /\ req[c].at = req[d].at /\ p # None /\ req[c].parent = p => s.pids[p].version = 1

PendingFollows == \A d \in Pending : Following(d)
PendingIsAlone == \A d \in Pending : NoneStored(d) /\ \A c \in Pending : NotBoth(c, d)

LocalInv ==
  /\ LocalTypeOK
  /\ RequestsHaveWorkers
  /\ StoresAreSound
  /\ PendingFollows
  /\ PendingIsAlone

-----------------------------------------------------------------------------
(* Type correctness *)

\* A request of a worker that is up goes on, or ends.
LEMMA GotoTyped ==
  ASSUME LocalTypeOK, RequestsHaveWorkers, NEW d \in Docs,
         NEW step \in {"prepare", "saveRow", "cleanRow"} \cup FinalSteps \cup EndSteps,
         NEW r \in Request, r.at \in Workers, up[r.at] = "yes", up' = up,
         Goto(d, step, r),
         step \in FinalSteps =>
           \A c \in Docs \ {d} : pc[c] \in FinalSteps => req[c].at # r.at
  PROVE  /\ pc' \in [Docs -> {"idle", "prepare", "saveRow", "cleanRow"}
                             \cup FinalSteps \cup EndSteps]
         /\ req' \in [Docs -> Request]
         /\ RequestsHaveWorkers'
<1>1. NoRequest \in Request
  BY DEF NoRequest, Request, DocOrNone
<1>2. /\ pc' \in [Docs -> {"idle", "prepare", "saveRow", "cleanRow"}
                          \cup FinalSteps \cup EndSteps]
      /\ req' \in [Docs -> Request]
  BY <1>1 DEF Goto, LocalTypeOK
<1>3. r.at # None /\ NoRequest.at = None
  BY LocalAssumption DEF NoRequest
<1>4. /\ pc'[d] = step
      /\ req'[d] = IF step \in EndSteps THEN NoRequest ELSE r
      /\ \A c \in Docs \ {d} : pc'[c] = pc[c] /\ req'[c] = req[c]
  BY DEF Goto, LocalTypeOK
<1>5. \A c \in Docs : /\ pc'[c] \in {"idle"} \cup EndSteps <=> req'[c].at = None
                      /\ req'[c].at # None => up'[req'[c].at] = "yes"
  BY <1>3, <1>4 DEF RequestsHaveWorkers, EndSteps, FinalSteps
<1>6. \A c, e \in Docs :
        c # e /\ pc'[c] \in FinalSteps /\ pc'[e] \in FinalSteps => req'[c].at # req'[e].at
  BY <1>4 DEF RequestsHaveWorkers, EndSteps, FinalSteps
<1> QED
  BY <1>2, <1>5, <1>6 DEF RequestsHaveWorkers

LEMMA FileTyped ==
  ASSUME LocalTypeOK, NEW w \in Workers, OpenFile(w) \/ CloseFile(w)
  PROVE  /\ file' \in Store \cup {Absent, Torn}
         /\ writing' \in [Workers -> {"no", "alone", "shared"}]
  BY DEF OpenFile, CloseFile, LocalTypeOK

LEMMA AdvancedTyped ==
  ASSUME NEW lin \in LineagePid, NEW d \in Docs
  PROVE  /\ Advanced(lin, d) \in LineagePid
         /\ Advanced(lin, d).first = lin.first /\ Advanced(lin, d).last = d
         /\ Advanced(lin, d).latest = lin.latest + 1
  BY DEF Advanced, LineagePid

\* What new_pid_record_from_document makes of the worker's store s
LEMMA AdvancedStore ==
  ASSUME NEW s \in Store, NEW p \in Docs, NEW d \in Docs,
         s.pids[p] # None, ~NoLineage(s, p)
  PROVE  LET l == s.pids[p].lineage
             t == WithNext(s, p, d) IN
         /\ l \in Docs /\ s.lins[l] \in LineagePid
         /\ t \in Store
         /\ \A c \in Docs \ {p} : t.pids[c] = s.pids[c]
         /\ t.pids[p].version = s.pids[p].version
         /\ t.pids[p].parent = s.pids[p].parent
         /\ t.pids[p].lineage = l
         /\ t.pids[p] \in DocumentPid
         /\ \A m \in Docs \ {l} : t.lins[m] = s.lins[m]
         /\ t.lins[l] \in LineagePid
         /\ t.lins[l].first = s.lins[l].first /\ t.lins[l].last = d
         /\ t.lins[l].latest = s.lins[l].latest + 1
<1> DEFINE l == s.pids[p].lineage
           lin == s.lins[l]
           q == [s.pids[p] EXCEPT !.succ = d]
           t == [pids |-> [s.pids EXCEPT ![p] = q],
                 lins |-> [s.lins EXCEPT ![l] = Advanced(lin, d)]]
<1>1. s.pids[p] \in DocumentPid
  BY DEF Store
<1>2. l \in Docs /\ lin \in LineagePid
  BY <1>1 DEF NoLineage, Store, DocumentPid, DocOrNone
<1>3. /\ Advanced(lin, d) \in LineagePid
      /\ Advanced(lin, d).first = lin.first /\ Advanced(lin, d).last = d
      /\ Advanced(lin, d).latest = lin.latest + 1
  BY <1>2, AdvancedTyped
<1>4. /\ q \in DocumentPid /\ q.version = s.pids[p].version
      /\ q.parent = s.pids[p].parent /\ q.lineage = l
  BY <1>1 DEF DocumentPid, DocOrNone
<1>5. s.pids \in [Docs -> DocumentPid \cup {None}] /\ s.lins \in [Docs -> LineagePid \cup {None}]
  BY DEF Store
<1>6. t \in Store
  BY <1>2, <1>3, <1>4, <1>5 DEF Store
<1>7. WithNext(s, p, d) = t
  BY DEF WithNext
<1> HIDE DEF q
<1>8. /\ t.pids[p] = q /\ t.lins[l] = Advanced(lin, d)
      /\ \A c \in Docs \ {p} : t.pids[c] = s.pids[c]
      /\ \A m \in Docs \ {l} : t.lins[m] = s.lins[m]
  BY <1>2, <1>5
<1> HIDE DEF t
<1> QED
  BY <1>2, <1>3, <1>4, <1>6, <1>7, <1>8

LEMMA LinkedStore ==
  ASSUME NEW s \in Store, NEW p \in Docs, NEW d \in Docs, s.pids[p] # None
  PROVE  LET t == WithLineage(s, p, d) IN
         /\ t \in Store
         /\ t.lins = s.lins
         /\ \A c \in Docs \ {p} : t.pids[c] = s.pids[c]
         /\ t.pids[p].version = s.pids[p].version
         /\ t.pids[p].parent = s.pids[p].parent
         /\ t.pids[p] \in DocumentPid
<1> DEFINE q == [s.pids[p] EXCEPT !.succ = d, !.lineage = d]
           t == [s EXCEPT !.pids[p] = q]
<1>1. s.pids[p] \in DocumentPid /\ s.pids \in [Docs -> DocumentPid \cup {None}]
  BY DEF Store
<1>2. /\ q \in DocumentPid
      /\ q.version = s.pids[p].version /\ q.parent = s.pids[p].parent
  BY <1>1 DEF DocumentPid, DocOrNone
<1>3. WithLineage(s, p, d) = t
  BY DEF WithLineage
<1> HIDE DEF q
<1>4. /\ t \in Store /\ t.lins = s.lins /\ t.pids[p] = q
      /\ \A c \in Docs \ {p} : t.pids[c] = s.pids[c]
  BY <1>1, <1>2 DEF Store
<1> HIDE DEF t
<1> QED
  BY <1>2, <1>3, <1>4

LEMMA AtTyped ==
  ASSUME LocalTypeOK, RequestsHaveWorkers, NEW d \in Docs,
         pc[d] \notin {"idle"} \cup EndSteps
  PROVE  /\ req[d] \in Request /\ req[d].at \in Workers /\ up[req[d].at] = "yes"
         /\ mem[req[d].at] \in Store
BY DEF LocalTypeOK, RequestsHaveWorkers, Request

LEMMA PrepareTyped ==
  ASSUME LocalTypeOK, RequestsHaveWorkers, NEW d \in Docs, Prepare(d)
  PROVE  LocalTypeOK' /\ RequestsHaveWorkers'
<1> DEFINE w == req[d].at
           s == mem[w]
           p == req[d].parent
<1>1. /\ req[d] \in Request /\ w \in Workers /\ up[w] = "yes" /\ s \in Store
      /\ UNCHANGED <<up, file, writing, rows, inTurn>>
  BY AtTyped DEF Prepare, EndSteps
<1>2. p \in DocOrNone
  BY <1>1 DEF Request
<1>3. ASSUME NEW step \in {"saveRow", "failed"}, NEW r \in Request, r.at = w, Goto(d, step, r),
             NEW t \in Store, mem' = [mem EXCEPT ![w] = t] \/ mem' = mem
      PROVE  LocalTypeOK' /\ RequestsHaveWorkers'
  <2>1. /\ pc' \in [Docs -> {"idle", "prepare", "saveRow", "cleanRow"}
                            \cup FinalSteps \cup EndSteps]
        /\ req' \in [Docs -> Request]
        /\ RequestsHaveWorkers'
    BY <1>1, <1>3, GotoTyped DEF FinalSteps, EndSteps
  <2>2. mem' \in [Workers -> Store]
    BY <1>1, <1>3 DEF LocalTypeOK
  <2> QED
    BY <1>1, <2>1, <2>2 DEF LocalTypeOK
<1>4. CASE PrepareFirst(d)
  <2>1. [req[d] EXCEPT !.version = 1] \in Request /\ [req[d] EXCEPT !.version = 1].at = w
    BY <1>1 DEF Request
  <2> QED
    BY <1>1, <1>3, <1>4, <2>1 DEF PrepareFirst
<1>5. CASE PrepareNext(d)
  <2> DEFINE l == s.pids[p].lineage
             lin == s.lins[l]
             t == WithNext(s, p, d)
             r == [req[d] EXCEPT !.version = lin.latest + 1, !.lineage = l]
  <2>1. p \in Docs /\ s.pids[p] # None /\ ~NoLineage(s, p)
    BY <1>2, <1>5 DEF PrepareNext, DocOrNone
  <2>2. t \in Store /\ l \in Docs /\ lin \in LineagePid
    BY <1>1, <2>1, AdvancedStore
  <2>3. lin.latest + 1 \in Nat /\ l \in DocOrNone
    <3>1. \A q \in LineagePid : q.latest + 1 \in Nat
      BY DEF LineagePid
    <3> QED
      BY <2>2, <3>1 DEF DocOrNone
  <2>4. r \in Request /\ r.at = w
    <3> HIDE DEF l, lin
    <3> QED
      BY <1>1, <2>3 DEF Request
  <2>5. Goto(d, "saveRow", r) /\ mem' = [mem EXCEPT ![w] = t]
    BY <1>5 DEF PrepareNext
  <2> HIDE DEF t, r
  <2> QED
    BY <1>3, <2>2, <2>4, <2>5
<1>6. CASE PrepareLineage(d)
  <2> DEFINE t == WithLineage(s, p, d)
             r == [req[d] EXCEPT !.version = 2, !.lineage = d]
  <2>1. p \in Docs /\ s.pids[p] # None
    BY <1>2, <1>6 DEF PrepareLineage, DocOrNone
  <2>2. t \in Store
    BY <1>1, <2>1, LinkedStore
  <2>3. r \in Request /\ r.at = w
    BY <1>1 DEF Request, DocOrNone
  <2>4. Goto(d, "saveRow", r) /\ mem' = [mem EXCEPT ![w] = t]
    BY <1>6 DEF PrepareLineage
  <2> HIDE DEF t, r
  <2> QED
    BY <1>3, <2>2, <2>3, <2>4
<1>7. CASE PrepareFails(d)
  BY <1>1, <1>3, <1>7 DEF PrepareFails
<1> QED
  BY <1>4, <1>5, <1>6, <1>7 DEF Prepare

\* Request d goes on, or ends, and only the worker's file and the rows may change too.
LEMMA CreateTyped ==
  ASSUME LocalTypeOK, RequestsHaveWorkers, NEW d \in Docs,
         Refuse(d) \/ SaveRow(d) \/ Finalized(d) \/ CleanRow(d)
  PROVE  LocalTypeOK' /\ RequestsHaveWorkers'
<1>1. /\ req[d] \in Request /\ req[d].at \in Workers /\ up[req[d].at] = "yes"
      /\ UNCHANGED <<up, mem, inTurn>>
      /\ rows' \subseteq Docs
  <2>1. pc[d] \notin {"idle"} \cup EndSteps
    BY DEF Refuse, SaveRow, Finalized, CleanRow, FinalSteps, EndSteps
  <2>2. UNCHANGED <<up, mem, inTurn>> /\ rows' \subseteq Docs
    BY DEF Refuse, SaveRow, Finalized, CleanRow, LocalTypeOK
  <2> QED
    BY <2>1, <2>2, AtTyped
<1>2. /\ file' \in Store \cup {Absent, Torn}
      /\ writing' \in [Workers -> {"no", "alone", "shared"}]
  BY <1>1, FileTyped DEF Refuse, SaveRow, Finalized, CleanRow, LocalTypeOK
<1>3. \E step \in {"failed", "done"} \cup FinalSteps :
        /\ Goto(d, step, req[d])
        /\ step \in FinalSteps =>
             \A c \in Docs \ {d} : pc[c] \in FinalSteps => req[c].at # req[d].at
  <2>1. CASE Refuse(d) \/ CleanRow(d)
    BY <2>1 DEF Refuse, CleanRow, FinalSteps
  <2>2. CASE SaveRow(d)
    BY <2>2 DEF SaveRow, Idle, FirstFinal, FinalSteps
  <2>3. CASE Finalized(d)
    BY <2>3 DEF Finalized, NextFinal, FinalSteps, RequestsHaveWorkers
  <2> QED
    BY <2>1, <2>2, <2>3
<1> QED
  BY <1>1, <1>2, <1>3, GotoTyped DEF LocalTypeOK, EndSteps

LEMMA FinalizeTyped ==
  ASSUME LocalTypeOK, RequestsHaveWorkers, NEW d \in Docs, Finalize(d),
         Stored(d) \in Store
  PROVE  LocalTypeOK' /\ RequestsHaveWorkers'
<1>1. req[d].at \in Workers /\ UNCHANGED <<up, rows, pc, req, inTurn>>
  BY AtTyped DEF Finalize, FinalSteps, EndSteps
<1>2. mem' = [mem EXCEPT ![req[d].at] = Stored(d)] /\ OpenFile(req[d].at)
  BY DEF Finalize, Put
<1> QED
  BY <1>1, <1>2, FileTyped DEF LocalTypeOK, RequestsHaveWorkers

LEMMA StartCreateTyped ==
  ASSUME LocalTypeOK, RequestsHaveWorkers, NEW d \in Docs, NEW p \in DocOrNone,
         NEW w \in Workers, StartCreate(d, p, w)
  PROVE  LocalTypeOK' /\ RequestsHaveWorkers'
<1> DEFINE r == [NoRequest EXCEPT !.at = w, !.parent = p]
<1>1. r \in Request /\ r.at = w
  BY DEF NoRequest, Request, DocOrNone
<1>2. up[w] = "yes" /\ UNCHANGED <<up, mem, file, writing, rows, inTurn>>
      /\ Goto(d, "prepare", r)
  BY DEF StartCreate, Idle
<1> HIDE DEF r
<1> QED
  BY <1>1, <1>2, GotoTyped DEF LocalTypeOK, FinalSteps, EndSteps

LEMMA WorkerTyped ==
  ASSUME LocalTypeOK, RequestsHaveWorkers, NEW w \in Workers, WorkerStep(w)
  PROVE  LocalTypeOK' /\ RequestsHaveWorkers'
<1>1. CASE Start(w)
  <2>1. /\ UNCHANGED <<file, writing, rows, pc, req>>
        /\ up' \in [Workers -> {"no", "creating", "yes"}]
        /\ mem' \in [Workers -> Store]
        /\ inTurn' \in BOOLEAN
    <3>1. UNCHANGED <<file, writing, rows, pc, req>>
          /\ up' \in [Workers -> {"no", "creating", "yes"}]
      BY <1>1 DEF Start, LocalTypeOK
    <3>2. mem' \in [Workers -> Store]
      BY <1>1, EmptyStore DEF Start, LocalTypeOK
    <3>3. inTurn' \in BOOLEAN
      <4>1. inTurn' = (inTurn /\ file # Torn /\ \A v \in Workers : up[v] = "no")
        BY <1>1 DEF Start
      <4> QED
        BY <4>1, Zenon
    <3> QED
      BY <3>1, <3>2, <3>3
  <2>2. \A v \in Workers : up[v] = "yes" => up'[v] = "yes"
    BY <1>1 DEF Start, LocalTypeOK
  <2> QED
    BY <2>1, <2>2 DEF LocalTypeOK, RequestsHaveWorkers, Request
<1>2. CASE CreateFile(w) \/ (\E x \in Docs : Patch(w, x)) \/ Patched(w)
  <2>1. /\ UNCHANGED <<up, mem, rows, pc, req, inTurn>>
        /\ OpenFile(w) \/ CloseFile(w)
    BY <1>2 DEF CreateFile, Patch, Patched, Put, LocalTypeOK
  <2> QED
    BY <2>1, FileTyped DEF LocalTypeOK, RequestsHaveWorkers
<1>3. CASE FileCreated(w)
  BY <1>3, FileTyped DEF FileCreated, LocalTypeOK, RequestsHaveWorkers, Request
<1>4. CASE SaveFails(w)
  <2>1. /\ UNCHANGED <<mem, rows, req, inTurn>>
        /\ file' \in Store \cup {Absent, Torn}
        /\ writing' \in [Workers -> {"no", "alone", "shared"}]
        /\ up' \in [Workers -> {"no", "creating", "yes"}]
        /\ \A v \in Workers : up[v] = "yes" => up'[v] = "yes"
        /\ pc' = [d \in Docs |->
                    IF req[d].at = w /\ pc[d] \in FinalSteps THEN "cleanRow" ELSE pc[d]]
    BY <1>4 DEF SaveFails, LocalTypeOK
  <2>2. pc' \in [Docs -> {"idle", "prepare", "saveRow", "cleanRow"}
                         \cup FinalSteps \cup EndSteps]
    BY <2>1 DEF LocalTypeOK
  <2>3. RequestsHaveWorkers'
    BY <2>1 DEF RequestsHaveWorkers, LocalTypeOK, Request, FinalSteps, EndSteps
  <2> QED
    BY <2>1, <2>2, <2>3 DEF LocalTypeOK
<1>5. CASE Crash(w)
  <2>1. /\ UNCHANGED <<file, rows, inTurn>>
        /\ mem' \in [Workers -> Store]
        /\ writing' \in [Workers -> {"no", "alone", "shared"}]
        /\ up' \in [Workers -> {"no", "creating", "yes"}]
        /\ \A v \in Workers \ {w} : up'[v] = up[v]
    BY <1>5, EmptyStore DEF Crash, LocalTypeOK
  <2>2. /\ pc' = [d \in Docs |-> IF req[d].at = w THEN "failed" ELSE pc[d]]
        /\ req' = [d \in Docs |-> IF req[d].at = w THEN NoRequest ELSE req[d]]
    BY <1>5 DEF Crash
  <2>3. NoRequest \in Request /\ NoRequest.at = None /\ None \notin Workers
    BY LocalAssumption DEF NoRequest, Request, DocOrNone
  <2>4. /\ pc' \in [Docs -> {"idle", "prepare", "saveRow", "cleanRow"}
                           \cup FinalSteps \cup EndSteps]
        /\ req' \in [Docs -> Request]
    BY <2>2, <2>3 DEF LocalTypeOK, EndSteps
  <2>5. RequestsHaveWorkers'
    BY <2>1, <2>2, <2>3 DEF RequestsHaveWorkers, LocalTypeOK, Request, FinalSteps, EndSteps
  <2> QED
    BY <2>1, <2>4, <2>5 DEF LocalTypeOK
<1> QED
  BY <1>1, <1>2, <1>3, <1>4, <1>5 DEF WorkerStep

-----------------------------------------------------------------------------
(* Steps that make no new records *)

LEMMA StoresTyped ==
  ASSUME LocalTypeOK
  PROVE  /\ \A s \in Stores : s \in Store
         /\ \A w \in Workers : mem[w] \in Stores
BY DEF LocalTypeOK, Stores

LEMMA FileIsKnown ==
  ASSUME LocalTypeOK, NEW w \in Workers,
         OpenFile(w) \/ CloseFile(w) \/ file' \in {file, Torn}
  PROVE  file' \in {Absent, Torn} \cup Stores
BY DEF OpenFile, CloseFile, Stores, LocalTypeOK

LEMMA FewerStores ==
  ASSUME NEW X, \A w \in Workers : mem'[w] \in Stores \cup X,
         file' \in {Absent, Torn} \cup Stores
  PROVE  Stores' \subseteq Stores \cup X
BY DEF Stores

\* The pending request d goes on, and its worker's memory stays as it is.
Kept(d) ==
  /\ d \in Pending /\ req'[d] = req[d] /\ mem'[req[d].at] = mem[req[d].at]
  /\ pc'[d] = "saveLineage" => req[d].lineage = d /\ req[d].parent # None
  /\ req[d].parent # None /\ req[d].lineage = d /\ NoLineageYet(d) => NoLineageYet(d)'

\* Request d is for a first document.
IsFirst(d) == pc'[d] = "saveRow" /\ req'[d].parent = None /\ req'[d].version = 1

LEMMA QuietStep ==
  ASSUME LocalInv, Stores' \subseteq Stores \cup {Empty},
         \A d \in Docs : /\ NoLineageYet(d)' => NoLineageYet(d)
                         /\ NoPidYet(d)' => NoPidYet(d),
         \A d \in Pending' : Kept(d) \/ IsFirst(d)
  PROVE  StoresAreSound' /\ PendingFollows' /\ PendingIsAlone'
<1>1. StoresAreSound'
  <2> SUFFICES ASSUME NEW s \in Stores'  PROVE Sound(s) /\ Fresh(s)'
    BY DEF StoresAreSound
  <2>1. CASE s \in Stores
    BY <2>1 DEF LocalInv, StoresAreSound, Fresh
  <2>2. CASE s = Empty
    BY <2>2, EmptyStore DEF Fresh, Empty
  <2> QED
    BY <2>1, <2>2
<1>2. PendingFollows'
  <2> SUFFICES ASSUME NEW d \in Pending'  PROVE Following(d)'
    BY DEF PendingFollows
  <2>1. d \in Docs
    BY DEF Pending
  <2>2. CASE Kept(d)
    <3>1. Following(d)
      BY <2>2 DEF Kept, LocalInv, PendingFollows
    <3>2. req[d].parent # None /\ req[d].lineage = d => (NoLineageYet(d)' <=> NoLineageYet(d))
      BY <2>1, <2>2 DEF Kept
    <3> QED
      BY <2>2, <3>1, <3>2 DEF Kept, Following
  <2>3. CASE IsFirst(d)
    BY <2>1, <2>3, LocalAssumption DEF IsFirst, Following, Follows
  <2> QED
    BY <2>2, <2>3
<1>3. PendingIsAlone'
  <2> SUFFICES ASSUME NEW d \in Pending'
               PROVE  NoneStored(d)' /\ \A c \in Pending' : NotBoth(c, d)'
    BY DEF PendingIsAlone
  <2>1. CASE IsFirst(d)
    BY <2>1 DEF IsFirst, NoneStored, NotBoth
  <2>2. CASE Kept(d)
    <3>1. NoneStored(d) /\ \A c \in Pending : NotBoth(c, d)
      BY <2>2 DEF Kept, LocalInv, PendingIsAlone
    <3>2. NoneStored(d)'
      BY <2>2, <3>1 DEF Kept, NoneStored
    <3>3. ASSUME NEW c \in Pending'  PROVE NotBoth(c, d)'
      <4>1. CASE Kept(c)
        BY <2>2, <3>1, <4>1 DEF Kept, NotBoth
      <4>2. CASE IsFirst(c)
        BY <4>2 DEF IsFirst, NotBoth
      <4> QED
        BY <3>3, <4>1, <4>2
    <3> QED
      BY <3>2, <3>3
  <2> QED
    BY <2>1, <2>2
<1> QED
  BY <1>1, <1>2, <1>3

\* Whether the file of c's worker is open matters while c finalizes its records.
SameFile(c) ==
  pc[c] \in FinalSteps => (writing'[req[c].at] = "no" <=> writing[req[c].at] = "no")

LEMMA QuietGoto ==
  ASSUME LocalInv, NEW d \in Docs, NEW step, NEW r, Goto(d, step, r),
         mem' = mem, file' \in {Absent, Torn} \cup Stores,
         \A c \in Docs \ {d} : SameFile(c),
         NoLineageYet(d)' => NoLineageYet(d), NoPidYet(d)' => NoPidYet(d),
         d \in Pending' => Kept(d) \/ IsFirst(d)
  PROVE  StoresAreSound' /\ PendingFollows' /\ PendingIsAlone'
<1>1. \A c \in Docs \ {d} : pc'[c] = pc[c] /\ req'[c] = req[c]
  BY DEF Goto, LocalInv, LocalTypeOK
<1>2. \A c \in Docs \ {d} : /\ NoLineageYet(c)' <=> NoLineageYet(c)
                            /\ NoPidYet(c)' <=> NoPidYet(c)
  BY <1>1 DEF SameFile, NoLineageYet, NoPidYet, FinalSteps
<1>3. \A c \in Pending' \ {d} : Kept(c)
  <2> SUFFICES ASSUME NEW c \in Pending' \ {d}  PROVE Kept(c)
    OBVIOUS
  <2>1. c \in Pending /\ c \in Docs
    BY <1>1 DEF Pending
  <2>2. Following(c)
    BY <2>1 DEF LocalInv, PendingFollows
  <2> QED
    BY <1>1, <1>2, <2>1, <2>2 DEF Kept, Following
<1>4. Stores' \subseteq Stores \cup {Empty}
  <2>1. \A w \in Workers : mem'[w] \in Stores
    BY StoresTyped DEF LocalInv
  <2> QED
    BY <2>1, FewerStores
<1>5. \A c \in Docs : (NoLineageYet(c)' => NoLineageYet(c)) /\ (NoPidYet(c)' => NoPidYet(c))
  BY <1>2
<1>6. \A c \in Pending' : Kept(c) \/ IsFirst(c)
  BY <1>3
<1> QED
  BY <1>4, <1>5, <1>6, QuietStep

\* A worker opens or closes its file while no request of its own finalizes records.
LEMMA QuietFile ==
  ASSUME LocalInv, UNCHANGED <<mem, pc, req>>, NEW w \in Workers,
         OpenFile(w) \/ CloseFile(w),
         \A d \in Docs : pc[d] \in FinalSteps => req[d].at # w
  PROVE  StoresAreSound' /\ PendingFollows' /\ PendingIsAlone'
<1>1. \A c \in Docs : SameFile(c)
  <2>1. \A v \in Workers \ {w} : writing'[v] = "no" <=> writing[v] = "no"
    BY DEF OpenFile, CloseFile, LocalInv, LocalTypeOK
  <2>2. \A c \in Docs : pc[c] \in FinalSteps => req[c].at \in Workers
    BY AtTyped DEF LocalInv, FinalSteps, EndSteps
  <2> QED
    BY <2>1, <2>2 DEF SameFile
<1>2. \A c \in Docs : /\ NoLineageYet(c)' <=> NoLineageYet(c)
                      /\ NoPidYet(c)' <=> NoPidYet(c)
  BY <1>1 DEF SameFile, NoLineageYet, NoPidYet, FinalSteps
<1>3. \A c \in Pending' : Kept(c)
  BY <1>2 DEF Pending, Kept, LocalInv, PendingFollows, Following
<1>4. Stores' \subseteq Stores \cup {Empty}
  <2>1. \A v \in Workers : mem'[v] \in Stores
    BY StoresTyped DEF LocalInv
  <2> QED
    BY <2>1, FileIsKnown, FewerStores DEF LocalInv
<1> QED
  BY <1>2, <1>3, <1>4, QuietStep

LEMMA WorkerStepKeeps ==
  ASSUME LocalInv, NEW w \in Workers, WorkerStep(w)
  PROVE  StoresAreSound' /\ PendingFollows' /\ PendingIsAlone'
<1> USE DEF LocalInv
<1>1. CASE Start(w)
  <2>1. UNCHANGED <<file, writing, pc, req>> /\ up[w] = "no"
    BY <1>1 DEF Start
  <2>2. \A v \in Workers : mem'[v] \in Stores \cup {Empty}
    BY <1>1, StoresTyped DEF Start, Stores, LocalTypeOK
  <2>3. \A d \in Docs : pc[d] \notin {"idle"} \cup EndSteps => mem'[req[d].at] = mem[req[d].at]
    BY <1>1, AtTyped DEF Start, LocalTypeOK
  <2>4. \A d \in Pending' : Kept(d)
    BY <2>1, <2>3 DEF Pending, Kept, NoLineageYet, FinalSteps, EndSteps, PendingFollows, Following
  <2>5. Stores' \subseteq Stores \cup {Empty}
    BY <2>1, <2>2, FewerStores DEF Stores
  <2> QED
    BY <2>1, <2>4, <2>5, QuietStep DEF NoLineageYet, NoPidYet
<1>2. CASE CreateFile(w) \/ FileCreated(w)
  <2>1. up[w] = "creating" /\ UNCHANGED <<mem, pc, req>> /\ (OpenFile(w) \/ CloseFile(w))
    BY <1>2 DEF CreateFile, FileCreated
  <2>2. \A d \in Docs : pc[d] \in FinalSteps => req[d].at # w
    BY <2>1, AtTyped DEF FinalSteps, EndSteps
  <2> QED
    BY <2>1, <2>2, QuietFile
<1>3. CASE (\E x \in Docs : Patch(w, x)) \/ Patched(w)
  <2>1. UNCHANGED <<mem, pc, req>> /\ (OpenFile(w) \/ CloseFile(w))
    BY <1>3 DEF Patch, Patched, Put, LocalTypeOK
  <2>2. \A d \in Docs : pc[d] \in FinalSteps => req[d].at # w
    BY <1>3 DEF Patch, Patched, Idle
  <2> QED
    BY <2>1, <2>2, QuietFile
<1>4. CASE SaveFails(w)
  <2>1. /\ UNCHANGED <<mem, req>>
        /\ file' \in {file, Torn}
        /\ \A v \in Workers \ {w} : writing'[v] = writing[v]
        /\ \A d \in Docs : pc'[d] = IF req[d].at = w /\ pc[d] \in FinalSteps
                                     THEN "cleanRow" ELSE pc[d]
    BY <1>4 DEF SaveFails, LocalTypeOK
  <2>2. \A d \in Docs : pc[d] \in FinalSteps => req[d].at \in Workers
    BY AtTyped DEF FinalSteps, EndSteps
  <2>3. \A d \in Docs : /\ NoLineageYet(d)' => NoLineageYet(d)
                        /\ NoPidYet(d)' => NoPidYet(d)
    BY <2>1, <2>2 DEF NoLineageYet, NoPidYet, FinalSteps
  <2>4. \A d \in Pending' : d \in Pending /\ pc'[d] = pc[d]
    BY <2>1 DEF Pending, FinalSteps
  <2>5. \A d \in Pending' : NoLineageYet(d) => NoLineageYet(d)'
    BY <2>1, <2>2, <2>4 DEF NoLineageYet, FinalSteps, Pending
  <2>6. \A d \in Pending' : Kept(d)
    BY <2>1, <2>4, <2>5 DEF Kept, PendingFollows, Following
  <2>7. Stores' \subseteq Stores \cup {Empty}
    <3>1. \A v \in Workers : mem'[v] \in Stores
      BY <2>1, StoresTyped
    <3> QED
      BY <2>1, <3>1, FileIsKnown, FewerStores
  <2> QED
    BY <2>3, <2>6, <2>7, QuietStep
<1>5. CASE Crash(w)
  <2>1. /\ UNCHANGED file
        /\ \A v \in Workers \ {w} : writing'[v] = writing[v] /\ mem'[v] = mem[v]
        /\ mem'[w] = Empty
        /\ \A d \in Docs : req[d].at = w => pc'[d] = "failed"
        /\ \A d \in Docs : req[d].at # w => pc'[d] = pc[d] /\ req'[d] = req[d]
    BY <1>5 DEF Crash, LocalTypeOK
  <2>2. \A d \in Docs : pc[d] \notin {"idle"} \cup EndSteps => req[d].at \in Workers
    BY AtTyped
  <2>3. \A d \in Docs : /\ NoLineageYet(d)' => NoLineageYet(d)
                        /\ NoPidYet(d)' => NoPidYet(d)
    BY <2>1, <2>2 DEF NoLineageYet, NoPidYet, EndSteps
  <2>4. \A d \in Pending' : d \in Pending /\ req[d].at # w /\ req[d].at \in Workers
    BY <2>1, <2>2 DEF Pending, FinalSteps, EndSteps
  <2>5. \A d \in Pending' : NoLineageYet(d) => NoLineageYet(d)'
    BY <2>1, <2>4 DEF NoLineageYet, Pending
  <2>6. \A d \in Pending' : Kept(d)
    BY <2>1, <2>4, <2>5 DEF Kept, PendingFollows, Following, Pending
  <2>7. Stores' \subseteq Stores \cup {Empty}
    <3>1. \A v \in Workers : mem'[v] \in Stores \cup {Empty}
      BY <2>1, StoresTyped
    <3> QED
      BY <2>1, <3>1, FewerStores DEF Stores
  <2> QED
    BY <2>3, <2>6, <2>7, QuietStep
<1> QED
  BY <1>1, <1>2, <1>3, <1>4, <1>5 DEF WorkerStep

LEMMA QuietCreateKeeps ==
  ASSUME LocalInv, NEW d \in Docs,
         Refuse(d) \/ SaveRow(d) \/ Finalized(d) \/ CleanRow(d)
  PROVE  StoresAreSound' /\ PendingFollows' /\ PendingIsAlone'
<1> DEFINE w == req[d].at
<1>1. w \in Workers /\ mem' = mem /\ pc[d] \notin {"idle"} \cup EndSteps
  BY AtTyped DEF Refuse, SaveRow, Finalized, CleanRow, FinalSteps, EndSteps, LocalInv
<1>2. \A c \in Docs \ {d} : SameFile(c)
  <2>1. CASE UNCHANGED writing
    BY <2>1 DEF SameFile
  <2>2. CASE Finalized(d)
    <3>1. \A v \in Workers \ {w} : writing'[v] = writing[v]
      BY <2>2, <1>1 DEF Finalized, CloseFile, LocalInv, LocalTypeOK
    <3>2. \A c \in Docs \ {d} : pc[c] \in FinalSteps => req[c].at \in Workers \ {w}
      BY <2>2, AtTyped DEF Finalized, LocalInv, RequestsHaveWorkers, FinalSteps, EndSteps
    <3> QED
      BY <3>1, <3>2 DEF SameFile
  <2> QED
    BY <2>1, <2>2 DEF Refuse, SaveRow, CleanRow
<1>3. file' \in {Absent, Torn} \cup Stores
  BY <1>1, FileIsKnown DEF Refuse, SaveRow, Finalized, CleanRow, LocalInv
<1>4. pc'[d] \in EndSteps => ~NoLineageYet(d)' /\ ~NoPidYet(d)' /\ d \notin Pending'
  BY DEF NoLineageYet, NoPidYet, EndSteps, FinalSteps, Pending
<1>5. \E step : /\ Goto(d, step, req[d])
                /\ NoLineageYet(d)' => NoLineageYet(d)
                /\ NoPidYet(d)' => NoPidYet(d)
                /\ d \in Pending' => Kept(d)
  <2>1. CASE Refuse(d) \/ CleanRow(d)
    <3>1. Goto(d, "failed", req[d])
      BY <2>1 DEF Refuse, CleanRow
    <3>2. pc'[d] \in EndSteps
      BY <3>1 DEF Goto, EndSteps, LocalInv, LocalTypeOK
    <3> QED
      BY <1>4, <3>1, <3>2
  <2>2. CASE SaveRow(d)
    <3>1. Goto(d, "failed", req[d]) \/ Goto(d, FirstFinal(d), req[d])
      BY <2>2 DEF SaveRow
    <3>2. CASE Goto(d, "failed", req[d])
      <4>1. pc'[d] \in EndSteps
        BY <3>2 DEF Goto, EndSteps, LocalInv, LocalTypeOK
      <4> QED
        BY <1>4, <3>2, <4>1
    <3>3. CASE Goto(d, FirstFinal(d), req[d])
      <4>1. /\ pc[d] = "saveRow" /\ writing[w] = "no" /\ UNCHANGED writing
            /\ d \in Pending /\ NoLineageYet(d) /\ NoPidYet(d)
        BY <2>2 DEF SaveRow, Idle, Pending, NoLineageYet, NoPidYet
      <4>2. FirstFinal(d) \in {"saveLineage", "updateParent", "savePid"}
        BY DEF FirstFinal
      <4>3. pc'[d] = FirstFinal(d) /\ req'[d] = req[d]
        BY <3>3, <4>2 DEF Goto, EndSteps, LocalInv, LocalTypeOK
      <4>4. Following(d)
        BY <4>1 DEF LocalInv, PendingFollows
      <4>5. Kept(d)
        BY <1>1, <4>1, <4>3, <4>4 DEF Kept, Following, FirstFinal, NoLineageYet
      <4> QED
        BY <3>3, <4>1, <4>5
    <3> QED
      BY <3>1, <3>2, <3>3
  <2>3. CASE Finalized(d)
    <3>1. /\ Goto(d, NextFinal[pc[d]], req[d]) /\ pc[d] \in FinalSteps
          /\ writing[w] # "no" /\ d \in Pending /\ ~NoLineageYet(d)
      BY <2>3 DEF Finalized, CloseFile, Pending, NoLineageYet, FinalSteps
    <3>2. pc'[d] = NextFinal[pc[d]]
          /\ (NextFinal[pc[d]] \notin EndSteps => req'[d] = req[d])
      BY <3>1 DEF Goto, LocalInv, LocalTypeOK
    <3>3. pc'[d] \in {"updateParent", "updateLineage", "savePid", "done"}
          /\ (pc[d] = "savePid" => pc'[d] = "done")
      BY <3>1, <3>2 DEF NextFinal, FinalSteps
    <3>4. ~NoLineageYet(d)' /\ (NoPidYet(d)' => NoPidYet(d))
      BY <3>1, <3>3 DEF NoLineageYet, NoPidYet, FinalSteps
    <3>5. d \in Pending' => Kept(d)
      BY <1>1, <3>1, <3>2, <3>3 DEF Kept, Pending, FinalSteps, EndSteps
    <3> QED
      BY <3>1, <3>4, <3>5
  <2> QED
    BY <2>1, <2>2, <2>3
<1> QED
  BY <1>1, <1>2, <1>3, <1>5, QuietGoto

LEMMA StartCreateKeeps ==
  ASSUME LocalInv, NEW d \in Docs, NEW p \in DocOrNone, NEW w \in Workers,
         StartCreate(d, p, w)
  PROVE  StoresAreSound' /\ PendingFollows' /\ PendingIsAlone'
<1>1. pc[d] = "idle" /\ Goto(d, "prepare", [NoRequest EXCEPT !.at = w, !.parent = p])
      /\ UNCHANGED <<mem, file, writing>>
  BY DEF StartCreate
<1>2. pc'[d] = "prepare"
  BY <1>1 DEF Goto, LocalInv, LocalTypeOK
<1>3. NoLineageYet(d) /\ NoPidYet(d) /\ d \notin Pending'
  BY <1>1, <1>2 DEF NoLineageYet, NoPidYet, Pending, FinalSteps
<1>4. file' \in {Absent, Torn} \cup Stores
  BY <1>1 DEF Stores
<1> QED
  BY <1>1, <1>3, <1>4, QuietGoto DEF SameFile

-----------------------------------------------------------------------------
(* Steps that change records *)

\* The other requests stay where they are, and t has no lineage that they are to store.
OthersStay(d, w, t) ==
  \A c \in Docs \ {d} : /\ pc'[c] = pc[c] /\ req'[c] = req[c]
                        /\ SameFile(c)
                        /\ t.lins[c] = None <=> mem[w].lins[c] = None

\* The memory of d's worker grows.
Grows(d, w, t) ==
  /\ Grown(mem[w], t)
  /\ mem' = [mem EXCEPT ![w] = t]
  /\ file' \in {Absent, Torn} \cup Stores
  /\ OthersStay(d, w, t)
  /\ NoLineageYet(d)' => NoLineageYet(d) /\ t.lins[d] = None
  /\ NoPidYet(d)' => NoPidYet(d)

LEMMA GrownStep ==
  ASSUME LocalInv, NEW d \in Docs, NEW w \in Workers, NEW t \in Store,
         Grows(d, w, t)
  PROVE  /\ StoresAreSound'
         /\ \A c \in Pending' \ {d} :
              /\ c \in Pending
              /\ Following(c)' /\ NoneStored(c)'
              /\ \A b \in Pending' \ {d} : NotBoth(b, c)'
<1> DEFINE s == mem[w]
<1> USE DEF Grows, OthersStay
<1>1. s \in Store /\ Sound(s) /\ Fresh(s)
  BY StoresTyped DEF LocalInv, StoresAreSound
<1>2. Sound(t)
  BY <1>1, GrownIsSound
<1>3. \A c \in Docs \ {d} : /\ NoLineageYet(c)' <=> NoLineageYet(c)
                            /\ NoPidYet(c)' <=> NoPidYet(c)
  BY DEF SameFile, NoLineageYet, NoPidYet, FinalSteps
<1>4. Fresh(t)'
  BY <1>1, <1>3 DEF Fresh, Grown
<1>5. \A q \in Stores : Sound(q) /\ Fresh(q)'
  BY <1>3 DEF LocalInv, StoresAreSound, Fresh
<1>6. Stores' \subseteq Stores \cup {t}
  <2>1. \A v \in Workers : mem'[v] \in Stores \cup {t}
    BY StoresTyped DEF LocalInv, LocalTypeOK
  <2> QED
    BY <2>1, FewerStores
<1>7. StoresAreSound'
  BY <1>2, <1>4, <1>5, <1>6 DEF StoresAreSound
<1>8. \A v \in Workers : v # w => mem'[v] = mem[v]
  BY DEF LocalInv, LocalTypeOK
<1>9. mem'[w] = t
  BY DEF LocalInv, LocalTypeOK
<1>10. ASSUME NEW c \in Pending' \ {d}
       PROVE  /\ c \in Pending
              /\ Following(c)' /\ NoneStored(c)'
              /\ \A b \in Pending' \ {d} : NotBoth(b, c)'
  <2>1. c \in Pending /\ c \in Docs /\ pc'[c] = pc[c] /\ req'[c] = req[c]
    BY DEF Pending
  <2>2. req[c] \in Request /\ req[c].at \in Workers
    BY <2>1, AtTyped DEF LocalInv, Pending, FinalSteps, EndSteps
  <2>3. Following(c) /\ NoneStored(c) /\ \A b \in Pending : NotBoth(b, c)
    BY <2>1 DEF LocalInv, PendingFollows, PendingIsAlone
  <2>4. \A b \in Pending' \ {d} : b \in Pending /\ req'[b] = req[b]
    BY DEF Pending
  <2>5. CASE req[c].at # w
    <3>1. Following(c)'
      BY <1>3, <1>8, <2>1, <2>2, <2>3, <2>5 DEF Following
    <3>2. NoneStored(c)' /\ \A b \in Pending' \ {d} : NotBoth(b, c)'
      BY <1>8, <2>1, <2>2, <2>3, <2>4, <2>5 DEF NoneStored, NotBoth
    <3> QED
      BY <2>1, <3>1, <3>2
  <2>6. CASE req[c].at = w
    <3>1. req[c].parent # None => req[c].parent \in Docs /\ s.pids[req[c].parent] # None
      BY <2>2, <2>3, <2>6 DEF Following, Follows, Request, DocOrNone
    <3>2. req[c].parent # None =>
            /\ t.pids[req[c].parent] # None
            /\ t.pids[req[c].parent].version = s.pids[req[c].parent].version
      BY <3>1 DEF Grown
    <3>3. Following(c)'
      <4>1. CASE req[c].parent # None /\ req[c].lineage = c /\ NoLineageYet(c)
        BY <1>3, <1>9, <2>1, <2>3, <2>6, <3>2, <4>1 DEF Following
      <4>2. CASE ~(req[c].parent # None /\ req[c].lineage = c /\ NoLineageYet(c))
        <5>1. Follows(s, req[c])
          BY <2>3, <2>6, <4>2 DEF Following
        <5>2. Follows(t, req[c])
          BY <1>1, <2>2, <5>1, FollowsGrown DEF Request
        <5> QED
          BY <1>3, <1>9, <2>1, <2>3, <2>6, <4>2, <5>2 DEF Following
      <4> QED
        BY <4>1, <4>2
    <3>4. NoneStored(c)'
      <4> SUFFICES ASSUME req[c].parent # None, t.pids[req[c].parent].version # 1,
                          NEW b \in Docs \ {c}, t.pids[b] # None
                   PROVE  t.pids[b].parent # req[c].parent
        BY <1>9, <2>1, <2>6 DEF NoneStored
      <4>1. s.pids[b] # None /\ t.pids[b].parent = s.pids[b].parent
        BY DEF Grown
      <4> QED
        BY <2>3, <2>6, <3>2, <4>1 DEF NoneStored
    <3>5. \A b \in Pending' \ {d} : NotBoth(b, c)'
      BY <1>9, <2>1, <2>3, <2>4, <2>6, <3>2 DEF NotBoth
    <3> QED
      BY <2>1, <3>3, <3>4, <3>5
  <2> QED
    BY <2>5, <2>6
<1> QED
  BY <1>7, <1>10

\* It is left to show what holds of request d itself.
LEMMA OwnRequest ==
  ASSUME NEW d \in Docs,
         \A c \in Pending' \ {d} :
           /\ Following(c)' /\ NoneStored(c)'
           /\ \A b \in Pending' \ {d} : NotBoth(b, c)',
         d \in Pending' =>
           Following(d)' /\ NoneStored(d)' /\ \A c \in Pending' : NotBoth(c, d)'
  PROVE  PendingFollows' /\ PendingIsAlone'
<1>1. PendingFollows'
  BY DEF PendingFollows
<1>2. \A c \in Pending' : NoneStored(c)'
  OBVIOUS
<1>3. ASSUME NEW c \in Pending', NEW b \in Pending'  PROVE NotBoth(b, c)'
  <2>1. CASE c = d \/ (b # d /\ c # d)
    BY <2>1
  <2>2. CASE b = d /\ c # d
    <3>1. NotBoth(c, d)'
      BY <2>2
    <3> QED
      BY <2>2, <3>1 DEF NotBoth
  <2> QED
    BY <2>1, <2>2
<1> QED
  BY <1>1, <1>2, <1>3 DEF PendingIsAlone

LEMMA FinalizeOpens ==
  ASSUME LocalInv, NEW d \in Docs, Finalize(d)
  PROVE  LET w == req[d].at IN
         /\ w \in Workers /\ mem[w] \in Store /\ mem[w] \in Stores
         /\ Sound(mem[w]) /\ Fresh(mem[w])
         /\ d \in Pending /\ Following(d) /\ req[d] \in Request
         /\ UNCHANGED <<pc, req>>
         /\ writing[w] = "no" /\ writing'[w] # "no"
         /\ \A c \in Docs \ {d} : SameFile(c)
         /\ mem' = [mem EXCEPT ![w] = Stored(d)]
         /\ file' \in {Absent, Torn} \cup Stores
<1> DEFINE w == req[d].at
<1>1. w \in Workers /\ mem[w] \in Store /\ d \in Pending /\ req[d] \in Request
  BY AtTyped DEF Finalize, LocalInv, Pending, FinalSteps, EndSteps
<1>2. mem[w] \in Stores /\ Sound(mem[w]) /\ Fresh(mem[w]) /\ Following(d)
  BY <1>1, StoresTyped DEF LocalInv, StoresAreSound, PendingFollows
<1>3. UNCHANGED <<pc, req>> /\ mem' = [mem EXCEPT ![w] = Stored(d)] /\ OpenFile(w)
  BY DEF Finalize, Put
<1>4. /\ writing[w] = "no" /\ writing'[w] # "no" /\ file' = Torn
      /\ \A v \in Workers \ {w} : writing'[v] = "no" <=> writing[v] = "no"
  BY <1>1, <1>3 DEF OpenFile, LocalInv, LocalTypeOK
<1>5. \A c \in Docs \ {d} : pc[c] \in FinalSteps => req[c].at \in Workers \ {w}
  BY AtTyped DEF Finalize, LocalInv, RequestsHaveWorkers, FinalSteps, EndSteps
<1>6. \A c \in Docs \ {d} : SameFile(c)
  BY <1>4, <1>5 DEF SameFile
<1> QED
  BY <1>1, <1>2, <1>3, <1>4, <1>6

LEMMA RecordsUpdatedKeeps ==
  ASSUME LocalInv, NEW d \in Docs, Finalize(d), pc[d] # "savePid"
  PROVE  Stored(d) \in Store /\ StoresAreSound' /\ PendingFollows' /\ PendingIsAlone'
<1>0. PICK w, t : w = req[d].at /\ t = Stored(d)
  OBVIOUS
<1> DEFINE s == mem[w]
           r == req[d]
<1>1. /\ w \in Workers /\ s \in Store /\ s \in Stores /\ Sound(s) /\ Fresh(s)
      /\ d \in Pending /\ Following(d) /\ r \in Request
      /\ UNCHANGED <<pc, req>>
      /\ writing[w] = "no" /\ writing'[w] # "no"
      /\ \A c \in Docs \ {d} : SameFile(c)
      /\ mem' = [mem EXCEPT ![w] = t]
      /\ file' \in {Absent, Torn} \cup Stores
  BY <1>0, FinalizeOpens
<1>2. ~NoLineageYet(d)' /\ (NoPidYet(d)' => NoPidYet(d)) /\ pc[d] \in FinalSteps
  BY <1>0, <1>1 DEF NoLineageYet, NoPidYet, Finalize, FinalSteps
<1>3. /\ t \in Store /\ Grown(s, t) /\ t.pids = s.pids
      /\ \A l \in Docs \ {d} : t.lins[l] = s.lins[l]
      /\ Follows(t, r)
  <2>1. CASE pc[d] = "saveLineage"
    <3>1. /\ r.lineage = d /\ r.parent # None /\ NoLineageYet(d)
          /\ s.pids[r.parent] # None /\ s.pids[r.parent].version = 1 /\ r.version = 2
      BY <1>0, <1>1, <2>1 DEF Following, NoLineageYet
    <3>2. r.parent \in Docs /\ s.lins[d] = None
      BY <1>1, <3>1 DEF Request, DocOrNone, Fresh
    <3>3. t = [s EXCEPT !.lins[d] = [first |-> r.parent, last |-> d, latest |-> 2]]
      BY <1>0, <2>1 DEF Stored
    <3>4. /\ t \in Store /\ Grown(s, t) /\ t.pids = s.pids
          /\ t.lins[d] = [first |-> r.parent, last |-> d, latest |-> 2]
          /\ \A l \in Docs \ {d} : t.lins[l] = s.lins[l]
      BY <1>1, <3>2, <3>3, OpenedIsGrown
    <3>5. [first |-> r.parent, last |-> d, latest |-> 2] # None
      <4>1. [first |-> r.parent, last |-> d, latest |-> 2] \in LineagePid
        BY <3>2 DEF LineagePid
      <4> QED
        BY <4>1, LocalAssumption
    <3>6. Follows(t, r)
      BY <3>1, <3>4, <3>5, LocalAssumption DEF Follows
    <3> QED
      BY <3>4, <3>6
  <2>2. CASE pc[d] \in {"updateParent", "updateLineage"}
    <3>1. t = s
      BY <1>0, <2>2 DEF Stored
    <3>2. \A l \in Docs : s.lins[l] # None => s.lins[l] \in LineagePid
      BY <1>1 DEF Store
    <3>3. Grown(s, s)
      BY <1>1, <3>2 DEF Grown, Sound, LineagePid
    <3>4. Follows(s, r)
      BY <1>0, <1>1, <2>2 DEF Following, NoLineageYet
    <3> QED
      BY <1>1, <3>1, <3>3, <3>4
  <2> QED
    BY <1>2, <2>1, <2>2 DEF FinalSteps
<1>4. /\ StoresAreSound'
      /\ \A c \in Pending' \ {d} :
           /\ c \in Pending
           /\ Following(c)' /\ NoneStored(c)'
           /\ \A b \in Pending' \ {d} : NotBoth(b, c)'
  <2>1. Grows(d, w, t)
    BY <1>1, <1>2, <1>3 DEF Grows, OthersStay
  <2> QED
    BY <1>1, <1>3, <2>1, GrownStep
<1>5. mem'[w] = t
  BY <1>0, <1>1 DEF LocalInv, LocalTypeOK
<1>6. Following(d)'
  <2>1. pc[d] = "saveLineage" => r.lineage = d /\ r.parent # None
    BY <1>1 DEF Following
  <2> QED
    BY <1>0, <1>1, <1>2, <1>3, <1>5, <2>1 DEF Following
<1>7. NoneStored(d)' /\ \A c \in Pending' : NotBoth(c, d)'
  <2>1. NoneStored(d) /\ \A c \in Pending : NotBoth(c, d)
    BY <1>1 DEF LocalInv, PendingIsAlone
  <2>2. Pending' = Pending
    BY <1>1 DEF Pending
  <2> QED
    BY <1>0, <1>1, <1>3, <1>5, <2>1, <2>2 DEF NoneStored, NotBoth
<1> QED
  BY <1>0, <1>3, <1>4, <1>6, <1>7, OwnRequest

LEMMA PidSavedKeeps ==
  ASSUME LocalInv, NEW d \in Docs, Finalize(d), pc[d] = "savePid"
  PROVE  Stored(d) \in Store /\ StoresAreSound' /\ PendingFollows' /\ PendingIsAlone'
<1> DEFINE w == req[d].at
           s == mem[w]
           r == req[d]
           q == [version |-> r.version, parent |-> r.parent, succ |-> None, lineage |-> r.lineage]
<1>0. PICK t : t = [s EXCEPT !.pids[d] = q]
  OBVIOUS
<1>1. /\ w \in Workers /\ s \in Store /\ s \in Stores /\ Sound(s) /\ Fresh(s)
      /\ d \in Pending /\ Following(d) /\ r \in Request
      /\ UNCHANGED <<pc, req>>
      /\ writing[w] = "no" /\ writing'[w] # "no"
      /\ \A c \in Docs \ {d} : SameFile(c)
      /\ mem' = [mem EXCEPT ![w] = Stored(d)]
      /\ file' \in {Absent, Torn} \cup Stores
  BY FinalizeOpens
<1>2. Stored(d) = t
  BY <1>0 DEF Stored
<1>3. s.pids[d] = None /\ ~NoLineageYet(d) /\ ~NoLineageYet(d)' /\ ~NoPidYet(d)'
  BY <1>1 DEF Fresh, NoPidYet, NoLineageYet
<1>4. Follows(s, r)
  BY <1>1, <1>3 DEF Following
<1>5. NoneStored(d) /\ \A c \in Pending : NotBoth(c, d)
  BY <1>1 DEF LocalInv, PendingIsAlone
<1>6. q \in DocumentPid /\ q.version = r.version /\ q.parent = r.parent /\ q.lineage = r.lineage
  BY <1>1 DEF Request, DocumentPid, DocOrNone
<1> HIDE DEF q
<1>7. Follows(s, q)
  BY <1>4, <1>6 DEF Follows
<1>8. q.version >= 1
  <2>1. CASE r.parent = None
    BY <1>4, <1>6, <2>1 DEF Follows
  <2>2. CASE r.parent # None
    <3>1. r.parent \in Docs /\ s.pids[r.parent] # None /\ r.version = s.pids[r.parent].version + 1
      BY <1>1, <1>4, <2>2 DEF Follows, Request, DocOrNone
    <3>2. s.pids[r.parent].version \in Nat
      BY <1>1, <3>1 DEF Store, DocumentPid
    <3> QED
      BY <1>6, <3>1, <3>2
  <2> QED
    BY <2>1, <2>2
<1>9. \A c \in Docs : s.pids[c] # None /\ q.parent # None /\ s.pids[c].parent = q.parent =>
                        s.pids[q.parent].version = 1
  BY <1>3, <1>5, <1>6 DEF NoneStored
<1>10. t \in Store /\ Sound(t)
  BY <1>0, <1>1, <1>3, <1>6, <1>7, <1>8, <1>9, AddedIsSound
<1>11. /\ t.lins = s.lins /\ t.pids[d] = q
       /\ \A c \in Docs \ {d} : t.pids[c] = s.pids[c]
  BY <1>0, <1>1 DEF Store
<1>12. \A c \in Docs : /\ NoLineageYet(c)' => NoLineageYet(c)
                       /\ NoPidYet(c)' => NoPidYet(c)
                       /\ c # d => (NoLineageYet(c)' <=> NoLineageYet(c))
  BY <1>1, <1>3 DEF SameFile, NoLineageYet, NoPidYet, FinalSteps
<1>13. mem'[w] = t /\ \A v \in Workers : v # w => mem'[v] = mem[v]
  BY <1>1, <1>2 DEF LocalInv, LocalTypeOK
<1>14. StoresAreSound'
  <2>1. \A x \in Stores : Sound(x) /\ Fresh(x)'
    BY <1>12 DEF LocalInv, StoresAreSound, Fresh
  <2>2. Fresh(t)'
    BY <1>1, <1>3, <1>11, <1>12 DEF Fresh
  <2>3. Stores' \subseteq Stores \cup {t}
    <3>1. \A v \in Workers : mem'[v] \in Stores \cup {t}
      BY <1>13, StoresTyped DEF LocalInv
    <3> QED
      BY <1>1, <3>1, FewerStores
  <2> QED
    BY <1>10, <2>1, <2>2, <2>3 DEF StoresAreSound
<1>15. Pending' = Pending
  BY <1>1 DEF Pending
<1>16. ASSUME NEW c \in Pending
       PROVE  Following(c)' /\ NoneStored(c)' /\ \A b \in Pending : NotBoth(b, c)'
  <2>1. Following(c) /\ NoneStored(c) /\ \A b \in Pending : NotBoth(b, c)
    BY DEF LocalInv, PendingFollows, PendingIsAlone
  <2>2. c \in Docs /\ req[c] \in Request /\ req[c].at \in Workers
    BY AtTyped DEF LocalInv, Pending, FinalSteps, EndSteps
  <2>3. NoLineageYet(c)' <=> NoLineageYet(c)
    BY <1>3, <1>12, <2>2
  <2>4. CASE req[c].at # w
    BY <1>1, <1>13, <2>1, <2>2, <2>3, <2>4 DEF Following, NoneStored, NotBoth
  <2>5. CASE req[c].at = w
    <3>1. req[c].parent # None =>
            /\ req[c].parent \in Docs \ {d}
            /\ t.pids[req[c].parent] = s.pids[req[c].parent]
      BY <1>3, <1>11, <2>1, <2>2, <2>5 DEF Following, Follows, Request, DocOrNone
    <3>2. Following(c)'
      BY <1>1, <1>11, <1>13, <2>1, <2>3, <2>5, <3>1 DEF Following, Follows
    <3>3. NoneStored(c)'
      <4> SUFFICES ASSUME req[c].parent # None, t.pids[req[c].parent].version # 1,
                          NEW b \in Docs \ {c}, t.pids[b] # None
                   PROVE  t.pids[b].parent # req[c].parent
        BY <1>1, <1>13, <2>5 DEF NoneStored
      <4>1. CASE b = d
        <5>1. NotBoth(d, c)
          BY <1>1, <2>1
        <5> QED
          BY <1>6, <1>11, <2>5, <3>1, <4>1, <5>1 DEF NotBoth
      <4>2. CASE b # d
        BY <1>11, <2>1, <2>5, <3>1, <4>2 DEF NoneStored
      <4> QED
        BY <4>1, <4>2
    <3>4. \A b \in Pending : NotBoth(b, c)'
      BY <1>1, <1>13, <2>1, <2>5, <3>1 DEF NotBoth
    <3> QED
      BY <3>2, <3>3, <3>4
  <2> QED
    BY <2>4, <2>5
<1> QED
  BY <1>2, <1>10, <1>14, <1>15, <1>16 DEF PendingFollows, PendingIsAlone

\* Where a request that is being prepared stands
LEMMA PrepareBegins ==
  ASSUME LocalInv, NEW d \in Docs, Prepare(d)
  PROVE  LET w == req[d].at IN
         /\ w \in Workers /\ mem[w] \in Store /\ mem[w] \in Stores
         /\ Sound(mem[w]) /\ Fresh(mem[w])
         /\ req[d] \in Request
         /\ pc[d] = "prepare" /\ NoLineageYet(d) /\ NoPidYet(d)
         /\ mem[w].lins[d] = None /\ mem[w].pids[d] = None
         /\ \A c \in Docs \ {d} : SameFile(c)
         /\ UNCHANGED writing
         /\ file' \in {Absent, Torn} \cup Stores
<1> DEFINE w == req[d].at
<1>1. pc[d] = "prepare" /\ UNCHANGED <<writing, file>>
  BY DEF Prepare
<1>2. w \in Workers /\ mem[w] \in Store /\ req[d] \in Request
  BY <1>1, AtTyped DEF LocalInv, EndSteps
<1>3. mem[w] \in Stores /\ Sound(mem[w]) /\ Fresh(mem[w])
  BY <1>2, StoresTyped DEF LocalInv, StoresAreSound
<1>4. NoLineageYet(d) /\ NoPidYet(d)
  BY <1>1 DEF NoLineageYet, NoPidYet
<1>5. file' \in {Absent, Torn} \cup Stores
  BY <1>1 DEF Stores
<1> QED
  BY <1>1, <1>2, <1>3, <1>4, <1>5 DEF Fresh, SameFile

LEMMA QuietPrepareKeeps ==
  ASSUME LocalInv, NEW d \in Docs, Prepare(d), PrepareFirst(d) \/ PrepareFails(d)
  PROVE  StoresAreSound' /\ PendingFollows' /\ PendingIsAlone'
<1>1. /\ pc[d] = "prepare" /\ NoLineageYet(d) /\ NoPidYet(d) /\ req[d] \in Request
      /\ \A c \in Docs \ {d} : SameFile(c)
      /\ file' \in {Absent, Torn} \cup Stores
  BY PrepareBegins
<1>2. CASE PrepareFirst(d)
  <2>1. Goto(d, "saveRow", [req[d] EXCEPT !.version = 1]) /\ mem' = mem /\ req[d].parent = None
    BY <1>2 DEF PrepareFirst
  <2>2. pc'[d] = "saveRow" /\ req'[d] = [req[d] EXCEPT !.version = 1]
    BY <2>1 DEF Goto, EndSteps, LocalInv, LocalTypeOK
  <2>3. IsFirst(d)
    BY <1>1, <2>1, <2>2 DEF IsFirst, Request
  <2> QED
    BY <1>1, <2>1, <2>3, QuietGoto
<1>3. CASE PrepareFails(d)
  <2>1. Goto(d, "failed", req[d]) /\ mem' = mem
    BY <1>3 DEF PrepareFails
  <2>2. pc'[d] = "failed"
    BY <2>1 DEF Goto, EndSteps, LocalInv, LocalTypeOK
  <2>3. d \notin Pending'
    BY <2>2 DEF Pending, FinalSteps
  <2> QED
    BY <1>1, <2>1, <2>3, QuietGoto
<1> QED
  BY <1>2, <1>3

\* Where a document follows one that is no first version, that one is not the latest.
LEMMA FollowedIsNotLatest ==
  ASSUME NEW s \in Store, NEW p \in Docs, s.pids[p] # None, s.pids[p].version # 1,
         NEW r, r.parent = p, Follows(s, r)
  PROVE  ~(s.lins[s.pids[p].lineage].latest <= s.pids[p].version)
<1>1. s.pids[p] \in DocumentPid /\ p # None
  BY LocalAssumption DEF Store
<1>2. /\ r.version = s.pids[p].version + 1
      /\ r.lineage = s.pids[p].lineage /\ r.lineage # None
      /\ s.lins[r.lineage] # None /\ s.lins[r.lineage].latest >= r.version
  BY <1>1 DEF Follows
<1>3. s.lins[r.lineage].latest \in Nat
  BY <1>1, <1>2 DEF Store, DocumentPid, DocOrNone, LineagePid
<1> QED
  BY <1>1, <1>2, <1>3 DEF DocumentPid

\* The latest document of a stored lineage is one version below its next one.
LEMMA LatestIsSecond ==
  ASSUME NEW s \in Store, Sound(s), NEW p \in Docs, s.pids[p] # None, ~NoLineage(s, p),
         s.lins[s.pids[p].lineage].latest <= s.pids[p].version
  PROVE  /\ s.lins[s.pids[p].lineage].latest = s.pids[p].version
         /\ s.pids[p].version # 1
<1> DEFINE l == s.pids[p].lineage
<1>1. s.pids[p] \in DocumentPid
  BY DEF Store
<1>2. l \in Docs /\ s.lins[l] # None /\ s.lins[l] \in LineagePid
  BY <1>1 DEF NoLineage, Store, DocumentPid, DocOrNone
<1>3. s.lins[l].latest >= 2 /\ s.lins[l].latest \in Nat /\ s.pids[p].version \in Nat
  BY <1>1, <1>2 DEF Sound, LineagePid, DocumentPid
<1>4. s.pids[p].version # 1
  BY <1>3
<1>5. s.lins[l].latest >= s.pids[p].version
  BY <1>4 DEF Sound, Follows
<1> QED
  BY <1>3, <1>4, <1>5

LEMMA PrepareNextKeeps ==
  ASSUME LocalInv, NEW d \in Docs, Prepare(d), PrepareNext(d)
  PROVE  StoresAreSound' /\ PendingFollows' /\ PendingIsAlone'
<1>0. PICK w, s, p : w = req[d].at /\ s = mem[w] /\ p = req[d].parent
  OBVIOUS
<1> DEFINE l == s.pids[p].lineage
<1>1. /\ w \in Workers /\ s \in Store /\ Sound(s)
      /\ req[d] \in Request
      /\ pc[d] = "prepare" /\ NoLineageYet(d) /\ NoPidYet(d)
      /\ s.lins[d] = None /\ s.pids[d] = None
      /\ \A c \in Docs \ {d} : SameFile(c)
      /\ UNCHANGED writing
      /\ file' \in {Absent, Torn} \cup Stores
  BY <1>0, PrepareBegins
<1>2. PICK t, r : /\ t = WithNext(s, p, d)
                  /\ r = [req[d] EXCEPT !.version = s.lins[l].latest + 1, !.lineage = l]
  OBVIOUS
<1>3. /\ p \in Docs /\ s.pids[p] # None /\ ~NoLineage(s, p)
      /\ s.lins[l].latest <= s.pids[p].version
      /\ Goto(d, "saveRow", r) /\ mem' = [mem EXCEPT ![w] = t]
  BY <1>0, <1>1, <1>2 DEF PrepareNext, IsLatest, Request, DocOrNone
<1>4. /\ l \in Docs /\ s.lins[l] \in LineagePid /\ t \in Store
      /\ \A c \in Docs \ {p} : t.pids[c] = s.pids[c]
      /\ t.pids[p].version = s.pids[p].version
      /\ t.pids[p].parent = s.pids[p].parent
      /\ t.pids[p].lineage = l
      /\ t.pids[p] \in DocumentPid
      /\ \A m \in Docs \ {l} : t.lins[m] = s.lins[m]
      /\ t.lins[l] \in LineagePid
      /\ t.lins[l].first = s.lins[l].first /\ t.lins[l].latest = s.lins[l].latest + 1
  <2>1. s \in Store /\ s.pids[p] # None /\ ~NoLineage(s, p) /\ p \in Docs
    BY <1>1, <1>3
  <2>2. t = WithNext(s, p, d)
    BY <1>2
  <2> QED
    BY <2>1, <2>2, AdvancedStore
<1>5. s.lins[l].latest = s.pids[p].version /\ s.pids[p].version # 1
  BY <1>0, <1>1, <1>3, LatestIsSecond
<1>6. /\ t.pids[p].version = s.pids[p].version
      /\ t.pids[p].parent = s.pids[p].parent
      /\ t.pids[p].lineage = l
      /\ t.pids[p] # None /\ s.pids[p] \in DocumentPid
      /\ l # None /\ s.lins[l] # None /\ t.lins[l] # None
  <2>1. t.pids[p] # None /\ s.lins[l] # None /\ t.lins[l] # None /\ l # None
    BY <1>4, LocalAssumption
  <2>2. s.pids[p] \in DocumentPid
    BY <1>1, <1>3 DEF Store
  <2> QED
    BY <1>4, <2>1, <2>2
<1>7. Grown(s, t)
  <2>1. s.lins[l].latest \in Nat /\ s.lins[l].latest >= 2
    BY <1>1, <1>4, <1>6 DEF LineagePid, Sound
  <2>2. \A m \in Docs : s.lins[m] # None => s.lins[m].latest \in Nat /\ s.lins[m].latest >= 2
    BY <1>1 DEF Store, LineagePid, Sound
  <2>3. \A c \in Docs :
          /\ s.pids[c] = None <=> t.pids[c] = None
          /\ s.pids[c] # None =>
               /\ t.pids[c].version = s.pids[c].version
               /\ t.pids[c].parent = s.pids[c].parent
               /\ s.pids[c].version # 1 => t.pids[c].lineage = s.pids[c].lineage
    BY <1>0, <1>3, <1>4, <1>6
  <2>4. \A m \in Docs : s.lins[m] # None =>
          /\ t.lins[m] # None
          /\ t.lins[m].first = s.lins[m].first
          /\ t.lins[m].latest >= s.lins[m].latest
    <3> SUFFICES ASSUME NEW m \in Docs, s.lins[m] # None
                 PROVE  /\ t.lins[m] # None
                        /\ t.lins[m].first = s.lins[m].first
                        /\ t.lins[m].latest >= s.lins[m].latest
      OBVIOUS
    <3> QED
      BY <1>4, <1>6, <2>1, <2>2
  <2>5. \A m \in Docs : t.lins[m] # None => t.lins[m].latest >= 2
    BY <1>4, <2>1, <2>2
  <2> QED
    BY <2>3, <2>4, <2>5 DEF Grown
<1>8. /\ pc'[d] = "saveRow" /\ req'[d] = r
      /\ \A c \in Docs \ {d} : pc'[c] = pc[c] /\ req'[c] = req[c]
  BY <1>3 DEF Goto, EndSteps, LocalInv, LocalTypeOK
<1>9. r.at = w /\ r.parent = p /\ r.version = s.pids[p].version + 1 /\ r.lineage = l
  BY <1>0, <1>1, <1>2, <1>5 DEF Request
<1>10. /\ StoresAreSound'
       /\ \A c \in Pending' \ {d} :
            /\ c \in Pending
            /\ Following(c)' /\ NoneStored(c)'
            /\ \A b \in Pending' \ {d} : NotBoth(b, c)'
  <2>1. l # d
    BY <1>1, <1>6
  <2>2. OthersStay(d, w, t)
    BY <1>0, <1>1, <1>4, <1>6, <1>8 DEF OthersStay
  <2>3. t.lins[d] = None
    BY <1>1, <1>4, <2>1
  <2>4. Grows(d, w, t)
    BY <1>0, <1>1, <1>3, <1>7, <2>2, <2>3 DEF Grows
  <2> QED
    BY <1>1, <1>4, <2>4, GrownStep
<1>11. mem'[w] = t
  BY <1>1, <1>3 DEF LocalInv, LocalTypeOK
<1>12. Following(d)'
  <2>1. Follows(t, r)
    <3>1. r.lineage = t.pids[p].lineage /\ r.lineage # None /\ t.lins[r.lineage] # None
      BY <1>6, <1>9
    <3>2. r.version = t.pids[p].version + 1 /\ t.pids[p].version # 1
      BY <1>5, <1>6, <1>9
    <3>3. t.lins[r.lineage].latest >= r.version
      <4>1. t.lins[r.lineage].latest = r.version /\ r.version \in Nat
        BY <1>4, <1>5, <1>6, <1>9 DEF DocumentPid
      <4> QED
        BY <4>1
    <3> QED
      BY <1>3, <1>6, <1>9, <3>1, <3>2, <3>3, LocalAssumption DEF Follows
  <2>2. l # d
    BY <1>1, <1>6
  <2> QED
    BY <1>8, <1>9, <1>11, <2>1, <2>2 DEF Following
<1>13. NoneStored(d)'
  <2> SUFFICES ASSUME NEW c \in Docs \ {d}, t.pids[c] # None, t.pids[c].parent = p
               PROVE  FALSE
    BY <1>8, <1>9, <1>11 DEF NoneStored
  <2>1. s.pids[c] # None /\ s.pids[c].parent = p
    BY <1>7 DEF Grown
  <2>2. Follows(s, s.pids[c])
    BY <1>1, <2>1 DEF Sound
  <2> QED
    BY <1>0, <1>1, <1>3, <1>5, <2>1, <2>2, FollowedIsNotLatest
<1>14. \A c \in Pending' : NotBoth(c, d)'
  <2> SUFFICES ASSUME NEW c \in Pending', c # d, req'[c].at = w, req'[c].parent = p
               PROVE  FALSE
    BY <1>8, <1>9, <1>11 DEF NotBoth
  <2>1. c \in Pending /\ c \in Docs /\ req'[c] = req[c]
    BY <1>8 DEF Pending
  <2>2. Following(c)
    BY <2>1 DEF LocalInv, PendingFollows
  <2>3. Follows(s, req[c])
    BY <1>0, <1>5, <2>1, <2>2 DEF Following
  <2> QED
    BY <1>0, <1>1, <1>3, <1>5, <2>1, <2>3, FollowedIsNotLatest
<1> QED
  BY <1>10, <1>12, <1>13, <1>14, OwnRequest

LEMMA PrepareLineageKeeps ==
  ASSUME LocalInv, NEW d \in Docs, Prepare(d), PrepareLineage(d)
  PROVE  StoresAreSound' /\ PendingFollows' /\ PendingIsAlone'
<1>0. PICK w, s, p : w = req[d].at /\ s = mem[w] /\ p = req[d].parent
  OBVIOUS
<1>1. /\ w \in Workers /\ s \in Store /\ Sound(s)
      /\ req[d] \in Request
      /\ pc[d] = "prepare" /\ NoLineageYet(d) /\ NoPidYet(d)
      /\ s.lins[d] = None /\ s.pids[d] = None
      /\ \A c \in Docs \ {d} : SameFile(c)
      /\ UNCHANGED writing
      /\ file' \in {Absent, Torn} \cup Stores
  BY <1>0, PrepareBegins
<1>2. PICK t, r : /\ t = WithLineage(s, p, d)
                  /\ r = [req[d] EXCEPT !.version = 2, !.lineage = d]
  OBVIOUS
<1>3. /\ p \in Docs /\ s.pids[p] # None /\ s.pids[p].version = 1
      /\ Goto(d, "saveRow", r) /\ mem' = [mem EXCEPT ![w] = t]
  BY <1>0, <1>1, <1>2 DEF PrepareLineage, Request, DocOrNone
<1>4. /\ t \in Store
      /\ t.lins = s.lins
      /\ \A c \in Docs \ {p} : t.pids[c] = s.pids[c]
      /\ t.pids[p].version = s.pids[p].version
      /\ t.pids[p].parent = s.pids[p].parent
      /\ t.pids[p] \in DocumentPid
  BY <1>1, <1>2, <1>3, LinkedStore
<1>5. /\ t.pids[p].version = 1
      /\ t.pids[p].parent = s.pids[p].parent
      /\ t.pids[p] # None
  BY <1>1, <1>3, <1>4, LocalAssumption DEF Store, DocumentPid
<1>6. Grown(s, t)
  <2>1. \A m \in Docs : s.lins[m] # None => s.lins[m].latest \in Nat /\ s.lins[m].latest >= 2
    BY <1>1 DEF Store, LineagePid, Sound
  <2> QED
    BY <1>3, <1>4, <1>5, <2>1 DEF Grown
<1>7. /\ pc'[d] = "saveRow" /\ req'[d] = r
      /\ \A c \in Docs \ {d} : pc'[c] = pc[c] /\ req'[c] = req[c]
  BY <1>3 DEF Goto, EndSteps, LocalInv, LocalTypeOK
<1>8. r.at = w /\ r.parent = p /\ r.version = 2 /\ r.lineage = d
  BY <1>0, <1>1, <1>2 DEF Request
<1>9. /\ StoresAreSound'
      /\ \A c \in Pending' \ {d} :
           /\ c \in Pending
           /\ Following(c)' /\ NoneStored(c)'
           /\ \A b \in Pending' \ {d} : NotBoth(b, c)'
  <2>1. OthersStay(d, w, t)
    BY <1>0, <1>1, <1>4, <1>7 DEF OthersStay
  <2>2. Grows(d, w, t)
    BY <1>0, <1>1, <1>3, <1>4, <1>6, <2>1 DEF Grows
  <2> QED
    BY <1>1, <1>4, <2>2, GrownStep
<1>10. mem'[w] = t
  BY <1>1, <1>3 DEF LocalInv, LocalTypeOK
<1>11. Following(d)'
  BY <1>3, <1>5, <1>7, <1>8, <1>10, LocalAssumption DEF Following, NoLineageYet
<1>12. NoneStored(d)' /\ \A c \in Pending' : NotBoth(c, d)'
  BY <1>5, <1>7, <1>8, <1>10 DEF NoneStored, NotBoth
<1> QED
  BY <1>9, <1>11, <1>12, OwnRequest

-----------------------------------------------------------------------------
(* Induction *)

LEMMA CreateStepKeeps ==
  ASSUME LocalInv, NEW d \in Docs, CreateStep(d)
  PROVE  LocalInv'
<1>1. CASE Refuse(d) \/ SaveRow(d) \/ Finalized(d) \/ CleanRow(d)
  BY <1>1, CreateTyped, QuietCreateKeeps DEF LocalInv
<1>2. CASE Prepare(d)
  BY <1>2, PrepareTyped, QuietPrepareKeeps, PrepareNextKeeps, PrepareLineageKeeps
     DEF LocalInv, Prepare
<1>3. CASE Finalize(d)
  BY <1>3, FinalizeTyped, RecordsUpdatedKeeps, PidSavedKeeps DEF LocalInv
<1> QED
  BY <1>1, <1>2, <1>3 DEF CreateStep

LEMMA StutterKeeps ==
  ASSUME LocalInv, UNCHANGED vars
  PROVE  LocalInv'
<1> USE DEF vars, LocalInv
<1>1. LocalTypeOK' /\ RequestsHaveWorkers'
  BY DEF LocalTypeOK, RequestsHaveWorkers
<1>2. \A d \in Docs : /\ NoLineageYet(d)' <=> NoLineageYet(d)
                      /\ NoPidYet(d)' <=> NoPidYet(d)
  BY DEF NoLineageYet, NoPidYet
<1>3. Stores' = Stores
  BY DEF Stores
<1>4. \A d \in Pending' : Kept(d)
  BY <1>2 DEF Kept, Pending, PendingFollows, Following
<1> QED
  BY <1>1, <1>2, <1>3, <1>4, QuietStep

LEMMA InitInv == Init => LocalInv
<1> SUFFICES ASSUME Init  PROVE LocalInv
  OBVIOUS
<1>1. LocalTypeOK
  BY EmptyStore DEF Init, LocalTypeOK, NoRequest, Request, DocOrNone
<1>2. RequestsHaveWorkers
  BY DEF Init, RequestsHaveWorkers, NoRequest, FinalSteps, EndSteps
<1>3. StoresAreSound
  <2>1. \A s \in Stores : s = Empty
    BY DEF Init, Stores
  <2> QED
    BY <2>1, EmptyStore DEF StoresAreSound, Fresh, Empty
<1>4. Pending = {}
  BY DEF Init, Pending, FinalSteps
<1> QED
  BY <1>1, <1>2, <1>3, <1>4 DEF LocalInv, PendingFollows, PendingIsAlone

LEMMA NextKeeps == LocalInv /\ [Next]_vars => LocalInv'
<1> SUFFICES ASSUME LocalInv, [Next]_vars  PROVE LocalInv'
  OBVIOUS
<1>1. ASSUME NEW d \in Docs, CreateStep(d)  PROVE LocalInv'
  BY <1>1, CreateStepKeeps
<1>2. ASSUME NEW d \in Docs, NEW p \in DocOrNone, NEW w \in Workers, StartCreate(d, p, w)
      PROVE  LocalInv'
  BY <1>2, StartCreateTyped, StartCreateKeeps DEF LocalInv
<1>3. ASSUME NEW w \in Workers, WorkerStep(w)  PROVE LocalInv'
  BY <1>3, WorkerTyped, WorkerStepKeeps DEF LocalInv
<1>4. CASE UNCHANGED vars
  BY <1>4, StutterKeeps
<1> QED
  BY <1>1, <1>2, <1>3, <1>4 DEF Next, Quiescent

\* The invariant holds of every worker, number of requests and combination of faults.
THEOREM LocalStoresSound == Spec => []LocalInv
BY InitInv, NextKeeps, PTL DEF Spec

\* Type correctness: whatever fails, every record that a worker or the file holds is
\* complete, and every file is whole, missing or recognisably torn.
THEOREM LocalTyping == Spec => []LocalTypeOK
<1>1. LocalInv => LocalTypeOK
  BY DEF LocalInv
<1> QED
  BY <1>1, LocalStoresSound, PTL

\* Wherever a document is known its parent is, one version below, and the permission
\* check finds the same first document for both.
THEOREM ChainsStayWhole == Spec => []VersionsFollow
<1>1. ASSUME LocalInv  PROVE VersionsFollow
  <2> SUFFICES ASSUME NEW s \in Stores, NEW d \in Docs, s.pids[d] # None
               PROVE  LET p == s.pids[d].parent IN
                      IF p = None THEN s.pids[d].version = 1
                      ELSE /\ p \in Docs /\ s.pids[p] # None
                           /\ s.pids[d].version = s.pids[p].version + 1
                           /\ FirstDocument(s, d) = FirstDocument(s, p)
    BY DEF VersionsFollow, Published
  <2> DEFINE p == s.pids[d].parent
  <2>1. s \in Store /\ Sound(s)
    BY <1>1, StoresTyped DEF LocalInv, StoresAreSound
  <2>2. Follows(s, s.pids[d]) /\ s.pids[d] \in DocumentPid
    BY <2>1 DEF Sound, Store
  <2>3. CASE p = None
    BY <2>2, <2>3 DEF Follows
  <2>4. CASE p # None
    <3>1. p \in Docs /\ s.pids[p] # None /\ s.pids[d].version = s.pids[p].version + 1
      BY <2>2, <2>4 DEF Follows, DocumentPid, DocOrNone
    <3>2. s.pids[p].version >= 1 /\ Follows(s, s.pids[p]) /\ s.pids[p] \in DocumentPid
      BY <2>1, <3>1 DEF Sound, Store
    <3>3. s.pids[d].version # 1
      BY <3>1, <3>2 DEF DocumentPid
    <3>4. CASE s.pids[p].version = 1
      BY <2>4, <3>1, <3>3, <3>4 DEF FirstDocument
    <3>5. CASE s.pids[p].version # 1
      <4> DEFINE q == s.pids[p].parent
      <4>1. q # None
        BY <3>2, <3>5 DEF Follows
      <4>2. /\ s.pids[d].lineage = s.pids[p].lineage
            /\ IF s.pids[q].version = 1 THEN s.lins[s.pids[p].lineage].first = q
               ELSE s.pids[p].lineage = s.pids[q].lineage
        BY <2>2, <2>4, <3>2, <3>5, <4>1 DEF Follows
      <4>3. FirstDocument(s, d) = s.lins[s.pids[p].lineage].first
        BY <3>3, <3>5 DEF FirstDocument
      <4>4. FirstDocument(s, p) = IF s.pids[q].version = 1 THEN q
                                   ELSE s.lins[s.pids[q].lineage].first
        BY <3>5 DEF FirstDocument
      <4> QED
        BY <2>4, <3>1, <4>2, <4>3, <4>4
    <3> QED
      BY <3>4, <3>5
  <2> QED
    BY <2>3, <2>4
<1> QED
  BY <1>1, LocalStoresSound, PTL

\* No two documents are known with one parent unless that is a first version.
THEOREM OnlyFirstVersionsBranch == Spec => []BranchesOnlyAtFirst
<1>1. ASSUME LocalInv  PROVE BranchesOnlyAtFirst
  BY <1>1 DEF LocalInv, StoresAreSound, Sound, OneNext, BranchesOnlyAtFirst, Published
<1> QED
  BY <1>1, LocalStoresSound, PTL

(***************************************************************************)
(* One worker at a time: the service loses nothing it has acknowledged,    *)
(* unless a worker has started on a torn file.                             *)
(***************************************************************************)

\* The store s has all documents that were answered with success.
Holds(s) == \A d \in Docs : pc[d] = "done" => s.pids[d] # None
NoneDone == \A d \in Docs : pc[d] # "done"

OneWorker   == \A v, w \in Workers : up[v] # "no" /\ up[w] # "no" => v = w
WritesAlone == \A w \in Workers :
                 writing[w] # "no" => up[w] # "no" /\ writing[w] = "alone" /\ file = Torn

\* What the worker that is up knows.  It finds no file only if there is nothing to know.
WorkerHolds == \A w \in Workers : /\ up[w] = "yes" => Holds(mem[w])
                                  /\ up[w] = "creating" => NoneDone
FileHolds   == /\ file = Absent => NoneDone
               /\ file \in Store => Holds(file)

\* A request ends with success only after it has put its record into the memory.
PidIsSet(d) == pc[d] = "savePid" /\ writing[req[d].at] # "no" => mem[req[d].at].pids[d] # None

Alone == /\ OneWorker /\ WritesAlone /\ WorkerHolds /\ FileHolds
         /\ \A d \in Docs : PidIsSet(d)

TurnInv == inTurn => Alone

LEMMA StoreIsWhole == \A s \in Store : s # Absent /\ s # Torn
BY LocalAssumption

-----------------------------------------------------------------------------
(* Requests between their writes *)

\* The worker w may learn of documents, and forgets none.
Learns == \A w \in Workers, d \in Docs : mem[w].pids[d] # None => mem'[w].pids[d] # None

LEMMA QuietRequestKeeps ==
  ASSUME LocalTypeOK, RequestsHaveWorkers, Alone, NEW d \in Docs,
         UNCHANGED <<up, file, writing>>, Learns,
         \A c \in Docs \ {d} : pc'[c] = pc[c] /\ req'[c] = req[c],
         pc'[d] # "done",
         pc'[d] = "savePid" => writing[req'[d].at] = "no"
  PROVE  Alone'
<1>1. \A c \in Docs : pc'[c] = "done" => pc[c] = "done"
  OBVIOUS
<1>2. OneWorker' /\ WritesAlone'
  BY DEF Alone, OneWorker, WritesAlone
<1>3. WorkerHolds' /\ FileHolds'
  BY <1>1 DEF Alone, WorkerHolds, FileHolds, Holds, NoneDone, Learns
<1>4. ASSUME NEW c \in Docs  PROVE PidIsSet(c)'
  <2>1. CASE c = d
    BY <2>1 DEF PidIsSet
  <2>2. CASE c # d /\ pc[c] = "savePid"
    <3>1. req[c].at \in Workers /\ PidIsSet(c)
      BY <2>2, AtTyped DEF Alone, EndSteps
    <3> QED
      BY <2>2, <3>1 DEF PidIsSet, Learns
  <2> QED
    BY <2>1, <2>2 DEF PidIsSet
<1> QED
  BY <1>2, <1>3, <1>4 DEF Alone

LEMMA NothingForgotten ==
  ASSUME LocalTypeOK, NEW w \in Workers, NEW t \in Store, mem' = [mem EXCEPT ![w] = t],
         \A d \in Docs : mem[w].pids[d] # None => t.pids[d] # None
  PROVE  Learns
BY DEF Learns, LocalTypeOK

LEMMA PrepareLearns ==
  ASSUME LocalTypeOK, RequestsHaveWorkers, NEW d \in Docs, Prepare(d)
  PROVE  Learns
<1> DEFINE w == req[d].at
           s == mem[w]
           p == req[d].parent
<1>1. req[d] \in Request /\ w \in Workers /\ s \in Store
  BY AtTyped DEF Prepare, EndSteps
<1>2. p \in DocOrNone /\ \A q \in DocumentPid : q # None
  BY <1>1, LocalAssumption DEF Request
<1>3. CASE PrepareFirst(d) \/ PrepareFails(d)
  BY <1>3 DEF PrepareFirst, PrepareFails, Learns
<1>4. CASE PrepareNext(d)
  <2>1. p \in Docs /\ s.pids[p] # None /\ ~NoLineage(s, p)
    BY <1>2, <1>4 DEF PrepareNext, DocOrNone
  <2>2. /\ WithNext(s, p, d) \in Store
        /\ \A c \in Docs : s.pids[c] # None => WithNext(s, p, d).pids[c] # None
    BY <1>1, <1>2, <2>1, AdvancedStore
  <2>3. mem' = [mem EXCEPT ![w] = WithNext(s, p, d)]
    BY <1>4 DEF PrepareNext
  <2> QED
    BY <1>1, <2>2, <2>3, NothingForgotten
<1>5. CASE PrepareLineage(d)
  <2>1. p \in Docs /\ s.pids[p] # None
    BY <1>2, <1>5 DEF PrepareLineage, DocOrNone
  <2>2. /\ WithLineage(s, p, d) \in Store
        /\ \A c \in Docs : s.pids[c] # None => WithLineage(s, p, d).pids[c] # None
    BY <1>1, <1>2, <2>1, LinkedStore
  <2>3. mem' = [mem EXCEPT ![w] = WithLineage(s, p, d)]
    BY <1>5 DEF PrepareLineage
  <2> QED
    BY <1>1, <2>2, <2>3, NothingForgotten
<1> QED
  BY <1>3, <1>4, <1>5 DEF Prepare

LEMMA GoesTo ==
  ASSUME LocalTypeOK, NEW d \in Docs, NEW step, NEW r, Goto(d, step, r)
  PROVE  /\ pc'[d] = step
         /\ step \notin EndSteps => req'[d] = r
         /\ \A c \in Docs \ {d} : pc'[c] = pc[c] /\ req'[c] = req[c]
BY DEF Goto, LocalTypeOK

LEMMA RequestKeepsTurn ==
  ASSUME LocalTypeOK, RequestsHaveWorkers, Alone, NEW d \in Docs,
         Refuse(d) \/ Prepare(d) \/ SaveRow(d) \/ CleanRow(d)
  PROVE  Alone'
<1>1. UNCHANGED <<up, file, writing>>
  BY DEF Refuse, Prepare, SaveRow, CleanRow
<1>2. Learns
  BY PrepareLearns DEF Refuse, SaveRow, CleanRow, Learns
<1>3. writing[req[d].at] = "no"
  <2>1. CASE CleanRow(d)
    BY <2>1 DEF CleanRow, Idle
  <2>2. CASE ~CleanRow(d)
    BY <2>2 DEF Refuse, Prepare, SaveRow, Idle
  <2> QED
    BY <2>1, <2>2
<1>4. \/ \E step \in {"failed", "saveRow"} : \E r : Goto(d, step, r)
      \/ \E step \in FinalSteps : Goto(d, step, req[d])
  <2>1. CASE Refuse(d) \/ CleanRow(d)
    BY <2>1 DEF Refuse, CleanRow
  <2>2. CASE SaveRow(d)
    BY <2>2 DEF SaveRow, FirstFinal, FinalSteps
  <2>3. CASE Prepare(d)
    BY <2>3 DEF Prepare, PrepareFirst, PrepareNext, PrepareLineage, PrepareFails
  <2> QED
    BY <2>1, <2>2, <2>3
<1>5. /\ \A c \in Docs \ {d} : pc'[c] = pc[c] /\ req'[c] = req[c]
      /\ pc'[d] # "done"
      /\ pc'[d] = "savePid" => writing[req'[d].at] = "no"
  BY <1>3, <1>4, GoesTo DEF FinalSteps, EndSteps
<1> QED
  BY <1>1, <1>2, <1>5, QuietRequestKeeps

LEMMA StartCreateKeepsTurn ==
  ASSUME LocalTypeOK, RequestsHaveWorkers, Alone, NEW d \in Docs, NEW p \in DocOrNone,
         NEW w \in Workers, StartCreate(d, p, w)
  PROVE  Alone'
<1>1. /\ UNCHANGED <<up, file, writing, mem>>
      /\ Goto(d, "prepare", [NoRequest EXCEPT !.at = w, !.parent = p])
  BY DEF StartCreate
<1>2. /\ \A c \in Docs \ {d} : pc'[c] = pc[c] /\ req'[c] = req[c]
      /\ pc'[d] = "prepare"
  BY <1>1, GoesTo
<1> QED
  BY <1>1, <1>2, QuietRequestKeeps DEF Learns

-----------------------------------------------------------------------------
(* Writes *)

\* A write starts with an empty file, and only the worker that is up starts one.
LEMMA OpenKeepsTurn ==
  ASSUME LocalTypeOK, RequestsHaveWorkers, Alone, NEW w \in Workers,
         OpenFile(w), up[w] # "no", UNCHANGED <<up, pc, req>>, Learns,
         \A d \in Docs : pc[d] = "savePid" /\ req[d].at = w => mem'[w].pids[d] # None
  PROVE  Alone'
<1>1. file' = Torn /\ \A v \in Workers \ {w} : writing[v] = "no"
  BY DEF OpenFile, Alone, OneWorker, WritesAlone
<1>2. writing'[w] = "alone" /\ \A v \in Workers \ {w} : writing'[v] = "no"
  BY <1>1 DEF OpenFile, LocalTypeOK
<1>3. OneWorker' /\ WritesAlone'
  BY <1>1, <1>2 DEF Alone, OneWorker, WritesAlone
<1>4. WorkerHolds' /\ FileHolds'
  BY <1>1, LocalAssumption DEF Alone, WorkerHolds, FileHolds, Holds, NoneDone, Learns
<1>5. \A d \in Docs : PidIsSet(d)'
  <2> SUFFICES ASSUME NEW d \in Docs, pc[d] = "savePid", writing'[req[d].at] # "no"
               PROVE  mem'[req[d].at].pids[d] # None
    BY DEF PidIsSet
  <2>1. req[d].at \in Workers
    BY AtTyped DEF EndSteps
  <2> QED
    BY <1>2, <2>1
<1> QED
  BY <1>3, <1>4, <1>5 DEF Alone

LEMMA FinalizeKeepsTurn ==
  ASSUME LocalTypeOK, RequestsHaveWorkers, Alone, NEW d \in Docs, Finalize(d),
         Stored(d) \in Store
  PROVE  Alone'
<1> DEFINE w == req[d].at
           s == mem[w]
<1>1. /\ w \in Workers /\ up[w] = "yes" /\ s \in Store /\ req[d] \in Request
      /\ UNCHANGED <<up, pc, req>>
      /\ OpenFile(w) /\ mem' = [mem EXCEPT ![w] = Stored(d)]
  BY AtTyped DEF Finalize, Put, FinalSteps, EndSteps
<1>2. mem'[w] = Stored(d)
  BY <1>1 DEF LocalTypeOK
<1>3. pc[d] # "savePid" => Stored(d).pids = s.pids
  BY <1>1 DEF Stored, Store
<1>4. pc[d] = "savePid" => Stored(d).pids[d] # None
                            /\ \A c \in Docs \ {d} : Stored(d).pids[c] = s.pids[c]
  <2> DEFINE q == [version |-> req[d].version, parent |-> req[d].parent,
                   succ |-> None, lineage |-> req[d].lineage]
  <2>1. q \in DocumentPid
    BY <1>1 DEF Request, DocumentPid, DocOrNone
  <2>2. q # None
    BY <2>1, LocalAssumption
  <2>3. pc[d] = "savePid" => Stored(d) = [s EXCEPT !.pids[d] = q]
    BY DEF Stored
  <2> HIDE DEF q
  <2> QED
    BY <1>1, <2>2, <2>3 DEF Store
<1>5. \A c \in Docs : s.pids[c] # None => Stored(d).pids[c] # None
  BY <1>3, <1>4
<1>6. Learns
  BY <1>1, <1>5, NothingForgotten
<1>7. \A c \in Docs : pc[c] = "savePid" /\ req[c].at = w => c = d
  BY DEF Finalize, RequestsHaveWorkers, FinalSteps
<1> QED
  BY <1>1, <1>2, <1>4, <1>6, <1>7, OpenKeepsTurn

LEMMA PatchKeepsTurn ==
  ASSUME LocalTypeOK, RequestsHaveWorkers, Alone, NEW w \in Workers,
         CreateFile(w) \/ \E x \in Docs : Patch(w, x)
  PROVE  Alone'
<1>1. UNCHANGED <<up, mem, pc, req>> /\ OpenFile(w) /\ up[w] # "no"
  BY DEF CreateFile, Patch, Idle, Put, LocalTypeOK
<1>2. \A d \in Docs : pc[d] = "savePid" /\ req[d].at = w => FALSE
  <2>1. CASE CreateFile(w)
    BY <2>1, AtTyped DEF CreateFile, EndSteps
  <2>2. CASE \E x \in Docs : Patch(w, x)
    BY <2>2 DEF Patch, Idle, FinalSteps
  <2> QED
    BY <2>1, <2>2
<1> QED
  BY <1>1, <1>2, OpenKeepsTurn DEF Learns

\* When a write ends the file has what the worker knows.
LEMMA CloseKeepsTurn ==
  ASSUME LocalTypeOK, RequestsHaveWorkers, Alone, NEW w \in Workers, CloseFile(w),
         mem' = mem, up'[w] = "yes", \A v \in Workers \ {w} : up'[v] = up[v],
         Holds(mem[w])',
         \A d \in Docs : pc'[d] = "savePid" => req'[d].at \in Workers
  PROVE  Alone'
<1>1. up[w] # "no" /\ writing[w] = "alone"
  BY DEF CloseFile, Alone, WritesAlone
<1>2. file' = mem[w] /\ mem[w] \in Store
  BY <1>1 DEF CloseFile, LocalTypeOK
<1>3. /\ writing'[w] = "no"
      /\ \A v \in Workers \ {w} : writing'[v] = writing[v] /\ up[v] = "no"
  BY <1>1 DEF CloseFile, LocalTypeOK, Alone, OneWorker
<1>4. \A v \in Workers : writing'[v] = "no"
  BY <1>3 DEF Alone, WritesAlone
<1>5. OneWorker' /\ WritesAlone'
  BY <1>3, <1>4 DEF OneWorker, WritesAlone
<1>6. FileHolds'
  BY <1>2, StoreIsWhole DEF FileHolds, Holds
<1>7. WorkerHolds'
  BY <1>3 DEF WorkerHolds, Holds
<1>8. \A d \in Docs : PidIsSet(d)'
  BY <1>4 DEF PidIsSet
<1> QED
  BY <1>5, <1>6, <1>7, <1>8 DEF Alone

LEMMA FinalizedKeepsTurn ==
  ASSUME LocalTypeOK, RequestsHaveWorkers, Alone, NEW d \in Docs, Finalized(d)
  PROVE  Alone'
<1>0. PICK w \in Workers : w = req[d].at /\ up[w] = "yes"
  BY AtTyped DEF Finalized, FinalSteps, EndSteps
<1>1. /\ up[w] = "yes"
      /\ UNCHANGED <<up, mem>> /\ CloseFile(w)
      /\ pc[d] \in FinalSteps /\ Goto(d, NextFinal[pc[d]], req[d])
  BY <1>0 DEF Finalized
<1>2. /\ pc'[d] = NextFinal[pc[d]]
      /\ NextFinal[pc[d]] \notin EndSteps => req'[d] = req[d]
      /\ \A c \in Docs \ {d} : pc'[c] = pc[c] /\ req'[c] = req[c]
  BY <1>1, GoesTo
<1>3. pc'[d] = "done" => mem[w].pids[d] # None
  <2>1. pc'[d] = "done" => pc[d] = "savePid"
    BY <1>1, <1>2 DEF NextFinal, FinalSteps
  <2> QED
    BY <1>0, <1>1, <2>1 DEF CloseFile, Alone, PidIsSet
<1>4. Holds(mem[w])'
  BY <1>1, <1>2, <1>3 DEF Alone, WorkerHolds, Holds
<1>5. \A c \in Docs : pc'[c] = "savePid" => req'[c].at \in Workers
  BY <1>0, <1>1, <1>2, AtTyped DEF EndSteps
<1> QED
  BY <1>1, <1>4, <1>5, CloseKeepsTurn

LEMMA PatchedKeepsTurn ==
  ASSUME LocalTypeOK, RequestsHaveWorkers, Alone, NEW w \in Workers,
         Patched(w) \/ FileCreated(w)
  PROVE  Alone'
<1>1. /\ CloseFile(w) /\ UNCHANGED <<mem, pc, req>>
      /\ up'[w] = "yes" /\ \A v \in Workers \ {w} : up'[v] = up[v]
  BY DEF Patched, FileCreated, LocalTypeOK
<1>2. Holds(mem[w])'
  BY <1>1 DEF Patched, FileCreated, Alone, WorkerHolds, Holds, NoneDone
<1>3. \A d \in Docs : pc'[d] = "savePid" => req'[d].at \in Workers
  BY <1>1, AtTyped DEF EndSteps
<1> QED
  BY <1>1, <1>2, <1>3, CloseKeepsTurn

-----------------------------------------------------------------------------
(* Starts and failures *)

LEMMA StartKeepsTurn ==
  ASSUME LocalTypeOK, RequestsHaveWorkers, TurnInv, NEW w \in Workers, Start(w), inTurn'
  PROVE  Alone'
<1>1. /\ inTurn /\ file # Torn /\ \A v \in Workers : up[v] = "no"
      /\ UNCHANGED <<file, writing, pc, req>>
  BY DEF Start
<1>2. Alone
  BY <1>1 DEF TurnInv
<1>3. /\ up' = [up EXCEPT ![w] = IF file = Absent THEN "creating" ELSE "yes"]
      /\ file # Absent => mem' = [mem EXCEPT ![w] = file]
  BY <1>1 DEF Start
<1>4. OneWorker' /\ WritesAlone'
  BY <1>1, <1>2, <1>3 DEF Alone, OneWorker, WritesAlone, LocalTypeOK
<1>5. FileHolds'
  BY <1>1, <1>2 DEF Alone, FileHolds, Holds, NoneDone
<1>6. WorkerHolds'
  <2>1. \A v \in Workers \ {w} : up'[v] = "no"
    BY <1>1, <1>3 DEF LocalTypeOK
  <2>2. CASE file = Absent
    BY <1>1, <1>2, <1>3, <2>1, <2>2 DEF Alone, FileHolds, WorkerHolds, NoneDone, LocalTypeOK
  <2>3. CASE file # Absent
    <3>1. file \in Store /\ mem'[w] = file /\ up'[w] = "yes"
      BY <1>1, <1>3, <2>3 DEF LocalTypeOK
    <3> QED
      BY <1>1, <1>2, <2>1, <3>1 DEF Alone, FileHolds, WorkerHolds, Holds
  <2> QED
    BY <2>2, <2>3
<1>7. \A d \in Docs : PidIsSet(d)'
  BY <1>1, AtTyped DEF PidIsSet, EndSteps
<1> QED
  BY <1>4, <1>5, <1>6, <1>7 DEF Alone

\* A worker that fails to write, or dies, leaves the other workers as they are.
LEMMA FailureKeepsTurn ==
  ASSUME LocalTypeOK, RequestsHaveWorkers, Alone, NEW w \in Workers,
         SaveFails(w) \/ Crash(w)
  PROVE  Alone'
<1>1. /\ writing'[w] = "no" /\ \A v \in Workers \ {w} : writing'[v] = writing[v]
      /\ \A v \in Workers \ {w} : up'[v] = up[v] /\ mem'[v] = mem[v]
      /\ up'[w] = "yes" => up[w] = "yes" /\ mem'[w] = mem[w]
      /\ up'[w] # "creating" /\ (up'[w] # "no" => up[w] # "no")
      /\ file' \in {file, Torn}
  <2>1. CASE SaveFails(w)
    BY <2>1 DEF SaveFails, LocalTypeOK, Alone, WritesAlone
  <2>2. CASE Crash(w)
    BY <2>2 DEF Crash, LocalTypeOK
  <2> QED
    BY <2>1, <2>2
<1>2. \A d \in Docs : /\ pc'[d] = "done" => pc[d] = "done"
                      /\ pc'[d] = "savePid" => pc[d] = "savePid" /\ req'[d] = req[d]
  BY DEF SaveFails, Crash, LocalTypeOK, FinalSteps
<1>3. OneWorker' /\ WritesAlone'
  BY <1>1 DEF Alone, OneWorker, WritesAlone
<1>4. WorkerHolds'
  BY <1>1, <1>2 DEF Alone, WorkerHolds, Holds, NoneDone
<1>5. FileHolds'
  BY <1>1, <1>2, LocalAssumption DEF Alone, FileHolds, Holds, NoneDone
<1>6. \A d \in Docs : PidIsSet(d)'
  <2> SUFFICES ASSUME NEW d \in Docs, pc'[d] = "savePid", writing'[req'[d].at] # "no"
               PROVE  mem'[req'[d].at].pids[d] # None
    BY DEF PidIsSet
  <2>1. pc[d] = "savePid" /\ req'[d] = req[d] /\ req[d].at \in Workers \ {w}
    BY <1>1, <1>2, AtTyped DEF EndSteps
  <2> QED
    BY <1>1, <2>1 DEF Alone, PidIsSet
<1> QED
  BY <1>3, <1>4, <1>5, <1>6 DEF Alone

LEMMA InitTurn == Init => TurnInv
<1> SUFFICES ASSUME Init  PROVE Alone
  BY DEF TurnInv
<1>1. OneWorker /\ WritesAlone /\ WorkerHolds
  BY DEF Init, OneWorker, WritesAlone, WorkerHolds
<1>2. FileHolds
  BY StoreIsWhole DEF Init, FileHolds, NoneDone
<1>3. \A d \in Docs : PidIsSet(d)
  BY DEF Init, PidIsSet
<1> QED
  BY <1>1, <1>2, <1>3 DEF Alone

LEMMA NextKeepsTurn == LocalInv /\ LocalInv' /\ TurnInv /\ [Next]_vars => TurnInv'
<1> SUFFICES ASSUME LocalInv, LocalInv', TurnInv, [Next]_vars, inTurn'  PROVE Alone'
  BY DEF TurnInv
<1>1. LocalTypeOK /\ RequestsHaveWorkers
  BY DEF LocalInv
<1>2. ASSUME NEW d \in Docs, CreateStep(d)  PROVE Alone'
  <2>1. Alone
    BY <1>2 DEF TurnInv, CreateStep, Refuse, Prepare, SaveRow, Finalize, Finalized, CleanRow
  <2>2. Finalize(d) => Stored(d) \in Store
    <3> SUFFICES ASSUME Finalize(d)  PROVE Stored(d) \in Store
      OBVIOUS
    <3>1. mem'[req[d].at] = Stored(d) /\ req[d].at \in Workers
      BY <1>1, AtTyped DEF Finalize, Put, LocalTypeOK, FinalSteps, EndSteps
    <3> QED
      BY <3>1 DEF LocalInv, LocalTypeOK
  <2> QED
    BY <1>1, <1>2, <2>1, <2>2, RequestKeepsTurn, FinalizeKeepsTurn, FinalizedKeepsTurn
       DEF CreateStep
<1>3. ASSUME NEW d \in Docs, NEW p \in DocOrNone, NEW w \in Workers, StartCreate(d, p, w)
      PROVE  Alone'
  <2>1. Alone
    BY <1>3 DEF TurnInv, StartCreate
  <2> QED
    BY <1>1, <1>3, <2>1, StartCreateKeepsTurn
<1>4. ASSUME NEW w \in Workers, WorkerStep(w)  PROVE Alone'
  <2>1. CASE Start(w)
    BY <1>1, <2>1, StartKeepsTurn
  <2>2. CASE ~Start(w)
    <3>1. Alone
      BY <1>4, <2>2 DEF TurnInv, WorkerStep, CreateFile, FileCreated, Patch, Patched,
                        SaveFails, Crash
    <3> QED
      BY <1>1, <1>4, <2>2, <3>1, PatchKeepsTurn, PatchedKeepsTurn, FailureKeepsTurn
         DEF WorkerStep
  <2> QED
    BY <2>1, <2>2
<1>5. CASE UNCHANGED vars
  BY <1>5 DEF TurnInv, vars, Alone, OneWorker, WritesAlone, WorkerHolds, FileHolds,
              Holds, NoneDone, PidIsSet
<1> QED
  BY <1>2, <1>3, <1>4, <1>5 DEF Next, Quiescent

\* One worker at a time that starts from whole files keeps every document it has
\* answered with success, in memory and, whenever nothing is being written, in the file.
THEOREM OneWorkerForgetsNothing == Spec => []AcknowledgedSurvives
<1>1. LocalInv /\ TurnInv => AcknowledgedSurvives
  <2> SUFFICES ASSUME LocalTypeOK, TurnInv, inTurn, NEW d \in Docs, pc[d] = "done"
               PROVE  /\ \A w \in Workers : up[w] = "yes" => d \in Published(mem[w])
                      /\ file # Torn => d \in Published(file)
    BY DEF AcknowledgedSurvives, LocalInv
  <2> QED
    BY DEF TurnInv, Alone, WorkerHolds, FileHolds, Holds, NoneDone, Published, LocalTypeOK
<1> QED
  BY <1>1, InitInv, NextKeeps, InitTurn, NextKeepsTurn, PTL DEF Spec

(***************************************************************************)
(* As long as nothing has failed and one worker runs at a time, a lineage  *)
(* names its latest document, or the request that is about to store it.    *)
(***************************************************************************)

Unbroken == inTurn /\ \A d \in Docs : pc[d] \notin {"cleanRow", "failed"}

\* Version n is known as x, or will be when request x ends.
IsTip(s, x, n) ==
  \/ s.pids[x] # None /\ s.pids[x].version = n
  \/ x \in Pending /\ req[x].version = n

\* Request l is about to store the lineage record that it has named in its parent's.
Opens(l) == l \in Pending /\ req[l].parent # None /\ req[l].lineage = l

Named(s) ==
  /\ \A l \in Docs : s.lins[l] # None => IsTip(s, s.lins[l].last, s.lins[l].latest)
  /\ \A x \in Docs : s.pids[x] # None /\ s.pids[x].lineage # None =>
       s.lins[s.pids[x].lineage] # None \/ Opens(s.pids[x].lineage)

\* What a request stores is what it was going to store, and a first version has no lineage.
AsAsked(d) ==
  /\ req[d].parent = None => req[d].lineage = None
  /\ d \in Pending /\ mem[req[d].at].pids[d] # None =>
       mem[req[d].at].pids[d].version = req[d].version

FileNamed == Active = {} /\ file \in Store => Named(file)

Naming ==
  /\ \A w \in Workers : Named(mem[w])
  /\ FileNamed
  /\ \A d \in Docs : AsAsked(d)

KnowsNothing == \A w \in Workers : up[w] # "yes" => mem[w] = Empty

TipInv == KnowsNothing /\ (Unbroken => Naming)

LEMMA EmptyNamed == Named(Empty) /\ Named(Empty)'
BY DEF Named, Empty

\* Request c goes on as it was, or all it was going to store is in the store t.
Settled(t, c) ==
  \/ c \in Pending' /\ req'[c] = req[c]
  \/ /\ t.pids[c] # None /\ t.pids[c].version = req[c].version
     /\ req[c].parent # None /\ req[c].lineage = c => t.lins[c] # None

\* The store t knows what s does, and its new records name what they should.
LEMMA NamedKept ==
  ASSUME NEW s \in Store, NEW t \in Store, Named(s),
         \A c \in Pending : Settled(t, c),
         \A x \in Docs : s.pids[x] # None =>
           t.pids[x] # None /\ t.pids[x].version = s.pids[x].version,
         \A l \in Docs : s.lins[l] # None => t.lins[l] # None,
         \A l \in Docs : t.lins[l] # None =>
           t.lins[l] = s.lins[l] \/ IsTip(t, t.lins[l].last, t.lins[l].latest)',
         \A x \in Docs : t.pids[x] # None /\ t.pids[x].lineage # None =>
           \/ s.pids[x] # None /\ t.pids[x].lineage = s.pids[x].lineage
           \/ t.lins[t.pids[x].lineage] # None
           \/ Opens(t.pids[x].lineage)'
  PROVE  Named(t)'
<1>1. ASSUME NEW x \in Docs, NEW n, IsTip(s, x, n)  PROVE IsTip(t, x, n)'
  BY <1>1 DEF IsTip, Settled
<1>2. ASSUME NEW l \in Docs, t.lins[l] # None
      PROVE  IsTip(t, t.lins[l].last, t.lins[l].latest)'
  <2>1. CASE t.lins[l] = s.lins[l]
    <3>1. s.lins[l] # None /\ s.lins[l].last \in Docs
      BY <1>2, <2>1, LocalAssumption DEF Store, LineagePid
    <3>2. IsTip(s, s.lins[l].last, s.lins[l].latest)
      BY <3>1 DEF Named
    <3>3. IsTip(t, s.lins[l].last, s.lins[l].latest)'
      BY <1>1, <3>1, <3>2
    <3> QED  BY <2>1, <3>3
  <2>2. CASE t.lins[l] # s.lins[l]
    BY <1>2, <2>2
  <2> QED  BY <2>1, <2>2
<1>3. ASSUME NEW x \in Docs, t.pids[x] # None, t.pids[x].lineage # None
      PROVE  t.lins[t.pids[x].lineage] # None \/ Opens(t.pids[x].lineage)'
  <2> DEFINE l == t.pids[x].lineage
  <2>1. l \in Docs
    BY <1>3 DEF Store, DocumentPid, DocOrNone
  <2>2. CASE s.pids[x] # None /\ l = s.pids[x].lineage
    <3>1. s.lins[l] # None \/ Opens(l)
      BY <1>3, <2>2 DEF Named
    <3>2. Opens(l) => t.lins[l] # None \/ Opens(l)'
      BY DEF Opens, Settled
    <3> QED  BY <2>1, <3>1, <3>2
  <2> QED  BY <1>3, <2>2
<1> QED  BY <1>2, <1>3 DEF Named

\* Nothing is forgiven.
LEMMA BrokenStays ==
  ASSUME LocalTypeOK, [Next]_vars, Unbroken'
  PROVE  Unbroken
<1>1. CASE UNCHANGED vars
  BY <1>1 DEF vars, Unbroken
<1>2. ASSUME NEW d \in Docs, CreateStep(d)  PROVE Unbroken
  <2>1. inTurn' = inTurn
    BY <1>2 DEF CreateStep, Refuse, Prepare, SaveRow, Finalize, Finalized, CleanRow
  <2>2. ASSUME NEW step, NEW r, Goto(d, step, r), pc[d] \notin {"cleanRow", "failed"}
        PROVE  \A c \in Docs : pc[c] \notin {"cleanRow", "failed"}
    BY <2>2 DEF Goto, Unbroken, LocalTypeOK
  <2>3. CASE Refuse(d) \/ Prepare(d) \/ SaveRow(d)
    <3>1. \E step, r : Goto(d, step, r)
      BY <2>3 DEF Refuse, Prepare, SaveRow, PrepareFirst, PrepareNext, PrepareLineage,
                  PrepareFails
    <3>2. pc[d] \notin {"cleanRow", "failed"}
      BY <2>3 DEF Refuse, Prepare, SaveRow
    <3> QED  BY <2>1, <2>2, <3>1, <3>2 DEF Unbroken
  <2>4. CASE Finalize(d)
    BY <2>1, <2>4 DEF Finalize, Unbroken
  <2>5. CASE Finalized(d)
    BY <2>1, <2>2, <2>5 DEF Finalized, FinalSteps, Unbroken
  <2>6. CASE CleanRow(d)
    BY <2>6, GoesTo DEF CleanRow, Unbroken
  <2> QED  BY <1>2, <2>3, <2>4, <2>5, <2>6 DEF CreateStep
<1>3. ASSUME NEW d \in Docs, NEW p \in DocOrNone, NEW w \in Workers, StartCreate(d, p, w)
      PROVE  Unbroken
  BY <1>3 DEF StartCreate, Goto, Unbroken, LocalTypeOK
<1>4. ASSUME NEW w \in Workers, WorkerStep(w)  PROVE Unbroken
  <2>1. CASE SaveFails(w)
    BY <2>1 DEF SaveFails, Unbroken, LocalTypeOK, FinalSteps
  <2>2. CASE Crash(w)
    BY <2>2 DEF Crash, Unbroken, LocalTypeOK
  <2>3. CASE Start(w) \/ CreateFile(w) \/ FileCreated(w) \/ Patched(w) \/ \E x \in Docs : Patch(w, x)
    BY <2>3 DEF Start, CreateFile, FileCreated, Patched, Patch, Unbroken
  <2> QED  BY <1>4, <2>1, <2>2, <2>3 DEF WorkerStep
<1> QED  BY <1>1, <1>2, <1>3, <1>4 DEF Next, Quiescent

LEMMA KnowsNothingKept ==
  ASSUME LocalTypeOK, RequestsHaveWorkers, KnowsNothing, [Next]_vars
  PROVE  KnowsNothing'
<1>1. CASE UNCHANGED vars
  BY <1>1 DEF vars, KnowsNothing
<1>2. ASSUME NEW d \in Docs, CreateStep(d)  PROVE KnowsNothing'
  <2>1. up' = up /\ (mem' = mem \/ \E t : mem' = [mem EXCEPT ![req[d].at] = t])
    BY <1>2 DEF CreateStep, Refuse, Prepare, SaveRow, Finalize, Finalized, CleanRow, Put,
                PrepareFirst, PrepareNext, PrepareLineage, PrepareFails
  <2>2. up[req[d].at] = "yes"
    BY <1>2, AtTyped DEF CreateStep, Refuse, Prepare, SaveRow, Finalize, Finalized, CleanRow,
                         FinalSteps, EndSteps
  <2> QED  BY <2>1, <2>2 DEF KnowsNothing, LocalTypeOK
<1>3. ASSUME NEW d \in Docs, NEW p \in DocOrNone, NEW w \in Workers, StartCreate(d, p, w)
      PROVE  KnowsNothing'
  BY <1>3 DEF StartCreate, KnowsNothing
<1>4. ASSUME NEW w \in Workers, WorkerStep(w)  PROVE KnowsNothing'
  <2>1. CASE Start(w)
    BY <2>1 DEF Start, KnowsNothing, LocalTypeOK
  <2>2. CASE SaveFails(w)
    BY <2>2 DEF SaveFails, KnowsNothing, LocalTypeOK
  <2>3. CASE Crash(w)
    BY <2>3 DEF Crash, KnowsNothing, LocalTypeOK
  <2>4. CASE CreateFile(w) \/ FileCreated(w) \/ Patched(w)
    BY <2>4 DEF CreateFile, FileCreated, Patched, KnowsNothing, LocalTypeOK
  <2>5. CASE \E x \in Docs : Patch(w, x)
    BY <2>5 DEF Patch, Put, KnowsNothing, LocalTypeOK
  <2> QED  BY <1>4, <2>1, <2>2, <2>3, <2>4, <2>5 DEF WorkerStep
<1> QED  BY <1>1, <1>2, <1>3, <1>4 DEF Next, Quiescent

\* A store that stays as it is names what it named.
LEMMA StaysNamed ==
  ASSUME NEW s \in Store, Named(s), \A c \in Pending : Settled(s, c)
  PROVE  Named(s)'
BY NamedKept

\* Only the worker that is up has records.
LEMMA NamingOf ==
  ASSUME LocalTypeOK, OneWorker, KnowsNothing, NEW w \in Workers, up[w] # "no",
         \A v \in Workers \ {w} : mem'[v] = mem[v],
         Named(mem[w])', FileNamed', \A d \in Docs : AsAsked(d)'
  PROVE  Naming'
<1>1. ASSUME NEW v \in Workers \ {w}  PROVE Named(mem[v])'
  <2>1. mem'[v] = Empty
    BY DEF OneWorker, KnowsNothing
  <2> QED  BY <2>1, EmptyNamed
<1> QED  BY <1>1 DEF Naming

\* A request goes on, and the records stay.
LEMMA QuietNaming ==
  ASSUME LocalTypeOK, RequestsHaveWorkers, RequestsHaveWorkers', Naming,
         UNCHANGED <<mem, file>>, NEW d \in Docs,
         \A c \in Docs \ {d} : pc'[c] = pc[c] /\ req'[c] = req[c],
         pc'[d] \notin {"idle"} \cup EndSteps,
         d \in Pending => d \in Pending' /\ req'[d] = req[d],
         d \in Pending' \ Pending => mem[req'[d].at].pids[d] = None,
         req'[d].parent = None => req'[d].lineage = None
  PROVE  Naming'
<1>1. \A c \in Pending : c \in Pending' /\ req'[c] = req[c]
  BY DEF Pending
<1>2. ASSUME NEW w \in Workers  PROVE Named(mem[w])'
  <2>1. PICK s : s = mem[w] /\ s = mem'[w]
    OBVIOUS
  <2>2. s \in Store /\ Named(s)
    BY <2>1 DEF LocalTypeOK, Naming
  <2>3. \A c \in Pending : Settled(s, c)
    BY <1>1 DEF Settled
  <2>4. Named(s)'
    BY <2>2, <2>3, StaysNamed
  <2> QED  BY <2>1, <2>4
<1>3. FileNamed'
  BY DEF FileNamed, Active
<1>4. ASSUME NEW c \in Docs  PROVE AsAsked(c)'
  <2>1. CASE c # d
    BY <2>1 DEF Naming, AsAsked, Pending
  <2>2. CASE c = d
    BY <2>2 DEF Naming, AsAsked
  <2> QED  BY <2>1, <2>2
<1> QED  BY <1>2, <1>3, <1>4 DEF Naming

LEMMA StartCreateNames ==
  ASSUME LocalInv, LocalInv', Naming, NEW d \in Docs, NEW p \in DocOrNone, NEW w \in Workers,
         StartCreate(d, p, w)
  PROVE  Naming'
<1>1. /\ UNCHANGED <<mem, file>> /\ pc[d] = "idle"
      /\ Goto(d, "prepare", [NoRequest EXCEPT !.at = w, !.parent = p])
  BY DEF StartCreate
<1>2. /\ \A c \in Docs \ {d} : pc'[c] = pc[c] /\ req'[c] = req[c]
      /\ pc'[d] = "prepare" /\ req'[d] = [NoRequest EXCEPT !.at = w, !.parent = p]
  BY <1>1, GoesTo DEF EndSteps, LocalInv
<1>3. d \notin Pending /\ d \notin Pending' /\ req'[d].lineage = None
  BY <1>1, <1>2 DEF Pending, FinalSteps, NoRequest
<1>4. pc'[d] \notin {"idle"} \cup EndSteps
  BY <1>2 DEF EndSteps
<1> QED  BY <1>1, <1>2, <1>3, <1>4, QuietNaming DEF LocalInv

LEMMA SaveRowNames ==
  ASSUME LocalInv, LocalInv', Naming, Unbroken', NEW d \in Docs, SaveRow(d)
  PROVE  Naming'
<1>1. /\ UNCHANGED <<mem, file>> /\ pc[d] = "saveRow"
      /\ \E step \in FinalSteps \cup {"failed"} : Goto(d, step, req[d])
  BY DEF SaveRow, FirstFinal, FinalSteps
<1>2. PICK step \in FinalSteps \cup {"failed"} : Goto(d, step, req[d])
  BY <1>1
<1>3. /\ \A c \in Docs \ {d} : pc'[c] = pc[c] /\ req'[c] = req[c]
      /\ pc'[d] = step /\ (step \notin EndSteps => req'[d] = req[d])
  BY <1>2, GoesTo DEF LocalInv
<1>4. step \in FinalSteps
  BY <1>3 DEF Unbroken
<1>5. d \in Pending /\ d \in Pending' /\ req'[d] = req[d] /\ pc'[d] \notin {"idle"} \cup EndSteps
  BY <1>1, <1>3, <1>4 DEF Pending, FinalSteps, EndSteps
<1>6. req'[d].parent = None => req'[d].lineage = None
  BY <1>5 DEF Naming, AsAsked
<1> QED  BY <1>1, <1>3, <1>5, <1>6, QuietNaming DEF LocalInv

LEMMA FirstNames ==
  ASSUME LocalInv, LocalInv', Naming, NEW d \in Docs, Prepare(d), PrepareFirst(d)
  PROVE  Naming'
<1>1. /\ pc[d] = "prepare" /\ mem[req[d].at].pids[d] = None /\ req[d] \in Request
  BY PrepareBegins
<1>2. /\ UNCHANGED <<mem, file>> /\ req[d].parent = None
      /\ Goto(d, "saveRow", [req[d] EXCEPT !.version = 1])
  BY DEF Prepare, PrepareFirst
<1>3. /\ \A c \in Docs \ {d} : pc'[c] = pc[c] /\ req'[c] = req[c]
      /\ pc'[d] = "saveRow" /\ req'[d] = [req[d] EXCEPT !.version = 1]
  BY <1>2, GoesTo DEF LocalInv, EndSteps
<1>4. req'[d].at = req[d].at /\ req'[d].lineage = req[d].lineage /\ req[d].lineage = None
  BY <1>1, <1>2, <1>3 DEF Naming, AsAsked, Request
<1>5. d \notin Pending /\ pc'[d] \notin {"idle"} \cup EndSteps
  BY <1>1, <1>3 DEF Pending, FinalSteps, EndSteps
<1> QED  BY <1>1, <1>2, <1>3, <1>4, <1>5, QuietNaming DEF LocalInv

\* What is asked of a request whose worker's memory becomes t.
LEMMA AskedOf ==
  ASSUME LocalInv, Naming, NEW w \in Workers, NEW t \in Store,
         mem' = [mem EXCEPT ![w] = t],
         NEW d \in Docs, \A c \in Docs \ {d} : pc'[c] = pc[c] /\ req'[c] = req[c],
         \A c \in Docs \ {d} : t.pids[c] # None =>
            mem[w].pids[c] # None /\ t.pids[c].version = mem[w].pids[c].version,
         AsAsked(d)'
  PROVE  \A c \in Docs : AsAsked(c)'
<1> SUFFICES ASSUME NEW c \in Docs \ {d}  PROVE AsAsked(c)'
  OBVIOUS
<1>1. pc'[c] = pc[c] /\ req'[c] = req[c] /\ (c \in Pending' => c \in Pending) /\ AsAsked(c)
  BY DEF Pending, Naming
<1>2. c \in Pending => req[c].at \in Workers
  BY AtTyped DEF LocalInv, Pending, FinalSteps, EndSteps
<1>3. c \in Pending /\ req[c].at = w => mem'[req[c].at] = t
  BY <1>2 DEF LocalInv, LocalTypeOK
<1>4. c \in Pending /\ req[c].at # w => mem'[req[c].at] = mem[req[c].at]
  BY <1>2 DEF LocalInv, LocalTypeOK
<1> QED  BY <1>1, <1>3, <1>4 DEF AsAsked

LEMMA NextNames ==
  ASSUME LocalInv, Alone, KnowsNothing, Naming, NEW d \in Docs, Prepare(d), PrepareNext(d)
  PROVE  Naming'
<1>0. PICK w, s, p : w = req[d].at /\ s = mem[w] /\ p = req[d].parent
  OBVIOUS
<1> DEFINE l == s.pids[p].lineage
<1>1. /\ w \in Workers /\ up[w] = "yes" /\ s \in Store /\ req[d] \in Request
      /\ pc[d] = "prepare" /\ s.pids[d] = None
  BY <1>0, PrepareBegins, AtTyped DEF LocalInv, EndSteps
<1>2. PICK t, r : /\ t = WithNext(s, p, d)
                  /\ r = [req[d] EXCEPT !.version = s.lins[l].latest + 1, !.lineage = l]
  OBVIOUS
<1>3. /\ p \in Docs /\ s.pids[p] # None /\ ~NoLineage(s, p)
      /\ Goto(d, "saveRow", r) /\ mem' = [mem EXCEPT ![w] = t] /\ mem'[w] = t
  BY <1>0, <1>1, <1>2 DEF PrepareNext, Request, DocOrNone, LocalInv, LocalTypeOK
<1>4. /\ l \in Docs /\ s.lins[l] \in LineagePid /\ t \in Store
      /\ \A c \in Docs \ {p} : t.pids[c] = s.pids[c]
      /\ t.pids[p].version = s.pids[p].version /\ t.pids[p].lineage = l
      /\ t.pids[p] \in DocumentPid
      /\ \A m \in Docs \ {l} : t.lins[m] = s.lins[m]
      /\ t.lins[l] \in LineagePid
      /\ t.lins[l].last = d /\ t.lins[l].latest = s.lins[l].latest + 1
  BY <1>1, <1>2, <1>3, AdvancedStore
<1>5. t.pids[p] # None /\ t.lins[l] # None
  BY <1>4, LocalAssumption
<1>6. /\ \A c \in Docs \ {d} : pc'[c] = pc[c] /\ req'[c] = req[c]
      /\ pc'[d] = "saveRow" /\ req'[d] = r
  BY <1>3, GoesTo DEF LocalInv, EndSteps
<1>7. /\ d \notin Pending /\ d \in Pending' /\ d \in Active'
      /\ \A c \in Pending : c \in Pending' /\ req'[c] = req[c]
  BY <1>1, <1>6 DEF Pending, Active, FinalSteps, EndSteps
<1>8. r.version = s.lins[l].latest + 1 /\ r.at = w /\ r.parent = p
  BY <1>0, <1>1, <1>2 DEF Request
<1>9. IsTip(t, d, s.lins[l].latest + 1)'
  BY <1>6, <1>7, <1>8 DEF IsTip
<1>10. Named(s)
  BY <1>0, <1>1 DEF Naming
<1>11. \A c \in Pending : Settled(t, c)
  BY <1>7 DEF Settled
<1>12. Named(t)'
  <2>1. \A x \in Docs : s.pids[x] # None =>
          t.pids[x] # None /\ t.pids[x].version = s.pids[x].version
    BY <1>4, <1>5
  <2>2. \A m \in Docs : s.lins[m] # None => t.lins[m] # None
    BY <1>4, <1>5
  <2>3. \A m \in Docs : t.lins[m] # None =>
          t.lins[m] = s.lins[m] \/ IsTip(t, t.lins[m].last, t.lins[m].latest)'
    BY <1>4, <1>9
  <2>4. \A x \in Docs : t.pids[x] # None /\ t.pids[x].lineage # None =>
          s.pids[x] # None /\ t.pids[x].lineage = s.pids[x].lineage
    BY <1>3, <1>4
  <2> QED  BY <1>1, <1>4, <1>10, <1>11, <2>1, <2>2, <2>3, <2>4, NamedKept
<1>13. Named(mem[w])'
  BY <1>3, <1>12
<1>14. FileNamed'
  BY <1>7 DEF FileNamed
<1>15. d # p
  BY <1>1, <1>3
<1>16. AsAsked(d)'
  BY <1>1, <1>3, <1>4, <1>6, <1>8, <1>15, LocalAssumption DEF AsAsked
<1>17. \A c \in Docs : AsAsked(c)'
  <2>1. \A c \in Docs : t.pids[c] # None =>
          mem[w].pids[c] # None /\ t.pids[c].version = mem[w].pids[c].version
    BY <1>0, <1>3, <1>4
  <2> QED  BY <1>1, <1>3, <1>4, <1>6, <1>16, <2>1, AskedOf
<1> QED
  BY <1>1, <1>3, <1>13, <1>14, <1>17, NamingOf DEF LocalInv, LocalTypeOK, Alone

LEMMA LineageNames ==
  ASSUME LocalInv, Alone, KnowsNothing, Naming, NEW d \in Docs, Prepare(d), PrepareLineage(d)
  PROVE  Naming'
<1>0. PICK w, s, p : w = req[d].at /\ s = mem[w] /\ p = req[d].parent
  OBVIOUS
<1>1. /\ w \in Workers /\ up[w] = "yes" /\ s \in Store /\ req[d] \in Request
      /\ pc[d] = "prepare" /\ s.pids[d] = None
  BY <1>0, PrepareBegins, AtTyped DEF LocalInv, EndSteps
<1>2. PICK t, r : t = WithLineage(s, p, d) /\ r = [req[d] EXCEPT !.version = 2, !.lineage = d]
  OBVIOUS
<1>3. /\ p \in Docs /\ s.pids[p] # None
      /\ Goto(d, "saveRow", r) /\ mem' = [mem EXCEPT ![w] = t]
  BY <1>0, <1>1, <1>2 DEF PrepareLineage, Request, DocOrNone
<1>4. /\ t \in Store /\ t.lins = s.lins
      /\ \A c \in Docs \ {p} : t.pids[c] = s.pids[c]
      /\ t.pids[p].version = s.pids[p].version
      /\ t.pids[p] \in DocumentPid /\ t.pids[p].lineage = d /\ mem'[w] = t
  <2>1. t.pids[p].lineage = d
    BY <1>1, <1>2, <1>3 DEF WithLineage, Store, DocumentPid
  <2>2. /\ t \in Store /\ t.lins = s.lins
        /\ \A c \in Docs \ {p} : t.pids[c] = s.pids[c]
        /\ t.pids[p].version = s.pids[p].version
        /\ t.pids[p] \in DocumentPid
    BY <1>1, <1>2, <1>3, LinkedStore
  <2> QED  BY <1>1, <1>3, <2>1, <2>2 DEF LocalInv, LocalTypeOK
<1>5. t.pids[p] # None /\ d # p
  BY <1>1, <1>3, <1>4, LocalAssumption
<1>6. /\ \A c \in Docs \ {d} : pc'[c] = pc[c] /\ req'[c] = req[c]
      /\ pc'[d] = "saveRow" /\ req'[d] = r
  BY <1>3, GoesTo DEF LocalInv, EndSteps
<1>7. /\ d \notin Pending /\ d \in Pending' /\ d \in Active'
      /\ \A c \in Pending : c \in Pending' /\ req'[c] = req[c]
  BY <1>1, <1>6 DEF Pending, Active, FinalSteps, EndSteps
<1>8. r.lineage = d /\ r.at = w /\ r.parent = p /\ p # None
  BY <1>0, <1>1, <1>2, <1>3, LocalAssumption DEF Request
<1>9. Opens(d)'
  BY <1>6, <1>7, <1>8 DEF Opens
<1>10. Named(s)
  BY <1>0, <1>1 DEF Naming
<1>11. \A c \in Pending : Settled(t, c)
  BY <1>7 DEF Settled
<1>12. Named(t)'
  <2>1. \A x \in Docs : s.pids[x] # None =>
          t.pids[x] # None /\ t.pids[x].version = s.pids[x].version
    BY <1>4, <1>5
  <2>2. \A x \in Docs : t.pids[x] # None /\ t.pids[x].lineage # None =>
          \/ s.pids[x] # None /\ t.pids[x].lineage = s.pids[x].lineage
          \/ Opens(t.pids[x].lineage)'
    BY <1>4, <1>9
  <2> QED  BY <1>1, <1>4, <1>10, <1>11, <2>1, <2>2, NamedKept
<1>13. Named(mem[w])'
  BY <1>4, <1>12
<1>14. FileNamed'
  BY <1>7 DEF FileNamed
<1>15. AsAsked(d)'
  BY <1>1, <1>4, <1>5, <1>6, <1>8 DEF AsAsked
<1>16. \A c \in Docs : AsAsked(c)'
  <2>1. \A c \in Docs : t.pids[c] # None =>
          mem[w].pids[c] # None /\ t.pids[c].version = mem[w].pids[c].version
    BY <1>0, <1>3, <1>4
  <2> QED  BY <1>1, <1>3, <1>4, <1>6, <1>15, <2>1, AskedOf
<1> QED
  BY <1>1, <1>3, <1>13, <1>14, <1>16, NamingOf DEF LocalInv, LocalTypeOK, Alone

LEMMA SameNaming ==
  ASSUME Naming, UNCHANGED <<mem, pc, req>>, FileNamed'
  PROVE  Naming'
<1>1. Pending' = Pending
  BY DEF Pending
<1>2. \A w \in Workers : Named(mem[w])'
  BY <1>1 DEF Naming, Named, IsTip, Opens
<1>3. \A d \in Docs : AsAsked(d)'
  BY <1>1 DEF Naming, AsAsked
<1> QED  BY <1>2, <1>3 DEF Naming

LEMMA NoFileNamed == ASSUME file' = Torn PROVE FileNamed'
BY StoreIsWhole DEF FileNamed

LEMMA PatchNames ==
  ASSUME LocalInv, Naming, NEW w \in Workers, CreateFile(w) \/ \E x \in Docs : Patch(w, x)
  PROVE  Naming'
<1>1. UNCHANGED <<mem, pc, req>> /\ file' = Torn
  BY DEF CreateFile, Patch, Put, OpenFile, LocalInv, LocalTypeOK
<1> QED  BY <1>1, NoFileNamed, SameNaming

\* What is closed is what the worker that wrote it has in its memory.
LEMMA ClosedNames ==
  ASSUME LocalTypeOK, Alone, NEW w \in Workers, CloseFile(w), mem' = mem, Named(mem[w])'
  PROVE  FileNamed'
<1>1. writing[w] = "alone"
  BY DEF CloseFile, Alone, WritesAlone
<1>2. file' = mem[w]
  BY <1>1 DEF CloseFile
<1>3. PICK s : s = mem[w]
  OBVIOUS
<1>4. Named(s)' /\ file' = s
  BY <1>2, <1>3
<1> QED  BY <1>4 DEF FileNamed

LEMMA PatchedNames ==
  ASSUME LocalInv, Alone, Naming, NEW w \in Workers, Patched(w) \/ FileCreated(w)
  PROVE  Naming'
<1>1. CloseFile(w) /\ UNCHANGED <<mem, pc, req>>
  BY DEF Patched, FileCreated
<1>2. Named(mem[w])'
  BY <1>1 DEF Naming, Named, IsTip, Opens, Pending
<1>3. FileNamed'
  BY <1>1, <1>2, ClosedNames DEF LocalInv
<1> QED  BY <1>1, <1>3, SameNaming

LEMMA FinalizeNames ==
  ASSUME LocalInv, LocalInv', Alone, KnowsNothing, Naming, NEW d \in Docs, Finalize(d)
  PROVE  Naming'
<1>0. PICK w, s, r, t : w = req[d].at /\ s = mem[w] /\ r = req[d] /\ t = Stored(d)
  OBVIOUS
<1>1. /\ w \in Workers /\ up[w] = "yes" /\ s \in Store /\ Fresh(s)
      /\ d \in Pending /\ Following(d) /\ r \in Request
      /\ UNCHANGED <<pc, req>> /\ writing[w] = "no"
      /\ mem' = [mem EXCEPT ![w] = t]
      /\ file' = Torn /\ pc[d] \in FinalSteps
  BY <1>0, FinalizeOpens, AtTyped
     DEF Finalize, Put, OpenFile, FinalSteps, EndSteps, LocalInv
<1>2. mem'[w] = t /\ t \in Store
  BY <1>1 DEF LocalInv, LocalTypeOK
<1>3. Pending' = Pending /\ Named(s) /\ AsAsked(d)
  BY <1>0, <1>1 DEF Pending, Naming
<1>4. \A c \in Pending : Settled(t, c)
  BY <1>1, <1>3 DEF Settled
<1>5. /\ Named(t)' /\ AsAsked(d)'
      /\ \A c \in Docs \ {d} : t.pids[c] = s.pids[c]
  <2>1. CASE pc[d] = "saveLineage"
    <3>1. r.lineage = d /\ r.parent \in Docs /\ r.version = 2
      BY <1>0, <1>1, <2>1 DEF Following, NoLineageYet, Request, DocOrNone
    <3>2. t = [s EXCEPT !.lins[d] = [first |-> r.parent, last |-> d, latest |-> 2]]
      BY <1>0, <2>1 DEF Stored
    <3>3. /\ t.pids = s.pids
          /\ t.lins[d] = [first |-> r.parent, last |-> d, latest |-> 2]
          /\ \A l \in Docs \ {d} : t.lins[l] = s.lins[l]
      BY <1>1, <3>1, <3>2 DEF Store
    <3>4. t.lins[d] # None /\ t.lins[d].last = d /\ t.lins[d].latest = 2
      <4>1. [first |-> r.parent, last |-> d, latest |-> 2] \in LineagePid
        BY <3>1 DEF LineagePid
      <4> QED  BY <3>3, <4>1, LocalAssumption
    <3>5. IsTip(t, d, 2)'
      BY <1>0, <1>1, <1>3, <3>1 DEF IsTip
    <3>6. Named(t)'
      <4>1. \A l \in Docs : t.lins[l] # None =>
              t.lins[l] = s.lins[l] \/ IsTip(t, t.lins[l].last, t.lins[l].latest)'
        BY <3>3, <3>4, <3>5
      <4>2. \A l \in Docs : s.lins[l] # None => t.lins[l] # None
        BY <3>3, <3>4
      <4> QED  BY <1>1, <1>2, <1>3, <1>4, <3>3, <4>1, <4>2, NamedKept
    <3>7. AsAsked(d)'
      BY <1>0, <1>1, <1>2, <1>3, <3>3 DEF AsAsked
    <3> QED  BY <3>3, <3>6, <3>7
  <2>2. CASE pc[d] = "savePid"
    <3> DEFINE q == [version |-> r.version, parent |-> r.parent,
                     succ |-> None, lineage |-> r.lineage]
    <3>1. s.pids[d] = None /\ Follows(s, r)
      BY <1>0, <1>1, <2>2 DEF Fresh, NoPidYet, NoLineageYet, Following
    <3>2. q \in DocumentPid /\ q.version = r.version /\ q.lineage = r.lineage
      BY <1>1 DEF Request, DocumentPid, DocOrNone
    <3>3. t = [s EXCEPT !.pids[d] = q]
      BY <1>0, <2>2 DEF Stored
    <3> HIDE DEF q
    <3>4. /\ t.lins = s.lins /\ t.pids[d] = q
          /\ \A c \in Docs \ {d} : t.pids[c] = s.pids[c]
      BY <1>1, <3>3 DEF Store
    <3>5. q.lineage # None => s.lins[q.lineage] # None
      BY <1>0, <1>3, <3>1, <3>2 DEF AsAsked, Follows
    <3>6. Named(t)'
      <4>1. \A x \in Docs : s.pids[x] # None =>
              t.pids[x] # None /\ t.pids[x].version = s.pids[x].version
        BY <3>1, <3>4
      <4>2. \A x \in Docs : t.pids[x] # None /\ t.pids[x].lineage # None =>
              \/ s.pids[x] # None /\ t.pids[x].lineage = s.pids[x].lineage
              \/ t.lins[t.pids[x].lineage] # None
        BY <3>4, <3>5
      <4> QED  BY <1>1, <1>2, <1>3, <1>4, <3>4, <4>1, <4>2, NamedKept
    <3>7. AsAsked(d)'
      BY <1>0, <1>1, <1>2, <1>3, <3>2, <3>4 DEF AsAsked
    <3> QED  BY <3>4, <3>6, <3>7
  <2>3. CASE pc[d] \in {"updateParent", "updateLineage"}
    <3>1. t = s
      BY <1>0, <2>3 DEF Stored
    <3>2. Named(t)'
      BY <1>1, <1>3, <1>4, <3>1, StaysNamed
    <3>3. AsAsked(d)'
      BY <1>0, <1>1, <1>2, <1>3, <3>1 DEF AsAsked
    <3> QED  BY <3>1, <3>2, <3>3
  <2> QED  BY <1>1, <2>1, <2>2, <2>3 DEF FinalSteps
<1>6. \A c \in Docs : AsAsked(c)'
  <2>1. \A c \in Docs \ {d} : t.pids[c] # None =>
          mem[w].pids[c] # None /\ t.pids[c].version = mem[w].pids[c].version
    BY <1>0, <1>5
  <2> QED  BY <1>1, <1>2, <1>5, <2>1, AskedOf
<1>7. Named(mem[w])'
  BY <1>2, <1>5
<1>8. FileNamed'
  BY <1>1, NoFileNamed
<1>9. \A v \in Workers \ {w} : mem'[v] = mem[v]
  BY <1>1 DEF LocalInv, LocalTypeOK
<1> QED
  BY <1>1, <1>6, <1>7, <1>8, <1>9, NamingOf DEF LocalInv, Alone

LEMMA FinalizedNames ==
  ASSUME LocalInv, Alone, KnowsNothing, Naming, NEW d \in Docs, Finalized(d)
  PROVE  Naming'
<1>0. PICK w, s, r : w = req[d].at /\ s = mem[w] /\ r = req[d]
  OBVIOUS
<1>1. /\ w \in Workers /\ up[w] = "yes" /\ s \in Store /\ d \in Pending
      /\ Following(d) /\ r \in Request
  BY <1>0, AtTyped DEF Finalized, LocalInv, PendingFollows, Pending, FinalSteps, EndSteps
<1>2. /\ UNCHANGED mem /\ CloseFile(w)
      /\ pc[d] \in FinalSteps /\ Goto(d, NextFinal[pc[d]], r)
  BY <1>0 DEF Finalized
<1>3. /\ \A c \in Docs \ {d} : pc'[c] = pc[c] /\ req'[c] = req[c]
      /\ pc'[d] = NextFinal[pc[d]]
      /\ req'[d] = IF pc'[d] \in EndSteps THEN NoRequest ELSE r
  BY <1>2 DEF Goto, LocalInv, LocalTypeOK
<1>4. pc'[d] \in FinalSteps \/ (pc'[d] = "done" /\ pc[d] = "savePid")
  BY <1>2, <1>3 DEF NextFinal, FinalSteps
<1>5. Settled(s, d)
  <2>1. CASE pc'[d] \in FinalSteps
    BY <1>0, <1>3, <2>1 DEF Settled, Pending, FinalSteps, EndSteps
  <2>2. CASE pc'[d] = "done" /\ pc[d] = "savePid"
    <3>1. s.pids[d] # None
      BY <1>0, <1>2, <2>2 DEF CloseFile, Alone, PidIsSet
    <3>2. s.pids[d].version = req[d].version
      BY <1>0, <1>1, <3>1 DEF Naming, AsAsked
    <3>3. Follows(s, req[d])
      BY <1>0, <1>1, <2>2 DEF Following, NoLineageYet
    <3>4. req[d].parent # None /\ req[d].lineage = d => s.lins[d] # None
      BY <3>3 DEF Follows
    <3> QED  BY <3>1, <3>2, <3>4 DEF Settled
  <2> QED  BY <1>4, <2>1, <2>2
<1>6. \A c \in Pending : Settled(s, c)
  BY <1>3, <1>5 DEF Settled, Pending
<1>7. Named(s)'
  BY <1>0, <1>1, <1>6, StaysNamed DEF Naming
<1>8. Named(mem[w])'
  BY <1>0, <1>2, <1>7
<1>9. FileNamed'
  BY <1>1, <1>2, <1>8, ClosedNames DEF LocalInv
<1>10. ASSUME NEW c \in Docs  PROVE AsAsked(c)'
  <2>1. c \in Pending' => c \in Pending /\ req'[c] = req[c]
    BY <1>0, <1>1, <1>3 DEF Pending, FinalSteps, EndSteps
  <2>2. req'[c].parent = None => req'[c].lineage = None
    BY <1>0, <1>3 DEF Naming, AsAsked, NoRequest
  <2> QED  BY <1>2, <2>1, <2>2 DEF Naming, AsAsked
<1> QED
  BY <1>1, <1>2, <1>8, <1>9, <1>10, NamingOf DEF LocalInv, Alone

LEMMA StartNames ==
  ASSUME LocalInv, KnowsNothing, Naming, NEW w \in Workers, Start(w), inTurn'
  PROVE  Naming'
<1>1. /\ file # Torn /\ \A v \in Workers : up[v] = "no"
      /\ UNCHANGED <<file, pc, req>>
      /\ mem' = mem \/ (file # Absent /\ mem' = [mem EXCEPT ![w] = file])
  BY DEF Start
<1>2. \A c \in Docs : pc[c] \in {"idle"} \cup EndSteps
  BY <1>1, AtTyped DEF LocalInv
<1>3. Active = {} /\ Active' = {} /\ Pending' = {}
  BY <1>1, <1>2 DEF Active, Pending, FinalSteps, EndSteps
<1>4. file \in Store => Named(file) /\ Named(file)'
  BY <1>1, <1>3 DEF Naming, FileNamed, Named, IsTip, Opens, Pending
<1>5. FileNamed'
  BY <1>1, <1>4 DEF FileNamed
<1>6. ASSUME NEW v \in Workers  PROVE Named(mem[v])'
  <2>1. mem'[v] = Empty \/ (mem'[v] = file' /\ file \in Store)
    BY <1>1 DEF KnowsNothing, LocalInv, LocalTypeOK
  <2>2. CASE mem'[v] = Empty
    BY <2>2, EmptyNamed
  <2>3. CASE mem'[v] = file' /\ file \in Store
    BY <1>4, <2>3
  <2> QED  BY <2>1, <2>2, <2>3
<1>7. \A c \in Docs : AsAsked(c)'
  BY <1>1, <1>3 DEF Naming, AsAsked
<1> QED  BY <1>5, <1>6, <1>7 DEF Naming

LEMMA FailureNames ==
  ASSUME LocalInv, Alone, KnowsNothing, KnowsNothing', Naming, Unbroken', NEW w \in Workers,
         SaveFails(w) \/ Crash(w)
  PROVE  Naming'
<1>1. UNCHANGED <<pc, req>> /\ file' \in {file, Torn}
  <2>1. CASE SaveFails(w)
    <3>1. \A d \in Docs : ~(req[d].at = w /\ pc[d] \in FinalSteps)
      BY <2>1 DEF SaveFails, Unbroken
    <3> QED  BY <2>1, <3>1 DEF SaveFails, LocalInv, LocalTypeOK
  <2>2. CASE Crash(w)
    <3>1. \A d \in Docs : req[d].at # w
      BY <2>2 DEF Crash, Unbroken
    <3> QED  BY <2>2, <3>1 DEF Crash, LocalInv, LocalTypeOK
  <2> QED  BY <2>1, <2>2
<1>2. FileNamed'
  <2>1. CASE file' = Torn
    BY <2>1, NoFileNamed
  <2>2. CASE file' = file
    BY <1>1, <2>2 DEF Naming, FileNamed, Active, Named, IsTip, Opens, Pending
  <2> QED  BY <1>1, <2>1, <2>2
<1>3. CASE SaveFails(w)
  BY <1>1, <1>2, <1>3, SameNaming DEF SaveFails
<1>4. CASE Crash(w)
  <2>1. mem' = [mem EXCEPT ![w] = Empty] /\ \A d \in Docs : req[d].at # w
    BY <1>4 DEF Crash, Unbroken
  <2>2. ASSUME NEW v \in Workers  PROVE Named(mem[v])'
    <3>1. CASE v = w
      BY <2>1, <3>1, EmptyNamed DEF LocalInv, LocalTypeOK
    <3>2. CASE v # w
      BY <1>1, <2>1, <3>2 DEF Naming, Named, IsTip, Opens, Pending, LocalInv, LocalTypeOK
    <3> QED  BY <3>1, <3>2
  <2>3. ASSUME NEW c \in Docs  PROVE AsAsked(c)'
    <3>1. c \in Pending => req[c].at \in Workers
      BY AtTyped DEF LocalInv, Pending, FinalSteps, EndSteps
    <3>2. c \in Pending => mem'[req[c].at] = mem[req[c].at]
      BY <2>1, <3>1 DEF LocalInv, LocalTypeOK
    <3>3. Pending' = Pending
      BY <1>1 DEF Pending
    <3> QED  BY <1>1, <3>2, <3>3 DEF Naming, AsAsked
  <2> QED  BY <1>2, <2>2, <2>3 DEF Naming
<1> QED  BY <1>3, <1>4

LEMMA InitTip == Init => TipInv
<1> SUFFICES ASSUME Init  PROVE TipInv
  OBVIOUS
<1>1. KnowsNothing /\ (\A w \in Workers : Named(mem[w]))
  BY EmptyNamed DEF Init, KnowsNothing
<1>2. FileNamed
  BY StoreIsWhole DEF Init, FileNamed
<1>3. \A d \in Docs : AsAsked(d)
  BY DEF Init, AsAsked, Pending, NoRequest, FinalSteps
<1> QED  BY <1>1, <1>2, <1>3 DEF TipInv, Naming

LEMMA NextKeepsTip ==
  LocalInv /\ LocalInv' /\ TurnInv /\ TipInv /\ [Next]_vars => TipInv'
<1> SUFFICES ASSUME LocalInv, LocalInv', TurnInv, TipInv, [Next]_vars  PROVE TipInv'
  OBVIOUS
<1>1. LocalTypeOK /\ RequestsHaveWorkers /\ KnowsNothing
  BY DEF LocalInv, TipInv
<1>2. KnowsNothing'
  BY <1>1, KnowsNothingKept
<1> SUFFICES ASSUME Unbroken'  PROVE Naming'
  BY <1>2 DEF TipInv
<1>3. Unbroken /\ Naming /\ Alone
  BY <1>1, BrokenStays DEF TipInv, TurnInv, Unbroken
<1>4. ASSUME NEW d \in Docs, CreateStep(d)  PROVE Naming'
  <2>1. ~(Refuse(d) \/ CleanRow(d) \/ PrepareFails(d))
    <3>1. Refuse(d) \/ CleanRow(d) \/ PrepareFails(d) => pc'[d] = "failed"
      BY <1>1, GoesTo DEF Refuse, CleanRow, PrepareFails
    <3> QED  BY <3>1 DEF Unbroken
  <2>2. CASE Prepare(d)
    BY <1>1, <1>3, <2>1, <2>2, FirstNames, NextNames, LineageNames DEF Prepare
  <2>3. CASE SaveRow(d)
    BY <1>3, <2>3, SaveRowNames
  <2>4. CASE Finalize(d)
    BY <1>1, <1>3, <2>4, FinalizeNames
  <2>5. CASE Finalized(d)
    BY <1>1, <1>3, <2>5, FinalizedNames
  <2> QED  BY <1>4, <2>1, <2>2, <2>3, <2>4, <2>5 DEF CreateStep
<1>5. ASSUME NEW d \in Docs, NEW p \in DocOrNone, NEW w \in Workers, StartCreate(d, p, w)
      PROVE  Naming'
  BY <1>3, <1>5, StartCreateNames
<1>6. ASSUME NEW w \in Workers, WorkerStep(w)  PROVE Naming'
  <2>1. inTurn'
    BY DEF Unbroken
  <2> QED
    BY <1>1, <1>2, <1>3, <1>6, <2>1, StartNames, PatchNames, PatchedNames, FailureNames
       DEF WorkerStep
<1>7. CASE UNCHANGED vars
  <2>1. UNCHANGED <<mem, pc, req, file>>
    BY <1>7 DEF vars
  <2>2. FileNamed'
    BY <1>3, <2>1 DEF Naming, FileNamed, Active, Named, IsTip, Opens, Pending
  <2> QED  BY <1>3, <2>1, <2>2, SameNaming
<1> QED
  BY <1>4, <1>5, <1>6, <1>7 DEF Next, Quiescent

\* One worker at a time and no failure: when all requests have ended, every lineage that
\* a document names is known, wherever the document is, and names its latest document:
\* that one can be given a new version.
THEOREM LineagesNameTheirTips == Spec => []TipCanBeExtended
<1>1. LocalInv /\ TurnInv /\ TipInv => TipCanBeExtended
  <2> SUFFICES ASSUME LocalTypeOK, TurnInv, TipInv, inTurn, Active = {},
                      \A d \in Docs : pc[d] # "failed",
                      NEW s \in Stores, NEW x \in Published(s), s.pids[x].lineage # None
               PROVE  LET lin == s.lins[s.pids[x].lineage] IN
                      /\ lin # None
                      /\ lin.last \in Published(s)
                      /\ s.pids[lin.last].version = lin.latest
    BY DEF TipCanBeExtended, LocalInv
  <2>1. Pending = {} /\ \A d \in Docs : pc[d] # "cleanRow"
    BY DEF Active, Pending, FinalSteps, EndSteps
  <2>2. Naming
    BY <2>1 DEF TipInv, Unbroken
  <2>3. s \in Store /\ Named(s)
    BY <2>2, StoresTyped DEF Stores, Naming, FileNamed, LocalTypeOK
  <2>4. s.pids[x].lineage \in Docs
    BY <2>3 DEF Published, Store, DocumentPid, DocOrNone
  <2>5. s.lins[s.pids[x].lineage] # None
    BY <2>1, <2>3 DEF Named, Published, Opens
  <2>6. s.lins[s.pids[x].lineage].last \in Docs
    BY <2>3, <2>4, <2>5 DEF Store, LineagePid
  <2> QED
    BY <2>1, <2>3, <2>4, <2>5, <2>6 DEF Named, IsTip, Published
<1> QED
  BY <1>1, InitInv, NextKeeps, InitTurn, NextKeepsTurn, InitTip, NextKeepsTip, PTL DEF Spec

===============================================================================
