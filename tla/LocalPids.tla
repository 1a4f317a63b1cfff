------------------------------ MODULE LocalPids ------------------------------
(***************************************************************************)
(* LocalPidServiceImpl, the PID service without a Handle server: each      *)
(* worker reads pids.json once, into memory, and writes the whole of its   *)
(* memory over the file whenever it saves or updates a record.  The        *)
(* workers' memories are never compared again.                             *)
(*                                                                         *)
(* get_pid_record returns the stored record itself.  What building the     *)
(* records of a new document changes in the parent's record and in the     *)
(* lineage record is therefore in memory at once, long before the request  *)
(* finalizes them, and stays there when it fails.                          *)
(*                                                                         *)
(* As in DocumentPublish, Docs are the create requests and name the        *)
(* document and the lineage PIDs that they mint.                           *)
(***************************************************************************)
EXTENDS Integers, FiniteSets

CONSTANTS
  Docs,       \* create requests = document PIDs = lineage PIDs
  Workers,    \* processes of the service
  MaxActive,  \* requests that may be in flight at the same time
  Faults,     \* what may go wrong, a subset of FaultKinds
  None,
  Absent,     \* there is no file
  Torn        \* the file is no JSON

FaultKinds == {"fail", "disk", "crash"}

DocOrNone == Docs \cup {None}

DocumentPid == [version : Nat, parent : DocOrNone, succ : DocOrNone, lineage : DocOrNone]
LineagePid  == [first : Docs, last : Docs, latest : Nat]

\* What a worker holds in self.pids, and what the file says of it
Store == [pids : [Docs -> DocumentPid \cup {None}], lins : [Docs -> LineagePid \cup {None}]]
Empty == [pids |-> [d \in Docs |-> None], lins |-> [d \in Docs |-> None]]

ASSUME LocalAssumption ==
  /\ Faults \subseteq FaultKinds
  /\ MaxActive \in Nat
  /\ None \notin Docs \cup Workers
  /\ None \notin DocumentPid /\ None \notin LineagePid
  /\ Absent # Torn /\ Absent \notin Store /\ Torn \notin Store

VARIABLES
  up,       \* whether a worker has its LocalPidServiceImpl
  mem,      \* self.pids of each worker
  file,     \* pids.json
  writing,  \* whether a worker has the file open, and whether others had it meanwhile
  rows,     \* documents with a row in document_records
  pc,       \* where each request is
  req,      \* its locals
  inTurn    \* history: one worker at a time, and none has found a torn file

vars == <<up, mem, file, writing, rows, pc, req, inTurn>>

FinalSteps == {"saveLineage", "updateParent", "updateLineage", "savePid"}
EndSteps   == {"done", "failed"}

Request == [at : Workers \cup {None}, parent : DocOrNone, version : Nat, lineage : DocOrNone]
NoRequest == [at |-> None, parent |-> None, version |-> 0, lineage |-> None]

LocalTypeOK ==
  /\ up \in [Workers -> {"no", "creating", "yes"}]
  /\ mem \in [Workers -> Store]
  /\ file \in Store \cup {Absent, Torn}
  /\ writing \in [Workers -> {"no", "alone", "shared"}]
  /\ rows \subseteq Docs
  /\ pc \in [Docs -> {"idle", "prepare", "saveRow", "cleanRow"} \cup FinalSteps \cup EndSteps]
  /\ req \in [Docs -> Request]
  /\ inTurn \in BOOLEAN

Init ==
  /\ up = [w \in Workers |-> "no"]
  /\ mem = [w \in Workers |-> Empty]
  /\ file = Absent
  /\ writing = [w \in Workers |-> "no"]
  /\ rows = {}
  /\ pc = [d \in Docs |-> "idle"]
  /\ req = [d \in Docs |-> NoRequest]
  /\ inTurn = TRUE

-----------------------------------------------------------------------------
(* A worker and its file *)

Active == {d \in Docs : pc[d] \notin {"idle"} \cup EndSteps}

\* Nothing in finalize_pid_records lets another request of the worker run.
Idle(w) ==
  /\ up[w] = "yes" /\ writing[w] = "no"
  /\ \A d \in Docs : req[d].at = w => pc[d] \notin FinalSteps

\* Opening the file for writing empties it.
OpenFile(w) ==
  LET others == {v \in Workers \ {w} : writing[v] # "no"} IN
  /\ writing[w] = "no"
  /\ writing' = [v \in Workers |-> IF v = w
                                   THEN IF others = {} THEN "alone" ELSE "shared"
                                   ELSE IF v \in others THEN "shared" ELSE writing[v]]
  /\ file' = Torn

\* The worker's memory is in the file, mixed up with what others wrote to it meanwhile.
CloseFile(w) ==
  /\ writing[w] # "no"
  /\ file' \in {mem[w]} \cup (IF writing[w] = "shared" THEN {Torn} ELSE {})
  /\ writing' = [writing EXCEPT ![w] = "no"]

\* self.pids[pid] = ..., then _save_pids_to_file
Put(w, store) ==
  /\ mem' = [mem EXCEPT ![w] = store]
  /\ OpenFile(w)

\* Faulty variant: a file that is there is not read
StartEmpty(w) ==
  /\ up[w] = "no"
  /\ inTurn' = (inTurn /\ file # Torn /\ \A v \in Workers : up[v] = "no")
  /\ up' = [up EXCEPT ![w] = IF file = Absent THEN "creating" ELSE "yes"]
  /\ UNCHANGED <<mem, file, writing, rows, pc, req>>

\* The service is built when a request needs it for the first time.
Start(w) ==
  /\ up[w] = "no"
  /\ inTurn' = (inTurn /\ file # Torn /\ \A v \in Workers : up[v] = "no")
  /\ IF file = Absent
     THEN up' = [up EXCEPT ![w] = "creating"] /\ UNCHANGED mem
     ELSE /\ up' = [up EXCEPT ![w] = "yes"]
          /\ mem' = [mem EXCEPT ![w] = IF file = Torn THEN Empty ELSE file]
  /\ UNCHANGED <<file, writing, rows, pc, req>>

\* Without a file it writes an empty one, whatever has happened since it looked.
CreateFile(w) ==
  /\ up[w] = "creating"
  /\ OpenFile(w)
  /\ UNCHANGED <<up, mem, rows, pc, req, inTurn>>

FileCreated(w) ==
  /\ up[w] = "creating"
  /\ CloseFile(w)
  /\ up' = [up EXCEPT ![w] = "yes"]
  /\ UNCHANGED <<mem, rows, pc, req, inTurn>>

\* A metadata update rewrites the record x; the metadata itself is left out.
Patch(w, x) ==
  /\ Idle(w)
  /\ mem[w].pids[x] # None
  /\ Put(w, mem[w])
  /\ UNCHANGED <<up, rows, pc, req, inTurn>>

Patched(w) ==
  /\ up[w] = "yes"
  /\ \A d \in Docs : req[d].at = w => pc[d] \notin FinalSteps
  /\ CloseFile(w)
  /\ UNCHANGED <<up, mem, rows, pc, req, inTurn>>

-----------------------------------------------------------------------------
(* The create request *)

\* Request d goes on at step with the locals r, or ends and forgets them.
Goto(d, step, r) ==
  /\ pc' = [pc EXCEPT ![d] = step]
  /\ req' = [req EXCEPT ![d] = IF step \in EndSteps THEN NoRequest ELSE r]

StartCreate(d, p, w) ==
  /\ pc[d] = "idle"
  /\ Idle(w)
  /\ Cardinality(Active) < MaxActive
  /\ p # None => p \in rows
  /\ Goto(d, "prepare", [NoRequest EXCEPT !.at = w, !.parent = p])
  /\ UNCHANGED <<up, mem, file, writing, rows, inTurn>>

\* The user has no right on the parent, or the upload fails.
Refuse(d) ==
  /\ pc[d] = "prepare"
  /\ Idle(req[d].at)
  /\ Goto(d, "failed", req[d])
  /\ UNCHANGED <<up, mem, file, writing, rows, inTurn>>

\* new_pid_record_from_document, without an interruption.  The changes to parent and
\* lineage are made in the stored records.
PrepareFirst(d) ==
  /\ req[d].parent = None
  /\ Goto(d, "saveRow", [req[d] EXCEPT !.version = 1])
  /\ UNCHANGED mem

\* No lineage record is stored for the parent.
NoLineage(s, p) == s.pids[p].lineage # None => s.lins[s.pids[p].lineage] = None

\* Faulty variants: the new version is not counted, not named, or set too early
AdvancedUncounted(lin, d) == [lin EXCEPT !.last = d]
AdvancedUnnamed(lin, d)   == [lin EXCEPT !.latest = lin.latest + 1]
AdvancedUnset(lin, d)     == [lin EXCEPT !.last = None, !.latest = lin.latest + 1]

Advanced(lin, d) == [first |-> lin.first, last |-> d, latest |-> lin.latest + 1]

\* Faulty variant: any known version will do
AnyVersion(record, lin) == lin.first # None

\* A new version can only follow the latest one.
IsLatest(record, lin) == lin.latest <= record.version

\* Document d becomes the next version of p: of its lineage, or of one that d opens
WithNext(s, p, d) ==
  LET l == s.pids[p].lineage IN
  [pids |-> [s.pids EXCEPT ![p].succ = d],
   lins |-> [s.lins EXCEPT ![l] = Advanced(s.lins[l], d)]]
WithLineage(s, p, d) ==
  [s EXCEPT !.pids[p] = [s.pids[p] EXCEPT !.succ = d, !.lineage = d]]

PrepareNext(d) ==
  LET w == req[d].at  s == mem[w]  p == req[d].parent
      l == s.pids[p].lineage  lin == s.lins[l] IN
  /\ p # None /\ s.pids[p] # None
  /\ ~NoLineage(s, p)
  /\ IsLatest(s.pids[p], lin)
  /\ Goto(d, "saveRow", [req[d] EXCEPT !.version = lin.latest + 1, !.lineage = l])
  /\ mem' = [mem EXCEPT ![w] = WithNext(s, p, d)]

\* A first version opens a lineage.  Its record is not stored yet: until it is, the
\* next request opens another one.
PrepareLineage(d) ==
  LET w == req[d].at  s == mem[w]  p == req[d].parent IN
  /\ p # None /\ s.pids[p] # None
  /\ NoLineage(s, p)
  /\ s.pids[p].version = 1
  /\ Goto(d, "saveRow", [req[d] EXCEPT !.version = 2, !.lineage = d])
  /\ mem' = [mem EXCEPT ![w] = WithLineage(s, p, d)]

\* The worker does not know the parent, a later version has no lineage, or the
\* lineage has gone on since.
Refused(s, p) ==
  LET record == s.pids[p] IN
  IF record = None THEN TRUE
  ELSE IF NoLineage(s, p) THEN record.version # 1
  ELSE ~IsLatest(record, s.lins[record.lineage])

PrepareFails(d) ==
  /\ req[d].parent # None
  /\ Refused(mem[req[d].at], req[d].parent)
  /\ Goto(d, "failed", req[d])
  /\ UNCHANGED mem

Prepare(d) ==
  /\ pc[d] = "prepare"
  /\ Idle(req[d].at)
  /\ PrepareFirst(d) \/ PrepareNext(d) \/ PrepareLineage(d) \/ PrepareFails(d)
  /\ UNCHANGED <<up, file, writing, rows, inTurn>>

FirstFinal(d) ==
  IF req[d].parent = None THEN "savePid"
  ELSE IF req[d].lineage = d THEN "saveLineage" ELSE "updateParent"

\* The rows are written, or the request fails and leaves its row, or none.
SaveRow(d) ==
  /\ pc[d] = "saveRow"
  /\ Idle(req[d].at)
  /\ \/ rows' = rows \cup {d} /\ Goto(d, FirstFinal(d), req[d])
     \/ /\ "fail" \in Faults
        /\ rows' \in {rows, rows \cup {d}}
        /\ Goto(d, "failed", req[d])
  /\ UNCHANGED <<up, mem, file, writing, inTurn>>

\* What is stored by a step of finalize_pid_records: the parent's record and that of
\* an existing lineage are those that are stored already.
Stored(d) ==
  LET r == req[d]  s == mem[r.at] IN
  CASE pc[d] = "saveLineage" ->
         [s EXCEPT !.lins[d] = [first |-> r.parent, last |-> d, latest |-> 2]]
    [] pc[d] = "savePid" ->
         [s EXCEPT !.pids[d] = [version |-> r.version, parent |-> r.parent,
                                succ |-> None, lineage |-> r.lineage]]
    [] OTHER -> s

Finalize(d) ==
  /\ pc[d] \in FinalSteps
  /\ Put(req[d].at, Stored(d))
  /\ UNCHANGED <<up, rows, pc, req, inTurn>>

NextFinal ==
  [saveLineage |-> "updateParent", updateParent |-> "updateLineage",
   updateLineage |-> "savePid", savePid |-> "done"]

Finalized(d) ==
  /\ pc[d] \in FinalSteps
  /\ CloseFile(req[d].at)
  /\ Goto(d, NextFinal[pc[d]], req[d])
  /\ UNCHANGED <<up, mem, rows, inTurn>>

CleanRow(d) ==
  /\ pc[d] = "cleanRow"
  /\ Idle(req[d].at)
  /\ rows' \in {rows \ {d}} \cup (IF "fail" \in Faults THEN {rows} ELSE {})
  /\ Goto(d, "failed", req[d])
  /\ UNCHANGED <<up, mem, file, writing, inTurn>>

-----------------------------------------------------------------------------
(* Faults *)

\* Writing fails: the memory keeps the change, the request cleans up its row.
SaveFails(w) ==
  /\ "disk" \in Faults
  /\ writing[w] # "no"
  /\ writing' = [writing EXCEPT ![w] = "no"]
  /\ file' \in {file, Torn}
  /\ up' = [up EXCEPT ![w] = IF up[w] = "creating" THEN "no" ELSE "yes"]
  /\ pc' = [d \in Docs |-> IF req[d].at = w /\ pc[d] \in FinalSteps THEN "cleanRow" ELSE pc[d]]
  /\ UNCHANGED <<mem, rows, req, inTurn>>

\* A worker dies, perhaps while it writes.
Crash(w) ==
  /\ "crash" \in Faults
  /\ up[w] # "no"
  /\ up' = [up EXCEPT ![w] = "no"]
  /\ mem' = [mem EXCEPT ![w] = Empty]
  /\ writing' = [writing EXCEPT ![w] = "no"]
  /\ pc' = [d \in Docs |-> IF req[d].at = w THEN "failed" ELSE pc[d]]
  /\ req' = [d \in Docs |-> IF req[d].at = w THEN NoRequest ELSE req[d]]
  /\ UNCHANGED <<file, rows, inTurn>>

Quiescent == Active = {} /\ UNCHANGED vars

CreateStep(d) ==
  Refuse(d) \/ Prepare(d) \/ SaveRow(d) \/ Finalize(d) \/ Finalized(d) \/ CleanRow(d)

WorkerStep(w) ==
  \/ Start(w) \/ CreateFile(w) \/ FileCreated(w)
  \/ (\E x \in Docs : Patch(w, x)) \/ Patched(w)
  \/ SaveFails(w) \/ Crash(w)

Next ==
  \/ \E d \in Docs : CreateStep(d)
  \/ \E d \in Docs, p \in DocOrNone, w \in Workers : StartCreate(d, p, w)
  \/ \E w \in Workers : WorkerStep(w)
  \/ Quiescent

Spec == Init /\ [][Next]_vars

-----------------------------------------------------------------------------
(* Properties *)

\* What the workers answer from, and what the next one will
Stores == {mem[w] : w \in Workers} \cup ({file} \ {Absent, Torn})

Published(s) == {d \in Docs : s.pids[d] # None}

\* The first document of the chain of x, as the permission check finds it
FirstDocument(s, x) ==
  LET p == s.pids[x].parent IN
  IF s.pids[x].version = 1 THEN x
  ELSE IF s.pids[p].version = 1 THEN p ELSE s.lins[s.pids[p].lineage].first

\* Lost updates, torn files and records that were changed for requests that failed
\* never break a chain: wherever a document is known its parent is, with the
\* version before, and the permission check finds the same first document for both.
VersionsFollow ==
  \A s \in Stores : \A d \in Published(s) :
    LET p == s.pids[d].parent IN
    IF p = None THEN s.pids[d].version = 1
    ELSE /\ p \in Published(s)
         /\ s.pids[d].version = s.pids[p].version + 1
         /\ FirstDocument(s, d) = FirstDocument(s, p)

\* "It is allowed to create a new document only with version=latest_version + 1":
\* nowhere are two documents known with one parent, except for a first version, of
\* which each new one may open a lineage before another one has stored its own.
BranchesOnlyAtFirst ==
  \A s \in Stores : \A c, d \in Published(s) :
    c # d /\ s.pids[c].parent = s.pids[d].parent /\ s.pids[c].parent # None =>
      s.pids[s.pids[c].parent].version = 1

\* With one worker at a time, a document that was answered with success is known to
\* it through failures and restarts, as long as none has died in the middle of a save.
AcknowledgedSurvives ==
  inTurn => \A d \in Docs : pc[d] = "done" =>
    /\ \A w \in Workers : up[w] = "yes" => d \in Published(mem[w])
    /\ file # Torn => d \in Published(file)

\* As long as no request has failed, a lineage names its latest document, so that
\* this document can be given a new version.
TipCanBeExtended ==
  inTurn /\ Active = {} /\ (\A d \in Docs : pc[d] # "failed") =>
    \A s \in Stores : \A x \in Published(s) : s.pids[x].lineage # None =>
      LET lin == s.lins[s.pids[x].lineage] IN
      /\ lin # None
      /\ lin.last \in Published(s)
      /\ s.pids[lin.last].version = lin.latest

=============================================================================
