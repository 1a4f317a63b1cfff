--------------------------- MODULE DocumentPublish ---------------------------
(***************************************************************************)
(* Publication of provenance documents by a group of yProvStore workers    *)
(* that share one relational database, one object store and one Handle     *)
(* server.  A request to create a document touches all three stores, one   *)
(* call at a time and without any transaction or lock across the calls;    *)
(* metadata updates rewrite the same Handle records by read-modify-write,  *)
(* and metadata reads repair the database from the Handle record.          *)
(*                                                                         *)
(* A create request mints one document PID and at most one lineage PID, so *)
(* both are named by the request: Docs is the set of create requests, of   *)
(* document PIDs and of lineage PIDs.                                      *)
(***************************************************************************)
EXTENDS Integers, FiniteSets

CONSTANTS
  Docs,       \* create requests = document PIDs = lineage PIDs
  Patchers,   \* metadata PATCH requests; each one writes its own metadata
  Readers,    \* documents whose metadata clients keep reading
  MaxActive,  \* requests that may be in flight at the same time
  Faults,     \* what may go wrong, a subset of FaultKinds
  None

FaultKinds == {"fail", "lost", "crash"}

Actors == Docs \cup Patchers
Metas  == Docs \cup Patchers

DocOrNone  == Docs \cup {None}
MetaOrNone == Metas \cup {None}

DocumentRow == [version : Nat, parent : DocOrNone, lineage : DocOrNone]
DocumentPid == [version : Nat, parent : DocOrNone, succ : DocOrNone,
                lineage : DocOrNone, meta : MetaOrNone]
LineagePid  == [first : Docs, last : Docs, latest : Nat]

ASSUME PublishAssumption ==
  /\ Readers \subseteq Docs
  /\ Faults \subseteq FaultKinds
  /\ MaxActive \in Nat
  /\ Docs \cap Patchers = {}
  /\ None \notin Actors
  /\ None \notin DocumentRow /\ None \notin DocumentPid /\ None \notin LineagePid

VARIABLES
  rows,     \* document_records table: one row per document
  files,    \* document ids that have a stored file
  pids,     \* Handle server: DOCUMENT records
  lins,     \* Handle server: LINEAGE records
  pc,       \* where each request is
  req,      \* what each request in flight holds in its local variables
  rpc,      \* where the metadata read of a document is
  rlin,     \* the lineage_id that read compares or writes
  root      \* history: the first document of the parent chain of each row

stores == <<rows, files, pids, lins>>
reader == <<rpc, rlin>>
vars   == <<stores, pc, req, reader, root>>

CheckSteps  == {"authorise", "findLineage", "findFirst"}
CreateSteps == {"authorise", "findLineage", "findFirst", "store", "readParent",
                "readLineage", "saveRow", "updateParentRow", "saveLineage",
                "updateParentPid", "updateLineage", "savePid"}
MetaSteps   == {"readMeta", "writeMeta"}
CleanSteps  == {"cleanFile", "cleanRow", "revertRow"}
EndSteps    == {"done", "failed"}

\* The locals of a request; doc is the document it creates or patches.
Request == [doc     : DocOrNone,
            parent  : DocOrNone,
            prevRow : DocumentRow \cup {None},  \* the parent's row as it was read
            found   : DocOrNone,                \* what the permission check has found
            held    : DocumentPid \cup {None},  \* a Handle record to write back
            heldLin : LineagePid \cup {None},   \* the lineage record to write
            lineage : DocOrNone,                \* lineage_id of the new document
            stored  : BOOLEAN,                  \* stored_on_db
            meta    : MetaOrNone]               \* the metadata to write

NoRequest == [doc |-> None, parent |-> None, prevRow |-> None, found |-> None,
              held |-> None, heldLin |-> None, lineage |-> None, stored |-> FALSE,
              meta |-> None]

TypeOK ==
  /\ rows \in [Docs -> DocumentRow \cup {None}]
  /\ files \subseteq Docs
  /\ pids \in [Docs -> DocumentPid \cup {None}]
  /\ lins \in [Docs -> LineagePid \cup {None}]
  /\ pc \in [Actors -> {"idle"} \cup CreateSteps \cup MetaSteps
                              \cup CleanSteps \cup EndSteps]
  /\ req \in [Actors -> Request]
  /\ rpc \in [Docs -> {"idle", "get", "write"}]
  /\ rlin \in [Docs -> DocOrNone]
  /\ root \in [Docs -> Docs]

Init ==
  /\ rows = [d \in Docs |-> None]
  /\ files = {}
  /\ pids = [d \in Docs |-> None]
  /\ lins = [d \in Docs |-> None]
  /\ pc = [a \in Actors |-> "idle"]
  /\ req = [a \in Actors |-> NoRequest]
  /\ rpc = [d \in Docs |-> "idle"]
  /\ rlin = [d \in Docs |-> None]
  /\ root = [d \in Docs |-> d]

-----------------------------------------------------------------------------
(* Helpers *)

Active == {a \in Actors : pc[a] \notin {"idle"} \cup EndSteps}

\* Request a goes on at step with the locals r, or ends and forgets them.
Goto(a, step, r) ==
  /\ pc' = [pc EXCEPT ![a] = step]
  /\ req' = [req EXCEPT ![a] = IF step \in EndSteps THEN NoRequest ELSE r]

\* What a write that reports an error may have left behind: a refused call
\* changed nothing, a call whose answer was lost took effect.
FailedWrite(before, after) ==
  {s \in {before} : "fail" \in Faults} \cup {s \in {after} : "lost" \in Faults}

\* The first document of the lineage of x, whose row was read as row, as the
\* permission check finds it.  The Handle server returns every value as a string,
\* so "version == 1" never holds of the parent's Handle record and the lineage
\* record is always consulted.
FirstDocument(x, row) ==
  IF row.version = 1 THEN x
  ELSE LET p == row.parent IN
       IF \/ p = None \/ pids[p] = None \/ pids[p].lineage = None
          \/ lins[pids[p].lineage] = None
          \/ rows[lins[pids[p].lineage].first] = None
       THEN None
       ELSE lins[pids[p].lineage].first

NewVersion(r) == IF r.parent = None THEN 1 ELSE r.heldLin.latest

\* Faulty variant: the lineage record where its PID belongs
RowWithLineageRecord(r) ==
  [version |-> NewVersion(r), parent |-> r.parent, lineage |-> r.heldLin]

NewRow(r) == [version |-> NewVersion(r), parent |-> r.parent, lineage |-> r.lineage]

NewPid(r) == [version |-> NewVersion(r), parent |-> r.parent, succ |-> None,
              lineage |-> r.lineage, meta |-> None]

\* Faulty variant: the lineage record is only written after the parent's
LineageAfterParent(d) ==
  IF req[d].parent = None THEN "savePid" ELSE "updateParentPid"

\* The first of the deferred PID writes
FinalizeStep(d) ==
  IF req[d].parent = None THEN "savePid"
  ELSE IF req[d].lineage = d THEN "saveLineage" ELSE "updateParentPid"

\* The parent's row must name the lineage as well.
ParentRowDiffers(r) == r.parent # None /\ r.prevRow.lineage # r.lineage

-----------------------------------------------------------------------------
(* The create request *)

\* The parent's row is read first and kept for the whole request.
StartCreate(d, p, m) ==
  /\ pc[d] = "idle"
  /\ Cardinality(Active) < MaxActive
  /\ p # None => rows[p] # None
  /\ Goto(d, IF p = None THEN "store" ELSE "authorise",
          [NoRequest EXCEPT !.doc = d, !.parent = p, !.meta = m,
                            !.prevRow = IF p = None THEN None ELSE rows[p]])
  /\ UNCHANGED <<stores, reader, root>>

\* The permission check: the record of the parent's parent names the lineage, ...
Authorise(d) ==
  /\ pc[d] = "authorise"
  /\ LET row == req[d].prevRow IN
     \/ /\ row.version = 1
        /\ Goto(d, "store", req[d])
     \/ /\ row.version # 1 /\ row.parent # None
        /\ pids[row.parent] # None
        /\ pids[row.parent].lineage # None
        /\ Goto(d, "findLineage", [req[d] EXCEPT !.found = pids[row.parent].lineage])
  /\ UNCHANGED <<stores, reader, root>>

\* ... which names the first document, ...
FindLineage(d) ==
  /\ pc[d] = "findLineage"
  /\ lins[req[d].found] # None
  /\ Goto(d, "findFirst", [req[d] EXCEPT !.found = lins[req[d].found].first])
  /\ UNCHANGED <<stores, reader, root>>

\* ... which the user owns or was granted WRITE on.  Other requests come in between.
FindFirst(d) ==
  /\ pc[d] = "findFirst"
  /\ rows[req[d].found] # None
  /\ Goto(d, "store", [req[d] EXCEPT !.found = None])
  /\ UNCHANGED <<stores, reader, root>>

\* The first document cannot be found, or the user has no right on it.
Refuse(d) ==
  /\ pc[d] \in CheckSteps
  /\ Goto(d, "failed", req[d])
  /\ UNCHANGED <<stores, reader, root>>

\* A failed upload ends the request before the block that cleans up.
StoreFile(d) ==
  /\ pc[d] = "store"
  /\ \/ /\ files' = files \cup {d}
        /\ Goto(d, IF req[d].parent = None THEN "saveRow" ELSE "readParent", req[d])
     \/ /\ files' \in FailedWrite(files, files \cup {d})
        /\ Goto(d, "failed", req[d])
  /\ UNCHANGED <<rows, pids, lins, reader, root>>

\* Faulty variant: the new document opens the lineage as its first
OpenLineageAtNew(d, parent) ==
  Goto(d, "saveRow",
       [req[d] EXCEPT !.held = [parent EXCEPT !.lineage = d, !.succ = d],
                      !.heldLin = [first |-> d, last |-> d, latest |-> 2],
                      !.lineage = d])

\* The first new version of a document opens a lineage.  The record is changed
\* before it is written, so that its first write already holds version 2.
OpenLineage(d, parent) ==
  Goto(d, "saveRow",
       [req[d] EXCEPT !.held = [parent EXCEPT !.lineage = d, !.succ = d],
                      !.heldLin = [first |-> req[d].parent, last |-> d, latest |-> 2],
                      !.lineage = d])

ReadParent(d) ==
  /\ pc[d] = "readParent"
  /\ LET parent == pids[req[d].parent] IN
     \/ /\ parent # None
        /\ parent.lineage # None
        /\ Goto(d, "readLineage", [req[d] EXCEPT !.held = parent])
     \/ /\ parent # None
        /\ parent.lineage = None
        /\ parent.version = 1
        /\ OpenLineage(d, parent)
     \/ /\ IF parent = None THEN TRUE ELSE parent.lineage = None /\ parent.version # 1
        /\ Goto(d, "cleanFile", req[d])
  /\ UNCHANGED <<stores, reader, root>>

\* Faulty variant: the parent need not be the latest version
ReadLineageAnyVersion(d) ==
  /\ pc[d] = "readLineage"
  /\ lins[req[d].held.lineage] # None
  /\ LET parent == req[d].held
         lin == lins[parent.lineage] IN
     Goto(d, "saveRow",
          [req[d] EXCEPT !.held = [parent EXCEPT !.succ = d],
                         !.heldLin = [lin EXCEPT !.last = d, !.latest = lin.latest + 1],
                         !.lineage = parent.lineage])
  /\ UNCHANGED <<stores, reader, root>>

\* Faulty variant: latest_document_pid is not moved on
ReadLineageKeepsLast(d) ==
  /\ pc[d] = "readLineage"
  /\ lins[req[d].held.lineage] # None
  /\ lins[req[d].held.lineage].latest <= req[d].held.version
  /\ LET parent == req[d].held
         lin == lins[parent.lineage] IN
     Goto(d, "saveRow",
          [req[d] EXCEPT !.held = [parent EXCEPT !.succ = d],
                         !.heldLin = [lin EXCEPT !.latest = lin.latest + 1],
                         !.lineage = parent.lineage])
  /\ UNCHANGED <<stores, reader, root>>

ReadLineage(d) ==
  /\ pc[d] = "readLineage"
  /\ LET parent == req[d].held
         lin == lins[parent.lineage] IN
     \/ /\ lin # None
        /\ lin.latest <= parent.version
        /\ Goto(d, "saveRow",
                [req[d] EXCEPT !.held = [parent EXCEPT !.succ = d],
                               !.heldLin = [lin EXCEPT !.last = d,
                                                       !.latest = lin.latest + 1],
                               !.lineage = parent.lineage])
     \/ /\ lin = None
        /\ parent.version = 1
        /\ OpenLineage(d, parent)
     \/ /\ IF lin = None THEN parent.version # 1 ELSE lin.latest > parent.version
        /\ Goto(d, "cleanFile", req[d])
  /\ UNCHANGED <<stores, reader, root>>

ReadFails(d) ==
  /\ pc[d] \in {"readParent", "readLineage"}
  /\ "fail" \in Faults
  /\ Goto(d, "cleanFile", req[d])
  /\ UNCHANGED <<stores, reader, root>>

\* save_document; stored_on_db is set only after the parent's row as well
SaveRow(d) ==
  /\ pc[d] = "saveRow"
  /\ LET r == req[d]
         after == [rows EXCEPT ![d] = NewRow(r)] IN
     \/ /\ rows' = after
        /\ IF ParentRowDiffers(r)
           THEN Goto(d, "updateParentRow", r)
           ELSE Goto(d, FinalizeStep(d), [r EXCEPT !.stored = TRUE])
     \/ /\ rows' \in FailedWrite(rows, after)
        /\ Goto(d, "cleanFile", r)
  /\ root' = [root EXCEPT ![d] = IF req[d].parent = None THEN d
                                 ELSE root[req[d].parent]]
  /\ UNCHANGED <<files, pids, lins, reader>>

\* update_document of the parent, with the lineage_id as its only change
UpdateParentRow(d) ==
  /\ pc[d] = "updateParentRow"
  /\ LET r == req[d]
         after == [rows EXCEPT ![r.parent].lineage = r.lineage] IN
     \/ /\ rows[r.parent] # None
        /\ rows' = after
        /\ Goto(d, FinalizeStep(d), [r EXCEPT !.stored = TRUE])
     \/ /\ rows[r.parent] # None
        /\ rows' \in FailedWrite(rows, after)
        /\ Goto(d, "cleanFile", r)
     \/ /\ rows[r.parent] = None
        /\ Goto(d, "cleanFile", r)
        /\ UNCHANGED rows
  /\ UNCHANGED <<files, pids, lins, reader, root>>

\* finalize_pid_records: PUT after PUT, a failure leaves the earlier ones in place
SaveLineage(d) ==
  /\ pc[d] = "saveLineage"
  /\ LET after == [lins EXCEPT ![d] = req[d].heldLin] IN
     \/ lins' = after /\ Goto(d, "updateParentPid", req[d])
     \/ lins' \in FailedWrite(lins, after) /\ Goto(d, "cleanFile", req[d])
  /\ UNCHANGED <<rows, files, pids, reader, root>>

UpdateParentPid(d) ==
  /\ pc[d] = "updateParentPid"
  /\ LET after == [pids EXCEPT ![req[d].parent] = req[d].held] IN
     \/ pids' = after /\ Goto(d, "updateLineage", req[d])
     \/ pids' \in FailedWrite(pids, after) /\ Goto(d, "cleanFile", req[d])
  /\ UNCHANGED <<rows, files, lins, reader, root>>

UpdateLineage(d) ==
  /\ pc[d] = "updateLineage"
  /\ LET after == [lins EXCEPT ![req[d].lineage] = req[d].heldLin] IN
     \/ lins' = after /\ Goto(d, "savePid", req[d])
     \/ lins' \in FailedWrite(lins, after) /\ Goto(d, "cleanFile", req[d])
  /\ UNCHANGED <<rows, files, pids, reader, root>>

\* The record of the new document comes last.  Without metadata of its own the
\* document takes that of the parent's record as this request read it.
SavePid(d) ==
  /\ pc[d] = "savePid"
  /\ LET r == req[d]
         after == [pids EXCEPT ![d] = NewPid(r)]
         m == IF r.meta = None /\ r.parent # None THEN r.held.meta ELSE r.meta IN
     \/ /\ pids' = after
        /\ Goto(d, IF m = None THEN "done" ELSE "readMeta", [r EXCEPT !.meta = m])
     \/ /\ pids' \in FailedWrite(pids, after)
        /\ Goto(d, "cleanFile", r)
  /\ UNCHANGED <<rows, files, lins, reader, root>>

(* Cleaning up after an error: every step may itself fail and is then skipped. *)
CleanFile(d) ==
  /\ pc[d] = "cleanFile"
  /\ files' \in {files \ {d}} \cup FailedWrite(files, files \ {d})
  /\ Goto(d, IF req[d].stored THEN "cleanRow" ELSE "failed", req[d])
  /\ UNCHANGED <<rows, pids, lins, reader, root>>

\* Faulty variant: the parent's row is deleted instead of the new one
CleanParentRow(d) ==
  /\ pc[d] = "cleanRow"
  /\ rows' = [rows EXCEPT ![IF req[d].parent = None THEN d ELSE req[d].parent] = None]
  /\ Goto(d, IF ParentRowDiffers(req[d]) THEN "revertRow" ELSE "failed", req[d])
  /\ UNCHANGED <<files, pids, lins, reader, root>>

CleanRow(d) ==
  /\ pc[d] = "cleanRow"
  /\ LET after == [rows EXCEPT ![d] = None] IN
       rows' \in {after} \cup FailedWrite(rows, after)
  /\ Goto(d, IF ParentRowDiffers(req[d]) THEN "revertRow" ELSE "failed", req[d])
  /\ UNCHANGED <<files, pids, lins, reader, root>>

RevertRow(d) ==
  /\ pc[d] = "revertRow"
  /\ LET r == req[d]
         after == IF rows[r.parent] = None THEN rows
                  ELSE [rows EXCEPT ![r.parent].lineage = r.prevRow.lineage] IN
       rows' \in {after} \cup FailedWrite(rows, after)
  /\ Goto(d, "failed", req[d])
  /\ UNCHANGED <<files, pids, lins, reader, root>>

-----------------------------------------------------------------------------
(* Metadata updates: the last part of a create request, and PATCH requests *)

\* The document must be known here and the user allowed; a PATCH that changes
\* nothing in the metadata it reads is not started.
StartPatch(q, x) ==
  /\ pc[q] = "idle"
  /\ Cardinality(Active) < MaxActive
  /\ rows[x] # None
  /\ FirstDocument(x, rows[x]) # None
  /\ pids[x] # None
  /\ pids[x].meta # q
  /\ Goto(q, "readMeta", [NoRequest EXCEPT !.doc = x, !.meta = q])
  /\ UNCHANGED <<stores, reader, root>>

\* Faulty variant: failing metadata makes the create request clean up
MetaFailureCleansUp(a) == IF a \in Patchers THEN "failed" ELSE "cleanFile"

\* A failure ends a PATCH with an error and is swallowed by a create request.
MetaFailed(a) == IF a \in Patchers THEN "failed" ELSE "done"

ReadMeta(a) ==
  /\ pc[a] = "readMeta"
  /\ LET record == pids[req[a].doc] IN
     \/ /\ record # None
        /\ Goto(a, "writeMeta", [req[a] EXCEPT !.held = record])
     \/ /\ "fail" \in Faults
        /\ Goto(a, MetaFailed(a), req[a])
  /\ UNCHANGED <<stores, reader, root>>

\* Faulty variant: the record is rebuilt from the request instead of read
WriteRebuiltMeta(a) ==
  /\ pc[a] = "writeMeta"
  /\ pids' = [pids EXCEPT ![req[a].doc] = [NewPid(req[a]) EXCEPT !.meta = req[a].meta]]
  /\ Goto(a, "done", req[a])
  /\ UNCHANGED <<rows, files, lins, reader, root>>

\* The whole record goes back, with the links it had when it was read.
WriteMeta(a) ==
  /\ pc[a] = "writeMeta"
  /\ LET r == req[a]
         after == [pids EXCEPT ![r.doc] = [r.held EXCEPT !.meta = r.meta]] IN
     \/ pids' = after /\ Goto(a, "done", r)
     \/ pids' \in FailedWrite(pids, after) /\ Goto(a, MetaFailed(a), r)
  /\ UNCHANGED <<rows, files, lins, reader, root>>

-----------------------------------------------------------------------------
(* The metadata read, which repairs the row's lineage_id *)

RepairRead(x) ==
  /\ x \in Readers
  /\ rpc[x] = "idle"
  /\ rows[x] # None
  /\ rpc' = [rpc EXCEPT ![x] = "get"]
  /\ rlin' = [rlin EXCEPT ![x] = rows[x].lineage]
  /\ UNCHANGED <<stores, pc, req, root>>

\* Faulty variant: only a row without lineage_id is repaired
RepairGetIfUnset(x) ==
  /\ rpc[x] = "get"
  /\ LET differs == pids[x] # None /\ rlin[x] = None /\ pids[x].lineage # None IN
     /\ rpc' = [rpc EXCEPT ![x] = IF differs THEN "write" ELSE "idle"]
     /\ rlin' = [rlin EXCEPT ![x] = IF differs THEN pids[x].lineage ELSE None]
  /\ UNCHANGED <<stores, pc, req, root>>

RepairGet(x) ==
  /\ rpc[x] = "get"
  /\ LET differs == pids[x] # None /\ pids[x].lineage # rlin[x] IN
     /\ rpc' = [rpc EXCEPT ![x] = IF differs THEN "write" ELSE "idle"]
     /\ rlin' = [rlin EXCEPT ![x] = IF differs THEN pids[x].lineage ELSE None]
  /\ UNCHANGED <<stores, pc, req, root>>

RepairWrite(x) ==
  /\ rpc[x] = "write"
  /\ rows' = IF rows[x] = None THEN rows
             ELSE [rows EXCEPT ![x].lineage = rlin[x]]
  /\ rpc' = [rpc EXCEPT ![x] = "idle"]
  /\ rlin' = [rlin EXCEPT ![x] = None]
  /\ UNCHANGED <<files, pids, lins, pc, req, root>>

\* Either call may fail; the read then ends with an error.
RepairFails(x) ==
  /\ rpc[x] \in {"get", "write"}
  /\ "fail" \in Faults
  /\ rpc' = [rpc EXCEPT ![x] = "idle"]
  /\ rlin' = [rlin EXCEPT ![x] = None]
  /\ UNCHANGED <<stores, pc, req, root>>

-----------------------------------------------------------------------------

\* A worker dies: the stores keep what the request has written.
Crash(a) ==
  /\ "crash" \in Faults
  /\ a \in Active
  /\ Goto(a, "failed", req[a])
  /\ UNCHANGED <<stores, reader, root>>

\* No request is in flight: nothing happens until clients send one.
Quiescent == Active = {} /\ UNCHANGED vars

CreateStep(d) ==
  \/ Authorise(d) \/ FindLineage(d) \/ FindFirst(d) \/ Refuse(d) \/ StoreFile(d)
  \/ ReadParent(d) \/ ReadLineage(d) \/ ReadFails(d)
  \/ SaveRow(d) \/ UpdateParentRow(d)
  \/ SaveLineage(d) \/ UpdateParentPid(d) \/ UpdateLineage(d) \/ SavePid(d)
  \/ CleanFile(d) \/ CleanRow(d) \/ RevertRow(d)

MetaStep(a) == ReadMeta(a) \/ WriteMeta(a)

RepairStep(x) == RepairRead(x) \/ RepairGet(x) \/ RepairWrite(x) \/ RepairFails(x)

Next ==
  \/ \E d \in Docs : \E p \in DocOrNone, m \in {d, None} : StartCreate(d, p, m)
  \/ \E q \in Patchers, x \in Docs : StartPatch(q, x)
  \/ \E d \in Docs : CreateStep(d)
  \/ \E a \in Actors : MetaStep(a) \/ Crash(a)
  \/ \E x \in Docs : RepairStep(x)
  \/ Quiescent

Spec == Init /\ [][Next]_vars

-----------------------------------------------------------------------------
(* Properties *)

\* The permission check (get_first_document_record) never takes a document of
\* another chain for the first one, whatever requests race, fail or crash: it
\* finds the first document of x's own parent chain, or none; also a check that is
\* under way while others write the records it follows.
FirstDocumentIsRoot ==
  /\ \A x \in Docs : rows[x] # None =>
       FirstDocument(x, rows[x]) \in {root[x], None}
  /\ \A d \in Docs : pc[d] = "findFirst" => req[d].found = root[req[d].parent]

\* A Handle record that names a lineage can be followed: finalize_pid_records
\* writes the lineage before any document record that points to it.
LineageLinkResolves ==
  \A x \in Docs : pids[x] # None /\ pids[x].lineage # None =>
    lins[pids[x].lineage] # None

\* As long as a failed call is known not to have taken effect, a document with
\* a Handle record has its file and a database row that agrees with the record:
\* no failure and no clean-up leaves a resolvable PID without its document.
PidIsBacked ==
  \A x \in Docs : pids[x] # None =>
    /\ x \in files
    /\ rows[x] # None
    /\ rows[x].version = pids[x].version
    /\ rows[x].parent = pids[x].parent

\* A create request that answered success keeps file, row and Handle record,
\* also when calls whose answer was lost took effect and other requests on the
\* same lineage were rolled back.
AcknowledgedIsComplete ==
  \A d \in Docs : pc[d] = "done" =>
    /\ d \in files
    /\ rows[d] # None /\ pids[d] # None
    /\ rows[d].version = pids[d].version
    /\ rows[d].parent # None => lins[pids[d].lineage] # None

\* new_pid_record_from_document: "It is allowed to create a new document only
\* with version=latest_version + 1", so a document has at most one new version.
NoLineageBranching ==
  \A x \in Docs :
    Cardinality({d \in Docs : pids[d] # None /\ pids[d].parent = x}) <= 1

-----------------------------------------------------------------------------
(* Published documents as an append-only set of version chains *)

Chain == INSTANCE VersionChain WITH
  published <- {d \in Docs : pids[d] # None},
  previous  <- [d \in Docs |-> IF pids[d] = None THEN None ELSE pids[d].parent],
  number    <- [d \in Docs |-> IF pids[d] = None THEN 0 ELSE pids[d].version]

\* Concurrent requests may branch a chain, but never append a document below a
\* document that is not published, and no rewrite of a whole record that was read some
\* calls earlier renumbers a published document, gives it another parent or removes it.
AppendsToPublished == Chain!BranchingSpec

-----------------------------------------------------------------------------
(* The metadata read repairs the row *)

\* Requests in flight go on (each call is answered or times out); a client that
\* reads a document's metadata keeps reading it, and the two calls behind the
\* read do not fail for ever.
Fairness ==
  /\ \A d \in Docs : WF_vars(CreateStep(d))
  /\ \A a \in Actors : WF_vars(MetaStep(a))
  /\ \A x \in Readers : /\ WF_vars(RepairRead(x))
                        /\ SF_vars(RepairGet(x))
                        /\ SF_vars(RepairWrite(x))

FairSpec == Spec /\ Fairness

RowAgrees(x) ==
  rows[x] # None /\ pids[x] # None => rows[x].lineage = pids[x].lineage

\* The lineage_id of a row converges to that of the Handle record in spite of
\* stale repairs and reverts, once no more requests change either.
RowLineageConverges == \A x \in Readers : <>[]RowAgrees(x)

=============================================================================
