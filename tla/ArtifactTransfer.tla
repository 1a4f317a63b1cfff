--------------------------- MODULE ArtifactTransfer ---------------------------
(***************************************************************************)
(* Proxied upload and download of one artifact.  A client asks for a       *)
(* token, which is a row of the database, and later presents it with the   *)
(* content.  The upload goes through the file store, the artifact's row,   *)
(* the token's row and the Handle server, one call at a time; when a call  *)
(* fails it takes back what it can.                                        *)
(*                                                                         *)
(* Artifacts share nothing with each other, so one is enough.  Uploads are *)
(* requests that present its upload token, each with a content of its own, *)
(* so that an upload also names its content and the hash of it.            *)
(***************************************************************************)
EXTENDS Integers, Sequences, FiniteSets

CONSTANTS
  Uploads,    \* upload requests = contents = hashes
  Downloads,  \* download requests
  Backends,   \* the file stores to consider, a subset of StoreKinds
  Limits,     \* how many requests clients may keep in flight, to be considered
  MaxFaults,  \* bound: how often something goes wrong
  Faults,     \* what may go wrong, a subset of TransferFaults
  None

StoreKinds     == {"local", "minio"}
TransferFaults == {"fail", "lost", "crash", "expire"}
Actors         == Uploads \cup Downloads

ArtifactRecord == [hash : Uploads \cup {None}, valid : BOOLEAN]

ASSUME TransferAssumption ==
  /\ Backends \subseteq StoreKinds
  /\ Faults \subseteq TransferFaults
  /\ Limits \subseteq Nat /\ MaxFaults \in Nat
  /\ Uploads \cap Downloads = {}
  /\ None \notin Actors /\ None \notin ArtifactRecord

VARIABLES
  backend,  \* the file store this deployment uses
  limit,    \* how many requests its clients keep in flight at most
  record,   \* the artifact's row
  file,     \* the content in the file store
  tokens,   \* the rows of the upload token and of the download token
  pid,      \* the hash in the artifact's record at the Handle server
  pc,       \* where each request is
  seen,     \* the artifact's row as the session of an upload last loaded it
  held,     \* the hash an upload got back, the content a download has opened
  updated,  \* updated_db of each upload
  stuck,    \* the uploads whose database session cannot be used any more
  faults    \* history: what has gone wrong so far

request == <<seen, held, updated, stuck>>
setup   == <<backend, limit>>
vars    == <<setup, record, file, tokens, pid, pc, request, faults>>

Kinds   == {"upload", "download"}
Kind(a) == IF a \in Uploads THEN "upload" ELSE "download"

Ended == {"ok", "served", "refused", "failed", "crashed"}

TypeOK ==
  /\ backend \in Backends
  /\ record \in ArtifactRecord \cup {None}
  /\ file \in Uploads \cup {None}
  /\ tokens \in [Kinds -> {"none", "live", "expired", "deleted"}]
  /\ pid \in Uploads \cup {None}
  /\ pc \in [Actors -> {"idle", "probe", "store", "fetch", "write", "refresh",
                        "findToken", "dropToken", "savePid", "clean", "markFetch",
                        "markWrite", "open", "serve"} \cup Ended]
  /\ seen \in [Uploads -> ArtifactRecord \cup {None}]
  /\ held \in [Actors -> Uploads \cup {None}]
  /\ updated \in [Uploads -> BOOLEAN]
  /\ stuck \in SUBSET Uploads
  /\ limit \in Limits
  /\ faults \in Seq(Faults)
  /\ Len(faults) <= MaxFaults

Init ==
  /\ backend \in Backends
  /\ record = None
  /\ file = None
  /\ tokens = [k \in Kinds |-> "none"]
  /\ pid = None
  /\ pc = [a \in Actors |-> "idle"]
  /\ seen = [u \in Uploads |-> None]
  /\ held = [a \in Actors |-> None]
  /\ updated = [u \in Uploads |-> FALSE]
  /\ stuck = {}
  /\ limit \in Limits
  /\ faults = <<>>

Active == {a \in Actors : pc[a] \notin Ended \cup {"idle"}}

Goto(a, step) == pc' = [pc EXCEPT ![a] = step]

\* A call goes well, or one of the faults in kinds happens to it.
Succeeds == UNCHANGED faults
Fault(kind) ==
  /\ kind \in Faults
  /\ Len(faults) < MaxFaults
  /\ faults' = Append(faults, kind)

\* A write with an error: it took no effect, or it did and its answer was lost.
FailedWrite(var, next, value) ==
  \/ Fault("fail") /\ next = var
  \/ Fault("lost") /\ next = value

-----------------------------------------------------------------------------
(* Tokens *)

\* The first half of a request for an upload URL.  A client that never gets the
\* answer has no token, and the row is never used.
SaveArtifact ==
  /\ record = None
  /\ record' = [hash |-> None, valid |-> FALSE]
  /\ UNCHANGED <<setup, file, tokens, pid, pc, request, faults>>

IssueToken(k) ==
  /\ record # None
  /\ tokens[k] = "none"
  /\ tokens' = [tokens EXCEPT ![k] = "live"]
  /\ UNCHANGED <<setup, record, file, pid, pc, request, faults>>

\* An hour has passed.
Expire(k) ==
  /\ "expire" \in Faults
  /\ tokens[k] = "live"
  /\ tokens' = [tokens EXCEPT ![k] = "expired"]
  /\ UNCHANGED <<setup, record, file, pid, pc, request, faults>>

\* Faulty variant: a token that is no longer there is not noticed
StartAnyToken(a) ==
  /\ pc[a] = "idle"
  /\ tokens[Kind(a)] # "none"
  /\ Cardinality(Active) < limit
  /\ Goto(a, IF tokens[Kind(a)] = "expired" THEN "refused"
             ELSE IF a \in Uploads THEN "probe" ELSE "open")
  /\ UNCHANGED <<setup, record, file, tokens, pid, request, faults>>

\* The token is looked up once.  The artifact's row, read next, is always there,
\* and neither its owner nor its PID ever change.
Start(a) ==
  /\ pc[a] = "idle"
  /\ tokens[Kind(a)] # "none"
  /\ Cardinality(Active) < limit
  /\ Goto(a, IF tokens[Kind(a)] # "live" THEN "refused"
             ELSE IF a \in Uploads THEN "probe" ELSE "open")
  /\ UNCHANGED <<setup, record, file, tokens, pid, request, faults>>

\* Where a request goes when it cannot get rid of its token
GiveUp(a) == Goto(a, IF a \in Uploads THEN "clean" ELSE "failed")

\* A request has one database session, and nobody ever rolls it back: after an error
\* it cannot be used for anything else.  Where this matters is an upload that has
\* updated the row and cannot delete its token; others are done with their session.
EndsSession(a) == stuck' = stuck \cup ({a} \cap Uploads)

\* delete looks the token up once more, whatever its age.  What an error of a read does
\* to the session depends on the database.
FindToken(a) ==
  /\ pc[a] = "findToken"
  /\ \/ Succeeds /\ tokens[Kind(a)] # "deleted" /\ Goto(a, "dropToken") /\ UNCHANGED stuck
     \/ Succeeds /\ tokens[Kind(a)] = "deleted" /\ GiveUp(a) /\ UNCHANGED stuck
     \/ Fault("fail") /\ GiveUp(a) /\ (EndsSession(a) \/ UNCHANGED stuck)
  /\ UNCHANGED <<setup, record, file, tokens, pid, seen, held, updated>>

\* Faulty variant: an error while the token is deleted is only logged
DropTokenOnce(a) ==
  /\ pc[a] = "dropToken"
  /\ LET after == [tokens EXCEPT ![Kind(a)] = "deleted"] IN
       \/ Succeeds /\ tokens' = after
       \/ FailedWrite(tokens, tokens', after)
  /\ Goto(a, IF a \in Uploads THEN "savePid" ELSE "serve")
  /\ UNCHANGED <<setup, record, file, pid, request>>

\* Then it deletes the row; it is no error if there is none any more.
DropToken(a) ==
  /\ pc[a] = "dropToken"
  /\ LET after == [tokens EXCEPT ![Kind(a)] = "deleted"] IN
       \/ /\ Succeeds /\ tokens' = after /\ UNCHANGED stuck
          /\ Goto(a, IF a \in Uploads THEN "savePid" ELSE "serve")
       \/ FailedWrite(tokens, tokens', after) /\ GiveUp(a) /\ EndsSession(a)
  /\ UNCHANGED <<setup, record, file, pid, seen, held, updated>>

-----------------------------------------------------------------------------
(* Uploads *)

\* Both stores look for a file first.  The MinIO store swallows its own conflict
\* and goes on; an error of the probe ends the request.
Probe(u) ==
  /\ pc[u] = "probe"
  /\ \/ Succeeds /\ Goto(u, IF backend = "local" /\ file # None THEN "refused" ELSE "store")
     \/ Fault("fail") /\ Goto(u, "failed")
  /\ UNCHANGED <<setup, record, file, tokens, pid, request>>

\* The content arrives in a temporary file; at the end it replaces what is there.
Store(u) ==
  /\ pc[u] = "store"
  /\ \/ Succeeds /\ file' = u /\ Goto(u, "fetch")
     \/ FailedWrite(file, file', IF backend = "minio" THEN u ELSE file) /\ Goto(u, "failed")
  /\ UNCHANGED <<setup, record, tokens, pid, request>>

\* update_artifact loads the row ...
Fetch(u) ==
  /\ pc[u] = "fetch"
  /\ \/ Succeeds /\ seen' = [seen EXCEPT ![u] = record] /\ Goto(u, "write")
     \/ Fault("fail") /\ UNCHANGED seen /\ Goto(u, "clean")
  /\ UNCHANGED <<setup, record, file, tokens, pid, held, updated, stuck>>

\* Faulty variant: the two columns are mixed up
SavedSwapped(row, old, h, v) ==
  [hash  |-> IF old.valid = v THEN row.valid ELSE v,
   valid |-> IF old.hash = h THEN row.hash ELSE h]

\* The row after a session that loaded it as old saves hash h and valid = v:
\* only the columns that differ from what was loaded are written.
Saved(row, old, h, v) ==
  [hash  |-> IF old.hash = h THEN row.hash ELSE h,
   valid |-> IF old.valid = v THEN row.valid ELSE v]

\* ... writes hash and valid ...
Write(u) ==
  /\ pc[u] = "write"
  /\ \/ Succeeds /\ record' = Saved(record, seen[u], u, TRUE) /\ Goto(u, "refresh")
     \/ Fault("fail") /\ UNCHANGED record /\ Goto(u, "clean")
  /\ UNCHANGED <<setup, file, tokens, pid, request>>

\* ... and reads the row back.  Until then the update does not count as done.
Refresh(u) ==
  /\ pc[u] = "refresh"
  /\ \/ /\ Succeeds
        /\ held' = [held EXCEPT ![u] = record.hash]
        /\ updated' = [updated EXCEPT ![u] = TRUE]
        /\ Goto(u, "findToken")
     \/ Fault("lost") /\ Goto(u, "clean") /\ UNCHANGED <<held, updated>>
  /\ UNCHANGED <<setup, record, file, tokens, pid, seen, stuck>>

\* Faulty variant: an existing record is overwritten
SavePidOverwrites(u) ==
  /\ pc[u] = "savePid"
  /\ Succeeds /\ pid' = u /\ Goto(u, "ok")
  /\ UNCHANGED <<setup, record, file, tokens, request>>

\* The record is created, never overwritten.
SavePid(u) ==
  /\ pc[u] = "savePid"
  /\ \/ Succeeds /\ pid = None /\ pid' = u /\ Goto(u, "ok")
     \/ Succeeds /\ pid # None /\ UNCHANGED pid /\ Goto(u, "clean")
     \/ pid = None /\ FailedWrite(pid, pid', u) /\ Goto(u, "clean")
  /\ UNCHANGED <<setup, record, file, tokens, request>>

\* Faulty variant: the file is deleted only when the row had been updated
CleanUpdated(u) ==
  /\ pc[u] = "clean"
  /\ Succeeds /\ file' = IF updated[u] THEN None ELSE file
  /\ Goto(u, IF updated[u] THEN "markFetch" ELSE "failed")
  /\ UNCHANGED <<setup, record, tokens, pid, request>>

\* The file is deleted, whoever stored it; errors are logged.
Clean(u) ==
  /\ pc[u] = "clean"
  /\ \/ Succeeds /\ file' = None
     \/ FailedWrite(file, file', None)
  /\ Goto(u, IF updated[u] THEN "markFetch" ELSE "failed")
  /\ UNCHANGED <<setup, record, tokens, pid, request>>

\* update_artifact once more, with the hash that was read back and valid = False, in
\* the same session: the row stays as it is when an error has made that unusable.
MarkFetch(u) ==
  /\ pc[u] = "markFetch"
  /\ \/ /\ Succeeds /\ u \notin stuck
        /\ seen' = [seen EXCEPT ![u] = record] /\ Goto(u, "markWrite")
     \/ Succeeds /\ u \in stuck /\ UNCHANGED seen /\ Goto(u, "failed")
     \/ Fault("fail") /\ u \notin stuck /\ UNCHANGED seen /\ Goto(u, "failed")
  /\ UNCHANGED <<setup, record, file, tokens, pid, held, updated, stuck>>

MarkWrite(u) ==
  /\ pc[u] = "markWrite"
  /\ LET after == Saved(record, seen[u], held[u], FALSE) IN
       \/ Succeeds /\ record' = after
       \/ FailedWrite(record, record', after)
  /\ Goto(u, "failed")
  /\ UNCHANGED <<setup, file, tokens, pid, request>>

-----------------------------------------------------------------------------
(* Downloads *)

\* The first chunk is read before the token is deleted; valid is not looked at.
Open(d) ==
  /\ pc[d] = "open"
  /\ \/ Succeeds /\ held' = [held EXCEPT ![d] = file]
        /\ Goto(d, IF file = None THEN "failed" ELSE "findToken")
     \/ Fault("fail") /\ UNCHANGED held /\ Goto(d, "failed")
  /\ UNCHANGED <<setup, record, file, tokens, pid, seen, updated, stuck>>

\* A download that is not streamed may still be too large, or not text.
Serve(d) ==
  /\ pc[d] = "serve"
  /\ Succeeds
  /\ \E answer \in {"served", "failed"} : Goto(d, answer)
  /\ UNCHANGED <<setup, record, file, tokens, pid, request>>

-----------------------------------------------------------------------------

Crash(a) ==
  /\ a \in Active
  /\ Fault("crash")
  /\ Goto(a, "crashed")
  /\ UNCHANGED <<setup, record, file, tokens, pid, request>>

UploadStep(u) ==
  \/ Probe(u) \/ Store(u) \/ Fetch(u) \/ Write(u) \/ Refresh(u) \/ SavePid(u)
  \/ Clean(u) \/ MarkFetch(u) \/ MarkWrite(u)

\* Every request has ended.
Finished == (\A a \in Actors : pc[a] \in Ended) /\ UNCHANGED vars

Next ==
  \/ SaveArtifact
  \/ \E k \in Kinds : IssueToken(k) \/ Expire(k)
  \/ \E a \in Actors : Start(a) \/ FindToken(a) \/ DropToken(a) \/ Crash(a)
  \/ \E u \in Uploads : UploadStep(u)
  \/ \E d \in Downloads : Open(d) \/ Serve(d)
  \/ Finished

Spec == Init /\ [][Next]_vars

-----------------------------------------------------------------------------
(* Properties *)

\* The client of a successful upload finds its own hash at the Handle server,
\* whatever other uploads under the same token and failures there have been.
AcknowledgedIsPublished == \A u \in Uploads : pc[u] = "ok" => pid = u

\* A request that succeeds has spent its token, also when deleting the token
\* goes wrong or another request deletes it first.
SuccessSpendsToken ==
  \A a \in Actors : pc[a] \in {"ok", "served"} => tokens[Kind(a)] = "deleted"

\* When requests do not overlap, an acknowledged artifact stays usable through
\* later attempts to upload, failures and crashes: row, file and PID agree.
AcknowledgedUploadStays ==
  limit = 1 => \A u \in Uploads : pc[u] = "ok" =>
    /\ record = [hash |-> u, valid |-> TRUE]
    /\ file = u /\ pid = u

\* What goes wrong in one call that fails, or in one crash
OneFault == {<<>>, <<"fail">>, <<"crash">>}

\* When requests do not overlap and one call fails, or one upload dies, a row is listed as
\* valid without the file it describes only if its upload has lost its database session
\* to the error; its PID does not resolve then.  After a call that fails the client may
\* present the same token again: no file is in the way that would make the local store
\* refuse it.
LeftInOrder ==
  limit = 1 /\ Active = {} =>
    /\ record # None /\ faults \in OneFault /\ record.valid =>
         file = record.hash \/ (stuck # {} /\ pid = None)
    /\ faults \in {<<>>, <<"fail">>} /\ backend = "local" /\ tokens["upload"] = "live" =>
         file = None

=============================================================================
