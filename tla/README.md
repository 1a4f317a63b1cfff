# A TLA+ model of yProvStore

yProvStore is a service for provenance documents. Clients register, publish
PROV documents and new versions of them, attach metadata, grant others the right
to continue a chain of versions, and exchange large artifacts through one-time
tokens. Every document has a PID, a record at a Handle server that anybody can
resolve. This directory holds TLA+ modules of the parts whose steps interleave or
fail half way, the TLC configurations that check them on small instances, and
proofs of their most important properties for every instance.

Source paths below are relative to the repository's `src/`.

## 1. The system

The service runs as four gunicorn workers (`Dockerfile`). A worker is one asyncio
event loop, so a request is interrupted at every `await`, and requests of
different workers run in parallel. All workers share

- a relational database (users, document rows, permissions, artifacts, tokens),
- a file store: the local file system or MinIO,
- a Handle server with the PID records.

No transaction or lock spans two calls to these. The only lock in the program is
the one of the Handle connector, within a worker. A request therefore reads
something, acts on it several calls later, and cleans up as well as it can when a
call in between fails.

| component | state it keeps | operations | interacts with |
|---|---|---|---|
| document publication (`routers/documents/_create.py`) | none; a row, a file and up to four Handle records per request | create, clean up after an error | all stores, PID service, permissions, metadata |
| PID service (`services/pid/service.py`) | Handle records: documents and lineages | build a record, save, read, update | Handle connector, document rows |
| local PID service (same file) | the same records in the memory of each worker, and `pids.json` | start, save, update | publication, metadata |
| Handle connector (`services/pid/handle/connector.py`) | one session per worker, a lock | authenticate, send | Handle server |
| Handle records (`services/pid/handle/record.py`) | none | conversion to typed values | PID service |
| metadata (`services/metadata`, `routers/metadata`) | part of the Handle record; a history file | PATCH, GET with repair of the row | PID service, file store, document rows |
| permissions (`services/permission_storage`) | permission rows | grant, revoke, check | users, document rows, PID service |
| accounts (`services/user_storage`, `services/auth`) | user rows | register, log in, look up | database |
| artifact transfer (`routers/artifacts`) | artifact row, token rows, file, Handle record | create, issue token, upload, download | all stores |
| file storage (`services/file_storage`) | files, and metadata in MinIO | store, size, retrieve, delete | compression |
| compression (`_compression.py`) | output held back by a compressor | compress, flush, detect | file storage |
| download (`routers/documents/_download.py`, `routers/common/utils.py`) | none | stream, whole answer | file storage |
| provenance graph (`services/graph`) | none | list, subgraph | download helpers |
| listings, JWT, settings, logging, migrations | - | read-only or at start-up | - |

### What is hard here

- **Interleaving.** Two new versions of one parent; a metadata write and a new
  version, which both rewrite whole Handle records; two uploads under one token;
  two grants of one permission; calls that share a session being authenticated.
- **Stale state.** The parent's row and record, the lineage record, the row that
  a session loaded, and the permission are read once and used calls later.
- **Partial failure.** Publication writes a file, two rows and up to four Handle
  records and can roll back only the first three. A lost answer is taken for a
  failure, so the clean-up may run although the call took effect.
- **Crashes** between any two calls, and while a file is written.
- **Copies that drift apart.** Without a Handle server each worker serves its own copy of
  `pids.json`, hands out the stored records themselves, so that a request changes them
  before it has decided to, and overwrites the file with what it knows.
- **Deferred output.** A compressor returns what it likes when it likes, the end
  only when it is flushed.
- **Termination**: waiting for the lock, repairing the row, walking a cyclic graph.

### What makes each component correct

- *Publication, PID service, metadata*: an acknowledged document is complete and
  stays so; a PID that resolves has its document; links between Handle records can
  be followed; documents form chains with consecutive versions; nothing changes the
  version or parent of a published document; the row's lineage converges.
- *Local PID service*: no store, whichever worker it belongs to, ever holds a broken chain;
  one worker alone loses nothing it has acknowledged.
- *Permissions, accounts*: the check finds the first document of the right chain;
  a revocation is final; a permission is there from grant to revocation; an email
  names one account.
- *Connector*: one call authenticates at a time, whatever session others see is one being
  authenticated, accepted or refused by the server, no call waits for ever.
- *Artifacts*: what is acknowledged is published and stays; a token is spent by
  success and usable after failure; a valid artifact has its file unless the upload lost its
  database session.
- *Content and graph*: who downloads gets what was uploaded; the graph service gets
  the same; a subgraph is a whole component; every request ends.

## 2. Modules

| module | models | composes |
|---|---|---|
| `DocumentPublish` | create, metadata PATCH, metadata GET with repair, the permission check | instance of `VersionChain` |
| `VersionChain` | abstract: published documents as append-only version chains, linear or branching | |
| `PublishInTurn` | what publication promises until two requests overlap | extends `DocumentPublish` |
| `LocalPids` | the PID service of the workers of a server without Handle server, and the create requests that use it | |
| `MetadataHistory` | the metadata of one document, its values in the Handle record and its history file | |
| `HandleSession` | the connector of one worker and the sessions of the Handle server | |
| `ArtifactTransfer` | one artifact, its tokens, uploads and downloads through the service | |
| `AccessControl` | accounts and the permission of one user on one first document | |
| `DocumentContent` | storing, compressing and reading one document, chunk by chunk | |
| `ProvSubgraph` | `graph_subgraph` on a parsed document | |
| `DocumentAnalysis` | the graph service on the file store | `DocumentContent`, `ProvSubgraph` |
| `MC...` | values and symmetries for TLC | the module of that name |
| `..._proofs` | theorems and proofs | the module of that name |
| `PublishInTurn_proofs` | what holds until two requests overlap | extends `DocumentPublish_proofs` |
| `DocumentAnalysis_proofs` | the stores, the readers and the graph walk | `DocumentAnalysis` with both of its parts |

An action is what a request does up to and including one call to a store: the
`await` is where others may come in between. `pc` (`step`, `phase`) is the place in
the handler, the other request-indexed variables are its locals. `PROJECT.json`
gives the source lines of every definition. Definitions commented as *faulty
variant* are not part of the model: each shows that a property would notice such a
bug.

**DocumentPublish.** `rows` is the table `document_records`, `files` the stored
files, `pids` and `lins` the DOCUMENT and LINEAGE records of the Handle server. A
create request mints at most one PID of each kind, so all are named by the request.
Its steps are those of `create_document`: the permission check (`authorise` reads the record
of the parent's parent, `findLineage` the lineage record, `findFirst` the row of the first
document and the permission), `store`, `readParent`, `readLineage` (with the check that the
parent is the latest version), `saveRow`, `updateParentRow`, then the deferred
writes of `finalize_pid_records` in their order, then metadata, whose errors are
swallowed. An error leads through `cleanFile`, `cleanRow` and `revertRow`; Handle
records are never taken back, as in the code. `ReadMeta`/`WriteMeta` are the
read-modify-write of a PATCH, `RepairRead`/`RepairGet`/`RepairWrite` the GET that
corrects `lineage_id`. Owners and permission levels are abstracted to the document
that the check finds (`found`; `FirstDocument` is the result of a check that nobody
interrupts), and `root` is a history variable with the true one. `StartPatch` makes the
check of a PATCH in one step: it reads the same records in the same order. A write that reports an error has had its effect or not (`"lost"`).

**PublishInTurn** adds the history variable `overlapped` to `DocumentPublish`. Its
properties hold for every behaviour up to the first overlap of two requests, and are
checked together with those that overlaps must not break.

**LocalPids.** `mem` is `self.pids` of each worker, `file` is `pids.json` (`Absent`,
`Torn` while it is written and after a death in the middle of that), `writing` whether a
worker has it open and whether another one had it open meanwhile. A service is created by the
first request of a worker that needs it (`Start`), and writes an empty file when it sees
none (`CreateFile`). Since `get_pid_record` returns the stored object, `Prepare` changes the
parent's record and the lineage in `mem`, and the three updates of
`finalize_pid_records` only write the memory to the file. Those calls are coroutines that
never wait, so nothing else runs in the worker between them (`Idle`); other workers do run.
A metadata update, of a request of its own or inside a create, writes the memory again and
is `Patch`. The permission check is not a step: of local records it always finds the first
document, which `VersionsFollow` says. `inTurn` is a history variable: workers have lived
one after the other, and none has started on a torn file.

**MetadataHistory.** `record` is the metadata part of the Handle record as a set of
typed values, `file` the history file, `held` the `DocumentMetadata` object of a
request and `past` the history it has read. An empty string is stored as one and read
back as `None` (`Cleaned`), a field that is not given (`Keep`) stays as it is, an empty
value removes a key of `extra`. `Notices` is the comparison of the two `to_dict`
results, which share the dictionary `extra`. The steps are those of
`update_document_metadata`: read the record, read and write it again, read the
history, delete it, store it with one more entry. `StoreLocal` refuses to replace a
file and may leave a torn one, `StoreMinio` replaces. `DocumentPublish` has the rest of
the same Handle record and writes it as a whole; nothing but the write of the record
connects the two, so they are checked apart.

**HandleSession.** A step is what a coroutine does between two awaits. `session` is
`session_id`, `lock` and `queue` the asyncio lock with its waiters, `sid` the id a
request has put into its header. `server` is how the Handle server sees each
session; it may refuse, forget or expire one. A refused session keeps its id (`SignFails`),
and later calls use it until one of them fails.

**ArtifactTransfer.** `record` is the row, `seen` the copy loaded by the session of
an upload, of which only changed columns are written. The local store probes before
it reads the upload; MinIO replaces what it finds, because the conflict exception
of the code is caught by its own `except`. `tokens` are the token rows; a token is
looked up at the start and deleted near the end. A failing upload deletes the file
and resets `valid`. A request has one database session for all its tables and nothing rolls
it back: after an error of the call that deletes the token (`EndsSession`) the upload is in
`stuck`, and every later query of it fails as well, the one that would reset `valid` included.

**AccessControl.** `users` and `perms` are sets of rows named after the requests
that insert them. `SaveUser` meets the unique index on emails; `SavePermission`
meets none. `barred` is a history variable: the grants that an acknowledged
revocation has taken back for the requests that come after it.

**DocumentContent.** A content is the sequence `1..n`, its zstd form stands between
two tokens. `pending` is the compressor's held-back output: any prefix of it may
come out at any chunk. `stored` is the file, `taken` what a reader has got so far;
`Unpacked` and `Broken` say what a decompressor makes of it. `Hashed` is what has gone
into the hash: what was received, unpacked if it was sent compressed. The local store
recognises a compressed file by its first bytes, MinIO by its own metadata (`SeemsPacked`).
When MinIO does not give out the metadata the code goes on as if the file were not
compressed (`OpenBlindly`, history variable `blind`); a client that accepts zstd then makes it
open the file once more (`reopen`), which may find the metadata. `unpacks` is the decompressor
of the file that is read in the end.

**ProvSubgraph.** `node_map`, `node_relations`, `queue`, `visited`, `result_nodes`
and `result_relations` are the locals of `graph_subgraph`. The code keeps a list of links for each node;
since links are numbered by their relation, the set of them says the same, and `Listed`
gives it back in the order of the document when `Visit` queues their ends. A missing end of a
relation becomes the identifier `"None"`, as `str(None)` does in the code.

**DocumentAnalysis** lets `ProvSubgraph` start with any provenance document when a
reader of `DocumentContent` has got the uploaded content, and answers with the empty
graph when it has got something else.

## 3. Runs

Pass runs:

| run | instance | checks |
|---|---|---|
| `publish_faults` | 3 creates, 1 PATCH, 2 at a time, failures, lost answers, crashes | `TypeOK`, `FirstDocumentIsRoot`, `LineageLinkResolves`, `AcknowledgedIsComplete`, refinement of the branching `VersionChain`; until two requests overlap `RightsStayResolvable`, `LineageTracksTip` and refinement of the linear `VersionChain` |
| `publish_repair` | 3 creates, 2 at a time, refused calls and crashes, a reader | `PidIsBacked`, `RowLineageConverges` |
| `session_faults` | 4 calls, 3 of them writing, all faults | `SessionIsExplained`: a visible session that is not authenticated is being authenticated by the call that opened it, or has been refused by the server after that call has failed; shared authentication, every call ends |
| `artifact_transfer` | 2 uploads, 2 downloads, both stores, 1 or 3 at a time, 2 faults | uploads are published, tokens spent by success, acknowledged uploads stay, and in turn, after one fault, a valid artifact has its file unless its upload lost its database session, and a failed upload can be repeated (`LeftInOrder`) |
| `access_control` | 2 registrations, 2 grants, 2 revocations, 1 check, 1 or 3 at a time, all faults | an email names one account, revocations are final, permissions are neither doubled nor lost in turn |
| `metadata_history` | 1 create, 2 PATCHes, 1 field, 1 key of `extra`, both stores, 1 fault | entries are genuine and in order, overlaps never lose the whole history, faults only what was before, a PATCH changes what it provides |
| `local_pids` | 4 creates, 2 at a time, 2 workers, any number of metadata updates, failing requests, failing writes, crashes | chains are whole in every worker and in the file, only first versions branch; one worker at a time keeps what it acknowledged, and until a request fails every lineage can be continued |
| `document_analysis` | contents of up to 3 pieces, both stores, 2 faults, graphs of 3 identifiers and 2 relations | hash and file agree; downloads and the graph service get the whole upload or refuse it for the limit, in the form they expect unless MinIO had or gave no metadata (`DownloadReturnsUpload`, `GraphReadsUpload`); components, self-contained answers, every request ends |

Violation runs, each of one property that a comment or document states and the code
does not keep:

| run | what TLC finds |
|---|---|
| `publish_branching` | two requests with one parent pass the check "only with version=latest_version + 1" before either has written, and publish the same version twice |
| `session_half_open` | a call sends its request with a session whose authentication is still under way |
| `access_duplicate` | two grants both find no permission and insert two, which then can be neither used nor revoked |
| `content_json` | a document sent in the JSON body is stored without what the compressor holds back; a small one is lost |

More promises are not kept and are noted with their hazards in `PROJECT.json` without a
run of their own. Under overlaps a metadata PATCH may take back lineage links and the
fields and history entries of another PATCH, and a second upload under a token may
remove the acknowledged file. One error of the call that deletes a token, after the row has
been marked valid, leaves the row valid without its file, since the request's database session
cannot be used any more. MinIO replaces existing files. When it does not give out the metadata
of a compressed file, a client without zstd and the graph service get the compressed bytes with
a good end, and a client with zstd may get plain bytes labelled as zstd. A PATCH of nothing but an
existing `extra` is answered with the new dictionary and never stored. In `graph_subgraph`
every relation counts as leaving both of its ends, so that "forward" follows relations both
ways and "backward" none; an empty list of identifiers gives an empty graph, where the route's
description says that it "will not filter". After a failed new version the lineage record may
announce a version that was never published, and the chain cannot be continued. With the local PID service, two workers forget each other's
acknowledged documents (`AcknowledgedSurvives` needs `inTurn`), and a new version that fails
after its record was prepared leaves its lineage at a version that does not exist, so that
the tip can no longer be extended (`TipCanBeExtended` needs that no request has failed).

### Bounds, and why they are enough

- *Requests.* Three creates give a root, its new version and a competitor or a third
  version, before or after a failed one. Every race above needs two
  requests in flight. Two PATCHes after a create give a history that is continued twice
  in turn, and two writers that start from the same history. The limits of 1 and 3
  requests in `artifact_transfer` and `access_control` let one run tell what holds in
  general from what holds without overlaps; the properties name `limit = 1` where they need it.
- *Faults.* `MaxFaults` of `ArtifactTransfer`, `DocumentContent` and `MetadataHistory`
  bounds how often something goes wrong; the other modules have no bound. Two in
  `DocumentContent` let MinIO withhold the metadata from both attempts of one request, or from
  one request and fail another one.
- *Metadata.* One field and one key of `extra` with one value each can be given,
  emptied, left out and repeated, which is all that `Merged` and `Notices` tell apart.
- *Workers.* Two workers overwrite each other's file in any order, and each may die and come
  back any number of times; a third one would only overwrite the same file. Four creates
  reach a lineage of three versions next to a competitor for its first or last place.
- *One artifact, one email, one first document, one file*: different ones share no
  state.
- *Content.* Three pieces with a limit of two give empty contents, contents at and
  above the limit, and every place for a chunk to end. `Analysed` lets the
  graph walk start from one kind of content only, since it does not depend on how
  its bytes were stored.
- *Graphs.* Two identifiers and `"None"` with two relations give paths of length
  two, loops, double relations and unconnected parts; requests name up to two
  identifiers, known or not.
- *Symmetry* is used in safety runs only, over requests that no action tells apart.
  `publish_repair` and `session_faults` check liveness and use none.

### Fairness

- `DocumentPublish!FairSpec`: a request in flight goes on (calls have timeouts);
  clients may stop sending requests and PATCHes. A reader keeps reading
  (weak), and its two calls succeed from time to time (strong): it is the one
  assumption about the environment, needed because a failed GET repairs nothing.
- `HandleSession!FairSpec`: each request is answered or times out after ten seconds
  (`connector.py`), and the event loop resumes whoever can go on. Neither the
  arrival of calls nor failures are fair.
- `DocumentAnalysis!Fairness`: a request is one coroutine that goes on; clients
  need not ask.

## 4. Proofs

All theorems are about `Spec` with arbitrary constants that satisfy the `ASSUME` of
the module: any number of requests, any faults.

**DocumentPublish_proofs.** `Typing`: `TypeOK` is inductive only together with what
each step's locals must hold (`TypeInv`). `PermissionCheckFindsRoot` rests on
`ChainInvariant`: `FirstDocumentIsRoot` alone is not inductive, since a wrong row
could have come from a wrong record written long before. The strengthening says of every
Handle record and row that is stored, and of every record that a request holds
and will write back, that it names the first document of its own chain
(`StoresTruthful`, `LocalsTruthful`), and that `root` is constant along parents. A check that
is under way holds the lineage, then the first document, of the parent's own chain: what it
has read stays true while other requests write, because the first document of a lineage never
changes once it is written (`Kept`). `LineageLinksResolve` follows
from the same invariant, which also orders the deferred writes. Each action has a
lemma; `Kept` states once what a step that leaves the rest alone preserves.

In the second part of the module, `PublishedOnlyGrows` is the refinement of the branching
`VersionChain`: initial states map to initial states, and each step publishes a new version
of a published document or stutters. It needs `AppendInv`: a request does not have its PID in
a Handle record before it is at the deferred writes, and whatever record it holds by then,
its own or the parent's, agrees in version and parent with what is published. In
`AcknowledgedDocumentsAreComplete` the document's file and row are there from the step
that writes them to the end, unless the request itself cleans up (`FileAndRow`), and neither a
stored record nor one that is held and written back later drops its lineage (`KeepsLineage`).
`PublishedDocumentsAreBacked` assumes that no answer is lost: then a request whose Handle
record has been written never comes to its clean-up (`Safe`). With lost answers it does, and
the statement is false.

**PublishInTurn_proofs.** `TurnSpec` is `Spec` with the history variable `overlapped`, so the
invariants above hold of it too. Until two requests overlap at most one is active
(`StillOneActive` from the cardinality in `TurnNext`), and then that one has the end of a chain
in its hands (`TipHeld`): its parent has no child and keeps its version and lineage until the
new record is written (`HoldsTip`), which rests on every lineage record being as far as the
documents that name it and farther than their parents (`TipsTracked`), lost answers and
crashes included. `RequestsInTurnAppend` follows step by step. `RightsStay` adds that every
lineage, stored or about to be, starts at a row that no clean-up touches any more
(`FirstsStay`). `LineagesInOrder` adds, while no request has failed, that a lineage is either
in order or has exactly the request that is advancing it (`InOrder`).

**HandleSession_proofs.** `SessionInv` ties the places `opening` and `signing` to the
lock; mutual exclusion and `SessionTyping` follow. `SessionsAreExplained` adds what the server
has made of the session that others see, and that no failed request was sent with it
(`VisibleInv`); it needs that a call that is queued for the lock holds nothing (`QueueWaits`).
`AuthenticationsAreShared` counts: only a failing call loses the session, so each opening
beyond the first has a failed call of its own, and while the session is lost there are no
more openers than failures (`Counted`). It needs that a call is in the queue once and does
nothing else meanwhile (`QueueWaits`), so that no two calls are woken to open.

**ArtifactTransfer_proofs.** `TransferTyping` needs that a running upload has a row
and a token (`Founded`). `UploadsArePublished` and `TokensAreSpent` need that whoever
writes the Handle record has deleted the token before (`SpentBefore`) and that Handle
record and spent token persist. `UploadsInTurnStay` adds that at most one request is
active when `limit = 1` (`Sole`), and what an upload has written at each of its steps.
`TransfersLeaveOrder` is about how failures end: `OrderInv` says what an upload has left
behind at each step of its way and of its clean-up (`Traces`), up to the first fault and
after one, and that a token that can be presented again has not led to a Handle record. An upload that
lost its database session did so before it came to the Handle record, so its PID does not
resolve. A second fault can hit the clean-up of the first, and then the statement is false.

**AccessControl_proofs.** `RegistrationsAreFound` is the unique index at work.
`RevocationIsFinal` needs, of every revocation, that past its query no barred row but
the one it has found is left, and none once it has deleted it (`RevokeInv`). Since a barred grant has
ended, it can never insert a row again (`BarredEnded`). `PermissionsStay` is about one request
at a time (`TurnInv`): there is at most one row, it is older than the request under way, a
revocation knows the row it deletes, and an acknowledged grant has its row or has been taken back.

**LocalPids_proofs.** `ChainsStayWhole` and `OnlyFirstVersionsBranch` follow from `LocalInv`,
for any number of workers, requests and crashes: every memory and the file are sound by
themselves (a version has its parent one below, a lineage its first document, `Sound`) and
hold nothing of a request that has not prepared it (`Fresh`); what a request will write
follows what its worker has (`PendingFollows`), and only one request of a worker is between
its steps (`PendingIsAlone`). Each step changes one store, by adding one version (`Grown`),
by setting one record, or by copying one store over another; a lemma for each keeps `Sound`.
`OneWorkerForgetsNothing` adds, while workers live one after the other, that at most one of them
lives, that its memory has all that was acknowledged, and that the file does too unless that
worker has a write under way (`TurnInv`). `LineagesNameTheirTips` adds to this, until a
request fails, that the last version that a lineage names is known with its number or is the
one that a request under way is about to store (`IsTip`), and that a lineage that a document
names is known or about to be opened by the request it is named after (`Opens`). The file
is read by the next worker only when nobody is at work (`FileNamed`), and by then whatever
was about to be stored has been (`Settled`).

**MetadataHistory_proofs.** `HistoriesAreGenuine` needs more than the file: a history
that a request has read may be stored much later. `HistoryInv` says the same of every
`past`, that the entries of either are of updates that have ended (so that no update
enters twice), and that an update on its way to the history has logged its own entry,
once, and as the last one unless updates have overlapped. `HistoryStays`: while nothing
fails, whoever deletes the file is about to store it again (`VanishInv`). `HistoryRecovers`:
without overlaps nobody changes the history between the steps of the update under way
(`InTurnFile`), so that an entry made since the last failure is still to be made, in the file,
or with the update that stores the file (`KeptInv`). `HistoryAssumption` says that the markers
of a missing and of a torn file are not histories themselves. `PatchesAreApplied`: what is
written is read again but for empty values (`RoundTrip`), and until updates overlap a record
that has been read is the one that is still there when it is written (`PatchInv`), so that
what was asked for is in it from the write to the end. The one step that succeeds without a
write is shown to be of an update that asks for no change in a field (`UnnoticedIsSame`).

**DocumentAnalysis_proofs.** All theorems are about `AnalysisSpec`, in which `DocumentContent`
and `ProvSubgraph` take turns, and rest on `AnalysisInv`. Its half about the content
(`ContentInv`) is an equation: while a file is received, what is stored and what the
compressor holds back together are the zstd form of what has been received, and that and
the rest are what the client sends (`Receiving`); hence `StoredFileIsHashed`. From then on what a
reader has taken and what is left make up the file (`Reading`), whatever the chunks. The
lemmas on `Unpacked` and `Broken` say where in a prefix of a zstd form the marks can be, so
that no prefix is broken and only the whole of it is complete. `DownloadsAreWhole` and
`AnalysesAreOfUpload` need besides that a request that reads everything at once has passed the
limit (`Limited`), and that a file is unpacked as its store says unless MinIO has withheld the
metadata from this very request (`blind`); the form that the client gets is left open then, but
not the content. The half about the walk (`GraphInv`): both ends of a kept relation know of it
(`LinkedBothWays`); what was asked for and the neighbours of the answer have been visited or
are waiting (`Covered`), which gives closedness when the queue is empty; and every closed set
with the elements asked for has all that is visited or waiting (`NoMoreThanNeeded`), so that the
answer is the least one. This is induction over the steps of the walk, not over the document:
the loop over the relations is a sequence of actions.

Only model-checked: liveness (`RowLineageConverges`, `EveryCallEnds`, `RequestsEnd`). The
provers here reason neither about fairness nor about `ENABLED`, which a weak-fairness
argument needs. The four violation runs are counterexamples and have nothing to prove.

## 5. Not modelled

- URLs that MinIO signs for direct transfers: the server takes no part in them.
- JWT and password hashing, which keep no state.
- Listings, paging and `graph_list_elements`: read-only filters.
- Indexes and administrator values of Handle records, and the conversion of their
  fields other than metadata (see the plan); the list of keywords; `updated_at`.
- Validity of PROV documents, directories and buckets, wording of answers.

## 6. Plan

The order follows the weight of the behaviour.

1. *Done*: publication and lineage, the connector, artifacts, permissions; content
   and graph; the metadata history; the local PID service; the theorems above.
2. `HandleValues`: the conversion of a whole PID record to typed values and back as
   operators, checked against the record over bounded fields, unknown and missing ones
   included.
3. `PublishThroughSession`: `DocumentPublish`'s calls through `HandleSession`, so that
   rejected sessions become the failed calls of a publication.
4. `ProvElements`: the filters of `graph_list_elements` against a reference set.
5. Proofs: every safety and action property of the runs is proved; what is left are the
   steps of the liveness arguments that need no fairness (that the walk visits each node
   once, that a waiting call moves up in the queue).
