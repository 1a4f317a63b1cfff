--------------------------- MODULE MetadataHistory ---------------------------
(***************************************************************************)
(* update_document_metadata for one document: the metadata in its Handle   *)
(* record is read, changed and written back, and then a history file is    *)
(* read, deleted and stored again with one more entry.  PATCH requests do  *)
(* this at any time, and the create request once at its end, with the      *)
(* record that it has in memory instead of reading it.                     *)
(*                                                                         *)
(* The rest of the Handle record is in DocumentPublish.  The local store   *)
(* is the one of a single worker, which writes a file in one go.           *)
(***************************************************************************)
EXTENDS Integers, Sequences, FiniteSets

CONSTANTS
  Patches,   \* PATCH requests
  Creation,  \* the update at the end of the create request
  Fields,    \* title, description, author
  Extras,    \* keys of the dictionary "extra"
  Values,
  Stores,    \* a subset of {"local", "minio"}
  MaxFaults, \* bound on what goes wrong
  None, Empty, Keep, Torn  \* null, "", a field that is not given, half a file

Updates == Patches \cup {Creation}
Keys    == Fields \cup Extras

\* As an object of the program; only a new field value may be empty.
Metadata == [Keys -> Values \cup {None, Empty}]
Patch    == [Keys -> Values \cup {Keep, Empty}]

NoMetadata == [k \in Keys |-> None]

\* As values of the Handle record, with the dictionary's keys one by one
HandleValue == [type : Keys, data : Values \cup {Empty}]

FromMetadata(m) == {[type |-> k, data |-> m[k]] : k \in {k \in Keys : m[k] # None}}

Cleaned(m) == [k \in Keys |-> IF m[k] = Empty THEN None ELSE m[k]]

ToMetadata(values) == Cleaned([k \in Keys |->
  IF \E v \in values : v.type = k THEN (CHOOSE v \in values : v.type = k).data ELSE None])

Entry   == [by : Updates, meta : Metadata]
History == Seq(Entry)

ASSUME HistoryAssumption ==
  /\ Creation \notin Patches
  /\ Fields \cap Extras = {}
  /\ Values \cap {None, Empty, Keep} = {} /\ Cardinality({None, Empty, Keep}) = 3
  /\ None \notin History /\ Torn \notin History /\ None # Torn
  /\ Stores \subseteq {"local", "minio"}
  /\ MaxFaults \in Nat

\* A file that is there; the local store leaves an empty or torn one if it fails.
Readable(f) == f \notin {None, Torn}

VARIABLES
  store,
  record,      \* the metadata values of the Handle record
  file,        \* the history file: None, Torn or its entries
  pc,          \* where each update is
  patch,       \* the body of its request
  held,        \* the metadata it has put together
  past,        \* the history it has read
  log,         \* history: the writes of the record, each with the faults before it
  overlapped,  \* history: whether two updates have been in flight together
  faults

locals == <<patch, held, past>>
vars   == <<store, record, file, pc, locals, log, overlapped, faults>>

Ended  == {"ok", "failed", "crashed"}
Active == {a \in Updates : pc[a] \notin Ended \cup {"idle"}}

TypeOK ==
  /\ store \in Stores
  /\ record \subseteq HandleValue
  /\ Readable(file) => file \in History
  /\ pc \in [Updates -> {"idle", "read", "write", "history", "delete", "store"} \cup Ended]
  /\ patch \in [Updates -> Patch]
  /\ held \in [Updates -> Metadata]
  /\ past \in [Updates -> History]
  /\ log \in Seq([entry : Entry, faults : Nat])
  /\ overlapped \in BOOLEAN
  /\ faults \in 0..MaxFaults

\* The create request has published the document and comes to its metadata.
Init ==
  /\ store \in Stores
  /\ record = {}
  /\ file = None
  /\ pc = [a \in Updates |-> IF a = Creation THEN "read" ELSE "idle"]
  /\ \E p \in Patch :
       patch = [a \in Updates |-> IF a = Creation THEN p ELSE [k \in Keys |-> Keep]]
  /\ held = [a \in Updates |-> NoMetadata]
  /\ past = [a \in Updates |-> <<>>]
  /\ log = <<>>
  /\ overlapped = FALSE
  /\ faults = 0

Goto(a, step) == pc' = [pc EXCEPT ![a] = step]

Fault == faults < MaxFaults /\ faults' = faults + 1

-----------------------------------------------------------------------------
(* The record *)

\* A PATCH arrives; document and permission are looked up, nothing here changes them.
Start(a) ==
  /\ pc[a] = "idle"
  /\ Goto(a, "read")
  /\ \E p \in Patch : patch' = [patch EXCEPT ![a] = p]
  /\ overlapped' = (overlapped \/ Active # {})
  /\ UNCHANGED <<store, record, file, held, past, log, faults>>

\* A field takes whatever is given; an empty value removes a key of the dictionary.
Merged(old, p) == [k \in Keys |->
  CASE p[k] = Keep                       -> old[k]
    [] p[k] = Empty /\ k \in Extras      -> None
    [] OTHER                             -> p[k]]

HasExtra(m) == \E k \in Extras : m[k] # None

\* Faulty variant: the dictionary never counts
NoticesFields(old, new) == \E k \in Fields : new[k] # old[k]

\* Whether to_dict tells a difference.  An emptied field always differs from what
\* was read.  The dictionary is changed in place and compared with itself, so that
\* only its appearing and disappearing counts.
Notices(old, new) ==
  \/ \E k \in Fields : new[k] # old[k]
  \/ HasExtra(old) # HasExtra(new)

\* Nothing is written if no difference is noticed; the answer is the same.
ReadRecord(a) ==
  /\ pc[a] = "read"
  /\ LET old == IF a = Creation THEN NoMetadata ELSE ToMetadata(record)
         new == Merged(old, patch[a])
     IN  /\ held' = [held EXCEPT ![a] = new]
         /\ Goto(a, IF Notices(old, new) THEN "write" ELSE "ok")
  /\ UNCHANGED <<store, record, file, patch, past, log, overlapped, faults>>

ReadRecordFails(a) ==
  /\ pc[a] = "read" /\ a # Creation /\ Fault
  /\ Goto(a, "failed")
  /\ UNCHANGED <<store, record, file, locals, log, overlapped>>

\* The metadata is replaced as a whole.
Rewritten(a) ==
  /\ record' = FromMetadata(held[a])
  /\ log' = Append(log, [entry |-> [by |-> a, meta |-> Cleaned(held[a])], faults |-> faults])

\* The Handle record is read again and written; a failure, after which the write may
\* have had its effect, ends the request.
WriteRecord(a) ==
  /\ pc[a] = "write"
  /\ \/ /\ Rewritten(a) /\ UNCHANGED faults
        /\ held' = [held EXCEPT ![a] = Cleaned(held[a])]
        /\ Goto(a, "history")
     \/ /\ Rewritten(a) \/ UNCHANGED <<record, log>>
        /\ Goto(a, "failed") /\ Fault /\ UNCHANGED held
  /\ UNCHANGED <<store, file, patch, past, overlapped>>

-----------------------------------------------------------------------------
(* The history file *)

\* Faulty variant: a history that is not found is passed on
ReadHistoryUnchecked(a) ==
  /\ pc[a] = "history"
  /\ past' = [past EXCEPT ![a] = file] /\ Goto(a, "delete")
  /\ UNCHANGED <<store, record, file, patch, held, log, overlapped, faults>>

\* Faulty variant: only an existing history is continued
ReadExistingHistory(a) ==
  /\ pc[a] = "history"
  /\ IF Readable(file) THEN past' = [past EXCEPT ![a] = file] /\ Goto(a, "delete")
                       ELSE UNCHANGED past /\ Goto(a, "ok")
  /\ UNCHANGED <<store, record, file, patch, held, log, overlapped, faults>>

\* A missing history is an empty one, and one that cannot be decoded is left alone.
\* Any other failure is not caught: the request fails although the record is written.
ReadHistory(a) ==
  /\ pc[a] = "history"
  /\ \/ /\ UNCHANGED faults
        /\ IF file = Torn
           THEN UNCHANGED past /\ Goto(a, "ok")
           ELSE /\ past' = [past EXCEPT ![a] = IF file = None THEN <<>> ELSE file]
                /\ Goto(a, "delete")
     \/ Fault /\ Goto(a, "failed") /\ UNCHANGED past
  /\ UNCHANGED <<store, record, file, patch, held, log, overlapped>>

\* Faulty variant: the file stays and is to be replaced
KeepHistory(a) ==
  /\ pc[a] = "delete"
  /\ Goto(a, "store")
  /\ UNCHANGED <<store, record, file, locals, log, overlapped, faults>>

\* A file that is not there counts as deleted; a failure ends the update with success.
DeleteHistory(a) ==
  /\ pc[a] = "delete"
  /\ \/ file' = None /\ Goto(a, "store") /\ UNCHANGED faults
     \/ file' \in {None, file} /\ Goto(a, "ok") /\ Fault
  /\ UNCHANGED <<store, record, locals, log, overlapped>>

\* Faulty variant: the entry is made from the record as it is now
Continued(a) == Append(past[a], [by |-> a, meta |-> ToMetadata(record)])

NewHistory(a) == Append(past[a], [by |-> a, meta |-> held[a]])

\* What a failing store leaves behind
Remains(a) == IF store = "local" THEN {None, <<>>, Torn} ELSE {file, NewHistory(a)}

\* The local store refuses to replace a file.
StoreLocal(a) ==
  \/ file = None /\ file' = NewHistory(a) /\ UNCHANGED faults
  \/ file # None /\ UNCHANGED <<file, faults>>
  \/ file = None /\ file' \in Remains(a) /\ Fault

\* MinIO replaces it: the code's own conflict exception is caught by the code.
StoreMinio(a) ==
  \/ file' = NewHistory(a) /\ UNCHANGED faults
  \/ file' \in Remains(a) /\ Fault

\* The update ends with success in any case.
StoreHistory(a) ==
  /\ pc[a] = "store"
  /\ Goto(a, "ok")
  /\ IF store = "local" THEN StoreLocal(a) ELSE StoreMinio(a)
  /\ UNCHANGED <<store, record, locals, log, overlapped>>

\* The worker dies, perhaps while it writes the file.
Crash(a) ==
  /\ a \in Active /\ Fault
  /\ Goto(a, "crashed")
  /\ \/ UNCHANGED file
     \/ pc[a] = "store" /\ ~(store = "local" /\ file # None) /\ file' \in Remains(a)
  /\ UNCHANGED <<store, record, locals, log, overlapped>>

-----------------------------------------------------------------------------

Finished == Active = {} /\ UNCHANGED vars

UpdateStep(a) ==
  \/ Start(a) \/ ReadRecord(a) \/ ReadRecordFails(a) \/ WriteRecord(a)
  \/ ReadHistory(a) \/ DeleteHistory(a) \/ StoreHistory(a) \/ Crash(a)

Next == (\E a \in Updates : UpdateStep(a)) \/ Finished

Spec == Init /\ [][Next]_vars

-----------------------------------------------------------------------------
(* Properties *)

Logged(s)   == \A i \in DOMAIN s : \E k \in DOMAIN log : log[k].entry = s[i]
OnceEach(s) == \A i, j \in DOMAIN s : i # j => s[i].by # s[j].by
InOrder(s)  == \A i, j \in DOMAIN s : i < j =>
  \A k, l \in DOMAIN log : log[k].entry = s[i] /\ log[l].entry = s[j] => k < l

Genuine(s) == Logged(s) /\ OnceEach(s) /\ (~overlapped => InOrder(s))

\* Whatever overlaps, fails or crashes, the history never shows metadata that the
\* document has not had, nor an update twice, and without overlaps its order is that
\* of the updates.
HistoryIsGenuine == Readable(file) => Genuine(file)

\* Overlapping updates, each of which deletes what another has stored, may lose each
\* other's entries but never the whole history: while nothing fails, a document whose
\* update has been answered has an entry, except while an update is about to store it.
HistoryNeverVanishes ==
  /\ faults = 0
  /\ \E i \in DOMAIN log : pc[log[i].entry.by] = "ok"
  /\ \A a \in Updates : pc[a] # "store"
  => Readable(file) /\ file # <<>>

\* Without overlaps a failure costs the entries before it at most: an update that
\* changes the record after it is in the history again, unless a torn file is in
\* the way.
HistoryIsComplete ==
  ~overlapped /\ Active = {} /\ file # Torn =>
    \A i \in DOMAIN log : log[i].faults = faults =>
      Readable(file) /\ \E j \in DOMAIN file : file[j] = log[i].entry

\* PATCH metadata, "Only the fields that are provided in the request body will be
\* updated": without overlaps no other field changes, and when the answer says
\* success each field that was provided has its new value - except if the request
\* changes nothing but an existing dictionary, which the code does not notice.
PatchIsApplied ==
  [][~overlapped' =>
       LET old == ToMetadata(record)  new == ToMetadata(record') IN
       /\ \A k \in Keys : new[k] # old[k] =>
            \E a \in Active : Cleaned(patch[a])[k] = new[k]
       /\ \A a \in Active : pc'[a] = "ok" =>
            \/ \A k \in Keys : Cleaned(patch[a])[k] \in {Keep, new[k]}
            \/ pc[a] = "read" /\ HasExtra(old) /\ \A k \in Fields : patch[a][k] \in {Keep, old[k]}
    ]_vars

=============================================================================
