--------------------------- MODULE DocumentContent ---------------------------
(***************************************************************************)
(* The content of one document: how it is compressed and stored, on the    *)
(* local file system or in MinIO, and how it is read again for a download  *)
(* or for the graph service.  All three happen chunk by chunk.             *)
(*                                                                         *)
(* A content is the sequence 1..n of its pieces, and its zstd form puts it *)
(* between two tokens.  A compressor returns its output whenever it likes, *)
(* the end only when it is flushed.                                        *)
(***************************************************************************)
EXTENDS Integers, Sequences, SequencesExt

CONSTANTS
  Stores,    \* a subset of {"local", "minio"}
  Ways,      \* how the document is sent: a subset of {"json", "file"}
  MaxSize,   \* bound on the pieces of a content
  SizeLimit, \* DOCUMENT_DOWNLOAD_SIZE_LIMIT_MB in pieces
  MaxFaults  \* bound on the calls to the storage that fail

ASSUME ContentAssumption ==
  /\ Stores \subseteq {"local", "minio"}
  /\ Ways \subseteq {"json", "file"}
  /\ MaxSize \in Nat /\ SizeLimit \in Nat /\ MaxFaults \in Nat

Open  == 0
Close == -1
Token == {Open, Close} \cup 1..MaxSize
Bytes == Seq(Token)

Zstd(s) == <<Open>> \o s \o <<Close>>

\* What a decompressor has returned after these bytes, which is what stands between the
\* mark at their beginning and the next one, and whether it has failed
Unpacked(s) ==
  LET marks == {i \in 2..Len(s) : s[i] \in {Open, Close}}
  IN  SubSeq(s, 2, IF marks = {} THEN Len(s) ELSE Min(marks) - 1)
Broken(s)   == s # <<>> /\ (s[1] # Open \/ \E i \in 2..Len(s) : s[i] = Open)

NonEmptyPrefixes(s) == {SubSeq(s, 1, k) : k \in 1..Len(s)}
Without(s, prefix)  == SubSeq(s, Len(prefix) + 1, Len(s))

VARIABLES
  upload,    \* the request that sends the document
  pc,        \* "sent", "receiving", "stored" or "failed"
  rest,      \* what has not been received yet
  pending,   \* what the compressor holds back
  received,  \* what has been received
  stored,    \* the file, of which the last part is still missing while receiving
  ask,       \* the request that reads it
  step,      \* "none", "asked", "open", "reopen", "reading" or how it ended
  unpacks,   \* whether the store unpacks the file for that request
  blind,     \* history: whether it was opened without its metadata
  left,      \* what has not been read yet
  taken,     \* what has been read
  faults

vars == <<upload, pc, rest, pending, received, stored, ask, step, unpacks, blind, left, taken, faults>>

content == [i \in 1..upload.size |-> i]

\* packed: Content-Encoding says zstd; framed: the file really is in zstd form.
Upload == [store : Stores, way : Ways, size : 0..MaxSize, packed : BOOLEAN, framed : BOOLEAN]

\* zstd: Accept-Encoding says zstd; the graph service reads everything, unpacked.
Ask == [use : {"download"}, zstd : BOOLEAN, stream : BOOLEAN]
         \cup {[use |-> "graph", zstd |-> FALSE, stream |-> FALSE]}

Ended == {"ok", "broken off", "failed", "too large"}

TypeOK ==
  /\ upload \in Upload
  /\ pc \in {"sent", "receiving", "stored", "failed"}
  /\ rest \in Bytes /\ pending \in Bytes /\ received \in Bytes /\ stored \in Bytes
  /\ ask \in Ask
  /\ step \in {"none", "asked", "open", "reopen", "reading"} \cup Ended
  /\ unpacks \in BOOLEAN /\ blind \in BOOLEAN
  /\ left \in Bytes /\ taken \in Bytes
  /\ faults \in 0..MaxFaults

Init ==
  /\ upload \in {u \in Upload : /\ u.framed => u.packed
                                /\ u.way = "json" => u.size > 0 /\ ~u.framed}
  /\ pc = "sent"
  /\ rest = <<>> /\ pending = <<>> /\ received = <<>> /\ stored = <<>>
  /\ ask = [use |-> "graph", zstd |-> FALSE, stream |-> FALSE]
  /\ step = "none" /\ unpacks = FALSE /\ blind = FALSE
  /\ left = <<>> /\ taken = <<>>
  /\ faults = 0

\* What has been given to the hash
Hashed == IF upload.packed THEN Unpacked(received) ELSE received

uploadVars == <<upload, pc, rest, pending, received, stored>>
readVars   == <<ask, step, unpacks, blind, left, taken>>

-----------------------------------------------------------------------------
(* Storing *)

\* store_file: the content is compressed in one go, and what the compressor holds
\* back is lost.  The local store appends the flush of another compressor instead.
\* Bytes that should be compressed already but are not are refused.
StoreJson ==
  /\ pc = "sent" /\ upload.way = "json"
  /\ IF upload.packed
     THEN pc' = "failed" /\ UNCHANGED <<received, stored>>
     ELSE \E out \in {<<>>} \cup NonEmptyPrefixes(<<Open>> \o content) :
            /\ \/ upload.store = "local" /\ stored' = out \o Zstd(<<>>)
               \/ (upload.store = "minio" \/ out # <<>>) /\ stored' = out
            /\ received' = content
            /\ pc' = "stored"
  /\ UNCHANGED <<upload, rest, pending, readVars, faults>>

StartFile ==
  /\ pc = "sent" /\ upload.way = "file"
  /\ rest' = IF upload.framed THEN Zstd(content) ELSE content
  /\ pending' = IF upload.packed THEN <<>> ELSE <<Open>>
  /\ pc' = "receiving"
  /\ UNCHANGED <<upload, received, stored, readVars, faults>>

\* A chunk of the upload is hashed and written to the temporary file, compressed
\* by us or as it is.  A chunk that cannot be unpacked ends the upload.
StoreChunk ==
  /\ pc = "receiving" /\ rest # <<>>
  /\ \E chunk \in NonEmptyPrefixes(rest) :
       /\ rest' = Without(rest, chunk)
       /\ received' = received \o chunk
       /\ IF upload.packed
          THEN /\ stored' = stored \o chunk
               /\ pc' = IF Broken(received') THEN "failed" ELSE pc
               /\ UNCHANGED pending
          ELSE \E out \in {<<>>} \cup NonEmptyPrefixes(pending \o chunk) :
                 /\ stored' = stored \o out
                 /\ pending' = Without(pending \o chunk, out)
                 /\ UNCHANGED pc
  /\ UNCHANGED <<upload, readVars, faults>>

\* Faulty variant: as in store_file, nothing is flushed
FinishFileUnflushed ==
  /\ pc = "receiving" /\ rest = <<>>
  /\ stored' = stored /\ pending' = <<>> /\ pc' = "stored"
  /\ UNCHANGED <<upload, rest, received, readVars, faults>>

\* The compressor is flushed, and the temporary file becomes the stored one.
FinishFile ==
  /\ pc = "receiving" /\ rest = <<>>
  /\ stored' = IF upload.packed THEN stored ELSE stored \o pending \o <<Close>>
  /\ pending' = <<>>
  /\ pc' = "stored"
  /\ UNCHANGED <<upload, rest, received, readVars, faults>>

\* The client, the disk or MinIO breaks off; the temporary file is removed.
StoreFails ==
  /\ pc \in {"sent", "receiving"} /\ faults < MaxFaults
  /\ pc' = "failed"
  /\ stored' = <<>> /\ rest' = <<>> /\ pending' = <<>>
  /\ faults' = faults + 1
  /\ UNCHANGED <<upload, received, readVars>>

-----------------------------------------------------------------------------
(* Reading *)

\* Faulty variant: both stores look at metadata
SeemsPackedByMetadata == ~upload.packed

\* What the store finds when it looks at its file: the local one looks at the first bytes,
\* MinIO at metadata that it has for files that it has compressed itself.
SeemsPacked ==
  IF upload.store = "local" THEN stored # <<>> /\ stored[1] = Open ELSE ~upload.packed

StartRead ==
  /\ pc = "stored" /\ step = "none"
  /\ ask' \in Ask
  /\ step' = IF ask'.stream THEN "open" ELSE "asked"
  /\ UNCHANGED <<uploadVars, unpacks, blind, left, taken, faults>>

\* get_file_size: the pieces that come out of the local file; what MinIO has noted
\* or else the size of the object, which may be anything.
LocalSize == Len(IF SeemsPacked THEN Unpacked(stored) ELSE stored)

MinioSizes == IF SeemsPacked THEN {upload.size} ELSE 0..MaxSize

FileSizes == IF upload.store = "local" THEN {LocalSize} ELSE MinioSizes

\* A request that wants everything at once is refused above the limit.
CheckSize ==
  /\ step = "asked"
  /\ IF upload.store = "local" /\ SeemsPacked /\ Broken(stored)
     THEN step' = "failed"
     ELSE \E n \in FileSizes : step' = IF n > SizeLimit THEN "too large" ELSE "open"
  /\ UNCHANGED <<uploadVars, ask, unpacks, blind, left, taken, faults>>

\* Faulty variant: whoever reads everything at once gets the file as it is
UnpacksStreams(packed) == packed /\ ~(ask.zstd /\ step = "open") /\ ask.stream

\* A file is unpacked if it seems to be packed; but not for a client that accepts zstd.
Unpacks(packed) == packed /\ ~(ask.zstd /\ step = "open")

\* The file is opened.  If a client accepts zstd and the file does not seem to be packed,
\* the local store reports an error, and MinIO's file is opened once more as for others.
Opens(packed) ==
  /\ step \in {"open", "reopen"}
  /\ IF step = "open" /\ ask.zstd /\ ~packed
     THEN /\ step' = IF upload.store = "local" THEN "failed" ELSE "reopen"
          /\ UNCHANGED <<unpacks, left>>
     ELSE /\ step' = "reading"
          /\ unpacks' = Unpacks(packed)
          /\ left' = stored
  /\ UNCHANGED <<uploadVars, ask, taken>>

OpenFile == Opens(SeemsPacked) /\ UNCHANGED <<blind, faults>>

\* MinIO does not give out the metadata.  This is only logged, and the file is opened as
\* if it were not packed.
OpenBlindly ==
  /\ upload.store = "minio" /\ faults < MaxFaults
  /\ Opens(FALSE)
  /\ blind' = TRUE
  /\ faults' = faults + 1

Body == IF unpacks THEN Unpacked(taken) ELSE taken

\* A chunk is read.  When it cannot be unpacked, a client that has got something
\* already sees its answer break off.
ReadChunk ==
  /\ step = "reading" /\ left # <<>>
  /\ \E chunk \in NonEmptyPrefixes(left) :
       /\ left' = Without(left, chunk)
       /\ taken' = taken \o chunk
  /\ step' = IF unpacks /\ Broken(taken')
             THEN IF ask.stream /\ Body # <<>> THEN "broken off" ELSE "failed"
             ELSE step
  /\ UNCHANGED <<uploadVars, ask, unpacks, blind, faults>>

\* The end of the file.  An answer without a single byte is an error, and so is a
\* compressed one that has to be a string.
FinishRead ==
  /\ step = "reading" /\ left = <<>>
  /\ step' = IF \/ Body = <<>>
                \/ ask.use = "download" /\ ~ask.stream /\ ~unpacks /\ Open \in ToSet(Body)
             THEN "failed" ELSE "ok"
  /\ UNCHANGED <<uploadVars, ask, unpacks, blind, left, taken, faults>>

ReadFails ==
  /\ step \in {"asked", "open", "reopen", "reading"} /\ faults < MaxFaults
  /\ faults' = faults + 1
  /\ step' = IF ask.stream /\ Body # <<>> THEN "broken off" ELSE "failed"
  /\ UNCHANGED <<uploadVars, ask, unpacks, blind, left, taken>>

\* The next request for the same document
NextRead ==
  /\ step \in Ended
  /\ step' = "none" /\ unpacks' = FALSE /\ blind' = FALSE
  /\ left' = <<>> /\ taken' = <<>>
  /\ ask' = [use |-> "graph", zstd |-> FALSE, stream |-> FALSE]
  /\ UNCHANGED <<uploadVars, faults>>

-----------------------------------------------------------------------------

Store == StoreJson \/ StartFile \/ StoreChunk \/ FinishFile
Read  == CheckSize \/ OpenFile \/ ReadChunk \/ FinishRead

Next == \/ Store \/ StoreFails
        \/ StartRead \/ Read \/ OpenBlindly \/ ReadFails \/ NextRead
        \/ pc = "failed" /\ UNCHANGED vars

Spec == Init /\ [][Next]_vars

-----------------------------------------------------------------------------
(* Properties *)

Complete(s) == s # <<>> /\ ~Broken(s) /\ s[Len(s)] = Close

\* store_file_from_uploadfile: the stored file is complete and holds what the hash
\* that is published with the document was computed of, for every way the upload
\* is cut into chunks and the compressor holds its output back.
HashIsOfStoredFile ==
  pc = "stored" /\ upload.way = "file" /\ (upload.packed => upload.framed) =>
    /\ Complete(stored)
    /\ Unpacked(stored) = Hashed
    /\ Hashed = content

\* MinIO does not know that a file is compressed that was sent so.
Unmarked == upload.store = "minio" /\ upload.packed

\* What a client makes of an answer.  Content-Encoding is as it has asked for.
ClientReads == IF ask.zstd THEN Unpacked(Body) ELSE Body

\* A document that was uploaded as a file is served: an answer that ends well has all of
\* it, plain or in zstd form.  It is in the form that the client expects unless MinIO did
\* not give out the metadata when this client came, or never had any.  Only a failing call,
\* or an empty document, stops a streamed answer.
DownloadReturnsUpload ==
  upload.way = "file" =>
    /\ step = "ok" /\ ask.use = "download" =>
         /\ Body = content \/ (Complete(Body) /\ Unpacked(Body) = content)
         /\ ~blind /\ ~(Unmarked /\ ~ask.zstd) =>
              ClientReads = content /\ (ask.zstd => Complete(Body))
    /\ step \in Ended \ {"ok"} /\ ask.stream /\ faults = 0 => upload.size = 0

\* "The SHA-256 hash of the stored file": also of a document in the body of the request
JsonIsStored ==
  pc = "stored" /\ upload.way = "json" => Complete(stored) /\ Unpacked(stored) = Hashed

=============================================================================
