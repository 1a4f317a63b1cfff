------------------------ MODULE DocumentAnalysis_proofs ------------------------
(***************************************************************************)
(* Proofs about DocumentAnalysis and the two modules it composes, for every *)
(* size of a document, every way it is cut into chunks and held back by the *)
(* compressor, and every provenance document: what is stored is what was    *)
(* uploaded and hashed, what is read is what is stored, and the answer of a *)
(* subgraph request is a component of the document.                        *)
(***************************************************************************)
EXTENDS DocumentAnalysis, FiniteSetTheorems, SequenceTheorems, TLAPS

-----------------------------------------------------------------------------
(* Sequences and the zstd form *)

LEMMA Tokens ==
  /\ Token \subseteq Int /\ Open \in Token /\ Close \in Token
  /\ \A n \in 1..MaxSize : n \in Token
BY ContentAssumption DEF Token, Open, Close

\* A prefix of a sequence and what is left without it make up the sequence.
LEMMA CutInTwo ==
  ASSUME NEW S, NEW s \in Seq(S), NEW p \in {<<>>} \cup NonEmptyPrefixes(s)
  PROVE  /\ p \in Seq(S) /\ Without(s, p) \in Seq(S)
         /\ p \o Without(s, p) = s
<1>1. CASE p = <<>>
  <2>1. Len(p) = 0 /\ p \in Seq(S)
    BY <1>1
  <2>2. Without(s, p) = s
    BY <2>1, SubSeqFull DEF Without
  <2> QED  BY <1>1, <2>1, <2>2, ConcatEmptySeq
<1>2. CASE p \in NonEmptyPrefixes(s)
  <2>1. PICK k \in 1..Len(s) : p = SubSeq(s, 1, k)
    BY <1>2 DEF NonEmptyPrefixes
  <2>2. Len(s) \in Nat /\ k \in Nat
    BY <2>1, LenProperties
  <2>3. p \in Seq(S) /\ Len(p) = k
    BY <2>1, <2>2, SubSeqProperties
  <2>4. Without(s, p) \in Seq(S)
    BY <2>2, <2>3, SubSeqProperties DEF Without
  <2>5. p \o Without(s, p) = SubSeq(s, 1, Len(s))
    BY <2>1, <2>2, <2>3, ConcatAdjacentSubSeq DEF Without
  <2> QED  BY <2>3, <2>4, <2>5, SubSeqFull
<1> QED  BY <1>1, <1>2

\* Moving a prefix from the second part of a sequence to the first
LEMMA MovePrefix ==
  ASSUME NEW S, NEW t \in Seq(S), NEW s \in Seq(S), NEW p \in {<<>>} \cup NonEmptyPrefixes(s)
  PROVE  (t \o p) \o Without(s, p) = t \o s
<1> DEFINE w == Without(s, p)
<1>1. p \in Seq(S) /\ w \in Seq(S)
  BY CutInTwo
<1>2. p \o w = s
  BY CutInTwo
<1> HIDE DEF w
<1>3. (t \o p) \o w = t \o (p \o w)
  BY <1>1, ConcatAssociative, SMT
<1> QED  BY <1>2, <1>3 DEF w

\* The content and its zstd form, token by token
Content(n) == [i \in 1..n |-> i]

LEMMA ZstdTokens ==
  ASSUME NEW n \in Nat
  PROVE  /\ Zstd(Content(n)) \in Seq(Int) /\ Len(Zstd(Content(n))) = n + 2
         /\ Zstd(Content(n))[1] = Open /\ Zstd(Content(n))[n+2] = Close
         /\ \A i \in 2..n+1 : Zstd(Content(n))[i] = i - 1
<1> DEFINE c == Content(n)  oc == <<Open>> \o c
<1>1. c \in Seq(Int) /\ Len(c) = n /\ \A i \in 1..n : c[i] = i
  BY DEF Content
<1>2. <<Open>> \in Seq(Int) /\ Len(<<Open>>) = 1 /\ <<Open>>[1] = Open
  BY DEF Open
<1>3. <<Close>> \in Seq(Int) /\ Len(<<Close>>) = 1 /\ <<Close>>[1] = Close
  BY DEF Close
<1> HIDE DEF c
<1>4. /\ oc \in Seq(Int) /\ Len(oc) = n + 1
      /\ \A i \in 1..n+1 : oc[i] = IF i <= 1 THEN Open ELSE c[i-1]
  <2> DEFINE o == <<Open>>
  <2>1. o \in Seq(Int) /\ Len(o) = 1 /\ o[1] = Open /\ oc = o \o c
    BY <1>2
  <2> HIDE DEF o, oc
  <2>2. /\ o \o c \in Seq(Int) /\ Len(o \o c) = Len(o) + Len(c)
        /\ \A i \in 1..Len(o) + Len(c) :
             (o \o c)[i] = IF i <= Len(o) THEN o[i] ELSE c[i - Len(o)]
    BY <1>1, <2>1, ConcatProperties
  <2> QED  BY <1>1, <2>1, <2>2
<1>5. Zstd(c) = oc \o <<Close>>
  BY DEF Zstd
<1> HIDE DEF oc
<1>6. /\ Zstd(c) \in Seq(Int) /\ Len(Zstd(c)) = n + 2
      /\ \A i \in 1..n+2 : Zstd(c)[i] = IF i <= n + 1 THEN oc[i] ELSE <<Close>>[i - (n + 1)]
  BY <1>3, <1>4, <1>5, ConcatProperties
<1>7. Zstd(c)[1] = Open
  <2>1. 1 \in 1..n+1 /\ 1 \in 1..n+2 /\ 1 <= n + 1 /\ 1 <= 1
    OBVIOUS
  <2>2. Zstd(c)[1] = oc[1]
    BY <1>6, <2>1
  <2>3. oc[1] = Open
    BY <1>4, <2>1
  <2> QED  BY <2>2, <2>3
<1>8. Zstd(c)[n+2] = Close
  BY <1>3, <1>6
<1>9. ASSUME NEW i \in 2..n+1  PROVE Zstd(c)[i] = i - 1
  <2>1. Zstd(c)[i] = oc[i] /\ oc[i] = c[i-1]
    BY <1>4, <1>6
  <2> QED  BY <1>1, <2>1
<1> QED  BY <1>6, <1>7, <1>8, <1>9 DEF c

\* A decompressor takes any prefix of the zstd form, and gives the content for all of it.
LEMMA PrefixIsNotBroken ==
  ASSUME NEW n \in Nat, NEW p \in Seq(Int), NEW q \in Seq(Int), p \o q = Zstd(Content(n))
  PROVE  ~Broken(p)
<1> DEFINE z == Zstd(Content(n))
<1>1. /\ Len(z) = n + 2 /\ z[1] = Open /\ z[n+2] = Close
      /\ \A i \in 2..n+1 : z[i] = i - 1
  BY ZstdTokens
<1>2. p \o q = z
  OBVIOUS
<1> HIDE DEF z
<1>3. /\ Len(p) \in Nat /\ Len(q) \in Nat /\ Len(z) = Len(p) + Len(q)
      /\ \A i \in 1..Len(p) + Len(q) : z[i] = IF i <= Len(p) THEN p[i] ELSE q[i - Len(p)]
  BY <1>2, ConcatProperties, LenProperties
<1>4. \A i \in 1..Len(p) : p[i] = z[i]
  BY <1>3
<1>5. ASSUME p # <<>>  PROVE p[1] = Open
  <2>1. 1 \in 1..Len(p)
    BY <1>3, <1>5, EmptySeq
  <2> QED  BY <1>1, <1>4, <2>1
<1>6. ASSUME NEW i \in 2..Len(p)  PROVE p[i] # Open
  <2>1. i \in 1..Len(p) /\ i \in 2..n+2
    BY <1>1, <1>3
  <2>2. p[i] = i - 1 \/ p[i] = Close
    <3>1. CASE i = n + 2
      BY <1>1, <1>4, <2>1, <3>1
    <3>2. CASE i # n + 2
      <4>1. i \in 2..n+1
        BY <2>1, <3>2
      <4> QED  BY <1>1, <1>4, <2>1, <4>1
    <3> QED  BY <3>1, <3>2
  <2> QED  BY <2>1, <2>2 DEF Open, Close
<1> QED  BY <1>5, <1>6 DEF Broken

LEMMA UnpackedZstd ==
  ASSUME NEW n \in Nat
  PROVE  /\ Unpacked(Zstd(Content(n))) = Content(n)
         /\ Complete(Zstd(Content(n)))
         /\ Zstd(Content(n)) # <<>>
<1> DEFINE z == Zstd(Content(n))
           marks == {i \in 2..Len(z) : z[i] \in {Open, Close}}
<1>1. /\ z \in Seq(Int) /\ Len(z) = n + 2
      /\ z[1] = Open /\ z[n+2] = Close
      /\ \A i \in 2..n+1 : z[i] = i - 1
  BY ZstdTokens
<1> HIDE DEF z
<1>2. marks = {n + 2}
  BY <1>1 DEF Open, Close
<1>3. Min(marks) = n + 2
  BY <1>2 DEF Min
<1>4. Unpacked(z) = SubSeq(z, 2, n + 1)
  <2>1. Unpacked(z) = SubSeq(z, 2, IF marks = {} THEN Len(z) ELSE Min(marks) - 1)
    BY DEF Unpacked
  <2>2. marks # {} /\ Min(marks) - 1 = n + 1
    BY <1>2, <1>3
  <2> HIDE DEF marks
  <2> QED  BY <2>1, <2>2
<1>5. /\ SubSeq(z, 2, n + 1) \in Seq(Int) /\ Len(SubSeq(z, 2, n + 1)) = n
      /\ \A i \in 1..n : SubSeq(z, 2, n + 1)[i] = i
  <2>1. /\ SubSeq(z, 2, n + 1) \in Seq(Int)
        /\ Len(SubSeq(z, 2, n + 1)) = IF 2 <= n + 1 THEN n + 1 - 2 + 1 ELSE 0
        /\ \A i \in 1..n+1-2+1 : SubSeq(z, 2, n + 1)[i] = z[2 + i - 1]
    BY <1>1, SubSeqProperties
  <2> QED  BY <1>1, <2>1
<1>6. Content(n) \in Seq(Int) /\ Len(Content(n)) = n /\ \A i \in 1..n : Content(n)[i] = i
  BY DEF Content
<1>7. SubSeq(z, 2, n + 1) = Content(n)
  BY <1>5, <1>6, SeqEqual
<1>8. z # <<>>
  BY <1>1
<1>9. ~Broken(z)
  BY <1>1, ConcatEmptySeq, PrefixIsNotBroken, EmptySeq DEF z
<1> QED  BY <1>1, <1>4, <1>7, <1>8, <1>9 DEF z, Complete

-----------------------------------------------------------------------------

\* What the client sends
Sent == IF upload.framed THEN Zstd(content) ELSE content

\* Bytes in zstd form are said to be so, and only files are.
UploadOK == (upload.framed => upload.packed) /\ (upload.framed => upload.way = "file")

NothingRead     == pc # "stored" => step = "none"
NothingReceived == pc = "sent" => received = <<>> /\ stored = <<>>

\* What has been received and what has not make up what is sent, and the file with what
\* the compressor holds back makes up the zstd form of what has been received.
Receiving ==
  pc = "receiving" =>
    /\ upload.way = "file"
    /\ received \o rest = Sent
    /\ IF upload.packed
       THEN stored = received /\ ~Broken(received)
       ELSE stored \o pending = <<Open>> \o received

\* A file that pretends to be compressed is stored only if there is nothing of it.
FileStored ==
  pc = "stored" /\ upload.way = "file" =>
    /\ received = Sent
    /\ IF upload.packed /\ ~upload.framed
       THEN stored = <<>> /\ upload.size = 0
       ELSE stored = Zstd(content)

Reading ==
  /\ step \in {"none", "asked", "open", "reopen"} => taken = <<>>
  /\ step = "asked" => ~ask.stream
  /\ step = "reading" => taken \o left = stored
  /\ step = "ok" => taken = stored /\ Body # <<>>

\* A file is unpacked for those who do not accept zstd, unless its metadata was missing;
\* and only if it is packed.
Opened ==
  /\ step = "reopen" => ask.zstd /\ (SeemsPacked => blind)
  /\ step \in {"reading", "ok"} =>
       /\ unpacks => SeemsPacked
       /\ ~blind => (unpacks <=> SeemsPacked /\ ~ask.zstd)

\* Who reads everything at once has been told that it is not too much.
Limited ==
  upload.way = "file" /\ ~Unmarked /\ ~ask.stream
    /\ step \in {"open", "reopen", "reading", "ok"} => upload.size <= SizeLimit

StreamsEndWell ==
  upload.way = "file" /\ step \in Ended \ {"ok"} /\ ask.stream /\ faults = 0 =>
    upload.size = 0

FileInv    == UploadOK /\ NothingRead /\ NothingReceived /\ Receiving /\ FileStored
ReaderInv  == Reading /\ Opened /\ Limited /\ StreamsEndWell
ContentInv == TypeOK /\ FileInv /\ ReaderInv

\* The types of the contents, and the content by its size
LEMMA ContentType ==
  ASSUME TypeOK
  PROVE  /\ upload.size \in Nat
         /\ content = Content(upload.size)
         /\ content \in Bytes /\ Zstd(content) \in Bytes /\ <<Open>> \o content \in Bytes
         /\ <<Open>> \in Bytes /\ <<Close>> \in Bytes
         /\ Bytes \subseteq Seq(Int)
         /\ Bytes = Seq(Token)
<1>1. upload.size \in 0..MaxSize /\ MaxSize \in Nat
  BY ContentAssumption DEF TypeOK, Upload
<1>2. upload.size \in Nat /\ content = Content(upload.size)
  BY <1>1 DEF content, Content
<1>3. content \in Seq(Token)
  BY <1>1, Tokens DEF content
<1>4. <<Open>> \in Seq(Token) /\ <<Close>> \in Seq(Token)
  BY Tokens
<1>5. <<Open>> \o content \in Seq(Token)
  BY <1>3, <1>4, ConcatProperties
<1>6. Zstd(content) \in Seq(Token)
  BY <1>4, <1>5, ConcatProperties DEF Zstd
<1>7. Seq(Token) \subseteq Seq(Int)
  BY Tokens, SeqMonotonic
<1> QED  BY <1>2, <1>3, <1>4, <1>5, <1>6, <1>7 DEF Bytes

LEMMA ContentInvInit == Init => ContentInv
<1> SUFFICES ASSUME Init  PROVE ContentInv
  OBVIOUS
<1>1. TypeOK
  <2>1. upload \in Upload /\ faults \in 0..MaxFaults
    BY ContentAssumption DEF Init
  <2>2. unpacks \in BOOLEAN /\ blind \in BOOLEAN
    BY DEF Init
  <2>3. <<>> \in Bytes
    BY EmptySeq DEF Bytes
  <2> QED  BY <2>1, <2>2, <2>3 DEF Init, TypeOK, Ask
<1>2. FileInv
  <2>1. (upload.framed => upload.packed) /\ (upload.way = "json" => ~upload.framed)
    BY DEF Init
  <2>2. upload.way \in {"json", "file"}
    BY <1>1, ContentAssumption DEF TypeOK, Upload
  <2>3. pc = "sent" /\ step = "none" /\ received = <<>> /\ stored = <<>>
    BY DEF Init
  <2> QED
    BY <2>1, <2>2, <2>3
       DEF FileInv, UploadOK, NothingRead, NothingReceived, Receiving, FileStored
<1>3. ReaderInv
  BY DEF Init, ReaderInv, Reading, Opened, Limited, StreamsEndWell, Ended
<1> QED  BY <1>1, <1>2, <1>3 DEF ContentInv

\* While a document is stored nobody reads it.
LEMMA StoringLeavesReaders ==
  ASSUME ContentInv, pc \in {"sent", "receiving"}, UNCHANGED <<upload, readVars>>
  PROVE  step = "none" /\ step' = "none" /\ ReaderInv'
<1>1. step = "none" /\ step' = "none" /\ taken = <<>> /\ taken' = <<>>
  BY DEF ContentInv, FileInv, NothingRead, ReaderInv, Reading, readVars
<1> QED  BY <1>1 DEF ReaderInv, Reading, Opened, Limited, StreamsEndWell, Ended

\* And while it is read it stays as it is.
LEMMA ReadingLeavesFile ==
  ASSUME ContentInv, pc = "stored", UNCHANGED uploadVars
  PROVE  FileInv'
<1>1. pc' = "stored" /\ UNCHANGED <<upload, received, stored>>
  BY DEF uploadVars
<1>2. content' = content /\ Sent' = Sent
  BY <1>1 DEF content, Sent
<1> QED  BY <1>1, <1>2
         DEF ContentInv, FileInv, UploadOK, NothingRead, NothingReceived, Receiving, FileStored

\* Every action of the storage gives each variable a value of its type.
LEMMA StoreJsonTyped == TypeOK /\ StoreJson => TypeOK'
<1> SUFFICES ASSUME TypeOK, StoreJson  PROVE TypeOK'
  OBVIOUS
<1>1. pc' \in {"stored", "failed"} /\ received' \in Bytes /\ stored' \in Bytes
  <2>1. CASE upload.packed
    BY <2>1 DEF StoreJson, TypeOK
  <2>2. CASE ~upload.packed
    <3>1. PICK out \in {<<>>} \cup NonEmptyPrefixes(<<Open>> \o content) :
            /\ stored' = out \o Zstd(<<>>) \/ stored' = out
            /\ received' = content
            /\ pc' = "stored"
      BY <2>2 DEF StoreJson
    <3>2. out \in Seq(Token)
      BY <3>1, ContentType, CutInTwo
    <3>3. Zstd(<<>>) \in Seq(Token)
      BY ContentType, ConcatProperties, EmptySeq DEF Zstd
    <3>4. out \o Zstd(<<>>) \in Seq(Token)
      BY <3>2, <3>3, ConcatProperties
    <3> QED  BY <3>1, <3>2, <3>4, ContentType
  <2> QED  BY <2>1, <2>2
<1> QED  BY <1>1 DEF StoreJson, TypeOK, readVars

LEMMA StoreChunkTyped == TypeOK /\ StoreChunk => TypeOK'
<1> SUFFICES ASSUME TypeOK, StoreChunk  PROVE TypeOK'
  OBVIOUS
<1>1. PICK chunk \in NonEmptyPrefixes(rest) :
       /\ rest' = Without(rest, chunk)
       /\ received' = received \o chunk
       /\ IF upload.packed
          THEN /\ stored' = stored \o chunk
               /\ pc' = IF Broken(received') THEN "failed" ELSE pc
               /\ UNCHANGED pending
          ELSE \E out \in {<<>>} \cup NonEmptyPrefixes(pending \o chunk) :
                 /\ stored' = stored \o out
                 /\ pending' = Without(pending \o chunk, out)
                 /\ UNCHANGED pc
  BY DEF StoreChunk
<1>2. /\ rest \in Seq(Token) /\ pending \in Seq(Token)
      /\ received \in Seq(Token) /\ stored \in Seq(Token)
  BY DEF TypeOK, Bytes
<1>3. chunk \in Seq(Token) /\ rest' \in Seq(Token)
  BY <1>1, <1>2, CutInTwo
<1>4. received' \in Seq(Token) /\ pending \o chunk \in Seq(Token) /\ stored \o chunk \in Seq(Token)
  BY <1>1, <1>2, <1>3, ConcatProperties
<1>5. stored' \in Seq(Token) /\ pending' \in Seq(Token) /\ pc' \in {"receiving", "failed"}
  <2>1. CASE upload.packed
    BY <1>1, <1>2, <1>4, <2>1 DEF StoreChunk
  <2>2. CASE ~upload.packed
    <3>1. PICK out \in {<<>>} \cup NonEmptyPrefixes(pending \o chunk) :
            stored' = stored \o out /\ pending' = Without(pending \o chunk, out) /\ pc' = pc
      BY <1>1, <2>2
    <3>2. out \in Seq(Token) /\ pending' \in Seq(Token)
      BY <1>4, <3>1, CutInTwo
    <3>3. stored' \in Seq(Token)
      BY <1>2, <3>1, <3>2, ConcatProperties
    <3> QED  BY <3>1, <3>2, <3>3 DEF StoreChunk
  <2> QED  BY <2>1, <2>2
<1> QED  BY <1>3, <1>4, <1>5 DEF StoreChunk, TypeOK, Bytes, readVars

LEMMA FinishFileTyped == TypeOK /\ FinishFile => TypeOK'
<1> SUFFICES ASSUME TypeOK, FinishFile  PROVE TypeOK'
  OBVIOUS
<1>1. stored \in Seq(Token) /\ pending \in Seq(Token) /\ <<Close>> \in Seq(Token)
  BY ContentType DEF TypeOK, Bytes
<1>2. stored \o pending \in Seq(Token)
  BY <1>1, ConcatProperties
<1>3. stored \o pending \o <<Close>> \in Seq(Token)
  BY <1>1, <1>2, ConcatProperties
<1>4. stored' \in Bytes /\ pending' \in Bytes
  BY <1>1, <1>3, EmptySeq DEF FinishFile, Bytes
<1> QED  BY <1>4 DEF FinishFile, TypeOK, readVars

LEMMA ReadChunkTyped == TypeOK /\ ReadChunk => TypeOK'
<1> SUFFICES ASSUME TypeOK, ReadChunk  PROVE TypeOK'
  OBVIOUS
<1>1. PICK chunk \in NonEmptyPrefixes(left) :
        left' = Without(left, chunk) /\ taken' = taken \o chunk
  BY DEF ReadChunk
<1>2. left \in Seq(Token) /\ taken \in Seq(Token)
  BY DEF TypeOK, Bytes
<1>3. chunk \in Seq(Token) /\ left' \in Seq(Token)
  BY <1>1, <1>2, CutInTwo
<1>4. taken' \in Seq(Token)
  BY <1>1, <1>2, <1>3, ConcatProperties
<1>5. step' \in {"reading"} \cup Ended
  BY DEF ReadChunk, Ended
<1> QED  BY <1>3, <1>4, <1>5 DEF ReadChunk, TypeOK, Bytes, uploadVars

LEMMA OpensTyped ==
  ASSUME TypeOK, NEW packed \in BOOLEAN, Opens(packed),
         blind' \in BOOLEAN, faults' \in 0..MaxFaults
  PROVE  TypeOK'
<1>1. step' \in {"failed", "reopen", "reading"} /\ left' \in Bytes
  BY DEF Opens, TypeOK
<1>2. Unpacks(packed) \in BOOLEAN
  BY DEF Unpacks
<1>3. unpacks' \in BOOLEAN
  BY <1>2 DEF Opens, TypeOK
<1>4. UNCHANGED <<upload, pc, rest, pending, received, stored, ask, taken>>
  BY DEF Opens, uploadVars
<1> QED  BY <1>1, <1>3, <1>4 DEF TypeOK, Ended

LEMMA ContentTyped ==
  TypeOK /\ (Store \/ StoreFails \/ StartRead \/ Read \/ OpenBlindly \/ ReadFails \/ NextRead)
    => TypeOK'
<1> SUFFICES ASSUME TypeOK,
                    Store \/ StoreFails \/ StartRead \/ Read \/ OpenBlindly \/ ReadFails
                      \/ NextRead
             PROVE  TypeOK'
  OBVIOUS
<1>1. CASE StoreJson
  BY <1>1, StoreJsonTyped
<1>2. CASE StartFile
  BY <1>2, ContentType, EmptySeq DEF StartFile, TypeOK, readVars
<1>3. CASE StoreChunk
  BY <1>3, StoreChunkTyped
<1>4. CASE FinishFile
  BY <1>4, FinishFileTyped
<1>5. CASE StoreFails
  <2>1. faults' \in 0..MaxFaults
    BY <1>5, ContentAssumption DEF StoreFails, TypeOK
  <2>2. <<>> \in Bytes
    BY EmptySeq DEF Bytes
  <2> QED  BY <1>5, <2>1, <2>2 DEF StoreFails, TypeOK, readVars
<1>6. CASE StartRead
  BY <1>6 DEF StartRead, TypeOK, uploadVars
<1>7. CASE CheckSize
  <2>1. step' \in {"failed", "too large", "open"}
    BY <1>7 DEF CheckSize
  <2> QED  BY <1>7, <2>1 DEF CheckSize, TypeOK, uploadVars, Ended
<1>8. CASE OpenFile
  <2>1. SeemsPacked \in BOOLEAN
    BY DEF TypeOK, Upload, SeemsPacked
  <2>2. Opens(SeemsPacked) /\ blind' \in BOOLEAN /\ faults' \in 0..MaxFaults
    BY <1>8 DEF OpenFile, TypeOK
  <2> QED  BY <2>1, <2>2, OpensTyped
<1>9. CASE ReadChunk
  BY <1>9, ReadChunkTyped
<1>10. CASE FinishRead
  BY <1>10 DEF FinishRead, TypeOK, uploadVars, Ended
<1>11. CASE ReadFails
  <2>1. faults \in 0..MaxFaults /\ MaxFaults \in Nat
    BY ContentAssumption DEF TypeOK
  <2>2. faults < MaxFaults /\ faults' = faults + 1
    BY <1>11 DEF ReadFails
  <2>3. faults' \in 0..MaxFaults
    BY <2>1, <2>2
  <2>4. step' \in Ended
    BY <1>11 DEF ReadFails, Ended
  <2> QED  BY <1>11, <2>3, <2>4 DEF ReadFails, TypeOK, uploadVars
<1>12. CASE NextRead
  BY <1>12, EmptySeq DEF NextRead, TypeOK, uploadVars, Ask, Bytes
<1>13. CASE OpenBlindly
  <2>1. faults \in 0..MaxFaults /\ faults < MaxFaults /\ MaxFaults \in Nat
    BY <1>13, ContentAssumption DEF TypeOK, OpenBlindly
  <2>2. faults' = faults + 1 /\ blind' = TRUE
    BY <1>13 DEF OpenBlindly
  <2>3. Opens(FALSE)
    BY <1>13 DEF OpenBlindly
  <2>4. faults' \in 0..MaxFaults /\ blind' \in BOOLEAN
    BY <2>1, <2>2
  <2> QED  BY <2>3, <2>4, OpensTyped
<1> QED  BY <1>1, <1>2, <1>3, <1>4, <1>5, <1>6, <1>7, <1>8, <1>9, <1>10, <1>11, <1>12, <1>13
         DEF Store, Read

-----------------------------------------------------------------------------

LEMMA StoreJsonKeeps == ASSUME ContentInv, StoreJson  PROVE FileInv'
<1>1. /\ pc = "sent" /\ upload.way = "json" /\ upload' = upload /\ step' = step
      /\ pc' \in {"stored", "failed"}
  BY DEF StoreJson, readVars
<1>2. UploadOK' /\ step' = "none"
  BY <1>1 DEF ContentInv, FileInv, UploadOK, NothingRead
<1> QED  BY <1>1, <1>2 DEF FileInv, NothingRead, NothingReceived, Receiving, FileStored

LEMMA StartFileKeeps == ASSUME ContentInv, StartFile  PROVE FileInv'
<1>1. /\ pc = "sent" /\ upload.way = "file" /\ pc' = "receiving"
      /\ rest' = Sent
      /\ pending' = IF upload.packed THEN <<>> ELSE <<Open>>
      /\ UNCHANGED <<upload, received, stored, step>>
  BY DEF StartFile, readVars, Sent
<1>2. received = <<>> /\ stored = <<>> /\ UploadOK /\ step = "none"
  BY <1>1 DEF ContentInv, FileInv, NothingReceived, NothingRead
<1>3. Sent' = Sent /\ Sent \in Seq(Token) /\ <<Open>> \in Seq(Token)
  BY <1>1, ContentType DEF ContentInv, Sent, content
<1>4. <<>> \o Sent = Sent /\ <<>> \o <<Open>> = <<Open>> /\ <<Open>> \o <<>> = <<Open>>
  BY <1>3, ConcatEmptySeq
<1>5. Receiving'
  BY <1>1, <1>2, <1>3, <1>4 DEF Receiving, Broken
<1> QED
  BY <1>1, <1>2, <1>5 DEF FileInv, UploadOK, NothingRead, NothingReceived, FileStored

LEMMA StoreChunkKeeps == ASSUME ContentInv, StoreChunk  PROVE FileInv'
<1>1. PICK chunk \in NonEmptyPrefixes(rest) :
       /\ rest' = Without(rest, chunk)
       /\ received' = received \o chunk
       /\ IF upload.packed
          THEN /\ stored' = stored \o chunk
               /\ pc' = IF Broken(received') THEN "failed" ELSE pc
               /\ UNCHANGED pending
          ELSE \E out \in {<<>>} \cup NonEmptyPrefixes(pending \o chunk) :
                 /\ stored' = stored \o out
                 /\ pending' = Without(pending \o chunk, out)
                 /\ UNCHANGED pc
  BY DEF StoreChunk
<1>2. pc = "receiving" /\ UNCHANGED <<upload, step>> /\ pc' \in {"receiving", "failed"}
  <2>1. pc = "receiving" /\ UNCHANGED <<upload, step>>
    BY DEF StoreChunk, readVars
  <2> QED  BY <1>1, <2>1
<1>3. /\ rest \in Seq(Token) /\ pending \in Seq(Token)
      /\ received \in Seq(Token) /\ stored \in Seq(Token) /\ <<Open>> \in Seq(Token)
  BY ContentType DEF ContentInv, TypeOK, Bytes
<1>4. /\ UploadOK /\ step = "none" /\ upload.way = "file"
      /\ received \o rest = Sent
      /\ IF upload.packed THEN stored = received
         ELSE stored \o pending = <<Open>> \o received
  BY <1>2 DEF ContentInv, FileInv, NothingRead, Receiving
<1>5. received' \o rest' = Sent'
  <2>1. Sent' = Sent
    BY <1>2 DEF Sent, content
  <2> QED  BY <1>1, <1>3, <1>4, <2>1, MovePrefix
<1>6. ASSUME upload.packed, pc' = "receiving"  PROVE stored' = received' /\ ~Broken(received')
  BY <1>1, <1>4, <1>6
<1>7. ASSUME ~upload.packed  PROVE stored' \o pending' = <<Open>> \o received'
  <2>1. PICK out \in {<<>>} \cup NonEmptyPrefixes(pending \o chunk) :
          stored' = stored \o out /\ pending' = Without(pending \o chunk, out)
    BY <1>1, <1>7
  <2>2. chunk \in Seq(Token)
    BY <1>3, CutInTwo
  <2>3. pending \o chunk \in Seq(Token)
    BY <1>3, <2>2, ConcatProperties
  <2>4. stored' \o pending' = stored \o (pending \o chunk)
    BY <1>3, <2>1, <2>3, MovePrefix
  <2>5. stored \o (pending \o chunk) = (stored \o pending) \o chunk
    BY <1>3, <2>2, ConcatAssociative, SMT
  <2> DEFINE o == <<Open>>
  <2>6. o \in Seq(Token) /\ received \in Seq(Token)
    BY <1>3
  <2>7. (stored \o pending) \o chunk = (o \o received) \o chunk
    BY <1>4, <1>7
  <2> HIDE DEF o
  <2>8. (o \o received) \o chunk = o \o (received \o chunk)
    BY <2>2, <2>6, ConcatAssociative, SMT
  <2> QED  BY <1>1, <2>4, <2>5, <2>7, <2>8 DEF o
<1>8. Receiving'
  BY <1>2, <1>4, <1>5, <1>6, <1>7 DEF Receiving
<1> QED
  BY <1>2, <1>4, <1>8 DEF FileInv, UploadOK, NothingRead, NothingReceived, FileStored

LEMMA FinishFileKeeps == ASSUME ContentInv, FinishFile  PROVE FileInv'
<1>1. /\ pc = "receiving" /\ rest = <<>> /\ pc' = "stored"
      /\ stored' = IF upload.packed THEN stored ELSE stored \o pending \o <<Close>>
      /\ UNCHANGED <<upload, received, step>>
  BY DEF FinishFile, readVars
<1>2. /\ UploadOK /\ upload.way = "file"
      /\ received \o rest = Sent
      /\ IF upload.packed THEN stored = received /\ ~Broken(received)
         ELSE stored \o pending = <<Open>> \o received
  BY <1>1 DEF ContentInv, FileInv, Receiving
<1>3. received = Sent
  BY <1>1, <1>2, ConcatEmptySeq DEF ContentInv, TypeOK, Bytes
<1>4. UNCHANGED <<content, Sent>>
  BY <1>1 DEF Sent, content
<1>5. CASE upload.packed /\ upload.framed
  BY <1>1, <1>2, <1>3, <1>4, <1>5 DEF FileInv, UploadOK, NothingRead, NothingReceived, Receiving, FileStored, Sent
<1>6. CASE upload.packed /\ ~upload.framed
  <2>1. stored' = content /\ ~Broken(content)
    BY <1>1, <1>2, <1>3, <1>6 DEF Sent
  <2>2. upload.size \in Nat
    BY ContentType DEF ContentInv
  <2>3. upload.size = 0
    <3> SUFFICES ASSUME upload.size # 0  PROVE FALSE
      OBVIOUS
    <3>1. 1 \in 1..upload.size
      BY <2>2
    <3>2. content[1] = 1 /\ content # <<>>
      BY <3>1 DEF content
    <3> QED  BY <2>1, <3>2 DEF Broken, Open
  <2>4. stored' = <<>>
    BY <2>1, <2>3 DEF content
  <2> QED  BY <1>1, <1>2, <1>3, <1>4, <1>6, <2>3, <2>4
           DEF FileInv, UploadOK, NothingRead, NothingReceived, Receiving, FileStored
<1>7. CASE ~upload.packed
  <2>1. ~upload.framed
    BY <1>2, <1>7 DEF UploadOK
  <2>2. stored \o pending = <<Open>> \o content
    BY <1>2, <1>3, <1>7, <2>1 DEF Sent
  <2>3. stored' = Zstd(content)
    BY <1>1, <1>7, <2>2 DEF Zstd
  <2> QED  BY <1>1, <1>2, <1>3, <1>4, <1>7, <2>3
           DEF FileInv, UploadOK, NothingRead, NothingReceived, Receiving, FileStored
<1> QED  BY <1>5, <1>6, <1>7

LEMMA StoreFailsKeeps == ASSUME ContentInv, StoreFails  PROVE FileInv'
<1>1. pc # "stored" /\ pc' = "failed" /\ UNCHANGED <<upload, step>>
  BY DEF StoreFails, readVars
<1> QED
  BY <1>1 DEF ContentInv, FileInv, UploadOK, NothingRead, NothingReceived, Receiving, FileStored

\* A stored file is the zstd form of the content, or there is nothing of it.  The local
\* store recognises it by its first bytes, and MinIO if it has been told so.
LEMMA StoredFile ==
  ASSUME ContentInv, pc = "stored", upload.way = "file"
  PROVE  /\ upload.size \in Nat
         /\ \/ stored = Zstd(Content(upload.size)) /\ ~(upload.packed /\ ~upload.framed)
            \/ stored = <<>> /\ upload.size = 0 /\ upload.packed
         /\ stored # <<>> /\ ~Unmarked => SeemsPacked
         /\ stored # <<>> /\ upload.store = "local" => SeemsPacked
         /\ stored = <<>> /\ upload.packed => ~SeemsPacked
<1>1. /\ upload.size \in Nat /\ content = Content(upload.size)
      /\ upload.store \in {"local", "minio"}
  BY ContentType, ContentAssumption DEF ContentInv, TypeOK, Upload
<1>2. \/ stored = Zstd(Content(upload.size)) /\ ~(upload.packed /\ ~upload.framed)
      \/ stored = <<>> /\ upload.size = 0 /\ upload.packed
  BY <1>1 DEF ContentInv, FileInv, FileStored
<1>3. Zstd(Content(upload.size))[1] = Open
  BY <1>1, ZstdTokens
<1> QED  BY <1>1, <1>2, <1>3 DEF SeemsPacked, Unmarked

LEMMA StartReadKeeps == ASSUME ContentInv, StartRead  PROVE ReaderInv'
<1>1. /\ step = "none" /\ step' = IF ask'.stream THEN "open" ELSE "asked"
      /\ UNCHANGED <<upload, stored, taken, left, faults>>
  BY DEF StartRead, uploadVars
<1>2. taken = <<>>
  BY <1>1 DEF ContentInv, ReaderInv, Reading
<1> QED  BY <1>1, <1>2 DEF ReaderInv, Reading, Opened, Limited, StreamsEndWell, Ended

LEMMA CheckSizeKeeps == ASSUME ContentInv, CheckSize  PROVE ReaderInv'
<1>1. /\ step = "asked" /\ UNCHANGED <<uploadVars, upload, stored, ask, left, taken, faults>>
      /\ step' \in {"failed", "too large", "open"}
      /\ step' = "open" => \E n \in FileSizes : ~(n > SizeLimit)
  BY DEF CheckSize, uploadVars
<1>2. taken = <<>> /\ ~ask.stream /\ pc = "stored"
  BY <1>1 DEF ContentInv, FileInv, NothingRead, ReaderInv, Reading
<1>3. ASSUME upload.way = "file", ~Unmarked  PROVE FileSizes = {upload.size}
  <2>1. /\ upload.size \in Nat
        /\ \/ stored = Zstd(Content(upload.size))
           \/ stored = <<>> /\ upload.size = 0
        /\ stored # <<>> => SeemsPacked
    BY <1>2, <1>3, StoredFile
  <2>2. Unpacked(Zstd(Content(upload.size))) = Content(upload.size) /\ Zstd(Content(upload.size)) # <<>>
    BY <2>1, UnpackedZstd
  <2>3. Len(Content(upload.size)) = upload.size
    BY <2>1 DEF Content
  <2>4. CASE upload.store = "local"
    <3>1. stored = <<>> => ~SeemsPacked
      BY <2>4 DEF SeemsPacked
    <3>2. LocalSize = upload.size
      BY <2>1, <2>2, <2>3, <3>1 DEF LocalSize
    <3> QED  BY <2>4, <3>2 DEF FileSizes
  <2>5. CASE upload.store # "local"
    <3>1. upload.store = "minio"
      BY <2>5, ContentAssumption DEF ContentInv, TypeOK, Upload
    <3>2. SeemsPacked
      BY <1>3, <2>5, <3>1 DEF SeemsPacked, Unmarked
    <3> QED  BY <2>5, <3>2 DEF FileSizes, MinioSizes
  <2> QED  BY <2>4, <2>5
<1>4. ASSUME upload.way = "file", ~Unmarked, step' = "open"  PROVE upload.size <= SizeLimit
  <2>1. ~(upload.size > SizeLimit)
    BY <1>1, <1>3, <1>4
  <2> QED  BY <2>1, ContentType, ContentAssumption DEF ContentInv
<1>5. Limited'
  BY <1>1, <1>4 DEF Limited, Unmarked
<1> QED  BY <1>1, <1>2, <1>5 DEF ReaderInv, Reading, Opened, StreamsEndWell, Ended

\* Opening a file keeps the invariant for what the store finds, and on MinIO also if it
\* finds nothing and remembers that.
LEMMA OpensKeeps ==
  ASSUME ContentInv, NEW packed \in BOOLEAN, Opens(packed),
         \/ packed = SeemsPacked /\ UNCHANGED <<blind, faults>>
         \/ packed = FALSE /\ upload.store = "minio" /\ blind' = TRUE
  PROVE  ReaderInv'
<1>1. /\ step \in {"open", "reopen"} /\ UNCHANGED <<upload, stored, ask, taken>>
      /\ SeemsPacked' = SeemsPacked
  BY DEF Opens, uploadVars, SeemsPacked
<1>2. /\ taken = <<>> /\ pc = "stored" /\ Limited
      /\ step = "reopen" => ask.zstd /\ (SeemsPacked => blind)
  BY <1>1 DEF ContentInv, FileInv, NothingRead, ReaderInv, Reading, Opened
<1>3. <<>> \o stored = stored
  BY ConcatEmptySeq DEF ContentInv, TypeOK, Bytes
<1>4. CASE step = "open" /\ ask.zstd /\ ~packed
  <2>1. step' = IF upload.store = "local" THEN "failed" ELSE "reopen"
    BY <1>4 DEF Opens
  <2>2. step' = "failed" => upload.store = "local" /\ ~SeemsPacked
    BY <1>4, <2>1
  <2>3. ASSUME upload.way = "file", step' = "failed"  PROVE upload.size = 0
    <3>1. /\ stored = <<>> /\ upload.size \in Nat
          /\ stored = Zstd(Content(upload.size)) \/ upload.size = 0
      BY <1>2, <2>2, <2>3, StoredFile
    <3> QED  BY <3>1, UnpackedZstd
  <2>4. step' = "reopen" => ask.zstd /\ (SeemsPacked => blind')
    BY <1>4
  <2>5. Limited'
    BY <1>1, <1>2, <2>1 DEF Limited, Unmarked
  <2> QED  BY <1>1, <1>2, <2>1, <2>3, <2>4, <2>5
           DEF ReaderInv, Reading, Opened, StreamsEndWell, Ended
<1>5. CASE ~(step = "open" /\ ask.zstd /\ ~packed)
  <2>1. step' = "reading" /\ unpacks' = Unpacks(packed) /\ left' = stored
    BY <1>5 DEF Opens
  <2>2. /\ unpacks' => SeemsPacked
        /\ ~blind' => (unpacks' <=> SeemsPacked /\ ~ask.zstd)
    <3>1. unpacks' = (packed /\ ~(ask.zstd /\ step = "open"))
      BY <2>1 DEF Unpacks
    <3>2. CASE packed = SeemsPacked /\ blind' = blind
      <4>1. CASE step = "open"
        BY <1>5, <3>1, <3>2, <4>1
      <4>2. CASE step = "reopen"
        BY <1>2, <3>1, <3>2, <4>2
      <4> QED  BY <1>1, <4>1, <4>2
    <3>3. CASE packed = FALSE /\ blind' = TRUE
      BY <3>1, <3>3
    <3> QED  BY <3>2, <3>3
  <2>3. Limited'
    BY <1>1, <1>2, <2>1 DEF Limited, Unmarked
  <2> QED  BY <1>1, <1>2, <1>3, <2>1, <2>2, <2>3
           DEF ReaderInv, Reading, Opened, StreamsEndWell, Ended
<1> QED  BY <1>4, <1>5

LEMMA OpenFileKeeps == ASSUME ContentInv, OpenFile \/ OpenBlindly  PROVE ReaderInv'
<1>1. SeemsPacked \in BOOLEAN
  BY DEF ContentInv, TypeOK, Upload, SeemsPacked
<1>2. CASE OpenFile
  BY <1>1, <1>2, OpensKeeps DEF OpenFile
<1>3. CASE OpenBlindly
  BY <1>3, OpensKeeps DEF OpenBlindly
<1> QED  BY <1>2, <1>3

LEMMA ReadChunkKeeps == ASSUME ContentInv, ReadChunk  PROVE ReaderInv'
<1>1. PICK chunk \in NonEmptyPrefixes(left) :
        left' = Without(left, chunk) /\ taken' = taken \o chunk
  BY DEF ReadChunk
<1>2. /\ step = "reading" /\ left # <<>>
      /\ UNCHANGED <<upload, stored, ask, unpacks, blind, faults>>
      /\ \/ step' \in {"broken off", "failed"} /\ Broken(taken')
         \/ step' = "reading"
  BY DEF ReadChunk, uploadVars
<1>3. /\ pc = "stored" /\ Limited /\ taken \o left = stored
      /\ left \in Seq(Token) /\ taken \in Seq(Token)
  BY <1>2 DEF ContentInv, TypeOK, Bytes, FileInv, NothingRead, ReaderInv, Reading
<1>4. taken' \o left' = stored
  BY <1>1, <1>3, MovePrefix
<1>5. ASSUME upload.way = "file", Broken(taken')  PROVE upload.size = 0
  <2>1. upload.size \in Nat /\ (stored = Zstd(Content(upload.size)) \/ upload.size = 0)
    BY <1>3, <1>5, StoredFile
  <2>2. taken' \in Seq(Int) /\ left' \in Seq(Int)
    BY <1>2, ReadChunkTyped, ContentType, Tokens, SeqMonotonic DEF ContentInv, TypeOK, Bytes
  <2> QED  BY <1>4, <1>5, <2>1, <2>2, PrefixIsNotBroken
<1>6. Reading' /\ Opened'
  BY <1>2, <1>4 DEF ContentInv, ReaderInv, Reading, Opened, SeemsPacked
<1>7. Limited'
  BY <1>2, <1>3 DEF Limited, Unmarked
<1>8. StreamsEndWell'
  BY <1>2, <1>5 DEF StreamsEndWell, Ended
<1> QED  BY <1>6, <1>7, <1>8 DEF ReaderInv

LEMMA FinishReadKeeps == ASSUME ContentInv, FinishRead  PROVE ReaderInv'
<1>1. /\ step = "reading" /\ left = <<>>
      /\ UNCHANGED <<upload, stored, ask, unpacks, blind, taken, faults>>
      /\ step' \in {"failed", "ok"}
      /\ step' = "ok" => Body # <<>>
      /\ step' = "failed" /\ ask.stream => Body = <<>>
  BY DEF FinishRead, uploadVars
<1>2. /\ pc = "stored" /\ Limited /\ taken \o left = stored /\ taken \in Seq(Token)
  BY <1>1 DEF ContentInv, TypeOK, Bytes, FileInv, NothingRead, ReaderInv, Reading
<1>3. taken = stored
  BY <1>1, <1>2, ConcatEmptySeq
<1>4. Body' = Body
  BY <1>1 DEF Body
<1>5. ASSUME upload.way = "file", Body = <<>>  PROVE upload.size = 0
  <2>1. upload.size \in Nat /\ (stored = Zstd(Content(upload.size)) \/ upload.size = 0)
    BY <1>2, <1>5, StoredFile
  <2>2. Unpacked(Zstd(Content(upload.size))) = Content(upload.size) /\ Zstd(Content(upload.size)) # <<>>
    BY <2>1, UnpackedZstd
  <2>3. Len(Content(upload.size)) = upload.size
    BY <2>1 DEF Content
  <2>4. upload.size # 0 => Body \in {Zstd(Content(upload.size)), Content(upload.size)}
    BY <1>3, <2>1, <2>2 DEF Body
  <2> QED  BY <1>5, <2>2, <2>3, <2>4
<1>6. Reading' /\ Opened'
  BY <1>1, <1>3, <1>4 DEF ContentInv, ReaderInv, Reading, Opened, SeemsPacked
<1>7. Limited'
  BY <1>1, <1>2 DEF Limited, Unmarked
<1>8. StreamsEndWell'
  BY <1>1, <1>5 DEF StreamsEndWell, Ended
<1> QED  BY <1>6, <1>7, <1>8 DEF ReaderInv

LEMMA ReadFailsKeeps == ASSUME ContentInv, ReadFails  PROVE ReaderInv'
<1>1. faults' = faults + 1 /\ step' \in {"broken off", "failed"}
  BY DEF ReadFails
<1>2. faults \in Nat
  BY ContentAssumption DEF ContentInv, TypeOK
<1>3. faults + 1 # 0
  BY <1>2
<1> QED  BY <1>1, <1>3 DEF ReaderInv, Reading, Opened, Limited, StreamsEndWell, Ended

\* Each action of the storage preserves the invariant.
LEMMA ContentKeeps ==
  ASSUME ContentInv, Store \/ StoreFails \/ StartRead \/ Read \/ OpenBlindly \/ ReadFails \/ NextRead
  PROVE  ContentInv'
<1>1. TypeOK'
  BY ContentTyped DEF ContentInv
<1>2. CASE Store \/ StoreFails
  <2>1. pc \in {"sent", "receiving"} /\ UNCHANGED <<upload, readVars>>
    BY <1>2 DEF Store, StoreJson, StartFile, StoreChunk, FinishFile, StoreFails
  <2>2. ReaderInv'
    BY <2>1, StoringLeavesReaders
  <2>3. FileInv'
    BY <1>2, StoreJsonKeeps, StartFileKeeps, StoreChunkKeeps, FinishFileKeeps, StoreFailsKeeps
       DEF Store
  <2> QED  BY <1>1, <2>2, <2>3 DEF ContentInv
<1>3. CASE StartRead \/ Read \/ OpenBlindly \/ ReadFails \/ NextRead
  <2>1. pc = "stored" /\ UNCHANGED uploadVars
    <3>1. UNCHANGED uploadVars /\ (pc = "stored" \/ step # "none")
      BY <1>3 DEF Read, StartRead, CheckSize, OpenFile, OpenBlindly, Opens, ReadChunk,
                  FinishRead, ReadFails, NextRead, Ended
    <3> QED  BY <3>1 DEF ContentInv, FileInv, NothingRead
  <2>2. FileInv'
    BY <2>1, ReadingLeavesFile
  <2>3. NextRead => ReaderInv'
    BY DEF NextRead, ReaderInv, Reading, Opened, Limited, StreamsEndWell, Ended
  <2>4. ReaderInv'
    BY <1>3, <2>3, StartReadKeeps, CheckSizeKeeps, OpenFileKeeps, ReadChunkKeeps,
       FinishReadKeeps, ReadFailsKeeps DEF Read
  <2> QED  BY <1>1, <2>2, <2>4 DEF ContentInv
<1> QED  BY <1>2, <1>3

LEMMA ContentStays == ASSUME ContentInv, UNCHANGED vars  PROVE ContentInv'
<1>1. TypeOK'
  BY DEF ContentInv, vars, TypeOK
<1>2. UNCHANGED <<content, Sent, Body, SeemsPacked, Unmarked>>
  BY DEF vars, content, Sent, Body, SeemsPacked, Unmarked
<1>3. FileInv'
  BY <1>2 DEF ContentInv, vars, FileInv, UploadOK, NothingRead, NothingReceived, Receiving, FileStored
<1>4. ReaderInv'
  BY <1>2 DEF ContentInv, vars, ReaderInv, Reading, Opened, Limited, StreamsEndWell
<1> QED  BY <1>1, <1>3, <1>4 DEF ContentInv

-----------------------------------------------------------------------------

\* What an answer to the reading of a file has that ended well
LEMMA AnswerHasContent ==
  ASSUME ContentInv, step = "ok", upload.way = "file"
  PROVE  /\ content = Content(upload.size) /\ upload.size \in Nat
         /\ Body \in {Content(upload.size), Zstd(Content(upload.size))}
         /\ ~blind /\ ask.zstd => Body = Zstd(Content(upload.size))
         /\ ~blind /\ ~ask.zstd /\ ~Unmarked => Body = Content(upload.size)
<1>1. content = Content(upload.size) /\ upload.size \in Nat
  BY ContentType DEF ContentInv
<1>2. /\ pc = "stored" /\ taken = stored /\ Body # <<>>
      /\ unpacks => SeemsPacked
      /\ ~blind => (unpacks <=> SeemsPacked /\ ~ask.zstd)
  <2>1. pc = "stored" /\ taken = stored /\ Body # <<>>
    BY DEF ContentInv, FileInv, NothingRead, ReaderInv, Reading
  <2>2. Opened /\ step \in {"reading", "ok"}
    BY DEF ContentInv, ReaderInv
  <2> QED  BY <2>1, <2>2 DEF Opened
<1>3. /\ \/ stored = Zstd(Content(upload.size))
         \/ stored = <<>> /\ upload.packed
      /\ stored # <<>> /\ ~Unmarked => SeemsPacked
      /\ stored = <<>> /\ upload.packed => ~SeemsPacked
  BY <1>2, StoredFile
<1>4. stored = Zstd(Content(upload.size)) /\ stored # <<>>
  <2>1. stored = <<>> /\ upload.packed => Body = taken
    BY <1>2, <1>3 DEF Body
  <2>2. stored = Zstd(Content(upload.size))
    BY <1>2, <1>3, <2>1
  <2> QED  BY <1>1, <2>2, UnpackedZstd
<1>5. Unpacked(stored) = Content(upload.size)
  BY <1>1, <1>4, UnpackedZstd
<1> QED  BY <1>1, <1>2, <1>3, <1>4, <1>5 DEF Body

LEMMA FileIsHashed == ContentInv => HashIsOfStoredFile
<1> SUFFICES ASSUME ContentInv, pc = "stored", upload.way = "file", upload.packed => upload.framed
             PROVE  Complete(stored) /\ Unpacked(stored) = Hashed /\ Hashed = content
  BY DEF HashIsOfStoredFile
<1>1. content = Content(upload.size) /\ upload.size \in Nat
  BY ContentType DEF ContentInv
<1>2. stored = Zstd(content) /\ received = Sent /\ UploadOK
  BY DEF ContentInv, FileInv, FileStored
<1>3. Complete(Zstd(content)) /\ Unpacked(Zstd(content)) = content
  BY <1>1, UnpackedZstd
<1>4. Hashed = content
  BY <1>2, <1>3 DEF Hashed, Sent, UploadOK
<1> QED  BY <1>2, <1>3, <1>4

LEMMA FileIsDownloaded == ContentInv => DownloadReturnsUpload
<1> SUFFICES ASSUME ContentInv, upload.way = "file"
             PROVE  /\ step = "ok" /\ ask.use = "download" =>
                         /\ Body = content \/ (Complete(Body) /\ Unpacked(Body) = content)
                         /\ ~blind /\ ~(Unmarked /\ ~ask.zstd) =>
                              ClientReads = content /\ (ask.zstd => Complete(Body))
                    /\ step \in Ended \ {"ok"} /\ ask.stream /\ faults = 0 => upload.size = 0
  BY DEF DownloadReturnsUpload
<1>1. ASSUME step = "ok"
      PROVE  /\ Body = content \/ (Complete(Body) /\ Unpacked(Body) = content)
             /\ ~blind /\ ~(Unmarked /\ ~ask.zstd) =>
                  ClientReads = content /\ (ask.zstd => Complete(Body))
  <2>1. /\ content = Content(upload.size) /\ upload.size \in Nat
        /\ Body \in {Content(upload.size), Zstd(Content(upload.size))}
        /\ ~blind /\ ask.zstd => Body = Zstd(Content(upload.size))
        /\ ~blind /\ ~ask.zstd /\ ~Unmarked => Body = Content(upload.size)
    BY <1>1, AnswerHasContent
  <2>2. /\ Unpacked(Zstd(Content(upload.size))) = Content(upload.size)
        /\ Complete(Zstd(Content(upload.size)))
    BY <2>1, UnpackedZstd
  <2> QED  BY <2>1, <2>2 DEF ClientReads
<1>2. step \in Ended \ {"ok"} /\ ask.stream /\ faults = 0 => upload.size = 0
  BY DEF ContentInv, ReaderInv, StreamsEndWell
<1> QED  BY <1>1, <1>2

-----------------------------------------------------------------------------
(* The walk through the provenance graph *)

\* What is in the queue
Waiting == {queue[i] : i \in DOMAIN queue}

\* Nothing has been read, or nothing has been visited
BeforeReading ==
  phase \in {"idle", "elements"} =>
    read = 0 /\ node_map = {} /\ node_relations = [n \in Names |-> {}]

BeforeWalking ==
  phase \in {"idle", "elements", "relations"} =>
    visited = {} /\ result_nodes = {} /\ result_relations = {}

\* A node's links are those of relations that it is an end of.
LinksTrue ==
  \A n \in Names : \A l \in node_relations[n] :
    /\ l.source = n
    /\ l.relation \in 1..read
    /\ Ends(l.relation) = {n, l.target}
    /\ {n, l.target} \subseteq node_map

FiniteLinks == \A n \in Names : IsFiniteSet(node_relations[n])

\* Both ends of a relation know of it.
LinkedBothWays ==
  \A i \in Kept : \A n \in Ends(i) : \E l \in node_relations[n] : l.relation = i

\* What has been visited and what still will be cover the elements asked for and the
\* neighbours of the answer, and belong to every closed set with those elements.
Covered ==
  phase \in {"walk", "answered"} =>
    /\ Asked \subseteq visited \cup Waiting
    /\ \A n \in result_nodes : \A l \in Followed(n) : l.target \in visited \cup Waiting
    /\ result_nodes = visited \cap node_map

NoMoreThanNeeded ==
  phase \in {"walk", "answered"} =>
    \A S \in SUBSET Names : Asked \cap node_map \subseteq S /\ Closed(S) =>
      (visited \cup Waiting) \cap node_map \subseteq S

RelationsOfNodes ==
  \A i \in 1..MaxRelations :
    i \in result_relations <=> \E n \in result_nodes : \E l \in Followed(n) : l.relation = i

AnsweredAtEnd == phase = "answered" => queue = <<>>

GraphInv ==
  /\ GraphTypeOK /\ BeforeReading /\ BeforeWalking
  /\ LinksTrue /\ FiniteLinks /\ LinkedBothWays
  /\ Covered /\ NoMoreThanNeeded /\ RelationsOfNodes /\ AnsweredAtEnd

LEMMA GraphInvInit == GraphInit => GraphInv
<1> SUFFICES ASSUME GraphInit PROVE GraphInv
  OBVIOUS
<1>1. GraphTypeOK
  BY SubgraphAssumption DEF GraphInit, GraphTypeOK, Names, Directions
<1>2. BeforeReading /\ BeforeWalking /\ LinksTrue /\ Covered /\ NoMoreThanNeeded /\ AnsweredAtEnd
  BY DEF GraphInit, BeforeReading, BeforeWalking, LinksTrue, Covered, NoMoreThanNeeded, AnsweredAtEnd
<1>3. LinkedBothWays
  BY DEF GraphInit, LinkedBothWays, Kept
<1>4. RelationsOfNodes
  BY DEF GraphInit, RelationsOfNodes
<1>5. FiniteLinks
  BY FS_EmptySet DEF GraphInit, FiniteLinks
<1> QED  BY <1>1, <1>2, <1>3, <1>4, <1>5 DEF GraphInv

LEMMA RequestKeeps ==
  ASSUME GraphInv, Request
  PROVE  GraphInv'
<1> USE DEF Request
<1>1. GraphTypeOK'
  <2>1. \A S, n : UpTo(S, n) \subseteq Seq(S)
    BY DEF UpTo
  <2>2. relations' \in Seq(Relation) /\ Len(relations') <= MaxRelations
    BY <2>1, SubgraphAssumption DEF UpTo
  <2>3. read' = 0 /\ Len(relations') \in Nat
    BY <2>2 DEF GraphInv, BeforeReading
  <2>4. asked' \in Seq(Ids)
    BY <2>1
  <2> QED  BY <2>2, <2>3, <2>4 DEF GraphInv, GraphTypeOK, BeforeReading
<1>2. (BeforeReading /\ BeforeWalking /\ LinksTrue /\ FiniteLinks /\ Covered /\ NoMoreThanNeeded /\ AnsweredAtEnd)'
  BY DEF GraphInv, BeforeReading, BeforeWalking, LinksTrue, FiniteLinks, Covered, NoMoreThanNeeded, AnsweredAtEnd
<1>3. LinkedBothWays'
  BY DEF GraphInv, BeforeReading, LinkedBothWays, Kept
<1>4. RelationsOfNodes'
  BY DEF GraphInv, BeforeWalking, RelationsOfNodes
<1> QED  BY <1>1, <1>2, <1>3, <1>4 DEF GraphInv

LEMMA ReadElementsKeeps ==
  ASSUME GraphInv, ReadElements
  PROVE  GraphInv'
<1> USE DEF ReadElements, input
<1>1. GraphTypeOK'
  BY DEF GraphInv, GraphTypeOK, BeforeWalking, Names, GraphEnded
<1>2. (BeforeReading /\ BeforeWalking /\ LinksTrue /\ FiniteLinks /\ Covered /\ NoMoreThanNeeded /\ AnsweredAtEnd)'
  BY DEF GraphInv, BeforeReading, BeforeWalking, LinksTrue, FiniteLinks, Covered, NoMoreThanNeeded, AnsweredAtEnd
<1>3. LinkedBothWays'
  BY DEF GraphInv, BeforeReading, LinkedBothWays, Kept
<1>4. RelationsOfNodes'
  BY DEF GraphInv, BeforeWalking, RelationsOfNodes
<1> QED  BY <1>1, <1>2, <1>3, <1>4 DEF GraphInv

\* A relation that is kept adds one link at each of its ends.
LEMMA ReadRelationLinks ==
  ASSUME GraphInv, ReadRelation,
         NEW r, r = relations[read + 1],
         r.inferable \/ {r.from, r.to} \subseteq node_map
  PROVE  /\ r \in Relation
         /\ read + 1 \in 1..Len(relations) /\ read + 1 \in 1..MaxRelations
         /\ node_map' = node_map \cup {r.from, r.to}
         /\ node_relations' \in [Names -> SUBSET Link]
         /\ \A n \in Names : node_relations[n] \subseteq node_relations'[n]
         /\ \A n \in Names : \A l \in node_relations'[n] \ node_relations[n] :
              /\ l.source = n /\ l.relation = read + 1
              /\ {n, l.target} = {r.from, r.to}
         /\ \A n \in {r.from, r.to} : \E l \in node_relations'[n] : l.relation = read + 1
         /\ FiniteLinks'
<1>1. read \in Nat /\ Len(relations) \in Nat /\ MaxRelations \in Nat /\ Len(relations) <= MaxRelations /\ read < Len(relations)
  BY SubgraphAssumption DEF GraphInv, GraphTypeOK, ReadRelation
<1>2. read + 1 \in 1..Len(relations) /\ read + 1 \in 1..MaxRelations
  BY <1>1
<1>3. r \in Relation
  BY <1>2 DEF GraphInv, GraphTypeOK
<1>4. r.from \in Names /\ r.to \in Names
  BY <1>3 DEF Relation
<1> DEFINE out == [source |-> r.from, target |-> r.to, relation |-> read + 1]
           in  == [source |-> r.to, target |-> r.from, relation |-> read + 1]
<1>5. out \in Link /\ in \in Link
  BY <1>2, <1>4 DEF Link
<1>6. /\ node_map' = node_map \cup {r.from, r.to}
      /\ node_relations' = [node_relations EXCEPT ![r.from] = @ \cup {out}, ![r.to] = @ \cup {in}]
  BY DEF ReadRelation
<1>7. node_relations \in [Names -> SUBSET Link]
  BY DEF GraphInv, GraphTypeOK
<1>8. \A n \in Names : node_relations'[n] = node_relations[n] \cup (IF n = r.from THEN {out} ELSE {})
                                                             \cup (IF n = r.to THEN {in} ELSE {})
  <2> HIDE DEF out, in
  <2> QED  BY <1>4, <1>6, <1>7
<1>9. node_relations' \in [Names -> SUBSET Link]
  <2> HIDE DEF out, in
  <2> QED  BY <1>4, <1>5, <1>6, <1>7
<1>10. \A n \in Names : \A l \in node_relations'[n] \ node_relations[n] :
              /\ l.source = n /\ l.relation = read + 1
              /\ {n, l.target} = {r.from, r.to}
  BY <1>8
<1>11. \A n \in {r.from, r.to} : \E l \in node_relations'[n] : l.relation = read + 1
  <2>1. out \in node_relations'[r.from] /\ in \in node_relations'[r.to]
    BY <1>4, <1>8
  <2>2. out.relation = read + 1 /\ in.relation = read + 1
    OBVIOUS
  <2> QED  BY <2>1, <2>2
<1>12. FiniteLinks'
  <2> SUFFICES ASSUME NEW n \in Names  PROVE IsFiniteSet(node_relations'[n])
    BY DEF FiniteLinks
  <2>1. IsFiniteSet(node_relations[n])
    BY DEF GraphInv, FiniteLinks
  <2>2. IsFiniteSet({out}) /\ IsFiniteSet({in}) /\ IsFiniteSet({})
    BY FS_Singleton, FS_EmptySet
  <2>3. IsFiniteSet(IF n = r.from THEN {out} ELSE {}) /\ IsFiniteSet(IF n = r.to THEN {in} ELSE {})
    <3> HIDE DEF out, in
    <3> QED  BY <2>2
  <2>4. node_relations'[n] = node_relations[n] \cup (IF n = r.from THEN {out} ELSE {})
                                               \cup (IF n = r.to THEN {in} ELSE {})
    BY <1>8
  <2> DEFINE A == IF n = r.from THEN {out} ELSE {}  B == IF n = r.to THEN {in} ELSE {}
  <2> HIDE DEF A, B
  <2> QED  BY <2>1, <2>3, <2>4, FS_Union DEF A, B
<1> QED  BY <1>2, <1>3, <1>6, <1>8, <1>9, <1>10, <1>11, <1>12

LEMMA ReadRelationKeeps ==
  ASSUME GraphInv, ReadRelation
  PROVE  GraphInv'
<1> DEFINE r == relations[read + 1]
<1>1. /\ phase = "relations" /\ phase' = phase /\ read' = read + 1
      /\ UNCHANGED <<input, queue, visited, result_nodes, result_relations>>
  BY DEF ReadRelation
<1>2. read \in Nat /\ Len(relations) \in Nat /\ read < Len(relations)
  BY DEF GraphInv, GraphTypeOK, ReadRelation
<1>3. relations' = relations
  BY <1>1 DEF input
<1>4. CASE ~(r.inferable \/ {r.from, r.to} \subseteq node_map)
  <2>1. UNCHANGED <<node_map, node_relations>>
    BY <1>4 DEF ReadRelation
  <2>2. GraphTypeOK'
    BY <1>1, <1>2, <2>1 DEF GraphInv, GraphTypeOK, BeforeWalking, input
  <2>3. LinksTrue'
    <3> SUFFICES ASSUME NEW n \in Names, NEW l \in node_relations'[n]
                 PROVE  /\ l.source = n /\ l.relation \in 1..read'
                        /\ Ends(l.relation)' = {n, l.target}
                        /\ {n, l.target} \subseteq node_map'
      BY DEF LinksTrue
    <3>1. /\ l.source = n /\ l.relation \in 1..read
          /\ Ends(l.relation) = {n, l.target}
          /\ {n, l.target} \subseteq node_map
      BY <2>1 DEF GraphInv, LinksTrue
    <3>2. Ends(l.relation)' = Ends(l.relation)
      BY <1>3 DEF Ends
    <3>3. l.relation \in 1..read'
      BY <1>1, <1>2, <3>1
    <3> QED  BY <2>1, <3>1, <3>2, <3>3
  <2>4. Kept' = Kept
    BY <1>1, <1>2, <2>1 DEF GraphInv, LinksTrue, Kept
  <2>5. LinkedBothWays'
    BY <1>3, <2>1, <2>4 DEF GraphInv, LinkedBothWays, Ends
  <2>6. FiniteLinks'
    BY <2>1 DEF GraphInv, FiniteLinks
  <2> QED  BY <1>1, <2>2, <2>3, <2>5, <2>6
             DEF GraphInv, BeforeReading, BeforeWalking, FiniteLinks, Covered, NoMoreThanNeeded, RelationsOfNodes, AnsweredAtEnd
<1>5. CASE r.inferable \/ {r.from, r.to} \subseteq node_map
  <2>1. /\ r \in Relation
        /\ read + 1 \in 1..Len(relations) /\ read + 1 \in 1..MaxRelations
        /\ node_map' = node_map \cup {r.from, r.to}
        /\ node_relations' \in [Names -> SUBSET Link]
        /\ \A n \in Names : node_relations[n] \subseteq node_relations'[n]
        /\ \A n \in Names : \A l \in node_relations'[n] \ node_relations[n] :
              /\ l.source = n /\ l.relation = read + 1
              /\ {n, l.target} = {r.from, r.to}
        /\ \A n \in {r.from, r.to} : \E l \in node_relations'[n] : l.relation = read + 1
        /\ FiniteLinks'
    BY <1>5, ReadRelationLinks
  <2>2. r.from \in Names /\ r.to \in Names
    BY <2>1 DEF Relation
  <2>3. Ends(read + 1) = {r.from, r.to}
    BY DEF Ends
  <2> HIDE DEF r
  <2>4. GraphTypeOK'
    BY <1>1, <1>2, <2>1, <2>2 DEF GraphInv, GraphTypeOK, BeforeWalking, input
  <2>5. LinksTrue'
    <3> SUFFICES ASSUME NEW n \in Names, NEW l \in node_relations'[n]
                 PROVE  /\ l.source = n /\ l.relation \in 1..read'
                        /\ Ends(l.relation)' = {n, l.target}
                        /\ {n, l.target} \subseteq node_map'
      BY DEF LinksTrue
    <3>1. CASE l \in node_relations[n]
      <4>1. /\ l.source = n /\ l.relation \in 1..read
            /\ Ends(l.relation) = {n, l.target}
            /\ {n, l.target} \subseteq node_map
        BY <3>1 DEF GraphInv, LinksTrue
      <4>2. Ends(l.relation)' = Ends(l.relation)
        BY <1>3 DEF Ends
      <4>3. l.relation \in 1..read'
        BY <1>1, <1>2, <4>1
      <4> QED  BY <2>1, <4>1, <4>2, <4>3
    <3>2. CASE l \notin node_relations[n]
      <4>1. l.source = n /\ l.relation = read + 1 /\ {n, l.target} = {r.from, r.to}
        BY <2>1, <3>2
      <4>2. Ends(l.relation)' = Ends(read + 1)
        BY <1>3, <4>1 DEF Ends
      <4>3. l.relation \in 1..read'
        BY <1>1, <1>2, <4>1
      <4>4. {n, l.target} \subseteq node_map'
        BY <2>1, <4>1
      <4> QED  BY <2>3, <4>1, <4>2, <4>3, <4>4
    <3> QED  BY <3>1, <3>2
  <2>6. LinkedBothWays'
    <3> SUFFICES ASSUME NEW i \in Kept', NEW n \in Ends(i)
                 PROVE  \E l \in node_relations'[n] : l.relation = i
      BY <1>3 DEF LinkedBothWays, Ends
    <3>1. CASE i = read + 1
      BY <2>1, <2>3, <3>1
    <3>2. CASE i # read + 1
      <4>1. i \in 1..read
        BY <1>1, <1>2, <3>2 DEF Kept
      <4>2. PICK m \in Names : \E l \in node_relations'[m] : l.relation = i
        BY DEF Kept
      <4>3. \E l \in node_relations[m] : l.relation = i
        BY <2>1, <3>2, <4>2
      <4>4. i \in Kept
        BY <4>1, <4>3 DEF Kept
      <4>5. i \in 1..Len(relations)
        BY <1>2, <4>1
      <4>6. relations[i] \in Relation
        BY <4>5 DEF GraphInv, GraphTypeOK
      <4>7. n \in Names
        BY <4>6 DEF Ends, Relation
      <4> QED  BY <2>1, <4>4, <4>7 DEF GraphInv, LinkedBothWays
    <3> QED  BY <3>1, <3>2
  <2>7. RelationsOfNodes'
    BY <1>1 DEF GraphInv, BeforeWalking, RelationsOfNodes
  <2> QED  BY <1>1, <2>1, <2>4, <2>5, <2>6, <2>7
             DEF GraphInv, BeforeReading, BeforeWalking, Covered, NoMoreThanNeeded, AnsweredAtEnd
<1> QED  BY <1>4, <1>5

LEMMA StartWalkKeeps ==
  ASSUME GraphInv, StartWalk
  PROVE  GraphInv'
<1>1. /\ phase = "relations" /\ phase' = "walk" /\ queue' = asked
      /\ UNCHANGED <<input, read, node_map, node_relations, visited, result_nodes, result_relations>>
  BY DEF StartWalk
<1>2. visited = {} /\ result_nodes = {} /\ result_relations = {}
  BY <1>1 DEF GraphInv, BeforeWalking
<1>3. Asked' = Asked /\ Waiting' = Asked
  BY <1>1 DEF Asked, Waiting, input
<1>4. GraphTypeOK'
  <2>1. queue' \in Seq(Names)
    BY <1>1, SeqMonotonic DEF GraphInv, GraphTypeOK, Names
  <2> QED  BY <1>1, <2>1 DEF GraphInv, GraphTypeOK, input
<1>5. LinksTrue' /\ FiniteLinks' /\ LinkedBothWays'
  <2>1. LinksTrue'
    BY <1>1 DEF GraphInv, LinksTrue, Ends, input
  <2>2. LinkedBothWays'
    BY <1>1 DEF GraphInv, LinkedBothWays, Kept, Ends, input
  <2> QED  BY <1>1, <2>1, <2>2 DEF GraphInv, FiniteLinks
<1>6. Covered'
  BY <1>1, <1>2, <1>3 DEF Covered
<1>7. NoMoreThanNeeded'
  BY <1>1, <1>2, <1>3 DEF NoMoreThanNeeded
<1>8. RelationsOfNodes'
  BY <1>1, <1>2 DEF GraphInv, RelationsOfNodes
<1> QED  BY <1>1, <1>4, <1>5, <1>6, <1>7, <1>8 DEF GraphInv, BeforeReading, BeforeWalking, AnsweredAtEnd

-----------------------------------------------------------------------------

\* The queue after the node at its head has been left
LEMMA QueueAfterVisit ==
  ASSUME GraphTypeOK, queue # <<>>, FiniteLinks, NEW n \in Names,
         NEW links, links \subseteq node_relations[n],
         NEW list \in Listed(links), queue' = Tail(queue) \o Targets(list)
  PROVE  /\ queue' \in Seq(Names)
         /\ Waiting \subseteq {Head(queue)} \cup Waiting'
         /\ Waiting' \subseteq Waiting \cup {l.target : l \in links}
         /\ \A l \in links : l.target \in Waiting'
<1> DEFINE new == Targets(list)
<1>1. queue \in Seq(Names) /\ links \subseteq Link
  BY DEF GraphTypeOK
<1>2. PICK c \in Nat : c = Cardinality(links)
  BY FS_Subset, FS_CardinalityType DEF FiniteLinks
<1>3. /\ list \in [1..c -> links]
      /\ \A l \in links : \E i \in 1..c : list[i] = l
  BY <1>2 DEF Listed
<1>4. /\ new \in Seq(Names) /\ Len(new) = c
      /\ \A i \in 1..c : new[i] = list[i].target
  <2>1. new = [i \in 1..c |-> list[i].target]
    BY <1>3 DEF Targets
  <2>2. \A i \in 1..c : list[i].target \in Names
    BY <1>1, <1>3 DEF Link
  <2> QED  BY <2>1, <2>2
<1>5. /\ Tail(queue) \in Seq(Names)
      /\ Len(Tail(queue)) = Len(queue) - 1
      /\ \A i \in 1..Len(queue)-1 : Tail(queue)[i] = queue[i+1]
      /\ Len(queue) \in Nat /\ Len(queue) >= 1
  BY <1>1, HeadTailProperties, LenProperties
<1> HIDE DEF new
<1> DEFINE t == Tail(queue)
<1>6. /\ queue' \in Seq(Names) /\ Len(queue') = Len(queue) - 1 + c
      /\ \A i \in 1..Len(queue) - 1 + c :
           queue'[i] = IF i <= Len(queue) - 1 THEN queue[i+1] ELSE new[i - (Len(queue) - 1)]
  <2>1. queue' = t \o new
    BY DEF new
  <2>2. t \in Seq(Names) /\ Len(t) = Len(queue) - 1
    BY <1>5
  <2>3. \A i \in 1..Len(queue) - 1 : t[i] = queue[i+1]
    BY <1>5
  <2> HIDE DEF t
  <2>4. /\ t \o new \in Seq(Names) /\ Len(t \o new) = Len(t) + Len(new)
        /\ \A i \in 1..Len(t) + Len(new) :
             (t \o new)[i] = IF i <= Len(t) THEN t[i] ELSE new[i - Len(t)]
    BY <1>4, <2>2, ConcatProperties
  <2>5. queue' \in Seq(Names) /\ Len(queue') = Len(queue) - 1 + c
    BY <1>4, <2>1, <2>2, <2>4
  <2>6. ASSUME NEW i \in 1..Len(queue) - 1 + c
        PROVE  queue'[i] = IF i <= Len(queue) - 1 THEN queue[i+1] ELSE new[i - (Len(queue) - 1)]
    <3>1. queue'[i] = IF i <= Len(t) THEN t[i] ELSE new[i - Len(t)]
      BY <1>4, <2>1, <2>2, <2>4
    <3>2. CASE i <= Len(queue) - 1
      <4>1. i \in 1..Len(queue) - 1
        BY <1>5, <3>2
      <4> QED  BY <2>2, <2>3, <3>1, <3>2, <4>1
    <3>3. CASE ~(i <= Len(queue) - 1)
      BY <2>2, <3>1, <3>3
    <3> QED  BY <3>2, <3>3
  <2> QED  BY <2>5, <2>6
<1>7. Waiting = {queue[i] : i \in 1..Len(queue)} /\ Waiting' = {queue'[i] : i \in 1..Len(queue')}
  BY <1>1, <1>6, LenProperties DEF Waiting
<1>8. Waiting \subseteq {Head(queue)} \cup Waiting'
  <2> SUFFICES ASSUME NEW i \in 1..Len(queue)  PROVE queue[i] = Head(queue) \/ queue[i] \in Waiting'
    BY <1>7
  <2>1. CASE i = 1
    BY <1>1, <1>5, <2>1, HeadTailProperties
  <2>2. CASE i # 1
    <3>1. i-1 \in 1..Len(queue') /\ queue'[i-1] = queue[i]
      BY <1>2, <1>5, <1>6, <2>2
    <3> QED  BY <1>7, <3>1
  <2> QED  BY <2>1, <2>2
<1>9. Waiting' \subseteq Waiting \cup {l.target : l \in links}
  <2> SUFFICES ASSUME NEW i \in 1..Len(queue')
               PROVE  queue'[i] \in Waiting \cup {l.target : l \in links}
    BY <1>7
  <2>1. CASE i <= Len(queue) - 1
    <3>1. i + 1 \in 1..Len(queue) /\ queue'[i] = queue[i+1]
      BY <1>2, <1>5, <1>6, <2>1
    <3> QED  BY <1>7, <3>1
  <2>2. CASE ~(i <= Len(queue) - 1)
    <3>1. i - (Len(queue) - 1) \in 1..c
      BY <1>2, <1>5, <1>6, <2>2
    <3>2. queue'[i] = list[i - (Len(queue) - 1)].target
      BY <1>2, <1>4, <1>5, <1>6, <2>2, <3>1
    <3>3. list[i - (Len(queue) - 1)] \in links
      BY <1>3, <3>1
    <3> QED  BY <3>2, <3>3
  <2> QED  BY <2>1, <2>2
<1>10. ASSUME NEW l \in links  PROVE l.target \in Waiting'
  <2>1. PICK k \in 1..c : list[k] = l
    BY <1>3
  <2> DEFINE j == k + (Len(queue) - 1)
  <2>2. j \in 1..Len(queue')
    BY <1>2, <1>5, <1>6
  <2>3. ~(j <= Len(queue) - 1) /\ j - (Len(queue) - 1) = k /\ j \in 1..Len(queue) - 1 + c
    BY <1>2, <1>5, <1>6
  <2> HIDE DEF j
  <2>4. queue'[j] = new[k]
    BY <1>6, <2>3
  <2>5. new[k] = l.target
    BY <1>4, <2>1
  <2> QED  BY <1>7, <2>2, <2>4, <2>5
<1> QED  BY <1>6, <1>8, <1>9, <1>10

\* A node that is not in the document or has been visited before
LEMMA QueueAfterSkip ==
  ASSUME GraphTypeOK, queue # <<>>, FiniteLinks, queue' = Tail(queue)
  PROVE  /\ queue' \in Seq(Names)
         /\ Waiting \subseteq {Head(queue)} \cup Waiting'
         /\ Waiting' \subseteq Waiting
<1>1. Tail(queue) \in Seq(Names) /\ Head(queue) \in Names
  BY HeadTailProperties DEF GraphTypeOK
<1>2. <<>> \in Listed({})
  <2>1. Cardinality({}) = 0
    BY FS_EmptySet
  <2> QED  BY <2>1 DEF Listed
<1>3. queue' = Tail(queue) \o Targets(<<>>)
  <2>1. Targets(<<>>) = <<>>
    BY DEF Targets
  <2> QED  BY <1>1, <2>1, ConcatEmptySeq
<1> QED  BY <1>1, <1>2, <1>3, QueueAfterVisit

\* What does not depend on the walk
LEMMA DocumentStays ==
  ASSUME UNCHANGED <<input, read, node_map, node_relations>>
  PROVE  /\ Asked' = Asked /\ Kept' = Kept /\ Names = Names
         /\ \A S : Closed(S)' <=> Closed(S)
         /\ \A n : Followed(n)' = Followed(n)
         /\ FiniteLinks => FiniteLinks'
         /\ LinksTrue => LinksTrue'
         /\ LinkedBothWays => LinkedBothWays'
<1> USE DEF input
<1>1. Asked' = Asked  BY DEF Asked
<1>2. Kept' = Kept  BY DEF Kept
<1>3. \A S : Closed(S)' <=> Closed(S)  BY <1>2 DEF Closed, Ends
<1>4. \A n : Followed(n)' = Followed(n)  BY DEF Followed, Follows
<1>5. FiniteLinks => FiniteLinks'  BY DEF FiniteLinks
<1>6. LinksTrue => LinksTrue'  BY DEF LinksTrue, Ends
<1>7. LinkedBothWays => LinkedBothWays'  BY <1>2 DEF LinkedBothWays, Ends
<1> QED  BY <1>1, <1>2, <1>3, <1>4, <1>5, <1>6, <1>7

\* A link belongs to a relation that is kept.
LEMMA LinksAreKept ==
  ASSUME LinksTrue, NEW n \in Names, NEW l \in node_relations[n]
  PROVE  l.relation \in Kept /\ Ends(l.relation) = {n, l.target}
BY DEF LinksTrue, Kept

LEMMA VisitKeeps ==
  ASSUME GraphInv, Visit
  PROVE  GraphInv'
<1> DEFINE n == Head(queue)
           links == {l \in Followed(n) : l.target \notin visited'}
<1>1. /\ phase = "walk" /\ phase' = phase /\ queue # <<>> /\ visited' = visited \cup {n}
      /\ UNCHANGED <<input, read, node_map, node_relations>>
  BY DEF Visit
<1>2. /\ GraphTypeOK /\ FiniteLinks /\ LinksTrue /\ LinkedBothWays
      /\ Covered /\ NoMoreThanNeeded /\ RelationsOfNodes
  BY DEF GraphInv
<1>3. n \in Names /\ n \in Waiting
  BY <1>1, <1>2, HeadTailProperties, LenProperties DEF GraphTypeOK, Waiting
<1>4. /\ Asked' = Asked
      /\ \A S : Closed(S)' <=> Closed(S)
      /\ \A m : Followed(m)' = Followed(m)
      /\ FiniteLinks' /\ LinksTrue' /\ LinkedBothWays'
  BY <1>1, <1>2, DocumentStays
<1>5. /\ Asked \subseteq visited \cup Waiting
      /\ \A m \in result_nodes : \A l \in Followed(m) : l.target \in visited \cup Waiting
      /\ result_nodes = visited \cap node_map
  BY <1>1, <1>2 DEF Covered
<1>6. \A S \in SUBSET Names : Asked \cap node_map \subseteq S /\ Closed(S) =>
        (visited \cup Waiting) \cap node_map \subseteq S
  BY <1>1, <1>2 DEF NoMoreThanNeeded
<1>7. CASE n \notin visited /\ n \in node_map
  <2>1. /\ \E list \in Listed(links) : queue' = Tail(queue) \o Targets(list)
        /\ result_nodes' = result_nodes \cup {n}
        /\ result_relations' = result_relations \cup {l.relation : l \in Followed(n)}
    BY <1>7 DEF Visit, Enqueue
  <2>2. Followed(n) \subseteq node_relations[n]
    BY DEF Followed
  <2>3. /\ queue' \in Seq(Names)
        /\ Waiting \subseteq {n} \cup Waiting'
        /\ Waiting' \subseteq Waiting \cup {l.target : l \in links}
        /\ \A l \in links : l.target \in Waiting'
    <3>1. links \subseteq node_relations[n]
      BY <2>2
    <3> HIDE DEF links
    <3> QED  BY <1>1, <1>2, <1>3, <2>1, <3>1, QueueAfterVisit
  <2>4. \A l \in Followed(n) : l.relation \in Kept /\ Ends(l.relation) = {n, l.target}
    BY <1>2, <1>3, <2>2, LinksAreKept
  <2>5. \A l \in Followed(n) : l.relation \in 1..read
    BY <2>4 DEF Kept
  <2> HIDE DEF n
  <2>6. GraphTypeOK'
    BY <1>1, <1>2, <1>3, <1>7, <2>1, <2>3, <2>5 DEF GraphTypeOK, input
  <2>7. Covered'
    <3>1. Asked \subseteq visited' \cup Waiting'
      BY <1>1, <1>5, <2>3
    <3>2. result_nodes' = visited' \cap node_map
      BY <1>1, <1>5, <1>7, <2>1
    <3>3. ASSUME NEW m \in result_nodes', NEW l \in Followed(m)
          PROVE  l.target \in visited' \cup Waiting'
      BY <1>1, <1>5, <2>1, <2>3
    <3> QED  BY <1>1, <1>4, <3>1, <3>2, <3>3 DEF Covered
  <2>8. NoMoreThanNeeded'
    <3> SUFFICES ASSUME NEW S \in SUBSET Names, Asked \cap node_map \subseteq S, Closed(S)
                 PROVE  (visited' \cup Waiting') \cap node_map \subseteq S
      BY <1>1, <1>4 DEF NoMoreThanNeeded
    <3>1. (visited \cup Waiting) \cap node_map \subseteq S
      BY <1>6
    <3>2. n \in S
      BY <1>3, <1>7, <3>1
    <3>3. ASSUME NEW l \in links  PROVE l.target \in S
      BY <2>4, <3>2 DEF Closed
    <3> QED  BY <1>1, <2>3, <3>1, <3>2, <3>3
  <2>9. RelationsOfNodes'
    <3> SUFFICES ASSUME NEW i \in 1..MaxRelations
                 PROVE  i \in result_relations' <=> \E m \in result_nodes' : \E l \in Followed(m) : l.relation = i
      BY <1>4 DEF RelationsOfNodes
    <3> QED  BY <1>2, <2>1 DEF RelationsOfNodes
  <2> QED  BY <1>1, <1>4, <2>6, <2>7, <2>8, <2>9
             DEF GraphInv, BeforeReading, BeforeWalking, AnsweredAtEnd
<1>8. CASE ~(n \notin visited /\ n \in node_map)
  <2>1. queue' = Tail(queue) /\ UNCHANGED <<result_nodes, result_relations>>
    BY <1>8 DEF Visit
  <2>2. /\ queue' \in Seq(Names)
        /\ Waiting \subseteq {n} \cup Waiting'
        /\ Waiting' \subseteq Waiting
    BY <1>1, <1>2, <2>1, QueueAfterSkip
  <2> HIDE DEF n
  <2>3. GraphTypeOK'
    BY <1>1, <1>2, <1>3, <2>1, <2>2 DEF GraphTypeOK, input
  <2>4. result_nodes' = visited' \cap node_map
    BY <1>1, <1>5, <1>8, <2>1
  <2>5. Covered'
    BY <1>1, <1>4, <1>5, <2>1, <2>2, <2>4 DEF Covered
  <2>6. NoMoreThanNeeded'
    <3> SUFFICES ASSUME NEW S \in SUBSET Names, Asked \cap node_map \subseteq S, Closed(S)
                 PROVE  (visited' \cup Waiting') \cap node_map \subseteq S
      BY <1>1, <1>4 DEF NoMoreThanNeeded
    <3>1. (visited \cup Waiting) \cap node_map \subseteq S
      BY <1>6
    <3> QED  BY <1>1, <1>3, <2>2, <3>1
  <2>7. RelationsOfNodes'
    BY <1>2, <1>4, <2>1 DEF RelationsOfNodes
  <2> QED  BY <1>1, <1>4, <2>3, <2>5, <2>6, <2>7
             DEF GraphInv, BeforeReading, BeforeWalking, AnsweredAtEnd
<1> QED  BY <1>7, <1>8

\* The answer, and the empty one for what is no provenance document
LEMMA AnswerKeeps ==
  ASSUME GraphInv,
         \/ Answer
         \/ /\ phase' = "empty"
            /\ UNCHANGED <<input, read, node_map, node_relations, queue, visited,
                           result_nodes, result_relations>>
         \/ UNCHANGED graphVars
  PROVE  GraphInv'
<1>1. UNCHANGED <<input, read, node_map, node_relations, queue, visited, result_nodes, result_relations>>
  BY DEF Answer, graphVars
<1>2. /\ phase' \in {phase, "empty", "answered"}
      /\ phase' = "answered" => phase \in {"walk", "answered"} /\ queue = <<>>
  BY DEF Answer, graphVars, GraphInv, AnsweredAtEnd
<1>3. /\ Asked' = Asked /\ Waiting' = Waiting
      /\ \A S : Closed(S)' <=> Closed(S)
      /\ \A m : Followed(m)' = Followed(m)
      /\ FiniteLinks' /\ LinksTrue' /\ LinkedBothWays'
  BY <1>1, DocumentStays DEF GraphInv, Waiting
<1>4. GraphTypeOK'
  BY <1>1, <1>2 DEF GraphInv, GraphTypeOK, GraphEnded, input
<1>5. BeforeReading' /\ BeforeWalking' /\ AnsweredAtEnd'
  BY <1>1, <1>2 DEF GraphInv, BeforeReading, BeforeWalking, AnsweredAtEnd
<1>6. Covered' /\ NoMoreThanNeeded' /\ RelationsOfNodes'
  BY <1>1, <1>2, <1>3 DEF GraphInv, Covered, NoMoreThanNeeded, RelationsOfNodes
<1> QED  BY <1>3, <1>4, <1>5, <1>6 DEF GraphInv

LEMMA WalkKeeps ==
  ASSUME GraphInv, Walk
  PROVE  GraphInv'
BY ReadElementsKeeps, ReadRelationKeeps, StartWalkKeeps, VisitKeeps, AnswerKeeps DEF Walk

LEMMA SelfContained == GraphInv => AnswerIsSelfContained
<1> SUFFICES ASSUME GraphInv, phase = "answered", NEW i \in result_relations
             PROVE  Ends(i) \subseteq result_nodes
  BY DEF AnswerIsSelfContained
<1>1. i \in 1..MaxRelations
  BY SubgraphAssumption DEF GraphInv, GraphTypeOK
<1>2. PICK n \in result_nodes : \E l \in Followed(n) : l.relation = i
  BY <1>1 DEF GraphInv, RelationsOfNodes
<1>3. PICK l \in Followed(n) : l.relation = i
  BY <1>2
<1>4. queue = <<>> /\ Waiting = {}
  BY DEF GraphInv, AnsweredAtEnd, Waiting
<1>5. n \in Names /\ l \in node_relations[n]
  BY DEF GraphInv, GraphTypeOK, Followed
<1>6. Ends(i) = {n, l.target} /\ l.target \in node_map
  BY <1>3, <1>5 DEF GraphInv, LinksTrue
<1>7. l.target \in visited
  BY <1>4 DEF GraphInv, Covered
<1> QED  BY <1>6, <1>7 DEF GraphInv, Covered

LEMMA Component == GraphInv => BothIsComponent
<1> SUFFICES ASSUME GraphInv, phase = "answered", direction = "both"
             PROVE  /\ Asked \cap node_map \subseteq result_nodes
                    /\ Closed(result_nodes)
                    /\ \A S \in SUBSET result_nodes :
                         Asked \cap node_map \subseteq S /\ Closed(S) => S = result_nodes
                    /\ result_relations = {i \in Kept : Ends(i) \subseteq result_nodes}
  BY DEF BothIsComponent
<1>1. queue = <<>> /\ Waiting = {}
  BY DEF GraphInv, AnsweredAtEnd, Waiting
<1>2. /\ Asked \subseteq visited
      /\ \A n \in result_nodes : \A l \in Followed(n) : l.target \in visited
      /\ result_nodes = visited \cap node_map
  BY <1>1 DEF GraphInv, Covered
<1>3. result_nodes \subseteq Names
  BY DEF GraphInv, GraphTypeOK
<1>4. \A n \in Names : \A l \in node_relations[n] :
        l \in Followed(n) /\ Ends(l.relation) = {n, l.target} /\ l.target \in node_map
  BY DEF GraphInv, LinksTrue, Followed, Follows
<1>5. \A i \in Kept : \A n \in Ends(i) \cap result_nodes :
        \E l \in Followed(n) : l.relation = i /\ Ends(i) \subseteq result_nodes
  <2> SUFFICES ASSUME NEW i \in Kept, NEW n \in Ends(i), n \in result_nodes
               PROVE  \E l \in Followed(n) : l.relation = i /\ Ends(i) \subseteq result_nodes
    OBVIOUS
  <2>1. PICK l \in node_relations[n] : l.relation = i
    BY DEF GraphInv, LinkedBothWays
  <2>2. l \in Followed(n) /\ Ends(i) = {n, l.target} /\ l.target \in node_map
    BY <1>3, <1>4, <2>1
  <2> QED  BY <1>2, <2>1, <2>2
<1>6. Closed(result_nodes)
  BY <1>5 DEF Closed
<1>7. ASSUME NEW S \in SUBSET result_nodes, Asked \cap node_map \subseteq S, Closed(S)
      PROVE  S = result_nodes
  BY <1>2, <1>3, <1>7 DEF GraphInv, NoMoreThanNeeded
<1>8. ASSUME NEW i \in Kept, Ends(i) \subseteq result_nodes
      PROVE  i \in result_relations
  <2>1. relations[i].from \in Ends(i) \cap result_nodes
    BY <1>8 DEF Ends
  <2>2. PICK l \in Followed(relations[i].from) : l.relation = i
    BY <1>5, <2>1
  <2>3. i \in 1..MaxRelations
    BY SubgraphAssumption DEF GraphInv, GraphTypeOK, Kept
  <2> QED  BY <2>1, <2>2, <2>3 DEF GraphInv, RelationsOfNodes
<1>9. ASSUME NEW i \in result_relations
      PROVE  i \in Kept /\ Ends(i) \subseteq result_nodes
  <2>1. i \in 1..MaxRelations
    BY SubgraphAssumption DEF GraphInv, GraphTypeOK
  <2>2. PICK n \in result_nodes : \E l \in Followed(n) : l.relation = i
    BY <2>1 DEF GraphInv, RelationsOfNodes
  <2>3. PICK l \in node_relations[n] : l.relation = i
    BY <2>2 DEF Followed
  <2>4. i \in Kept
    BY <1>3, <2>3, LinksAreKept DEF GraphInv
  <2> QED  BY <2>4, SelfContained DEF AnswerIsSelfContained
<1>10. result_relations = {i \in Kept : Ends(i) \subseteq result_nodes}
  BY <1>8, <1>9
<1> QED  BY <1>2, <1>6, <1>7, <1>10

-----------------------------------------------------------------------------
(* The graph service on top of the file storage *)

LEMMA FileIsAnalysed == ContentInv => GraphReadsUpload
<1> SUFFICES ASSUME ContentInv, step = "ok", upload.way = "file", ~Unmarked
             PROVE  /\ ask.use = "graph" /\ ~blind => Body = content
                    /\ ~ask.stream => upload.size <= SizeLimit
  BY DEF GraphReadsUpload
<1>1. /\ content = Content(upload.size)
      /\ ~blind /\ ~ask.zstd => Body = Content(upload.size)
  BY AnswerHasContent
<1>2. ask.use = "graph" => ~ask.zstd
  BY DEF ContentInv, TypeOK, Ask
<1>3. ~ask.stream => upload.size <= SizeLimit
  BY DEF ContentInv, ReaderInv, Limited
<1> QED  BY <1>1, <1>2, <1>3

AnalysisInv == ContentInv /\ GraphInv

LEMMA AnalysisInvInit == AnalysisInit => AnalysisInv
BY ContentInvInit, GraphInvInit DEF AnalysisInit, AnalysisInv

\* A step belongs to the storage, to the walk, or to both when a document is handed over.
LEMMA AnalysisKeeps == AnalysisInv /\ [AnalysisNext]_analysisVars => AnalysisInv'
<1> SUFFICES ASSUME AnalysisInv, [AnalysisNext]_analysisVars  PROVE AnalysisInv'
  OBVIOUS
<1>1. CASE ContentStep
  <2>1. UNCHANGED graphVars
    BY <1>1 DEF ContentStep
  <2>2. ContentInv'
    BY <1>1, ContentKeeps DEF ContentStep, AnalysisInv
  <2>3. GraphInv'
    BY <2>1, AnswerKeeps DEF AnalysisInv
  <2> QED  BY <2>2, <2>3 DEF AnalysisInv
<1>2. CASE Analyse
  <2>1. ContentInv'
    BY <1>2, ContentStays DEF Analyse, AnalysisInv
  <2>2. CASE Request
    BY <2>1, <2>2, RequestKeeps DEF AnalysisInv
  <2>3. CASE ~Request
    BY <1>2, <2>1, <2>3, AnswerKeeps DEF Analyse, AnalysisInv
  <2> QED  BY <2>2, <2>3
<1>3. CASE GraphStep
  BY <1>3, ContentStays, WalkKeeps DEF GraphStep, AnalysisInv
<1>4. CASE UNCHANGED analysisVars
  BY <1>4, ContentStays, AnswerKeeps DEF analysisVars, AnalysisInv
<1> QED  BY <1>1, <1>2, <1>3, <1>4 DEF AnalysisNext, Finished

LEMMA AnalysisInvariant == AnalysisSpec => []AnalysisInv
BY AnalysisInvInit, AnalysisKeeps, PTL DEF AnalysisSpec

\* Every variable of the storage and of the walk keeps its type.
THEOREM AnalysisTyping == AnalysisSpec => []AnalysisTypeOK
<1>1. AnalysisInv => AnalysisTypeOK
  BY DEF AnalysisInv, ContentInv, GraphInv, AnalysisTypeOK
<1> QED  BY <1>1, AnalysisInvariant, PTL

\* store_file_from_uploadfile stores a complete file with what it has hashed, whatever
\* the chunks, the encoding and the output the compressor holds back.
THEOREM StoredFileIsHashed == AnalysisSpec => []HashIsOfStoredFile
<1>1. AnalysisInv => HashIsOfStoredFile
  BY FileIsHashed DEF AnalysisInv
<1> QED  BY <1>1, AnalysisInvariant, PTL

\* An answer that ends well has the whole document that was sent as a file, plain or in
\* zstd form, whatever the encodings, the store, the size, the chunks and the failing calls.
\* It is in the form that the client expects unless the file has no metadata on MinIO or
\* MinIO did not give it out.  Streamed answers of documents that are not empty end well
\* if no call fails.
THEOREM DownloadsAreWhole == AnalysisSpec => []DownloadReturnsUpload
<1>1. AnalysisInv => DownloadReturnsUpload
  BY FileIsDownloaded DEF AnalysisInv
<1> QED  BY <1>1, AnalysisInvariant, PTL

\* The graph service gets the uploaded document unless the file has no metadata on MinIO
\* or MinIO did not give it out, and what is read at once is limited.
THEOREM AnalysesAreOfUpload == AnalysisSpec => []GraphReadsUpload
<1>1. AnalysisInv => GraphReadsUpload
  BY FileIsAnalysed DEF AnalysisInv
<1> QED  BY <1>1, AnalysisInvariant, PTL

\* graph_subgraph walks cyclic documents, self relations and repeated identifiers and
\* still answers with exactly the connected components of what is asked for.
THEOREM AnswersAreComponents == AnalysisSpec => []BothIsComponent
<1>1. AnalysisInv => BothIsComponent
  BY Component DEF AnalysisInv
<1> QED  BY <1>1, AnalysisInvariant, PTL

\* In every direction, the ends of each relation in an answer are in the answer.
THEOREM AnswersAreDocuments == AnalysisSpec => []AnswerIsSelfContained
<1>1. AnalysisInv => AnswerIsSelfContained
  BY SelfContained DEF AnalysisInv
<1> QED  BY <1>1, AnalysisInvariant, PTL

=============================================================================
