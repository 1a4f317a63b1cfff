------------------------ MODULE MetadataHistory_proofs ------------------------
(***************************************************************************)
(* Proofs about MetadataHistory, for any number of updates, any fields and *)
(* values, both stores and any bound on what goes wrong.                   *)
(***************************************************************************)
EXTENDS MetadataHistory, FiniteSetTheorems, TLAPS

-----------------------------------------------------------------------------
(* Types *)

LogEntry == [entry : Entry, faults : Nat]

LEMMA CleanedType ==
  ASSUME NEW m \in Metadata
  PROVE  Cleaned(m) \in Metadata
BY DEF Cleaned, Metadata

LEMMA FromMetadataType ==
  ASSUME NEW m \in Metadata
  PROVE  FromMetadata(m) \subseteq HandleValue
BY DEF FromMetadata, Metadata, HandleValue

LEMMA ToMetadataType ==
  ASSUME NEW values, values \subseteq HandleValue
  PROVE  ToMetadata(values) \in Metadata
<1> DEFINE Data(k) == IF \E v \in values : v.type = k
                      THEN (CHOOSE v \in values : v.type = k).data ELSE None
           read == [k \in Keys |-> Data(k)]
<1>1. ASSUME NEW k \in Keys
      PROVE  Data(k) \in Values \cup {None, Empty}
  <2>1. CASE \E v \in values : v.type = k
    <3>1. PICK w \in values : w = CHOOSE v \in values : v.type = k
      BY <2>1
    <3>2. Data(k) = w.data
      BY <2>1, <3>1
    <3>3. QED
      BY <3>2 DEF HandleValue
  <2>2. CASE ~\E v \in values : v.type = k
    BY <2>2
  <2>3. QED
    BY <2>1, <2>2
<1>2. read \in Metadata
  BY <1>1 DEF Metadata
<1>3. ToMetadata(values) = Cleaned(read)
  BY DEF ToMetadata
<1>4. QED
  BY <1>2, <1>3, CleanedType

LEMMA MergedType ==
  ASSUME NEW old \in Metadata, NEW p \in Patch
  PROVE  Merged(old, p) \in Metadata
BY DEF Merged, Metadata, Patch

LEMMA NewHistoryType ==
  ASSUME TypeOK, NEW a \in Updates
  PROVE  NewHistory(a) \in History
<1>1. past[a] \in Seq(Entry) /\ held[a] \in Metadata
  BY DEF TypeOK, History
<1>2. [by |-> a, meta |-> held[a]] \in Entry
  BY <1>1 DEF Entry
<1>3. QED
  BY <1>1, <1>2 DEF NewHistory, History

LEMMA RemainsType ==
  ASSUME TypeOK, NEW a \in Updates, NEW f \in Remains(a)
  PROVE  Readable(f) => f \in History
<1>1. NewHistory(a) \in History
  BY NewHistoryType
<1>2. <<>> \in History
  BY DEF History
<1>3. QED
  BY <1>1, <1>2 DEF Remains, Readable, TypeOK

LEMMA RewrittenType ==
  ASSUME TypeOK, NEW a \in Updates, Rewritten(a)
  PROVE  record' \subseteq HandleValue /\ log' \in Seq(LogEntry)
<1>1. held[a] \in Metadata /\ Cleaned(held[a]) \in Metadata
  BY CleanedType DEF TypeOK
<1>2. [entry |-> [by |-> a, meta |-> Cleaned(held[a])], faults |-> faults] \in LogEntry
  BY <1>1 DEF LogEntry, Entry, TypeOK
<1>3. QED
  BY <1>1, <1>2, FromMetadataType DEF Rewritten, TypeOK, LogEntry

LEMMA TypingInit ==
  ASSUME Init
  PROVE  TypeOK
<1>1. NoMetadata \in Metadata
  BY DEF NoMetadata, Metadata
<1>2. [k \in Keys |-> Keep] \in Patch
  BY DEF Patch
<1>3. <<>> \in History /\ <<>> \in Seq(LogEntry)
  BY DEF History
<1>4. patch \in [Updates -> Patch]
  BY <1>2 DEF Init
<1>5. pc \in [Updates -> {"idle", "read", "write", "history", "delete", "store"} \cup Ended]
  BY DEF Init
<1>6. ~Readable(file)
  BY DEF Init, Readable
<1>7. held \in [Updates -> Metadata] /\ past \in [Updates -> History]
  BY <1>1, <1>3 DEF Init
<1>8. log \in Seq([entry : Entry, faults : Nat])
  BY <1>3 DEF Init, LogEntry
<1>9. faults \in 0..MaxFaults
  BY HistoryAssumption DEF Init
<1>10. store \in Stores /\ record \subseteq HandleValue /\ overlapped \in BOOLEAN
  BY DEF Init
<1>11. QED
  BY <1>4, <1>5, <1>6, <1>7, <1>8, <1>9, <1>10 DEF TypeOK

LEMMA TypingStep ==
  ASSUME TypeOK, NEW a \in Updates, UpdateStep(a)
  PROVE  TypeOK'
<1> USE HistoryAssumption
<1>1. CASE Start(a)
  BY <1>1 DEF Start, Goto, TypeOK, Readable
<1>2. CASE ReadRecord(a)
  <2> DEFINE old == IF a = Creation THEN NoMetadata ELSE ToMetadata(record)
  <2>1. old \in Metadata
    BY ToMetadataType DEF TypeOK, NoMetadata, Metadata
  <2>2. Merged(old, patch[a]) \in Metadata
    BY <2>1, MergedType DEF TypeOK
  <2>3. held' \in [Updates -> Metadata]
    BY <1>2, <2>2 DEF ReadRecord, TypeOK
  <2>4. QED
    BY <1>2, <2>3 DEF ReadRecord, Goto, TypeOK, Readable, Ended
<1>3. CASE ReadRecordFails(a)
  BY <1>3 DEF ReadRecordFails, Goto, Fault, TypeOK, Readable, locals, Ended
<1>4. CASE WriteRecord(a)
  <2>1. record' \subseteq HandleValue /\ log' \in Seq(LogEntry)
    BY <1>4, RewrittenType DEF WriteRecord, TypeOK, LogEntry
  <2>2. held' \in [Updates -> Metadata]
    BY <1>4, CleanedType DEF WriteRecord, TypeOK
  <2>3. QED
    BY <1>4, <2>1, <2>2 DEF WriteRecord, Goto, Fault, TypeOK, Readable, Ended, LogEntry
<1>5. CASE ReadHistory(a)
  <2>1. (IF file = None THEN <<>> ELSE file) \in History \/ file = Torn
    BY DEF TypeOK, Readable, History
  <2>2. past' \in [Updates -> History]
    BY <1>5, <2>1 DEF ReadHistory, TypeOK
  <2>3. QED
    BY <1>5, <2>2 DEF ReadHistory, Goto, Fault, TypeOK, Readable, Ended
<1>6. CASE DeleteHistory(a)
  <2>1. Readable(file') => file' \in History
    BY <1>6 DEF DeleteHistory, TypeOK, Readable
  <2>2. QED
    BY <1>6, <2>1 DEF DeleteHistory, Goto, Fault, TypeOK, locals, Ended
<1>7. CASE StoreHistory(a)
  <2>1. Readable(file') => file' \in History
    BY <1>7, NewHistoryType, RemainsType
    DEF StoreHistory, StoreLocal, StoreMinio, TypeOK
  <2>2. faults' \in 0..MaxFaults
    BY <1>7 DEF StoreHistory, StoreLocal, StoreMinio, Fault, TypeOK
  <2>3. QED
    BY <1>7, <2>1, <2>2 DEF StoreHistory, Goto, TypeOK, Readable, locals, Ended
<1>8. CASE Crash(a)
  <2>1. Readable(file') => file' \in History
    BY <1>8, RemainsType DEF Crash, TypeOK
  <2>2. QED
    BY <1>8, <2>1 DEF Crash, Goto, Fault, TypeOK, Readable, locals, Ended
<1>9. QED
  BY <1>1, <1>2, <1>3, <1>4, <1>5, <1>6, <1>7, <1>8 DEF UpdateStep

LEMMA TypingNext ==
  ASSUME TypeOK, [Next]_vars
  PROVE  TypeOK'
<1>1. CASE UNCHANGED vars
  BY <1>1 DEF vars, locals, TypeOK, Readable
<1>2. QED
  BY <1>1, TypingStep DEF Next, Finished

\* Every reachable state has the declared types: update_document_metadata.
THEOREM HistoryTyping == Spec => []TypeOK
<1>1. Init => TypeOK
  BY TypingInit
<1>2. TypeOK /\ [Next]_vars => TypeOK'
  BY TypingNext
<1>3. QED
  BY <1>1, <1>2, PTL DEF Spec

-----------------------------------------------------------------------------
(* The history is genuine *)

OwnEntry(a) == [by |-> a, meta |-> held[a]]

Writing == {"history", "delete", "store"}

\* An update writes the record once, after it has read it,
WrittenOnce ==
  /\ \A k \in DOMAIN log : pc[log[k].entry.by] \notin {"idle", "read", "write"}
  /\ \A k, l \in DOMAIN log : log[k].entry.by = log[l].entry.by => k = l

\* and goes on to the history with the metadata that it has written.
OwnIsLogged ==
  \A a \in Updates : pc[a] \in Writing => \E k \in DOMAIN log : log[k].entry = OwnEntry(a)

\* Without overlaps one update is active at most, and its write is the last one.
InTurn ==
  ~overlapped =>
    /\ \A a, b \in Active : a = b
    /\ \A a \in Updates : pc[a] \in Writing =>
         \A k \in DOMAIN log : log[k].entry = OwnEntry(a) => k = Len(log)

\* The entries of a history are of updates that have stored it and ended.
Settled(s) == \A i \in DOMAIN s : pc[s[i].by] \in {"ok", "crashed"}

FileGenuine == Readable(file) => Genuine(file) /\ Settled(file)
PastGenuine == \A a \in Updates : Genuine(past[a]) /\ Settled(past[a])

HistoryInv ==
  TypeOK /\ WrittenOnce /\ OwnIsLogged /\ InTurn /\ FileGenuine /\ PastGenuine

LEMMA EmptyIsHistory == <<>> \in History
BY DEF History

LEMMA EmptyIsGenuine == Genuine(<<>>) /\ Settled(<<>>)
BY DEF Genuine, Logged, OnceEach, InOrder, Settled

LEMMA HistoryInit ==
  ASSUME Init
  PROVE  HistoryInv
<1>1. TypeOK
  BY TypingInit
<1>2. log = <<>> /\ DOMAIN log = {}
  BY DEF Init
<1>3. (\A a \in Updates : pc[a] \notin Writing) /\ (\A a \in Active : a = Creation)
  BY DEF Init, Writing, Active
<1>4. WrittenOnce /\ OwnIsLogged /\ InTurn
  BY <1>2, <1>3 DEF WrittenOnce, OwnIsLogged, InTurn
<1>5. FileGenuine /\ PastGenuine
  BY EmptyIsGenuine DEF Init, FileGenuine, PastGenuine, Readable
<1>6. QED
  BY <1>1, <1>4, <1>5 DEF HistoryInv

\* An update that has ended stays so; only Start changes overlapped, and never back.
LEMMA StepOf ==
  ASSUME HistoryInv, NEW a \in Updates, UpdateStep(a)
  PROVE  /\ \E p : Goto(a, p)
         /\ pc[a] \notin Ended
         /\ ~overlapped' => ~overlapped
<1>1. pc[a] \notin Ended
  BY DEF UpdateStep, Start, ReadRecord, ReadRecordFails, WriteRecord, ReadHistory,
         DeleteHistory, StoreHistory, Crash, Active, Ended
<1>2. \E p : Goto(a, p)
  BY DEF UpdateStep, Start, ReadRecord, ReadRecordFails, WriteRecord, ReadHistory,
         DeleteHistory, StoreHistory, Crash, Goto
<1>3. ~overlapped' => ~overlapped
  BY DEF UpdateStep, Start, ReadRecord, ReadRecordFails, WriteRecord, ReadHistory,
         DeleteHistory, StoreHistory, Crash
<1>4. QED
  BY <1>1, <1>2, <1>3

\* A history that is genuine stays so if the record is not written.
LEMMA StaysGenuine ==
  ASSUME HistoryInv, NEW a \in Updates, UpdateStep(a), log' = log,
         NEW s \in History, Genuine(s), Settled(s)
  PROVE  Genuine(s)' /\ Settled(s)'
<1>1. Genuine(s)'
  BY StepOf DEF Genuine, Logged, OnceEach, InOrder
<1>2. Settled(s)'
  <2>1. SUFFICES ASSUME NEW i \in DOMAIN s
                 PROVE  pc'[s[i].by] = pc[s[i].by]
    BY DEF Settled
  <2>2. s[i].by \in Updates
    <3>1. s[i] \in Entry
      BY <2>1 DEF History
    <3>2. QED
      BY <3>1 DEF Entry
  <2>3. pc[s[i].by] \in Ended
    BY <2>1 DEF Settled, Ended
  <2>4. QED
    BY <2>2, <2>3, StepOf DEF HistoryInv, TypeOK, Goto
<1>3. QED
  BY <1>1, <1>2

\* With its own entry at the end the history that an update has read is genuine.
LEMMA NewIsGenuine ==
  ASSUME HistoryInv, NEW a \in Updates, pc[a] = "store"
  PROVE  /\ Genuine(NewHistory(a))
         /\ \A i \in DOMAIN NewHistory(a) :
              NewHistory(a)[i].by = a \/ pc[NewHistory(a)[i].by] \in {"ok", "crashed"}
<1> DEFINE s == past[a]
           t == NewHistory(a)
           n == Len(s)
<1>1. s \in Seq(Entry) /\ OwnEntry(a) \in Entry
  BY DEF HistoryInv, TypeOK, History, OwnEntry, Entry
<1>2. t = Append(s, OwnEntry(a))
  BY DEF NewHistory, OwnEntry
<1>3. /\ n \in Nat /\ DOMAIN s = 1..n /\ DOMAIN t = 1..(n + 1)
      /\ t[n + 1] = OwnEntry(a)
      /\ \A i \in 1..n : t[i] = s[i]
  BY <1>1, <1>2
<1>4. Genuine(s) /\ Settled(s)
  BY DEF HistoryInv, PastGenuine
<1>5. \A i \in 1..n : t[i].by # a /\ pc[t[i].by] \in {"ok", "crashed"}
  BY <1>3, <1>4 DEF Settled
<1>6. t[n + 1].by = a
  BY <1>3 DEF OwnEntry
<1>7. \E k \in DOMAIN log : log[k].entry = OwnEntry(a)
  BY DEF HistoryInv, OwnIsLogged, Writing
<1>8. Logged(t)
  BY <1>3, <1>4, <1>7 DEF Genuine, Logged
<1>9. OnceEach(t)
  <2>1. \A i, j \in 1..n : i # j => t[i].by # t[j].by
    BY <1>3, <1>4 DEF Genuine, OnceEach
  <2>2. \A i \in 1..(n + 1) : i \in 1..n \/ i = n + 1
    BY <1>3
  <2>3. QED
    BY <1>3, <1>5, <1>6, <2>1, <2>2 DEF OnceEach
<1>10. ASSUME ~overlapped
       PROVE  InOrder(t)
  <2>1. SUFFICES ASSUME NEW i \in 1..(n + 1), NEW j \in 1..(n + 1), i < j,
                        NEW k \in DOMAIN log, NEW l \in DOMAIN log,
                        log[k].entry = t[i], log[l].entry = t[j]
                 PROVE  k < l
    BY <1>3 DEF InOrder
  <2>2. i \in 1..n
    BY <1>3, <2>1
  <2>3. CASE j \in 1..n
    BY <1>3, <1>4, <1>10, <2>1, <2>2, <2>3 DEF Genuine, InOrder
  <2>4. CASE j = n + 1
    <3>1. l = Len(log)
      BY <1>3, <1>10, <2>1, <2>4 DEF HistoryInv, InTurn, Writing
    <3>2. k # l
      BY <1>5, <1>6, <2>1, <2>2, <2>4
    <3>3. DOMAIN log = 1..Len(log) /\ Len(log) \in Nat
      BY DEF HistoryInv, TypeOK
    <3>4. QED
      BY <3>1, <3>2, <3>3
  <2>5. QED
    BY <1>3, <2>1, <2>3, <2>4
<1>11. QED
  BY <1>3, <1>5, <1>6, <1>8, <1>9, <1>10 DEF Genuine

\* A step that leaves the log alone, and what it may do to the update's place
Quiet(a) ==
  /\ log' = log
  /\ \A b \in Updates \ {a} : held'[b] = held[b]
  /\ pc'[a] \in Writing => pc[a] \in Writing /\ held'[a] = held[a]
  /\ pc'[a] \in {"idle", "read", "write"} => pc[a] \in {"idle", "read"}
  /\ pc[a] = "idle" => overlapped' = (overlapped \/ Active # {})

LEMMA QuietSteps ==
  ASSUME HistoryInv, NEW a \in Updates, UpdateStep(a), ~(WriteRecord(a) /\ Rewritten(a))
  PROVE  Quiet(a)
<1> USE DEF HistoryInv, TypeOK, Quiet, Goto, Writing, locals
<1>1. CASE Start(a)
  BY <1>1 DEF Start
<1>2. CASE ReadRecord(a)
  BY <1>2 DEF ReadRecord
<1>3. CASE ReadRecordFails(a)
  BY <1>3 DEF ReadRecordFails
<1>4. CASE WriteRecord(a)
  BY <1>4 DEF WriteRecord
<1>5. CASE ReadHistory(a)
  BY <1>5 DEF ReadHistory
<1>6. CASE DeleteHistory(a)
  BY <1>6 DEF DeleteHistory
<1>7. CASE StoreHistory(a)
  BY <1>7 DEF StoreHistory
<1>8. CASE Crash(a)
  BY <1>8 DEF Crash, Active
<1>9. QED
  BY <1>1, <1>2, <1>3, <1>4, <1>5, <1>6, <1>7, <1>8 DEF UpdateStep

LEMMA LoggedBy ==
  ASSUME HistoryInv, NEW k \in DOMAIN log
  PROVE  log[k].entry \in Entry /\ log[k].entry.by \in Updates
<1>1. log \in Seq(LogEntry)
  BY DEF HistoryInv, TypeOK, LogEntry
<1>2. log[k] \in LogEntry
  BY <1>1
<1>3. QED
  BY <1>2 DEF LogEntry, Entry

\* Nobody else moves, and only an update that begins becomes active.
LEMMA OthersStay ==
  ASSUME HistoryInv, NEW a \in Updates, UpdateStep(a)
  PROVE  /\ pc' \in [Updates -> {"idle", "read", "write", "history", "delete", "store"} \cup Ended]
         /\ \A b \in Updates \ {a} : pc'[b] = pc[b]
         /\ Active' \subseteq Active \cup {a}
         /\ pc[a] # "idle" => a \in Active
<1>1. TypeOK'
  BY TypingStep DEF HistoryInv
<1>2. \A b \in Updates \ {a} : pc'[b] = pc[b]
  BY StepOf DEF HistoryInv, TypeOK, Goto
<1>3. pc[a] # "idle" => a \in Active
  BY StepOf DEF Active
<1>4. QED
  BY <1>1, <1>2, <1>3 DEF TypeOK, Active

LEMMA QuietKeeps ==
  ASSUME HistoryInv, NEW a \in Updates, UpdateStep(a), Quiet(a)
  PROVE  WrittenOnce' /\ OwnIsLogged' /\ InTurn'
<1>1. \A b \in Updates : pc'[b] \in Writing => pc[b] \in Writing /\ held'[b] = held[b]
  BY OthersStay DEF Quiet
<1>2. log' = log
  BY DEF Quiet
<1>3. WrittenOnce'
  <2>1. ASSUME NEW k \in DOMAIN log
        PROVE  pc'[log[k].entry.by] \notin {"idle", "read", "write"}
    <3>1. pc[log[k].entry.by] \notin {"idle", "read", "write"} /\ log[k].entry.by \in Updates
      BY LoggedBy DEF HistoryInv, WrittenOnce
    <3>2. CASE log[k].entry.by = a
      BY <3>1, <3>2 DEF Quiet
    <3>3. CASE log[k].entry.by # a
      BY <3>1, <3>3, OthersStay
    <3>4. QED
      BY <3>2, <3>3
  <2>2. QED
    BY <1>2, <2>1 DEF HistoryInv, WrittenOnce
<1>4. OwnIsLogged'
  BY <1>1, <1>2 DEF HistoryInv, OwnIsLogged, OwnEntry
<1>5. ASSUME ~overlapped'
      PROVE  \A b, c \in Active' : b = c
  <2>1. ~overlapped /\ (pc[a] = "idle" => Active = {})
    BY <1>5, StepOf DEF Quiet
  <2>2. \A b, c \in Active : b = c
    BY <2>1 DEF HistoryInv, InTurn
  <2>3. QED
    BY <2>1, <2>2, OthersStay
<1>6. ASSUME ~overlapped', NEW b \in Updates, pc'[b] \in Writing,
             NEW k \in DOMAIN log, log[k].entry = OwnEntry(b)'
      PROVE  k = Len(log)
  <2>1. ~overlapped
    BY <1>6, StepOf
  <2>2. pc[b] \in Writing /\ OwnEntry(b)' = OwnEntry(b)
    BY <1>1, <1>6 DEF OwnEntry
  <2>3. QED
    BY <1>6, <2>1, <2>2 DEF HistoryInv, InTurn
<1>7. InTurn'
  BY <1>2, <1>5, <1>6 DEF InTurn
<1>8. QED
  BY <1>3, <1>4, <1>7

\* The write of the record
Writes(a) == WriteRecord(a) /\ Rewritten(a)

Entered(a) == [by |-> a, meta |-> Cleaned(held[a])]

\* One more write is logged, the first one of its update.
LEMMA WriteLogs ==
  ASSUME HistoryInv, NEW a \in Updates, Writes(a)
  PROVE  /\ DOMAIN log = 1..Len(log) /\ Len(log) \in Nat
         /\ DOMAIN log' = 1..(Len(log) + 1) /\ Len(log') = Len(log) + 1
         /\ log'[Len(log) + 1].entry = Entered(a)
         /\ \A k \in DOMAIN log : log'[k] = log[k] /\ log[k].entry.by # a
         /\ \A k \in DOMAIN log' : k \in DOMAIN log \/ k = Len(log) + 1
         /\ pc[a] = "write" /\ pc'[a] \in {"history", "failed"}
         /\ pc'[a] = "history" => held'[a] = Cleaned(held[a])
         /\ \A b \in Updates \ {a} : held'[b] = held[b]
         /\ UNCHANGED <<file, past, overlapped>>
<1> DEFINE e == [entry |-> Entered(a), faults |-> faults]
<1>1. log \in Seq(LogEntry)
  BY DEF HistoryInv, TypeOK, LogEntry
<1>2. log' = Append(log, e)
  BY DEF Writes, Rewritten, Entered
<1>3. e \in LogEntry
  BY CleanedType DEF HistoryInv, TypeOK, LogEntry, Entry, Entered
<1>4. /\ DOMAIN log = 1..Len(log) /\ Len(log) \in Nat
      /\ DOMAIN log' = 1..(Len(log) + 1) /\ Len(log') = Len(log) + 1
      /\ log'[Len(log) + 1] = e
      /\ \A k \in 1..Len(log) : log'[k] = log[k]
  BY <1>1, <1>2, <1>3
<1>5. pc[a] = "write"
  BY DEF Writes, WriteRecord
<1>6. \A k \in DOMAIN log : log[k].entry.by # a
  BY <1>5 DEF HistoryInv, WrittenOnce
<1>7. /\ pc'[a] \in {"history", "failed"}
      /\ pc'[a] = "history" => held'[a] = Cleaned(held[a])
      /\ \A b \in Updates \ {a} : held'[b] = held[b]
      /\ UNCHANGED <<file, past, overlapped>>
  BY DEF Writes, WriteRecord, Goto, HistoryInv, TypeOK
<1>8. QED
  BY <1>4, <1>5, <1>6, <1>7

LEMMA WriteKeeps ==
  ASSUME HistoryInv, NEW a \in Updates, UpdateStep(a), Writes(a)
  PROVE  WrittenOnce' /\ OwnIsLogged' /\ InTurn'
<1> DEFINE n == Len(log) + 1
<1>1. Entered(a).by = a
  BY DEF Entered
<1>2. \A b \in Updates : b # a => pc'[b] = pc[b] /\ OwnEntry(b)' = OwnEntry(b)
  BY WriteLogs, OthersStay DEF OwnEntry
<1>3. pc'[a] = "history" => OwnEntry(a)' = Entered(a)
  BY WriteLogs DEF OwnEntry, Entered
<1>4. WrittenOnce'
  <2>1. ASSUME NEW k \in DOMAIN log'
        PROVE  pc'[log'[k].entry.by] \notin {"idle", "read", "write"}
    <3>1. CASE k \in DOMAIN log
      <4>1. log'[k] = log[k] /\ log[k].entry.by \in Updates /\ log[k].entry.by # a
        BY <3>1, WriteLogs, LoggedBy
      <4>2. QED
        BY <3>1, <4>1, <1>2 DEF HistoryInv, WrittenOnce
    <3>2. CASE k = n
      BY <3>2, <1>1, WriteLogs
    <3>3. QED
      BY <2>1, <3>1, <3>2, WriteLogs
  <2>2. ASSUME NEW k \in DOMAIN log', NEW l \in DOMAIN log', log'[k].entry.by = log'[l].entry.by
        PROVE  k = l
    <3>1. CASE k \in DOMAIN log /\ l \in DOMAIN log
      <4>1. log'[k] = log[k] /\ log'[l] = log[l]
        BY <3>1, WriteLogs
      <4>2. QED
        BY <2>2, <3>1, <4>1 DEF HistoryInv, WrittenOnce
    <3>2. \A j \in DOMAIN log' : log'[j].entry.by = a <=> j = n
      BY <1>1, WriteLogs
    <3>3. QED
      BY <2>2, <3>1, <3>2, WriteLogs
  <2>3. QED
    BY <2>1, <2>2 DEF WrittenOnce
<1>5. OwnIsLogged'
  <2>1. SUFFICES ASSUME NEW b \in Updates, pc'[b] \in Writing
                 PROVE  \E k \in DOMAIN log' : log'[k].entry = OwnEntry(b)'
    BY DEF OwnIsLogged
  <2>2. CASE b = a
    <3>1. OwnEntry(a)' = Entered(a)
      BY <2>1, <2>2, <1>3, WriteLogs DEF Writing
    <3>2. n \in DOMAIN log' /\ log'[n].entry = Entered(a)
      BY WriteLogs
    <3>3. QED
      BY <2>2, <3>1, <3>2
  <2>3. CASE b # a
    <3>1. PICK k \in DOMAIN log : log[k].entry = OwnEntry(b)
      BY <2>1, <2>3, <1>2 DEF HistoryInv, OwnIsLogged
    <3>2. k \in DOMAIN log' /\ log'[k] = log[k]
      BY WriteLogs
    <3>3. QED
      BY <2>3, <3>1, <3>2, <1>2
  <2>4. QED
    BY <2>2, <2>3
<1>6. ASSUME ~overlapped'
      PROVE  \A b \in Active' : b = a
  <2>1. ~overlapped /\ a \in Active
    BY <1>6, OthersStay, WriteLogs
  <2>2. QED
    BY <2>1, OthersStay DEF HistoryInv, InTurn
<1>7. ASSUME ~overlapped', NEW b \in Updates, pc'[b] \in Writing,
             NEW k \in DOMAIN log', log'[k].entry = OwnEntry(b)'
      PROVE  k = Len(log')
  <2>1. b = a
    BY <1>6, <1>7 DEF Active, Writing, Ended
  <2>2. log'[k].entry.by = a
    BY <1>7, <2>1 DEF OwnEntry
  <2>3. QED
    BY <1>7, <2>2, WriteLogs
<1>8. InTurn'
  BY <1>6, <1>7 DEF InTurn
<1>9. QED
  BY <1>4, <1>5, <1>8

\* The write of an update that has not ended is not in a history, nor before it.
LEMMA WriteStaysGenuine ==
  ASSUME HistoryInv, NEW a \in Updates, UpdateStep(a), Writes(a),
         NEW s \in History, Genuine(s), Settled(s)
  PROVE  Genuine(s)' /\ Settled(s)'
<1>1. \A i \in DOMAIN s : s[i].by \in Updates /\ s[i].by # a
  <2>1. SUFFICES ASSUME NEW i \in DOMAIN s
                 PROVE  s[i].by \in Updates /\ s[i].by # a
    OBVIOUS
  <2>2. s[i] \in Entry
    BY DEF History
  <2>3. pc[s[i].by] \in {"ok", "crashed"}
    BY DEF Settled
  <2>4. QED
    BY <2>2, <2>3, WriteLogs DEF Entry
<1>2. Settled(s)'
  BY <1>1, OthersStay DEF Settled
<1>3. Logged(s)'
  BY WriteLogs DEF Genuine, Logged
<1>4. OnceEach(s)'
  BY DEF Genuine, OnceEach
<1>5. ASSUME ~overlapped'
      PROVE  InOrder(s)'
  <2>1. InOrder(s)
    BY <1>5, WriteLogs DEF Genuine
  <2>2. ASSUME NEW k \in DOMAIN log', NEW i \in DOMAIN s, log'[k].entry = s[i]
        PROVE  k \in DOMAIN log /\ log'[k] = log[k]
    <3>1. Entered(a).by = a /\ log'[Len(log) + 1].entry = Entered(a)
      <4>1. log'[Len(log) + 1].entry = Entered(a)
        BY WriteLogs
      <4>2. QED
        BY <4>1 DEF Entered
    <3>2. k # Len(log) + 1
      BY <1>1, <2>2, <3>1
    <3>3. QED
      BY <2>2, <3>2, WriteLogs
  <2>3. QED
    BY <2>1, <2>2 DEF InOrder
<1>6. QED
  BY <1>2, <1>3, <1>4, <1>5 DEF Genuine

LEMMA StaysGenuineAnyway ==
  ASSUME HistoryInv, NEW a \in Updates, UpdateStep(a),
         NEW s \in History, Genuine(s), Settled(s)
  PROVE  Genuine(s)' /\ Settled(s)'
<1>1. CASE Writes(a)
  BY <1>1, WriteStaysGenuine
<1>2. CASE ~Writes(a)
  BY <1>2, QuietSteps, StaysGenuine DEF Writes, Quiet
<1>3. QED
  BY <1>1, <1>2

\* What a step leaves of the history file
LEMMA FileAfter ==
  ASSUME HistoryInv, NEW a \in Updates, UpdateStep(a)
  PROVE  \/ file' \in {file, None, Torn, <<>>}
         \/ /\ pc[a] = "store" /\ pc'[a] \in {"ok", "crashed"} /\ log' = log
            /\ file' = NewHistory(a) /\ overlapped' = overlapped
<1>1. CASE StoreHistory(a)
  BY <1>1 DEF StoreHistory, StoreLocal, StoreMinio, Remains, Goto, HistoryInv, TypeOK
<1>2. CASE Crash(a)
  BY <1>2 DEF Crash, Remains, Goto, HistoryInv, TypeOK
<1>3. QED
  BY <1>1, <1>2 DEF UpdateStep, Start, ReadRecord, ReadRecordFails, WriteRecord,
                    ReadHistory, DeleteHistory

LEMMA FileStep ==
  ASSUME HistoryInv, NEW a \in Updates, UpdateStep(a)
  PROVE  FileGenuine'
<1>1. CASE file' = file
  BY <1>1, StaysGenuineAnyway DEF HistoryInv, TypeOK, FileGenuine, Readable
<1>2. CASE file' \in {None, Torn}
  BY <1>2 DEF FileGenuine, Readable
<1>3. CASE file' = <<>>
  BY <1>3 DEF FileGenuine, Genuine, Logged, OnceEach, InOrder, Settled
<1>4. CASE /\ pc[a] = "store" /\ pc'[a] \in {"ok", "crashed"} /\ log' = log
           /\ file' = NewHistory(a) /\ overlapped' = overlapped
  <2> DEFINE t == NewHistory(a)
  <2>1. t \in Seq(Entry)
    BY NewHistoryType DEF HistoryInv, History
  <2>2. /\ Genuine(t)
        /\ \A i \in DOMAIN t : t[i].by = a \/ pc[t[i].by] \in {"ok", "crashed"}
    BY <1>4, NewIsGenuine
  <2>3. \A i \in DOMAIN t : t[i].by \in Updates
    <3>1. SUFFICES ASSUME NEW i \in DOMAIN t
                   PROVE  t[i].by \in Updates
      OBVIOUS
    <3>2. t[i] \in Entry
      BY <2>1
    <3>3. QED
      BY <3>2 DEF Entry
  <2>4. \A i \in DOMAIN file' : pc'[file'[i].by] \in {"ok", "crashed"}
    BY <1>4, <2>2, <2>3, OthersStay
  <2>5. Genuine(file)'
    BY <1>4, <2>2 DEF Genuine, Logged, OnceEach, InOrder
  <2>6. QED
    BY <2>4, <2>5 DEF FileGenuine, Settled
<1>5. QED
  BY <1>1, <1>2, <1>3, <1>4, FileAfter

LEMMA PastStep ==
  ASSUME HistoryInv, NEW a \in Updates, UpdateStep(a)
  PROVE  PastGenuine'
<1>1. \A b \in Updates :
        \/ past'[b] = past[b]
        \/ past'[b] = <<>>
        \/ past'[b] = file /\ Readable(file)
  <2>1. CASE ReadHistory(a)
    BY <2>1 DEF ReadHistory, HistoryInv, TypeOK, Readable
  <2>2. CASE ~ReadHistory(a)
    BY <2>2 DEF UpdateStep, Start, ReadRecord, ReadRecordFails, WriteRecord,
                DeleteHistory, StoreHistory, Crash, locals
  <2>3. QED
    BY <2>1, <2>2
<1>2. SUFFICES ASSUME NEW b \in Updates
               PROVE  Genuine(past[b])' /\ Settled(past[b])'
  BY DEF PastGenuine
<1>3. CASE past'[b] = past[b]
  <2>1. past[b] \in History /\ Genuine(past[b]) /\ Settled(past[b])
    BY DEF HistoryInv, TypeOK, PastGenuine
  <2>2. \A s \in {past[b]} : Genuine(s)' /\ Settled(s)'
    BY <2>1, StaysGenuineAnyway
  <2>3. QED
    BY <1>3, <2>2 DEF Genuine, Logged, OnceEach, InOrder, Settled
<1>4. CASE past'[b] = <<>>
  BY <1>4 DEF Genuine, Logged, OnceEach, InOrder, Settled
<1>5. CASE past'[b] = file /\ Readable(file)
  <2>1. file \in History /\ Genuine(file) /\ Settled(file)
    BY <1>5 DEF HistoryInv, TypeOK, FileGenuine
  <2>2. \A s \in {file} : Genuine(s)' /\ Settled(s)'
    BY <2>1, StaysGenuineAnyway
  <2>3. QED
    BY <1>5, <2>2 DEF Genuine, Logged, OnceEach, InOrder, Settled
<1>6. QED
  BY <1>1, <1>3, <1>4, <1>5

LEMMA HistoryNext ==
  ASSUME HistoryInv, [Next]_vars
  PROVE  HistoryInv'
<1>1. CASE UNCHANGED vars
  BY <1>1 DEF vars, locals, HistoryInv, TypeOK, Readable, WrittenOnce, OwnIsLogged, OwnEntry,
              InTurn, Active, FileGenuine, PastGenuine, Genuine, Logged, OnceEach, InOrder, Settled
<1>2. ASSUME NEW a \in Updates, UpdateStep(a)
      PROVE  HistoryInv'
  <2>1. TypeOK'
    BY <1>2, TypingStep DEF HistoryInv
  <2>2. WrittenOnce' /\ OwnIsLogged' /\ InTurn'
    BY <1>2, QuietSteps, QuietKeeps, WriteKeeps DEF Writes
  <2>3. FileGenuine' /\ PastGenuine'
    BY <1>2, FileStep, PastStep
  <2>4. QED
    BY <2>1, <2>2, <2>3 DEF HistoryInv
<1>3. QED
  BY <1>1, <1>2 DEF Next, Finished

\* The history file never shows metadata that the document has not had, nor an update
\* twice, and it is in order until updates overlap: update_document_metadata, for any
\* number of updates, failures and crashes.
THEOREM HistoriesAreGenuine == Spec => []HistoryIsGenuine
<1>1. Init => HistoryInv
  BY HistoryInit
<1>2. HistoryInv /\ [Next]_vars => HistoryInv'
  BY HistoryNext
<1>3. HistoryInv => HistoryIsGenuine
  BY DEF HistoryInv, FileGenuine, HistoryIsGenuine
<1>4. QED
  BY <1>1, <1>2, <1>3, PTL DEF Spec

-----------------------------------------------------------------------------
(* The history never vanishes *)

\* While nothing fails, whoever deletes the file is about to store it again.
VanishInv ==
  faults = 0 =>
    /\ file # Torn /\ file # <<>>
    /\ (\E i \in DOMAIN log : pc[log[i].entry.by] = "ok") =>
         file # None \/ \E a \in Updates : pc[a] = "store"

LEMMA NewHistoryIsThere ==
  ASSUME HistoryInv, NEW a \in Updates
  PROVE  NewHistory(a) \notin {None, Torn, <<>>}
<1>1. NewHistory(a) \in History
  BY NewHistoryType DEF HistoryInv
<1>2. past[a] \in Seq(Entry)
  BY DEF HistoryInv, TypeOK, History
<1>3. Len(NewHistory(a)) = Len(past[a]) + 1 /\ Len(past[a]) \in Nat
  BY <1>2 DEF NewHistory
<1>4. NewHistory(a) # <<>>
  BY <1>3
<1>5. QED
  BY <1>1, <1>4, HistoryAssumption

\* What a step that does not fail does to the file and to the update's place
LEMMA FaultlessStep ==
  ASSUME HistoryInv, NEW a \in Updates, UpdateStep(a), faults' = faults
  PROVE  \/ /\ file' = file /\ pc[a] \notin {"delete", "store"} /\ pc'[a] # "store"
            /\ pc'[a] = "ok" => pc[a] = "read" \/ file = Torn
            /\ pc[a] = "history" => pc'[a] = "delete" \/ file = Torn
         \/ DeleteHistory(a) /\ file' = None /\ pc[a] = "delete" /\ pc'[a] = "store"
         \/ /\ StoreHistory(a) /\ pc[a] = "store" /\ pc'[a] = "ok"
            /\ file' = NewHistory(a) \/ (file' = file /\ file # None)
<1> USE DEF HistoryInv, TypeOK, Goto
<1>1. ~Fault
  BY HistoryAssumption DEF Fault
<1>2. CASE Start(a) \/ ReadRecord(a) \/ ReadRecordFails(a)
  BY <1>1, <1>2 DEF Start, ReadRecord, ReadRecordFails
<1>3. CASE WriteRecord(a)
  BY <1>1, <1>3 DEF WriteRecord
<1>4. CASE ReadHistory(a)
  BY <1>1, <1>4 DEF ReadHistory
<1>5. CASE DeleteHistory(a)
  BY <1>1, <1>5 DEF DeleteHistory
<1>6. CASE StoreHistory(a)
  BY <1>1, <1>6 DEF StoreHistory, StoreLocal, StoreMinio
<1>7. CASE Crash(a)
  BY <1>1, <1>7 DEF Crash
<1>8. QED
  BY <1>2, <1>3, <1>4, <1>5, <1>6, <1>7 DEF UpdateStep

\* An update that has ended with success and is logged was so before, or was writing.
LEMMA SucceedsAfterWrite ==
  ASSUME HistoryInv, NEW a \in Updates, UpdateStep(a),
         NEW i \in DOMAIN log', pc'[log'[i].entry.by] = "ok"
  PROVE  /\ i \in DOMAIN log /\ log'[i] = log[i]
         /\ log[i].entry.by = a => pc[a] \notin {"idle", "read", "write"}
         /\ log[i].entry.by # a => pc[log[i].entry.by] = "ok"
<1>1. i \in DOMAIN log /\ log'[i] = log[i]
  <2>1. CASE Writes(a)
    <3>1. Entered(a).by = a
      BY DEF Entered
    <3>2. i # Len(log) + 1
      BY <2>1, <3>1, WriteLogs
    <3>3. QED
      BY <2>1, <3>2, WriteLogs
  <2>2. CASE ~Writes(a)
    BY <2>2, QuietSteps DEF Writes, Quiet
  <2>3. QED
    BY <2>1, <2>2
<1>2. log[i].entry.by \in Updates
  BY <1>1, LoggedBy
<1>3. pc[log[i].entry.by] \notin {"idle", "read", "write"}
  BY <1>1 DEF HistoryInv, WrittenOnce
<1>4. QED
  BY <1>1, <1>2, <1>3, OthersStay

LEMMA VanishStep ==
  ASSUME HistoryInv, VanishInv, NEW a \in Updates, UpdateStep(a)
  PROVE  VanishInv'
<1>1. SUFFICES ASSUME faults' = 0
               PROVE  VanishInv'
  BY DEF VanishInv
<1>2. faults = 0 /\ faults' = faults
  BY <1>1, HistoryAssumption
  DEF HistoryInv, TypeOK, UpdateStep, Start, ReadRecord, ReadRecordFails, WriteRecord,
      ReadHistory, DeleteHistory, StoreHistory, StoreLocal, StoreMinio, Crash, Fault
<1>3. file # Torn /\ file # <<>>
  BY <1>2 DEF VanishInv
<1>4. file' # Torn /\ file' # <<>>
  BY <1>2, <1>3, FaultlessStep, NewHistoryIsThere, HistoryAssumption, EmptyIsHistory
<1>5. ASSUME NEW i \in DOMAIN log', pc'[log'[i].entry.by] = "ok"
      PROVE  file' # None \/ \E b \in Updates : pc'[b] = "store"
  <2>1. CASE DeleteHistory(a) /\ pc'[a] = "store"
    BY <2>1
  <2>2. CASE pc[a] = "store" /\ (file' = NewHistory(a) \/ (file' = file /\ file # None))
    BY <2>2, NewHistoryIsThere
  <2>3. CASE /\ file' = file /\ pc[a] \notin {"delete", "store"}
             /\ pc'[a] = "ok" => pc[a] = "read" \/ file = Torn
    <3>1. log[i].entry.by # a
      BY <1>3, <1>5, <2>3, SucceedsAfterWrite
    <3>2. file # None \/ \E b \in Updates : pc[b] = "store"
      BY <1>2, <1>5, <3>1, SucceedsAfterWrite DEF VanishInv
    <3>3. QED
      BY <2>3, <3>2, OthersStay
  <2>4. QED
    BY <1>2, <2>1, <2>2, <2>3, FaultlessStep
<1>6. QED
  BY <1>4, <1>5 DEF VanishInv

\* Overlapping updates may lose each other's entries but never the whole history: while
\* nothing fails, a document whose update has been answered has an entry, except while
\* an update is about to store it.
THEOREM HistoryStays == Spec => []HistoryNeverVanishes
<1>1. Init => VanishInv
  <2>1. SUFFICES ASSUME Init
                 PROVE  VanishInv
    OBVIOUS
  <2>2. file = None
    BY <2>1 DEF Init
  <2>3. log = <<>>
    BY <2>1 DEF Init
  <2>4. QED
    BY <2>2, <2>3, HistoryAssumption, EmptyIsHistory DEF VanishInv
<1>2. HistoryInv /\ VanishInv /\ [Next]_vars => VanishInv'
  <2>1. ASSUME HistoryInv, VanishInv, [Next]_vars
        PROVE  VanishInv'
    <3>1. CASE UNCHANGED vars
      BY <2>1, <3>1 DEF vars, VanishInv
    <3>2. QED
      BY <2>1, <3>1, VanishStep DEF Next, Finished
  <2>2. QED
    BY <2>1
<1>3. VanishInv => HistoryNeverVanishes
  BY DEF VanishInv, HistoryNeverVanishes, Readable
<1>4. QED
  BY <1>1, <1>2, <1>3, HistoryInit, HistoryNext, PTL DEF Spec

-----------------------------------------------------------------------------
(* What a failure costs without overlaps *)

LogFaults == \A i \in DOMAIN log : log[i].faults \in Nat /\ log[i].faults <= faults

\* Nobody changes the history between the steps of the update that is under way.
InTurnFile ==
  \A a \in Updates :
    /\ pc[a] = "delete" => file # Torn /\ past[a] = IF file = None THEN <<>> ELSE file
    /\ pc[a] = "store" => file = None

Has(s, e) == \E j \in DOMAIN s : s[j] = e

\* An entry is still to be made, or in the file, or with the update that stores the file.
InHistory(e) ==
  \/ pc[e.by] \in Writing
  \/ (\A a \in Updates : pc[a] # "store") /\ Readable(file) /\ Has(file, e)
  \/ \E a \in Updates : pc[a] = "store" /\ Has(past[a], e)

KeptInv ==
  /\ LogFaults
  /\ ~overlapped => InTurnFile
  /\ ~overlapped /\ file # Torn =>
       \A i \in DOMAIN log : log[i].faults = faults => InHistory(log[i].entry)

\* Without overlaps no other update is active when one moves.
LEMMA MovesAlone ==
  ASSUME HistoryInv, NEW a \in Updates, UpdateStep(a), ~overlapped'
  PROVE  /\ ~overlapped
         /\ \A b \in Updates \ {a} : b \notin Active /\ pc[b] \notin Writing /\ pc'[b] \notin Writing
<1>1. ~overlapped
  BY StepOf
<1>2. pc[a] = "idle" => Active = {}
  BY <1>1 DEF UpdateStep, Start, ReadRecord, ReadRecordFails, WriteRecord, ReadHistory,
              DeleteHistory, StoreHistory, Crash, Active
<1>3. \A b \in Updates \ {a} : b \notin Active
  BY <1>1, <1>2, OthersStay DEF HistoryInv, InTurn
<1>4. \A b \in Updates : pc[b] \in Writing => b \in Active
  BY DEF Active, Writing, Ended
<1>5. QED
  BY <1>1, <1>3, <1>4, OthersStay

LEMMA FaultsGrow ==
  ASSUME HistoryInv, NEW a \in Updates, UpdateStep(a)
  PROVE  faults \in Nat /\ faults' \in {faults, faults + 1}
BY HistoryAssumption
DEF HistoryInv, TypeOK, UpdateStep, Start, ReadRecord, ReadRecordFails, WriteRecord,
    ReadHistory, DeleteHistory, StoreHistory, StoreLocal, StoreMinio, Crash, Fault

\* An entry of the log is an old one, or the write of this step with the faults before it.
LEMMA LogAfter ==
  ASSUME HistoryInv, NEW a \in Updates, UpdateStep(a), NEW i \in DOMAIN log'
  PROVE  \/ i \in DOMAIN log /\ log'[i] = log[i]
         \/ /\ Writes(a) /\ log'[i].faults = faults /\ log'[i].entry = Entered(a)
<1>1. CASE ~Writes(a)
  BY <1>1, QuietSteps DEF Writes, Quiet
<1>2. CASE Writes(a) /\ i \in DOMAIN log
  BY <1>2, WriteLogs
<1>3. CASE Writes(a) /\ i = Len(log) + 1
  <2> DEFINE e == [entry |-> Entered(a), faults |-> faults]
  <2>1. log \in Seq(LogEntry) /\ log' = Append(log, e)
    BY <1>3 DEF HistoryInv, TypeOK, LogEntry, Writes, Rewritten, Entered
  <2>2. log'[i] = e
    BY <1>3, <2>1
  <2>3. QED
    BY <1>3, <2>2
<1>4. QED
  BY <1>1, <1>2, <1>3, WriteLogs

LEMMA LogFaultsStep ==
  ASSUME HistoryInv, LogFaults, NEW a \in Updates, UpdateStep(a)
  PROVE  LogFaults'
<1>1. SUFFICES ASSUME NEW i \in DOMAIN log'
               PROVE  log'[i].faults \in Nat /\ log'[i].faults <= faults'
  BY DEF LogFaults
<1>2. CASE i \in DOMAIN log /\ log'[i] = log[i]
  BY <1>2, FaultsGrow DEF LogFaults
<1>3. CASE log'[i].faults = faults
  BY <1>3, FaultsGrow
<1>4. QED
  BY <1>1, <1>2, <1>3, LogAfter

LEMMA InTurnFileStep ==
  ASSUME HistoryInv, KeptInv, NEW a \in Updates, UpdateStep(a), ~overlapped'
  PROVE  InTurnFile'
<1>1. SUFFICES ASSUME NEW b \in Updates
               PROVE  /\ pc'[b] = "delete" => /\ file' # Torn
                                              /\ past'[b] = IF file' = None THEN <<>> ELSE file'
                      /\ pc'[b] = "store" => file' = None
  BY DEF InTurnFile
<1>2. CASE b # a
  BY <1>2, MovesAlone DEF Writing
<1>3. CASE b = a
  <2>1. CASE ReadHistory(a)
    BY <1>3, <2>1 DEF ReadHistory, Goto, HistoryInv, TypeOK
  <2>2. CASE DeleteHistory(a)
    BY <1>3, <2>2 DEF DeleteHistory, Goto, HistoryInv, TypeOK
  <2>3. CASE ~ReadHistory(a) /\ ~DeleteHistory(a)
    BY <1>3, <2>3
    DEF UpdateStep, Start, ReadRecord, ReadRecordFails, WriteRecord, StoreHistory, Crash,
        Goto, HistoryInv, TypeOK
  <2>4. QED
    BY <2>1, <2>2, <2>3
<1>4. QED
  BY <1>2, <1>3

\* The update that stores the history adds what it has logged to what it has read.
LEMMA StoresAll ==
  ASSUME HistoryInv, NEW a \in Updates, pc[a] = "store"
  PROVE  /\ \A e : Has(past[a], e) => Has(NewHistory(a), e)
         /\ \A i \in DOMAIN log : log[i].entry.by = a => Has(NewHistory(a), log[i].entry)
<1> DEFINE n == Len(past[a])
<1>1. past[a] \in Seq(Entry) /\ OwnEntry(a) \in Entry
  BY DEF HistoryInv, TypeOK, History, OwnEntry, Entry
<1>2. NewHistory(a) = Append(past[a], OwnEntry(a))
  BY DEF NewHistory, OwnEntry
<1>3. /\ n \in Nat /\ DOMAIN past[a] = 1..n /\ DOMAIN NewHistory(a) = 1..(n + 1)
      /\ NewHistory(a)[n + 1] = OwnEntry(a)
      /\ \A j \in 1..n : NewHistory(a)[j] = past[a][j]
  BY <1>1, <1>2
<1>4. Has(NewHistory(a), OwnEntry(a))
  BY <1>3 DEF Has
<1>5. \A e : Has(past[a], e) => Has(NewHistory(a), e)
  BY <1>3 DEF Has
<1>6. ASSUME NEW i \in DOMAIN log, log[i].entry.by = a
      PROVE  log[i].entry = OwnEntry(a)
  <2>1. PICK k \in DOMAIN log : log[k].entry = OwnEntry(a)
    BY DEF HistoryInv, OwnIsLogged, Writing
  <2>2. log[k].entry.by = a
    BY <2>1 DEF OwnEntry
  <2>3. QED
    BY <1>6, <2>1, <2>2 DEF HistoryInv, WrittenOnce
<1>7. QED
  BY <1>4, <1>5, <1>6

\* A step that does not fail keeps what is in the history, and loses nothing on the way.
LEMMA EntryStep ==
  ASSUME HistoryInv, KeptInv, NEW a \in Updates, UpdateStep(a), faults' = faults,
         ~overlapped', file # Torn, NEW i \in DOMAIN log, NEW e, e = log[i].entry, InHistory(e)
  PROVE  InHistory(e)'
<1>1. /\ e.by \in Updates
      /\ InTurnFile
      /\ pc[e.by] \in Writing => e.by = a
      /\ \A b \in Updates : pc[b] = "store" => b = a
      /\ \A b \in Updates \ {a} : pc'[b] # "store"
  <2>1. e.by \in Updates
    BY LoggedBy
  <2>2. QED
    BY <2>1, MovesAlone DEF KeptInv, Writing
<1>2. CASE /\ file' = file /\ pc[a] \notin {"delete", "store"} /\ pc'[a] # "store"
           /\ pc[a] = "history" => pc'[a] = "delete" \/ file = Torn
  BY <1>1, <1>2 DEF InHistory, Writing, Readable, Has
<1>3. CASE DeleteHistory(a) /\ file' = None /\ pc[a] = "delete" /\ pc'[a] = "store"
  <2>1. past' = past /\ past[a] = IF file = None THEN <<>> ELSE file
    BY <1>1, <1>3 DEF DeleteHistory, locals, InTurnFile
  <2>2. CASE pc[e.by] \in Writing
    BY <1>1, <1>3, <2>2 DEF InHistory, Writing
  <2>3. CASE Readable(file) /\ Has(file, e)
    BY <1>1, <1>3, <2>1, <2>3 DEF InHistory, Readable, Has
  <2>4. QED
    BY <1>1, <1>3, <2>2, <2>3 DEF InHistory
<1>4. CASE /\ pc[a] = "store" /\ pc'[a] = "ok"
           /\ file' = NewHistory(a) \/ (file' = file /\ file # None)
  <2>1. file' = NewHistory(a)
    BY <1>1, <1>4 DEF InTurnFile
  <2>2. Has(NewHistory(a), e)
    BY <1>1, <1>4, StoresAll DEF InHistory
  <2>3. Readable(file') /\ Has(file', e) /\ \A b \in Updates : pc'[b] # "store"
    BY <1>1, <1>4, <2>1, <2>2, NewHistoryIsThere DEF Readable
  <2>4. QED
    BY <2>3 DEF InHistory, Readable, Has
<1>5. QED
  BY <1>2, <1>3, <1>4, FaultlessStep

LEMMA KeptStep ==
  ASSUME HistoryInv, KeptInv, NEW a \in Updates, UpdateStep(a)
  PROVE  KeptInv'
<1>1. LogFaults'
  BY LogFaultsStep DEF KeptInv
<1>2. SUFFICES ASSUME ~overlapped', file' # Torn,
                      NEW i \in DOMAIN log', log'[i].faults = faults',
                      NEW e, e = log'[i].entry
               PROVE  InHistory(e)'
  <2>1. ~overlapped' => InTurnFile'
    BY InTurnFileStep
  <2>2. QED
    BY <1>1, <2>1 DEF KeptInv, InHistory, Has, Readable
<1>3. faults' = faults
  BY <1>2, LogAfter, FaultsGrow DEF KeptInv, LogFaults
<1>4. file # Torn
  <2>1. pc[a] = "delete" => file # Torn
    BY <1>2, MovesAlone DEF KeptInv, InTurnFile
  <2>2. pc[a] = "store" => file # Torn
    BY <1>2, MovesAlone, HistoryAssumption DEF KeptInv, InTurnFile
  <2>3. QED
    BY <1>2, <1>3, <2>1, <2>2, FaultlessStep
<1>5. CASE i \in DOMAIN log /\ log'[i] = log[i]
  <2>1. e = log[i].entry /\ InHistory(e)
    BY <1>2, <1>3, <1>4, <1>5, MovesAlone DEF KeptInv
  <2>2. QED
    BY <1>2, <1>3, <1>4, <1>5, <2>1, EntryStep
<1>6. CASE Writes(a) /\ e = Entered(a)
  <2>1. pc'[a] = "history"
    BY <1>3, <1>6, FaultsGrow DEF Writes, WriteRecord, Fault, Goto, HistoryInv, TypeOK
  <2>2. e.by = a
    BY <1>6 DEF Entered
  <2>3. QED
    BY <2>1, <2>2 DEF InHistory, Writing
<1>7. QED
  BY <1>2, <1>5, <1>6, LogAfter

\* Without overlaps a failure costs the entries before it at most: an update that
\* changes the record after it is in the history again, unless a torn file is in
\* the way; update_document_metadata and its history, for any number of updates.
THEOREM HistoryRecovers == Spec => []HistoryIsComplete
<1>1. ASSUME Init
      PROVE  KeptInv
  <2>1. log = <<>>
    BY <1>1 DEF Init
  <2>2. \A a \in Updates : pc[a] \notin {"delete", "store"}
    BY <1>1 DEF Init
  <2>3. QED
    BY <2>1, <2>2 DEF KeptInv, LogFaults, InTurnFile
<1>2. ASSUME HistoryInv, KeptInv, [Next]_vars
      PROVE  KeptInv'
  <2>1. CASE UNCHANGED vars
    BY <1>2, <2>1 DEF vars, locals, KeptInv, LogFaults, InTurnFile, InHistory, Has, Readable
  <2>2. QED
    BY <1>2, <2>1, KeptStep DEF Next, Finished
<1>3. ASSUME HistoryInv, KeptInv
      PROVE  HistoryIsComplete
  <2>1. SUFFICES ASSUME ~overlapped, Active = {}, file # Torn,
                        NEW i \in DOMAIN log, log[i].faults = faults
                 PROVE  Readable(file) /\ Has(file, log[i].entry)
    BY DEF HistoryIsComplete, Has
  <2>2. \A a \in Updates : pc[a] \notin Writing
    BY <2>1 DEF Active, Writing, Ended
  <2>3. log[i].entry.by \in Updates
    BY <1>3, LoggedBy
  <2>4. QED
    BY <1>3, <2>1, <2>2, <2>3 DEF KeptInv, InHistory, Writing
<1>4. QED
  BY <1>1, <1>2, <1>3, HistoryInit, HistoryNext, PTL DEF Spec

-----------------------------------------------------------------------------
(* What a PATCH says is what is done.  Without overlaps the record stays as  *)
(* an update has read it until it is written.                               *)

\* The record has what the update was asked for.
Applied(a) == \A k \in Keys : Cleaned(patch[a])[k] \in {Keep, ToMetadata(record)[k]}

PatchInv ==
  /\ pc[Creation] # "idle"
  /\ ~overlapped =>
       /\ pc[Creation] \in {"read", "write"} => record = {}
       /\ \A a \in Updates : pc[a] = "write" => held[a] = Merged(ToMetadata(record), patch[a])
       /\ \A a \in Updates : pc[a] \in Writing => Applied(a)

LEMMA Distinct ==
  /\ None # Empty /\ None # Keep /\ Empty # Keep
  /\ \A v \in Values : v # None /\ v # Empty /\ v # Keep
<1>1. ASSUME NEW x, NEW y  PROVE Cardinality({x, y}) # 3
  <2>1. IsFiniteSet({x}) /\ Cardinality({x}) = 1
    BY FS_Singleton
  <2>2. {x, y} = {x} \cup {y}
    OBVIOUS
  <2>3. Cardinality({x} \cup {y}) = IF y \in {x} THEN 1 ELSE 2
    BY <2>1, FS_AddElement
  <2> QED  BY <2>2, <2>3
<1>2. {None, Empty, Keep} = {None, Empty} \cup {Keep}
  OBVIOUS
<1>3. ASSUME None = Empty \/ None = Keep \/ Empty = Keep  PROVE FALSE
  <2>1. {None, Empty, Keep} = {None, Keep} \/ {None, Empty, Keep} = {None, Empty}
    BY <1>3
  <2> QED  BY <1>1, <2>1, HistoryAssumption
<1> QED  BY <1>3, HistoryAssumption

\* What is written to the Handle record is read again, but for empty values.
LEMMA RoundTrip ==
  ASSUME NEW m \in Metadata
  PROVE  ToMetadata(FromMetadata(m)) = Cleaned(m)
<1> DEFINE values == FromMetadata(m)
           Data(k) == IF \E v \in values : v.type = k
                      THEN (CHOOSE v \in values : v.type = k).data ELSE None
<1>1. ASSUME NEW k \in Keys  PROVE Data(k) = m[k]
  <2>1. CASE m[k] # None
    <3>1. [type |-> k, data |-> m[k]] \in values
      BY <2>1 DEF FromMetadata
    <3>2. PICK w \in values : w = (CHOOSE v \in values : v.type = k) /\ w.type = k
      BY <3>1
    <3>3. w \in values
      BY <3>1, <3>2
    <3>4. PICK j \in Keys : w = [type |-> j, data |-> m[j]]
      BY <3>3 DEF FromMetadata
    <3>5. w.type = j /\ w.data = m[j]
      BY <3>4
    <3>6. j = k
      BY <3>2, <3>5
    <3>7. w.data = m[k]
      BY <3>5, <3>6
    <3> QED  BY <3>1, <3>2, <3>7
  <2>2. CASE m[k] = None
    <3>1. ~\E v \in values : v.type = k
      BY <2>2 DEF FromMetadata
    <3> QED  BY <2>2, <3>1
  <2> QED  BY <2>1, <2>2
<1>2. ToMetadata(values) = Cleaned([k \in Keys |-> Data(k)])
  BY DEF ToMetadata
<1>3. [k \in Keys |-> Data(k)] = m
  BY <1>1 DEF Metadata
<1> QED  BY <1>2, <1>3

LEMMA NothingToRead == ToMetadata({}) = NoMetadata
BY Distinct DEF ToMetadata, Cleaned, NoMetadata

\* Metadata that has been read has no empty values.
LEMMA ReadIsClean ==
  ASSUME NEW values, values \subseteq HandleValue, NEW k \in Keys
  PROVE  ToMetadata(values)[k] \in Values \cup {None}
<1>1. ToMetadata(values) \in Metadata
  BY ToMetadataType
<1>2. ToMetadata(values)[k] # Empty
  BY Distinct DEF ToMetadata, Cleaned
<1> QED  BY <1>1, <1>2 DEF Metadata

\* The merge of a request into what was read: the fields it gives, and no others
LEMMA MergedIsAsked ==
  ASSUME NEW old, \A k \in Keys : old[k] \in Values \cup {None}, NEW p \in Patch, NEW k \in Keys
  PROVE  LET new == Cleaned(Merged(old, p)) IN
         /\ Cleaned(p)[k] \in {Keep, new[k]}
         /\ new[k] # old[k] => Cleaned(p)[k] = new[k]
<1>1. p[k] \in Values \cup {Keep, Empty} /\ old[k] \in Values \cup {None}
  BY DEF Patch
<1>2. Cleaned(p)[k] = IF p[k] = Empty THEN None ELSE p[k]
  BY DEF Cleaned
<1>3. Cleaned(Merged(old, p))[k] = IF p[k] = Keep THEN old[k] ELSE IF p[k] = Empty THEN None ELSE p[k]
  BY <1>1, Distinct DEF Cleaned, Merged
<1> QED  BY <1>1, <1>2, <1>3, Distinct

\* A request whose merge is not noticed changes nothing, or only an existing dictionary.
LEMMA UnnoticedIsSame ==
  ASSUME NEW old, \A k \in Keys : old[k] \in Values \cup {None}, NEW p \in Patch,
         ~Notices(old, Merged(old, p))
  PROVE  \/ \A k \in Keys : Cleaned(p)[k] \in {Keep, old[k]}
         \/ HasExtra(old) /\ \A k \in Fields : p[k] \in {Keep, old[k]}
<1>1. ASSUME NEW k \in Keys
      PROVE  /\ p[k] \in Values \cup {Keep, Empty}
             /\ Cleaned(p)[k] = IF p[k] = Empty THEN None ELSE p[k]
             /\ Merged(old, p)[k] = IF p[k] = Keep THEN old[k]
                                   ELSE IF p[k] = Empty /\ k \in Extras THEN None ELSE p[k]
  BY <1>1, Distinct DEF Patch, Cleaned, Merged
<1>2. ASSUME NEW k \in Fields  PROVE k \in Keys /\ p[k] \in {Keep, old[k]} /\ p[k] # Empty
  <2>1. k \in Keys /\ k \notin Extras /\ Merged(old, p)[k] = old[k]
    BY HistoryAssumption DEF Keys, Notices
  <2>2. old[k] # Empty
    BY <2>1, Distinct
  <2> QED  BY <1>1, <2>1, <2>2, Distinct
<1>3. ASSUME ~HasExtra(old), NEW k \in Extras  PROVE Cleaned(p)[k] \in {Keep, old[k]}
  <2>1. k \in Keys /\ old[k] = None /\ Merged(old, p)[k] = None
    BY <1>3 DEF Keys, HasExtra, Notices
  <2> QED  BY <1>1, <2>1, Distinct
<1>4. \A k \in Fields : Cleaned(p)[k] \in {Keep, old[k]}
  BY <1>1, <1>2
<1> QED  BY <1>2, <1>3, <1>4 DEF Keys

\* Without overlaps the write has its effect on what the update has read.
LEMMA WriteApplies ==
  ASSUME HistoryInv, PatchInv, ~overlapped, NEW a \in Updates, Writes(a)
  PROVE  /\ ToMetadata(record') = Cleaned(Merged(ToMetadata(record), patch[a]))
         /\ patch[a] \in Patch
<1>1. held[a] \in Metadata /\ patch[a] \in Patch
  BY DEF HistoryInv, TypeOK
<1>2. held[a] = Merged(ToMetadata(record), patch[a]) /\ record' = FromMetadata(held[a])
  BY DEF PatchInv, Writes, WriteRecord, Rewritten
<1> QED  BY <1>1, <1>2, RoundTrip

LEMMA CleanRecord ==
  ASSUME HistoryInv
  PROVE  \A k \in Keys : ToMetadata(record)[k] \in Values \cup {None}
BY ReadIsClean DEF HistoryInv, TypeOK

\* What an update reads, the create request included
LEMMA ReadsRecord ==
  ASSUME HistoryInv, PatchInv, ~overlapped, NEW a \in Updates, ReadRecord(a)
  PROVE  (IF a = Creation THEN NoMetadata ELSE ToMetadata(record)) = ToMetadata(record)
BY NothingToRead DEF PatchInv, ReadRecord

LEMMA PatchInvStep ==
  ASSUME HistoryInv, PatchInv, NEW a \in Updates, UpdateStep(a)
  PROVE  PatchInv'
<1>1. Creation \in Updates /\ pc'[Creation] # "idle"
  <2>1. Creation \in Updates
    BY DEF Updates
  <2>2. CASE a = Creation
    BY <2>1, <2>2 DEF PatchInv, UpdateStep, Start, ReadRecord, ReadRecordFails, WriteRecord,
         ReadHistory, DeleteHistory, StoreHistory, Crash, Goto, HistoryInv, TypeOK
  <2> QED  BY <2>1, <2>2, OthersStay DEF PatchInv
<1>2. SUFFICES ASSUME ~overlapped'
               PROVE  /\ pc'[Creation] \in {"read", "write"} => record' = {}
                      /\ \A b \in Updates : pc'[b] = "write" => held'[b] = Merged(ToMetadata(record'), patch'[b])
                      /\ \A b \in Updates : pc'[b] \in Writing => Applied(b)'
  BY <1>1 DEF PatchInv
<1>3. /\ ~overlapped
      /\ \A b \in Updates \ {a} : pc'[b] = pc[b] /\ pc[b] \in Ended \cup {"idle"}
  BY <1>2, MovesAlone, OthersStay DEF Active
<1>4. \A b \in Updates \ {a} : pc'[b] # "write" /\ pc'[b] \notin Writing /\ pc'[b] # "read"
  BY <1>3 DEF Ended, Writing
<1>5. CASE Writes(a)
  <2>1. pc'[a] \in {"history", "failed"} /\ patch' = patch
    BY <1>5 DEF Writes, WriteRecord, Goto, HistoryInv, TypeOK
  <2>2. Applied(a)'
    BY <1>3, <1>5, <2>1, WriteApplies, CleanRecord, MergedIsAsked DEF Applied
  <2> QED  BY <1>4, <2>1, <2>2 DEF Updates
<1>6. CASE ~Writes(a)
  <2>1. record' = record /\ (pc[a] # "idle" => patch' = patch)
    BY <1>6 DEF UpdateStep, Start, ReadRecord, ReadRecordFails, WriteRecord, Writes,
         ReadHistory, DeleteHistory, StoreHistory, Crash, locals
  <2>2. CASE Start(a)
    <3>1. pc'[a] = "read" /\ a # Creation
      BY <2>2 DEF Start, Goto, HistoryInv, TypeOK, PatchInv
    <3> QED  BY <1>1, <1>4, <3>1 DEF Writing
  <2>3. CASE ReadRecord(a)
    <3>1. /\ pc[a] = "read" /\ pc'[a] \in {"write", "ok"}
          /\ held'[a] = Merged(ToMetadata(record), patch[a])
      BY <1>3, <2>3, ReadsRecord DEF ReadRecord, Goto, HistoryInv, TypeOK
    <3>2. a = Creation => record = {}
      BY <1>3, <3>1 DEF PatchInv
    <3> QED  BY <1>1, <1>4, <2>1, <3>1, <3>2 DEF Writing
  <2>4. CASE ~Start(a) /\ ~ReadRecord(a)
    <3>1. /\ pc[a] # "idle" /\ pc'[a] \notin {"read", "write"}
          /\ pc'[a] \in Writing => pc[a] \in Writing
      BY <1>6, <2>4, QuietSteps DEF Quiet, UpdateStep, ReadRecordFails, WriteRecord, Writes,
         ReadHistory, DeleteHistory, StoreHistory, Crash, Active, Goto, HistoryInv, TypeOK, Writing, Ended
    <3>2. Applied(a) => Applied(a)'
      BY <2>1, <3>1 DEF Applied
    <3> QED  BY <1>1, <1>3, <1>4, <3>1, <3>2 DEF PatchInv
  <2> QED  BY <2>2, <2>3, <2>4
<1> QED  BY <1>5, <1>6

\* The step of PatchIsApplied
PatchStep ==
  ~overlapped' =>
       LET old == ToMetadata(record)  new == ToMetadata(record') IN
       /\ \A k \in Keys : new[k] # old[k] =>
            \E a \in Active : Cleaned(patch[a])[k] = new[k]
       /\ \A a \in Active : pc'[a] = "ok" =>
            \/ \A k \in Keys : Cleaned(patch[a])[k] \in {Keep, new[k]}
            \/ pc[a] = "read" /\ HasExtra(old) /\ \A k \in Fields : patch[a][k] \in {Keep, old[k]}

LEMMA PatchSteps ==
  ASSUME HistoryInv, PatchInv, NEW a \in Updates, UpdateStep(a)
  PROVE  PatchStep
<1> DEFINE old == ToMetadata(record)
           new == ToMetadata(record')
<1>1. SUFFICES ASSUME ~overlapped'
               PROVE  /\ \A k \in Keys : new[k] # old[k] =>
                           \E b \in Active : Cleaned(patch[b])[k] = new[k]
                      /\ \A b \in Active : pc'[b] = "ok" =>
                           \/ \A k \in Keys : Cleaned(patch[b])[k] \in {Keep, new[k]}
                           \/ pc[b] = "read" /\ HasExtra(old)
                              /\ \A k \in Fields : patch[b][k] \in {Keep, old[k]}
  BY DEF PatchStep
<1>2. ~overlapped /\ Active \subseteq {a}
  BY <1>1, MovesAlone DEF Active
<1>3. CASE Writes(a)
  <2>1. a \in Active /\ pc'[a] # "ok"
    BY <1>3, OthersStay DEF Writes, WriteRecord, Goto, HistoryInv, TypeOK
  <2>2. \A k \in Keys : new[k] # old[k] => Cleaned(patch[a])[k] = new[k]
    BY <1>2, <1>3, WriteApplies, CleanRecord, MergedIsAsked
  <2> QED  BY <1>2, <2>1, <2>2
<1>4. CASE ~Writes(a)
  <2>1. record' = record
    BY <1>4 DEF UpdateStep, Start, ReadRecord, ReadRecordFails, WriteRecord, Writes,
         ReadHistory, DeleteHistory, StoreHistory, Crash
  <2>2. ASSUME a \in Active, pc'[a] = "ok"
        PROVE  \/ \A k \in Keys : Cleaned(patch[a])[k] \in {Keep, old[k]}
               \/ pc[a] = "read" /\ HasExtra(old) /\ \A k \in Fields : patch[a][k] \in {Keep, old[k]}
    <3>1. CASE ReadRecord(a)
      <4>1. pc[a] = "read" /\ ~Notices(old, Merged(old, patch[a])) /\ patch[a] \in Patch
        BY <1>2, <2>2, <3>1, ReadsRecord DEF ReadRecord, Goto, HistoryInv, TypeOK
      <4> QED  BY <4>1, CleanRecord, UnnoticedIsSame
    <3>2. CASE ~ReadRecord(a)
      <4>1. pc[a] \in Writing
        BY <1>4, <2>2, <3>2 DEF UpdateStep, Start, ReadRecordFails, WriteRecord, Writes,
           ReadHistory, DeleteHistory, StoreHistory, Crash, Goto, HistoryInv, TypeOK, Writing
      <4> QED  BY <1>2, <4>1 DEF PatchInv, Applied
    <3> QED  BY <3>1, <3>2
  <2> QED  BY <1>2, <2>1, <2>2
<1> QED  BY <1>3, <1>4

\* PATCH metadata changes the fields it is given and no others, and says success only when
\* each has its new value, with the one exception that the code does not notice.
THEOREM PatchesAreApplied == Spec => PatchIsApplied
<1>1. ASSUME Init  PROVE PatchInv
  <2>1. pc[Creation] = "read" /\ record = {} /\ \A a \in Updates : pc[a] \in {"read", "idle"}
    BY <1>1 DEF Init, Updates
  <2> QED  BY <2>1 DEF PatchInv, Writing
<1>2. ASSUME HistoryInv, PatchInv, [Next]_vars  PROVE PatchInv'
  <2>1. CASE UNCHANGED vars
    BY <1>2, <2>1 DEF vars, locals, PatchInv, Applied
  <2> QED  BY <1>2, <2>1, PatchInvStep DEF Next, Finished
<1>3. ASSUME HistoryInv, PatchInv, [Next]_vars  PROVE [PatchStep]_vars
  BY <1>3, PatchSteps DEF Next, Finished
<1>4. Spec => [][PatchStep]_vars
  BY <1>1, <1>2, <1>3, HistoryInit, HistoryNext, PTL DEF Spec
<1> QED  BY <1>4 DEF PatchIsApplied, PatchStep

=============================================================================
