------------------------- MODULE HandleSession_proofs -------------------------
(***************************************************************************)
(* Proofs about HandleSession, for every set of calls and every fault.     *)
(***************************************************************************)
EXTENDS HandleSession, FiniteSetTheorems, TLAPS

\* The lock is held by exactly the call that authenticates.
LockHolder == \A c \in Calls : pc[c] \in {"opening", "signing"} <=> lock = c

SessionInv == TypeOK /\ LockHolder

LEMMA SessionInvInit ==
  ASSUME Init
  PROVE  SessionInv
BY SessionAssumption
DEF Init, SessionInv, TypeOK, LockHolder, CallOrNone

\* The step of a coroutine that changes nothing on the server
LEMMA SendKeeps ==
  ASSUME SessionInv, NEW c \in Calls, Send(c)
  PROVE  /\ sid' \in [Calls -> CallOrNone]
         /\ pc' = [pc EXCEPT ![c] = "sent"]
BY DEF SessionInv, TypeOK, Send, Goto

LEMMA StartKeeps ==
  ASSUME SessionInv, NEW c \in Calls, Start(c)
  PROVE  SessionInv'
<1>1. CASE session # None /\ Send(c) /\ UNCHANGED <<lock, queue>>
  <2>1. sid' \in [Calls -> CallOrNone] /\ pc' = [pc EXCEPT ![c] = "sent"]
    BY <1>1, SendKeeps
  <2>2. pc[c] = "idle" /\ UNCHANGED <<session, server>>
    BY DEF Start
  <2>3. QED
    BY <1>1, <2>1, <2>2
    DEF SessionInv, TypeOK, LockHolder, CallOrNone
<1>2. CASE lock = None /\ lock' = c /\ Goto(c, "opening") /\ UNCHANGED <<queue, sid>>
  <2>1. pc' = [pc EXCEPT ![c] = "opening"]
    BY <1>2 DEF Goto
  <2>2. pc[c] = "idle" /\ UNCHANGED <<session, server>>
    BY DEF Start
  <2>3. QED
    BY <1>2, <2>1, <2>2, SessionAssumption
    DEF SessionInv, TypeOK, LockHolder, CallOrNone
<1>3. CASE queue' = Append(queue, c) /\ Goto(c, "waiting") /\ UNCHANGED <<lock, sid>>
  <2>1. queue' \in Seq(Calls)
    BY <1>3 DEF SessionInv, TypeOK
  <2>2. pc[c] = "idle" /\ UNCHANGED <<session, server>>
    BY DEF Start
  <2>3. pc' = [pc EXCEPT ![c] = "waiting"]
    BY <1>3 DEF Goto
  <2>4. TypeOK'
    BY <1>3, <2>1, <2>2, <2>3 DEF SessionInv, TypeOK
  <2>5. LockHolder'
    BY <1>3, <2>2, <2>3 DEF SessionInv, TypeOK, LockHolder
  <2>6. QED
    BY <2>4, <2>5 DEF SessionInv
<1>4. QED
  BY <1>1, <1>2, <1>3 DEF Start

LEMMA AcquireKeeps ==
  ASSUME SessionInv, NEW c \in Calls, Acquire(c)
  PROVE  SessionInv'
<1>1. queue' \in Seq(Calls)
  BY DEF Acquire, SessionInv, TypeOK
<1>2. lock = None /\ UNCHANGED <<session, server>>
  BY DEF Acquire
<1>3. pc[c] \notin {"opening", "signing"}
  BY <1>2, SessionAssumption DEF SessionInv, LockHolder
<1>4. CASE Send(c) /\ UNCHANGED lock
  <2>1. sid' \in [Calls -> CallOrNone] /\ pc' = [pc EXCEPT ![c] = "sent"]
    BY <1>4, SendKeeps
  <2>2. QED
    BY <1>1, <1>2, <1>3, <1>4, <2>1
    DEF SessionInv, TypeOK, LockHolder, CallOrNone
<1>5. CASE lock' = c /\ Goto(c, "opening") /\ UNCHANGED sid
  <2>1. pc' = [pc EXCEPT ![c] = "opening"]
    BY <1>5 DEF Goto
  <2>2. QED
    BY <1>1, <1>2, <1>3, <1>5, <2>1, SessionAssumption
    DEF SessionInv, TypeOK, LockHolder, CallOrNone
<1>6. QED
  BY <1>4, <1>5 DEF Acquire

LEMMA AuthenticationKeeps ==
  ASSUME SessionInv, NEW c \in Calls,
         Opened(c) \/ OpenFails(c) \/ Signed(c) \/ SignFails(c)
  PROVE  SessionInv'
<1>1. CASE Opened(c)
  BY <1>1, SessionAssumption
  DEF Opened, Goto, SessionInv, TypeOK, LockHolder, CallOrNone
<1>2. CASE OpenFails(c)
  BY <1>2, SessionAssumption
  DEF OpenFails, Goto, SessionInv, TypeOK, LockHolder, CallOrNone,
      Ended
<1>3. CASE Signed(c)
  <2>1. sid' \in [Calls -> CallOrNone] /\ pc' = [pc EXCEPT ![c] = "sent"]
    BY <1>3, SendKeeps DEF Signed
  <2>2. QED
    BY <1>3, <2>1, SessionAssumption
    DEF Signed, SessionInv, TypeOK, LockHolder, CallOrNone
<1>4. CASE SignFails(c)
  BY <1>4, SessionAssumption
  DEF SignFails, Goto, SessionInv, TypeOK, LockHolder, CallOrNone,
      Ended
<1>5. QED
  BY <1>1, <1>2, <1>3, <1>4

LEMMA RequestKeeps ==
  ASSUME SessionInv, NEW c \in Calls,
         Accepted(c) \/ Rejected(c) \/ Authenticate(c) \/ Answer(c) \/ Expire(c)
  PROVE  SessionInv'
<1>1. CASE Accepted(c) \/ Rejected(c)
  BY <1>1, SessionAssumption
  DEF Accepted, Rejected, Goto, SessionInv, TypeOK, LockHolder,
      CallOrNone, Ended
<1>2. CASE Authenticate(c) \/ Expire(c)
  BY <1>2
  DEF Authenticate, Expire, SessionInv, TypeOK, LockHolder,
      CallOrNone
<1>3. CASE Answer(c)
  <2>1. PICK step \in {"accepted", "rejected"} : pc' = [pc EXCEPT ![c] = step]
    BY <1>3 DEF Answer, Goto
  <2>2. QED
    BY <1>3, <2>1
    DEF Answer, SessionInv, TypeOK, LockHolder, CallOrNone
<1>4. QED
  BY <1>1, <1>2, <1>3

LEMMA SessionInvStep ==
  ASSUME SessionInv, [Next]_vars
  PROVE  SessionInv'
<1>1. CASE \E c \in Calls : Start(c) \/ Proceed(c) \/ Expire(c)
  BY <1>1, StartKeeps, AcquireKeeps, AuthenticationKeeps, RequestKeeps DEF Proceed
<1>2. CASE UNCHANGED vars
  BY <1>2 DEF vars, SessionInv, TypeOK, LockHolder
<1>3. QED
  BY <1>1, <1>2 DEF Next, Finished

THEOREM SessionInvariant == Spec => []SessionInv
BY SessionInvInit, SessionInvStep, PTL DEF Spec

\* Every variable keeps its type: the queue holds calls, and every session has an owner.
THEOREM SessionTyping == Spec => []TypeOK
<1>1. SessionInv => TypeOK
  BY DEF SessionInv
<1>2. QED
  BY <1>1, SessionInvariant, PTL

\* At most one call of a worker authenticates at any time: the asyncio lock of
\* ensure_authenticated is released by every way out and taken by one call.
THEOREM MutualExclusion == Spec => []AuthenticatesAlone
<1>1. SessionInv => AuthenticatesAlone
  BY SessionAssumption DEF SessionInv, LockHolder, AuthenticatesAlone
<1>2. QED
  BY <1>1, SessionInvariant, PTL

-----------------------------------------------------------------------------
(* Calls that wait together share one authentication *)

Openers  == {c \in Calls : pc[c] = "opening" \/ server[c] # "none"}
Failures == {c \in Calls : pc[c] = "failed"}

\* Nobody has a session, and nobody is opening one.
SessionLost == session = None /\ \A c \in Calls : pc[c] # "opening"

\* Only a failing call loses the session, so that each further opening has its failure.
Counted ==
  /\ IsFiniteSet(Openers) /\ IsFiniteSet(Failures)
  /\ Cardinality(Openers) <= 1 + Cardinality(Failures)
  /\ SessionLost => Cardinality(Openers) <= Cardinality(Failures)

\* A call waits at most once in the queue, and does nothing else.
QueueWaits ==
  /\ \A i \in 1..Len(queue) : pc[queue[i]] = "waiting"
  /\ \A i, j \in 1..Len(queue) : queue[i] = queue[j] => i = j

CountInv == Counted /\ QueueWaits

LEMMA NothingOpened ==
  ASSUME Counted, Openers' = Openers, Failures' = Failures, SessionLost' => SessionLost
  PROVE  Counted'
BY DEF Counted

LEMMA OneFails ==
  ASSUME Counted, NEW c \in Calls, c \notin Failures, Failures' = Failures \cup {c},
         Openers' \in {Openers, Openers \ {c}}
  PROVE  Counted'
<1>1. IsFiniteSet(Failures') /\ Cardinality(Failures') = Cardinality(Failures) + 1
  BY FS_AddElement DEF Counted
<1>2. /\ IsFiniteSet(Openers')
      /\ Cardinality(Openers') \in {Cardinality(Openers), Cardinality(Openers) - 1}
  BY FS_RemoveElement DEF Counted
<1>3. Cardinality(Openers) \in Nat /\ Cardinality(Failures) \in Nat
  BY FS_CardinalityType DEF Counted
<1> QED
  BY <1>1, <1>2, <1>3 DEF Counted

LEMMA OneOpens ==
  ASSUME Counted, NEW c \in Calls, SessionLost, Failures' = Failures,
         Openers' = Openers \cup {c}, pc'[c] = "opening"
  PROVE  Counted'
<1>1. /\ IsFiniteSet(Openers')
      /\ Cardinality(Openers') \in {Cardinality(Openers), Cardinality(Openers) + 1}
  BY FS_AddElement DEF Counted
<1>2. Cardinality(Openers) \in Nat /\ Cardinality(Failures) \in Nat
  BY FS_CardinalityType DEF Counted
<1>3. ~SessionLost'
  BY DEF SessionLost
<1> QED
  BY <1>1, <1>2, <1>3 DEF Counted

\* Whoever is not in the queue can go on without leaving it.
LEMMA QueueKept ==
  ASSUME SessionInv, QueueWaits, NEW c \in Calls, NEW step, pc[c] # "waiting",
         pc' = [pc EXCEPT ![c] = step], UNCHANGED queue
  PROVE  QueueWaits'
<1>1. \A i \in 1..Len(queue) : queue[i] \in Calls /\ queue[i] # c
  BY DEF QueueWaits, SessionInv, TypeOK
<1> QED
  BY <1>1 DEF QueueWaits, SessionInv, TypeOK

LEMMA StartCounts ==
  ASSUME SessionInv, CountInv, NEW c \in Calls, Start(c)
  PROVE  CountInv'
<1>1. pc[c] = "idle" /\ UNCHANGED <<session, server>>
  BY DEF Start
<1>2. CASE session # None /\ Send(c) /\ UNCHANGED <<lock, queue>>
  <2>1. pc' = [pc EXCEPT ![c] = "sent"]
    BY <1>2 DEF Send, Goto
  <2>2. Openers' = Openers /\ Failures' = Failures /\ ~SessionLost'
    BY <1>1, <1>2, <2>1 DEF Openers, Failures, SessionLost, SessionInv, TypeOK
  <2> QED
    BY <1>1, <1>2, <2>1, <2>2, NothingOpened, QueueKept DEF CountInv
<1>3. CASE session = None /\ lock = None /\ Goto(c, "opening") /\ UNCHANGED queue
  <2>1. pc' = [pc EXCEPT ![c] = "opening"]
    BY <1>3 DEF Goto
  <2>2. SessionLost
    BY <1>3, SessionAssumption DEF SessionLost, SessionInv, LockHolder
  <2>3. Openers' = Openers \cup {c} /\ Failures' = Failures /\ pc'[c] = "opening"
    BY <1>1, <2>1 DEF Openers, Failures, SessionInv, TypeOK
  <2> QED
    BY <1>1, <1>3, <2>1, <2>2, <2>3, OneOpens, QueueKept DEF CountInv
<1>4. CASE queue' = Append(queue, c) /\ Goto(c, "waiting")
  <2>1. pc' = [pc EXCEPT ![c] = "waiting"]
    BY <1>4 DEF Goto
  <2>2. Openers' = Openers /\ Failures' = Failures /\ (SessionLost' => SessionLost)
    BY <1>1, <2>1 DEF Openers, Failures, SessionLost, SessionInv, TypeOK
  <2>3. QueueWaits'
    <3>1. queue \in Seq(Calls) /\ pc = [e \in Calls |-> pc[e]]
      BY DEF SessionInv, TypeOK
    <3>2. \A i \in 1..Len(queue) : queue[i] \in Calls /\ pc[queue[i]] = "waiting" /\ queue[i] # c
      BY <1>1, <3>1 DEF CountInv, QueueWaits
    <3>3. /\ Len(queue') = Len(queue) + 1
          /\ \A i \in 1..Len(queue) : queue'[i] = queue[i]
          /\ queue'[Len(queue) + 1] = c
      BY <1>4, <3>1
    <3>4. Len(queue) \in Nat /\ 1..Len(queue') = 1..Len(queue) \cup {Len(queue) + 1}
      BY <3>1, <3>3
    <3>5. \A i \in 1..Len(queue') : pc'[queue'[i]] = "waiting"
      BY <2>1, <3>1, <3>2, <3>3, <3>4
    <3>6. ASSUME NEW i \in 1..Len(queue'), NEW j \in 1..Len(queue'), queue'[i] = queue'[j]
          PROVE  i = j
      <4>1. CASE i \in 1..Len(queue) /\ j \in 1..Len(queue)
        BY <3>3, <3>6, <4>1 DEF CountInv, QueueWaits
      <4>2. CASE ~(i \in 1..Len(queue) /\ j \in 1..Len(queue))
        BY <3>2, <3>3, <3>4, <3>6, <4>2
      <4> QED
        BY <4>1, <4>2
    <3> QED
      BY <3>5, <3>6 DEF QueueWaits
  <2> QED
    BY <2>2, <2>3, NothingOpened DEF CountInv
<1> QED
  BY <1>2, <1>3, <1>4 DEF Start

\* The first call of the queue leaves it.
LEMMA AcquireCounts ==
  ASSUME SessionInv, CountInv, NEW c \in Calls, Acquire(c)
  PROVE  CountInv'
<1>1. /\ lock = None /\ UNCHANGED <<session, server>>
      /\ queue # <<>> /\ Head(queue) = c /\ queue' = Tail(queue)
  BY DEF Acquire
<1>0. queue \in Seq(Calls) /\ pc = [e \in Calls |-> pc[e]]
  BY DEF SessionInv, TypeOK
<1>2. /\ Len(queue) \in Nat /\ Len(queue) >= 1 /\ queue[1] = c
      /\ Len(queue') = Len(queue) - 1
      /\ \A i \in 1..Len(queue') : queue'[i] = queue[i + 1] /\ i + 1 \in 1..Len(queue)
  BY <1>0, <1>1
<1>3. pc[c] = "waiting"
  BY <1>2 DEF CountInv, QueueWaits
<1>4. PICK step \in {"sent", "opening"} :
        /\ pc' = [pc EXCEPT ![c] = step]
        /\ IF session # None THEN step = "sent" ELSE step = "opening"
  BY DEF Acquire, Send, Goto
<1>5. QueueWaits'
  <2>1. \A i \in 1..Len(queue') : queue'[i] \in Calls /\ queue'[i] # c
    BY <1>0, <1>1, <1>2 DEF CountInv, QueueWaits
  <2>2. \A i \in 1..Len(queue') : pc'[queue'[i]] = "waiting"
    BY <1>0, <1>1, <1>2, <1>4, <2>1 DEF CountInv, QueueWaits
  <2>3. \A i, j \in 1..Len(queue') : queue'[i] = queue'[j] => i = j
    BY <1>2 DEF CountInv, QueueWaits
  <2> QED
    BY <2>2, <2>3 DEF QueueWaits
<1>6. Failures' = Failures
  BY <1>0, <1>1, <1>3, <1>4 DEF Failures
<1>7. CASE session # None
  <2>1. Openers' = Openers /\ ~SessionLost'
    BY <1>0, <1>1, <1>3, <1>4, <1>7 DEF Openers, SessionLost
  <2> QED
    BY <1>5, <1>6, <2>1, NothingOpened DEF CountInv
<1>8. CASE session = None
  <2>1. SessionLost
    BY <1>0, <1>1, <1>8, SessionAssumption DEF SessionLost, SessionInv, LockHolder
  <2>2. Openers' = Openers \cup {c} /\ pc'[c] = "opening"
    BY <1>0, <1>1, <1>4, <1>8 DEF Openers
  <2> QED
    BY <1>5, <1>6, <2>1, <2>2, OneOpens DEF CountInv
<1> QED
  BY <1>7, <1>8

LEMMA FailureCounts ==
  ASSUME SessionInv, CountInv, NEW c \in Calls, OpenFails(c) \/ SignFails(c) \/ Rejected(c)
  PROVE  CountInv'
<1>1. /\ pc[c] \in {"opening", "signing", "sent", "accepted", "rejected"}
      /\ pc' = [pc EXCEPT ![c] = "failed"]
      /\ UNCHANGED queue
  BY DEF OpenFails, SignFails, Rejected, Goto
<1>2. c \notin Failures /\ Failures' = Failures \cup {c}
  BY <1>1 DEF Failures, SessionInv, TypeOK
<1>3. Openers' \in {Openers, Openers \ {c}}
  <2>1. CASE OpenFails(c)
    <3>1. \A e \in Calls \ {c} : server'[e] = server[e] /\ pc'[e] = pc[e]
      BY <1>1, <2>1 DEF OpenFails, SessionInv, TypeOK
    <3>2. c \in Openers
      BY <2>1 DEF OpenFails, Openers
    <3> QED
      BY <3>1, <3>2 DEF Openers
  <2>2. CASE SignFails(c) \/ Rejected(c)
    BY <1>1, <2>2 DEF SignFails, Rejected, Openers, SessionInv, TypeOK
  <2> QED
    BY <2>1, <2>2
<1> QED
  BY <1>1, <1>2, <1>3, OneFails, QueueKept DEF CountInv

LEMMA ProgressCounts ==
  ASSUME SessionInv, CountInv, NEW c \in Calls,
         Opened(c) \/ Signed(c) \/ Accepted(c) \/ Answer(c)
  PROVE  CountInv'
<1>1. PICK step \in {"signing", "sent", "ok", "accepted", "rejected"} :
        pc' = [pc EXCEPT ![c] = step]
  BY DEF Opened, Signed, Accepted, Answer, Send, Goto
<1>2. pc[c] \in {"opening", "signing", "sent", "accepted"} /\ UNCHANGED queue
  BY DEF Opened, Signed, Accepted, Answer
<1>3. Failures' = Failures
  BY <1>1, <1>2 DEF Failures, SessionInv, TypeOK
<1>4. CASE Opened(c)
  <2>1. Openers' = Openers /\ ~SessionLost'
    BY <1>1, <1>4, SessionAssumption
    DEF Opened, Openers, SessionLost, SessionInv, TypeOK
  <2> QED
    BY <1>1, <1>2, <1>3, <2>1, NothingOpened, QueueKept DEF CountInv
<1>5. CASE Signed(c) \/ Accepted(c) \/ Answer(c)
  <2>1. UNCHANGED <<session, server>> /\ pc[c] # "opening"
    BY <1>5 DEF Signed, Accepted, Answer
  <2>2. Openers' = Openers /\ (SessionLost' => SessionLost)
    BY <1>1, <2>1 DEF Openers, SessionLost, SessionInv, TypeOK
  <2> QED
    BY <1>1, <1>2, <1>3, <2>2, NothingOpened, QueueKept DEF CountInv
<1> QED
  BY <1>4, <1>5

LEMMA ServerCounts ==
  ASSUME SessionInv, CountInv, NEW c \in Calls, Authenticate(c) \/ Expire(c)
  PROVE  CountInv'
<1>1. UNCHANGED <<session, queue, pc>> /\ \A e \in Calls : server'[e] # "none" <=> server[e] # "none"
  BY DEF Authenticate, Expire, SessionInv, TypeOK
<1>2. Openers' = Openers /\ Failures' = Failures /\ (SessionLost' => SessionLost)
  BY <1>1 DEF Openers, Failures, SessionLost
<1> QED
  BY <1>1, <1>2, NothingOpened DEF CountInv, QueueWaits

LEMMA CountInit == Init => CountInv
<1> SUFFICES ASSUME Init  PROVE CountInv
  OBVIOUS
<1>1. Openers = {} /\ Failures = {}
  BY DEF Init, Openers, Failures
<1>2. Counted
  BY <1>1, FS_EmptySet DEF Counted
<1>3. QueueWaits
  BY DEF Init, QueueWaits
<1> QED
  BY <1>2, <1>3 DEF CountInv

LEMMA CountStep ==
  ASSUME SessionInv, CountInv, [Next]_vars
  PROVE  CountInv'
<1>1. CASE \E c \in Calls : Start(c) \/ Proceed(c) \/ Expire(c)
  BY <1>1, StartCounts, AcquireCounts, FailureCounts, ProgressCounts, ServerCounts
  DEF Proceed
<1>2. CASE UNCHANGED vars
  <2>1. Openers' = Openers /\ Failures' = Failures /\ (SessionLost' => SessionLost)
    BY <1>2 DEF vars, Openers, Failures, SessionLost
  <2> QED
    BY <1>2, <2>1, NothingOpened DEF CountInv, QueueWaits, vars
<1> QED
  BY <1>1, <1>2 DEF Next, Finished

\* Any number of calls that find no session cause one authentication, and one more
\* for each call that has failed since.
THEOREM AuthenticationsAreShared == Spec => []AuthenticationsAreJustified
<1>1. CountInv => AuthenticationsAreJustified
  BY DEF CountInv, Counted, Openers, Failures, AuthenticationsAreJustified
<1>2. QED
  BY <1>1, SessionInvInit, SessionInvStep, CountInit, CountStep, PTL DEF Spec

-----------------------------------------------------------------------------
(* What other calls find in the connector *)

Unsent   == {"idle", "waiting", "opening", "signing"}
Unopened == {"idle", "waiting", "opening"}

\* A session id goes round only after it has been opened.
VisibleInv ==
  /\ SessionIsExplained
  /\ session # None => pc[session] \notin Unopened
  /\ \A c \in Calls : sid[c] # None => pc[sid[c]] \notin Unopened
  /\ \A c \in Calls : pc[c] \in Unsent => sid[c] = None

LEMMA StartStaysVisible ==
  ASSUME SessionInv, QueueWaits, VisibleInv, NEW c \in Calls, Start(c) \/ Acquire(c)
  PROVE  VisibleInv'
<1>1. pc[c] \in {"idle", "waiting"} /\ UNCHANGED <<session, server>>
  <2>1. ASSUME Acquire(c)  PROVE pc[c] = "waiting"
    <3>1. queue \in Seq(Calls) /\ queue # <<>> /\ queue[1] = c
      BY <2>1 DEF Acquire, SessionInv, TypeOK
    <3> QED
      BY <3>1 DEF QueueWaits
  <2> QED
    BY <2>1 DEF Start, Acquire
<1>2. \/ Send(c)
      \/ UNCHANGED sid /\ \E step \in {"opening", "waiting"} : Goto(c, step)
  BY DEF Start, Acquire
<1>3. CASE Send(c)
  BY <1>1, <1>3 DEF Send, Goto, VisibleInv, SessionIsExplained, Unsent, Unopened, SessionInv, TypeOK,
     CallOrNone
<1>4. CASE UNCHANGED sid /\ \E step \in {"opening", "waiting"} : Goto(c, step)
  BY <1>1, <1>4 DEF Goto, VisibleInv, SessionIsExplained, Unsent, Unopened, SessionInv, TypeOK,
     CallOrNone
<1> QED
  BY <1>2, <1>3, <1>4

LEMMA AuthenticationStaysVisible ==
  ASSUME SessionInv, VisibleInv, NEW c \in Calls,
         Opened(c) \/ OpenFails(c) \/ Signed(c) \/ SignFails(c)
  PROVE  VisibleInv'
<1>1. CASE Opened(c)
  BY <1>1, SessionAssumption DEF Opened, Goto, VisibleInv, SessionIsExplained, Unsent, Unopened,
     SessionInv, TypeOK, CallOrNone
<1>2. CASE OpenFails(c)
  BY <1>2 DEF OpenFails, Goto, VisibleInv, SessionIsExplained, Unsent, Unopened,
     SessionInv, TypeOK, CallOrNone
<1>3. CASE Signed(c)
  BY <1>3 DEF Signed, Send, Goto, VisibleInv, SessionIsExplained, Unsent, Unopened,
     SessionInv, TypeOK, CallOrNone
<1>4. CASE SignFails(c)
  BY <1>4 DEF SignFails, Goto, VisibleInv, SessionIsExplained, Unsent, Unopened,
     SessionInv, TypeOK, CallOrNone
<1> QED
  BY <1>1, <1>2, <1>3, <1>4

LEMMA RequestStaysVisible ==
  ASSUME SessionInv, VisibleInv, NEW c \in Calls,
         Accepted(c) \/ Rejected(c) \/ Authenticate(c) \/ Answer(c) \/ Expire(c)
  PROVE  VisibleInv'
<1>1. CASE Accepted(c) \/ Rejected(c) \/ Answer(c)
  <2>1. PICK step \in {"ok", "failed", "accepted", "rejected"} : pc' = [pc EXCEPT ![c] = step]
    BY <1>1 DEF Accepted, Rejected, Answer, Goto
  <2>2. /\ pc[c] \notin Unsent /\ pc[c] # "failed" /\ UNCHANGED <<sid, server>>
        /\ session' = None \/ (session' = session /\ pc'[c] # "failed")
    BY <1>1 DEF Accepted, Rejected, Answer, Goto, Unsent, SessionInv, TypeOK
  <2> QED
    BY <2>1, <2>2 DEF VisibleInv, SessionIsExplained, Unsent, Unopened, SessionInv, TypeOK, CallOrNone
<1>2. CASE Authenticate(c) \/ Expire(c)
  BY <1>2 DEF Authenticate, Expire, VisibleInv, SessionIsExplained, SessionInv, TypeOK, CallOrNone
<1> QED
  BY <1>1, <1>2

LEMMA VisibleStep ==
  ASSUME SessionInv, QueueWaits, VisibleInv, [Next]_vars
  PROVE  VisibleInv'
<1>1. CASE \E c \in Calls : Start(c) \/ Proceed(c) \/ Expire(c)
  BY <1>1, StartStaysVisible, AuthenticationStaysVisible, RequestStaysVisible DEF Proceed
<1>2. CASE UNCHANGED vars
  BY <1>2 DEF vars, VisibleInv, SessionIsExplained
<1> QED
  BY <1>1, <1>2 DEF Next, Finished

\* A session id that other calls find is authenticated, or in the hands of its opener, or
\* refused by the server and left behind; and it is gone after the first request that was
\* sent with it has failed.
THEOREM SessionsAreExplained == Spec => []SessionIsExplained
<1>1. Init => VisibleInv
  BY SessionAssumption DEF Init, VisibleInv, SessionIsExplained
<1>2. CountInv => QueueWaits
  BY DEF CountInv
<1>3. VisibleInv => SessionIsExplained
  BY DEF VisibleInv
<1> QED
  BY <1>1, <1>2, <1>3, SessionInvInit, SessionInvStep, CountInit, CountStep, VisibleStep, PTL DEF Spec
=============================================================================
