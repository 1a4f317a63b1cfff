---------------------------- MODULE HandleSession ----------------------------
(***************************************************************************)
(* The session a worker shares between all its calls to the Handle server. *)
(* A call that finds no session authenticates in two requests behind an    *)
(* asyncio lock; every other call uses the session id as it finds it, and  *)
(* a call that fails clears it for everybody.                              *)
(*                                                                         *)
(* A call opens at most one session, which is named after it.  Steps are   *)
(* what a coroutine does between two awaits.                               *)
(***************************************************************************)
EXTENDS Integers, Sequences, FiniteSets

CONSTANTS
  Calls,    \* calls of the worker = session ids
  Writers,  \* the calls that need an authenticated session (PUT)
  Faults,   \* what may go wrong, a subset of SessionFaults
  None

SessionFaults == {"error", "refuse", "expire"}

ASSUME SessionAssumption ==
  /\ Writers \subseteq Calls
  /\ Faults \subseteq SessionFaults
  /\ None \notin Calls

VARIABLES
  session,  \* session_id
  lock,     \* the call that holds _auth_lock
  queue,    \* the calls that wait for it, first come first served
  pc,       \* where each call is
  sid,      \* the session id in the header of each call's own request
  server    \* the sessions as the Handle server knows them

vars == <<session, lock, queue, pc, sid, server>>

CallOrNone == Calls \cup {None}
Ended      == {"ok", "failed"}

TypeOK ==
  /\ session \in CallOrNone
  /\ lock \in CallOrNone
  /\ queue \in Seq(Calls)
  /\ pc \in [Calls -> {"idle", "waiting", "opening", "signing", "sent",
                       "accepted", "rejected"} \cup Ended]
  /\ sid \in [Calls -> CallOrNone]
  /\ server \in [Calls -> {"none", "open", "authenticated", "refused", "forgotten",
                         "expired"}]

Init ==
  /\ session = None
  /\ lock = None
  /\ queue = <<>>
  /\ pc = [c \in Calls |-> "idle"]
  /\ sid = [c \in Calls |-> None]
  /\ server = [c \in Calls |-> "none"]

-----------------------------------------------------------------------------
(* The worker *)

Goto(c, step) == pc' = [pc EXCEPT ![c] = step]

\* The header is computed from the session id at the moment of sending.
Send(c) ==
  /\ Goto(c, "sent")
  /\ sid' = [sid EXCEPT ![c] = session]

\* A call with a session goes ahead; otherwise it takes the lock, or queues.
Start(c) ==
  /\ pc[c] = "idle"
  /\ \/ /\ session # None
        /\ Send(c)
        /\ UNCHANGED <<lock, queue>>
     \/ /\ session = None /\ lock = None /\ queue = <<>>
        /\ lock' = c
        /\ Goto(c, "opening")
        /\ UNCHANGED <<queue, sid>>
     \/ /\ session = None /\ (lock # None \/ queue # <<>>)
        /\ queue' = Append(queue, c)
        /\ Goto(c, "waiting")
        /\ UNCHANGED <<lock, sid>>
  /\ UNCHANGED <<session, server>>

\* Faulty variant: the session is not checked again behind the lock
AcquireUnchecked(c) ==
  /\ lock = None
  /\ queue # <<>> /\ Head(queue) = c
  /\ queue' = Tail(queue)
  /\ lock' = c
  /\ Goto(c, "opening")
  /\ UNCHANGED <<session, sid, server>>

\* Behind the lock the session is checked again.
Acquire(c) ==
  /\ lock = None
  /\ queue # <<>> /\ Head(queue) = c
  /\ queue' = Tail(queue)
  /\ IF session # None
     THEN Send(c) /\ UNCHANGED lock
     ELSE lock' = c /\ Goto(c, "opening") /\ UNCHANGED sid
  /\ UNCHANGED <<session, server>>

\* Faulty variant: the whole answer is kept where the session id belongs
OpenedKeepsAnswer(c) ==
  /\ pc[c] = "opening"
  /\ server' = [server EXCEPT ![c] = "open"]
  /\ session' = <<c>>
  /\ Goto(c, "signing")
  /\ UNCHANGED <<lock, queue, sid>>

\* The answer to the first POST is a session that is not yet authenticated.
Opened(c) ==
  /\ pc[c] = "opening"
  /\ server' = [server EXCEPT ![c] = "open"]
  /\ session' = c
  /\ Goto(c, "signing")
  /\ UNCHANGED <<lock, queue, sid>>

\* Faulty variant: the lock is not released when authentication fails
OpenFailsLocked(c) ==
  /\ pc[c] = "opening"
  /\ "error" \in Faults
  /\ session' = None
  /\ Goto(c, "failed")
  /\ UNCHANGED <<lock, queue, sid, server>>

\* A failing request clears the session; leaving the block releases the lock.
OpenFails(c) ==
  /\ pc[c] = "opening"
  /\ "error" \in Faults
  /\ server' \in {server, [server EXCEPT ![c] = "open"]}
  /\ session' = None
  /\ lock' = None
  /\ Goto(c, "failed")
  /\ UNCHANGED <<queue, sid>>

\* The call goes on with its own request, and with the session id as it is now.
Signed(c) ==
  /\ pc[c] = "signing"
  /\ server[c] \in {"authenticated", "expired"}
  /\ lock' = None
  /\ Send(c)
  /\ UNCHANGED <<session, queue, server>>

\* Faulty variant: a failing authentication leaves its session behind
SignFailsKeepsSession(c) ==
  /\ pc[c] = "signing"
  /\ "error" \in Faults \/ server[c] \in {"refused", "forgotten"}
  /\ lock' = None
  /\ Goto(c, "failed")
  /\ UNCHANGED <<session, queue, sid, server>>

\* The second POST fails, also because the server forgot the session.  An answer
\* that says authenticated=false is no failed request: the session id stays.
SignFails(c) ==
  /\ pc[c] = "signing"
  /\ \/ /\ "error" \in Faults \/ server[c] = "forgotten"
        /\ session' = None
     \/ /\ server[c] = "refused"
        /\ UNCHANGED session
  /\ lock' = None
  /\ Goto(c, "failed")
  /\ UNCHANGED <<queue, sid, server>>

\* 404 and 409 answers, too, leave the session as it is.
Accepted(c) ==
  /\ pc[c] = "accepted"
  /\ Goto(c, "ok")
  /\ UNCHANGED <<session, lock, queue, sid, server>>

\* Any other error clears the session, whichever it is by now.
Rejected(c) ==
  /\ \/ pc[c] = "rejected"
     \/ pc[c] \in {"sent", "accepted"} /\ "error" \in Faults
  /\ session' = None
  /\ Goto(c, "failed")
  /\ UNCHANGED <<lock, queue, sid, server>>

-----------------------------------------------------------------------------
(* The Handle server, as the connector uses it *)

Authenticate(c) ==
  /\ pc[c] = "signing"
  /\ server[c] = "open"
  /\ \/ server' = [server EXCEPT ![c] = "authenticated"]
     \/ "refuse" \in Faults /\ server' = [server EXCEPT ![c] = "refused"]
  /\ UNCHANGED <<session, lock, queue, pc, sid>>

\* Anybody may read; writing takes an authenticated session.
Answer(c) ==
  /\ pc[c] = "sent"
  /\ LET allowed == \/ c \notin Writers
                    \/ IF sid[c] = None THEN FALSE ELSE server[sid[c]] = "authenticated"
     IN Goto(c, IF allowed THEN "accepted" ELSE "rejected")
  /\ UNCHANGED <<session, lock, queue, sid, server>>

\* The server drops a session, before or after it has been authenticated.
Expire(s) ==
  /\ "expire" \in Faults
  /\ server[s] \in {"open", "authenticated"}
  /\ server' = [server EXCEPT ![s] = IF server[s] = "open" THEN "forgotten"
                                     ELSE "expired"]
  /\ UNCHANGED <<session, lock, queue, pc, sid>>

-----------------------------------------------------------------------------

Proceed(c) ==
  \/ Acquire(c) \/ Opened(c) \/ OpenFails(c) \/ Signed(c) \/ SignFails(c)
  \/ Accepted(c) \/ Rejected(c) \/ Authenticate(c) \/ Answer(c)

\* Every call has ended.
Finished == (\A c \in Calls : pc[c] \in Ended) /\ UNCHANGED vars

Next == (\E c \in Calls : Start(c) \/ Proceed(c) \/ Expire(c)) \/ Finished

Spec == Init /\ [][Next]_vars

\* Each request is answered or runs into its timeout of ten seconds, and the
\* event loop resumes every coroutine that can go on.
FairSpec == Spec /\ \A c \in Calls : WF_vars(Proceed(c))

-----------------------------------------------------------------------------
(* Properties *)

\* ensure_authenticated lets one call at a time authenticate, whatever fails.
AuthenticatesAlone ==
  \A c, e \in Calls :
    pc[c] \in {"opening", "signing"} /\ pc[e] \in {"opening", "signing"} => c = e

\* The session that other calls find in the connector has been authenticated, even if the
\* server has dropped it since, or the call that opened it is still at work on it, or the
\* server has refused it: that one stays after its opener has failed.  Whichever it is, it
\* is gone once a request that was sent with it has failed.
SessionIsExplained ==
  session # None =>
    /\ \/ server[session] \in {"authenticated", "expired"}
       \/ pc[session] = "signing"
       \/ server[session] = "refused" /\ pc[session] = "failed"
    /\ \A c \in Calls : sid[c] = session => pc[c] # "failed"

\* Calls that wait together share one authentication: another session is opened
\* only because a call has failed since.
AuthenticationsAreJustified ==
  Cardinality({c \in Calls : pc[c] = "opening" \/ server[c] # "none"})
    <= 1 + Cardinality({c \in Calls : pc[c] = "failed"})

\* No call waits for ever for the lock or a session, also when the calls before
\* it fail while they authenticate.
EveryCallEnds == \A c \in Calls : pc[c] # "idle" ~> pc[c] \in Ended

\* ensure_authenticated: "A thread-safe method to ensure the service is
\* authenticated before making a call": no request goes out with a session that
\* has never been authenticated.
AuthenticatedBeforeCall ==
  \A c \in Calls : pc[c] = "sent" =>
    /\ sid[c] # None
    /\ server[sid[c]] \in {"authenticated", "expired"}

=============================================================================
