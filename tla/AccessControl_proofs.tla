------------------------- MODULE AccessControl_proofs -------------------------
(***************************************************************************)
(* Proofs about AccessControl, for any number of registrations, grants,    *)
(* revocations and checks, in flight together or not, and for every fault. *)
(***************************************************************************)
EXTENDS AccessControl, FiniteSetTheorems, TLAPS

-----------------------------------------------------------------------------
(* Type correctness *)

LEMMA TypingInit ==
  ASSUME Init
  PROVE  TypeOK
BY AccessAssumption DEF Init, TypeOK

LEMMA TypingStep ==
  ASSUME TypeOK, [Next]_vars
  PROVE  TypeOK'
<1>1. CASE Finished \/ UNCHANGED vars
  BY <1>1 DEF Finished, vars, TypeOK
<1>2. ASSUME NEW a \in Requests, Start(a)
      PROVE  TypeOK'
  <2>1. BarredNow(a) \in SUBSET Grants
    BY DEF BarredNow, TypeOK, Requests
  <2>2. QED
    BY <1>2, <2>1 DEF TypeOK, Start, Goto, Ended
<1>3. ASSUME NEW a \in Requests, FindUser(a)
      PROVE  TypeOK'
  <2>1. PICK step \in {"write", "refused", "permission"} : pc' = [pc EXCEPT ![a] = step]
    BY <1>3 DEF FindUser, Goto
  <2>2. QED
    BY <1>3, <2>1 DEF TypeOK, FindUser, Ended
<1>4. ASSUME NEW a \in Requests, SaveUser(a)
      PROVE  TypeOK'
  <2>1. users' \subseteq Registrations
    BY <1>4 DEF SaveUser, TypeOK, FailedWrite
  <2>2. PICK step \in {"ok", "failed"} : pc' = [pc EXCEPT ![a] = step]
    BY <1>4 DEF SaveUser, Goto
  <2>3. QED
    BY <1>4, <2>1, <2>2 DEF TypeOK, SaveUser, Ended
<1>5. ASSUME NEW a \in Requests, Probe(a) \/ FindRow(a)
      PROVE  TypeOK'
  <2>1. PICK step \in {"write", "refused"} : pc' = [pc EXCEPT ![a] = step]
    BY <1>5 DEF Probe, FindRow, Goto
  <2>2. QED
    BY <1>5, <2>1 DEF TypeOK, Probe, FindRow, Ended
<1>6. ASSUME NEW a \in Requests, SavePermission(a) \/ DeletePermission(a)
      PROVE  TypeOK'
  <2>1. perms' \subseteq Grants
    BY <1>6 DEF SavePermission, DeletePermission, TypeOK, FailedWrite
  <2>2. PICK step \in {"ok", "failed"} : pc' = [pc EXCEPT ![a] = step]
    BY <1>6 DEF SavePermission, DeletePermission, Goto
  <2>3. UNCHANGED <<limit, users, found, barred>>
    BY <1>6 DEF SavePermission, DeletePermission
  <2>4. QED
    BY <2>1, <2>2, <2>3 DEF TypeOK, Ended
<1>7. ASSUME NEW a \in Requests, FindPermission(a) \/ Check(a)
      PROVE  TypeOK'
  <2>1. found' \in [Requests -> Grants \cup {None}]
    BY <1>7 DEF FindPermission, Check, TypeOK
  <2>2. PICK step \in {"row", "ok", "refused"} : pc' = [pc EXCEPT ![a] = step]
    BY <1>7 DEF FindPermission, Check, Goto
  <2>3. UNCHANGED <<limit, users, perms, barred>>
    BY <1>7 DEF FindPermission, Check
  <2>4. QED
    BY <2>1, <2>2, <2>3 DEF TypeOK, Ended
<1>8. ASSUME NEW a \in Requests, Fails(a)
      PROVE  TypeOK'
  BY <1>8 DEF TypeOK, Fails, Goto, Ended
<1>9. QED
  BY <1>1, <1>2, <1>3, <1>4, <1>5, <1>6, <1>7, <1>8 DEF Next, RequestStep

\* Every reachable state has the declared types.
THEOREM AccessTyping == Spec => []TypeOK
BY TypingInit, TypingStep, PTL DEF Spec

-----------------------------------------------------------------------------
(* Registrations *)

\* Only the request that acts moves.
LEMMA OneMoves ==
  ASSUME TypeOK, NEW a \in Requests, RequestStep(a)
  PROVE  /\ pc[a] \notin Ended
         /\ \A b \in Requests \ {a} : pc'[b] = pc[b]
         /\ \A b \in Requests : b # a \/ ~Start(a) => barred'[b] = barred[b]
<1>1. pc = [b \in Requests |-> pc[b]] /\ barred = [b \in Requests |-> barred[b]]
  BY DEF TypeOK
<1>2. \E step : pc' = [pc EXCEPT ![a] = step]
  BY DEF RequestStep, Start, FindUser, SaveUser, Probe, SavePermission, FindPermission,
     FindRow, DeletePermission, Check, Fails, Goto
<1>3. pc[a] \notin Ended
  BY DEF RequestStep, Start, FindUser, SaveUser, Probe, SavePermission, FindPermission,
     FindRow, DeletePermission, Check, Fails, Active, Ended
<1>4. Start(a) => barred' = [barred EXCEPT ![a] = BarredNow(a)]
  BY DEF Start
<1>5. ~Start(a) => barred' = barred
  BY DEF RequestStep, FindUser, SaveUser, Probe, SavePermission, FindPermission,
     FindRow, DeletePermission, Check, Fails
<1>6. QED
  BY <1>1, <1>2, <1>3, <1>4, <1>5

LEMMA RegisteredStep ==
  ASSUME TypeOK, RegisteredIsFound, [Next]_vars
  PROVE  RegisteredIsFound'
<1>1. CASE Finished \/ UNCHANGED vars
  BY <1>1 DEF Finished, vars, RegisteredIsFound
<1>2. ASSUME NEW a \in Requests, RequestStep(a), NEW r \in Registrations, pc'[r] = "ok"
      PROVE  users' = {r}
  <2>1. r \in Requests /\ pc = [b \in Requests |-> pc[b]]
    BY DEF Requests, TypeOK
  <2>2. CASE SaveUser(a)
    <3>1. CASE users = {}
      <4>1. r = a
        BY <1>2, <2>1, <3>1, OneMoves DEF RegisteredIsFound
      <4>2. QED
        BY <1>2, <2>1, <2>2, <3>1, <4>1 DEF SaveUser, Goto
    <3>2. CASE users # {}
      <4>1. users' = users /\ pc' = [pc EXCEPT ![a] = "failed"]
        BY <2>2, <3>2 DEF SaveUser, Goto
      <4>2. QED
        BY <1>2, <2>1, <4>1 DEF RegisteredIsFound
    <3>3. QED
      BY <3>1, <3>2
  <2>3. CASE ~SaveUser(a)
    <3>1. users' = users
      BY <1>2, <2>3 DEF RequestStep, Start, FindUser, Probe, SavePermission, FindPermission,
         FindRow, DeletePermission, Check, Fails
    <3>2. CASE a = r
      <4>1. a \notin Grants \cup Revokes \cup Checks
        BY <3>2, AccessAssumption
      <4>2. PICK step \in {"user", "write", "refused", "permission", "failed", "crashed"} :
              pc' = [pc EXCEPT ![a] = step]
        BY <1>2, <2>3, <4>1 DEF RequestStep, Start, FindUser, Probe, SavePermission,
           FindPermission, FindRow, DeletePermission, Check, Fails, Goto
      <4>3. QED
        BY <1>2, <2>1, <3>2, <4>2
    <3>3. CASE a # r
      BY <1>2, <2>1, <3>1, <3>3, OneMoves DEF RegisteredIsFound
    <3>4. QED
      BY <3>2, <3>3
  <2>4. QED
    BY <2>2, <2>3
<1>3. QED
  BY <1>1, <1>2 DEF Next, RegisteredIsFound

\* However many registrations of one email race and fail, the acknowledged one
\* keeps the only account: the unique index makes up for the missing lock.
THEOREM RegistrationsAreFound == Spec => []RegisteredIsFound
<1>1. Init => RegisteredIsFound
  BY DEF Init, RegisteredIsFound, Requests
<1>2. QED
  BY <1>1, RegisteredStep, AccessTyping, PTL DEF Spec

-----------------------------------------------------------------------------
(* Revocations.  A row only ever appears while the grant it is named after  *)
(* is in flight, and barred grants have ended: the barred rows of a request *)
(* only become fewer.  A revocation goes on with the only row there is, so  *)
(* once it has deleted that row no barred row is left.                      *)

BarredEnded == \A a \in Requests : \A g \in barred[a] : pc[g] \in Ended

\* The rows that a request may not rely on any more
Stale(a) == perms \cap barred[a]

RevokeInv ==
  \A r \in Revokes :
    /\ pc[r] \in {"row", "write"} => Stale(r) \subseteq {found[r]}
    /\ pc[r] = "ok" => Stale(r) = {}

CheckInv ==
  \A c \in Checks : Stale(c) = {} /\ (pc[c] = "ok" => found[c] \notin barred[c])

AccessInv == BarredEnded /\ RevokeInv /\ CheckInv

LEMMA NoNewStale ==
  ASSUME TypeOK, BarredEnded, NEW a \in Requests, RequestStep(a),
         NEW b \in Requests, b # a \/ ~Start(a)
  PROVE  Stale(b)' \subseteq Stale(b)
<1>1. barred'[b] = barred[b]
  BY OneMoves
<1>2. CASE SavePermission(a)
  <2>1. perms' \subseteq perms \cup {a} /\ pc[a] = "write"
    BY <1>2 DEF SavePermission, FailedWrite
  <2>2. a \notin barred[b]
    BY <2>1 DEF BarredEnded, Ended
  <2>3. QED
    BY <1>1, <2>1, <2>2 DEF Stale
<1>3. CASE ~SavePermission(a)
  <2>1. perms' \subseteq perms
    BY <1>3 DEF RequestStep, Start, FindUser, SaveUser, Probe, FindPermission, FindRow,
       DeletePermission, FailedWrite, Check, Fails
  <2>2. QED
    BY <1>1, <2>1 DEF Stale
<1>4. QED
  BY <1>2, <1>3

LEMMA BarredStep ==
  ASSUME TypeOK, BarredEnded, NEW a \in Requests, RequestStep(a)
  PROVE  BarredEnded'
<1>1. \A g \in Grants : pc[g] \in Ended => pc'[g] \in Ended
  BY OneMoves DEF Requests
<1>2. ASSUME NEW b \in Requests
      PROVE  \A g \in barred'[b] : pc'[g] \in Ended
  <2>1. CASE b # a \/ ~Start(a)
    <3>1. barred'[b] = barred[b] /\ barred[b] \subseteq Grants
      BY <2>1, OneMoves DEF TypeOK
    <3>2. QED
      BY <1>1, <3>1 DEF BarredEnded
  <2>2. CASE b = a /\ Start(a)
    <3>1. barred'[a] = BarredNow(a)
      BY <2>2 DEF Start, TypeOK
    <3>2. \A g \in BarredNow(a) : g \in Grants /\ pc[g] \in Ended
      BY DEF BarredNow, BarredEnded, TypeOK, Requests
    <3>3. QED
      BY <1>1, <2>2, <3>1, <3>2
  <2>3. QED
    BY <2>1, <2>2
<1>3. QED
  BY <1>2 DEF BarredEnded

LEMMA RevokeStep ==
  ASSUME TypeOK, AccessInv, NEW a \in Requests, RequestStep(a), NEW r \in Revokes
  PROVE  /\ pc'[r] \in {"row", "write"} => Stale(r)' \subseteq {found'[r]}
         /\ pc'[r] = "ok" => Stale(r)' = {}
<1>t. /\ r \in Requests
      /\ pc = [b \in Requests |-> pc[b]] /\ found = [b \in Requests |-> found[b]]
  BY DEF TypeOK, Requests
<1>1. CASE a # r
  <2>1. Stale(r)' \subseteq Stale(r) /\ pc'[r] = pc[r]
    BY <1>1, <1>t, NoNewStale, OneMoves DEF AccessInv
  <2>2. found'[r] = found[r]
    BY <1>1, <1>t DEF RequestStep, Start, FindUser, SaveUser, Probe, SavePermission,
       FindPermission, FindRow, DeletePermission, Check, Fails
  <2>3. QED
    BY <2>1, <2>2 DEF AccessInv, RevokeInv
<1>2. CASE a = r
  <2>1. r \notin Registrations \cup Grants \cup Checks
    BY AccessAssumption
  <2>2. CASE FindPermission(r)
    <3>1. Stale(r)' \subseteq Stale(r)
      BY <1>2, <1>t, <2>2, NoNewStale DEF AccessInv, FindPermission, Start
    <3>2. CASE \E g \in perms : perms = {g} /\ found' = [found EXCEPT ![r] = g] /\ Goto(r, "row")
      BY <1>t, <3>1, <3>2 DEF Stale, Goto
    <3>3. CASE Goto(r, "refused")
      BY <1>t, <3>3 DEF Goto
    <3>4. QED
      BY <2>2, <3>2, <3>3 DEF FindPermission
  <2>3. CASE FindRow(r)
    <3>1. Stale(r)' = Stale(r) /\ found'[r] = found[r] /\ pc[r] = "row"
      BY <2>3 DEF FindRow, Stale
    <3>2. pc'[r] \in {"write", "refused"}
      BY <1>t, <2>3 DEF FindRow, Goto
    <3>3. QED
      BY <3>1, <3>2 DEF AccessInv, RevokeInv
  <2>4. CASE DeletePermission(r)
    <3>1. barred' = barred /\ Stale(r) \subseteq {found[r]}
      BY <2>4 DEF DeletePermission, AccessInv, RevokeInv
    <3>2. CASE perms' = perms \ {found[r]} /\ Goto(r, "ok")
      BY <1>t, <3>1, <3>2 DEF Goto, Stale
    <3>3. CASE Goto(r, "failed")
      BY <1>t, <3>3 DEF Goto
    <3>4. QED
      BY <2>4, <3>2, <3>3 DEF DeletePermission
  <2>5. CASE Start(r) \/ FindUser(r) \/ Fails(r)
    <3>1. PICK step \in {"user", "permission", "refused", "failed", "crashed"} :
            pc' = [pc EXCEPT ![r] = step]
      BY <2>1, <2>5 DEF Start, FindUser, Fails, Goto
    <3>2. QED
      BY <1>t, <3>1
  <2>6. QED
    BY <1>2, <2>1, <2>2, <2>3, <2>4, <2>5
    DEF RequestStep, SaveUser, Probe, SavePermission, Check
<1>3. QED
  BY <1>1, <1>2

LEMMA CheckStep ==
  ASSUME TypeOK, AccessInv, NEW a \in Requests, RequestStep(a), NEW c \in Checks
  PROVE  Stale(c)' = {} /\ (pc'[c] = "ok" => found'[c] \notin barred'[c])
<1>t. /\ c \in Requests /\ c \notin Registrations \cup Grants \cup Revokes
      /\ pc = [b \in Requests |-> pc[b]] /\ found = [b \in Requests |-> found[b]]
      /\ barred = [b \in Requests |-> barred[b]]
  BY AccessAssumption DEF TypeOK, Requests
<1>1. CASE a # c
  <2>1. Stale(c)' \subseteq Stale(c) /\ pc'[c] = pc[c] /\ barred'[c] = barred[c]
    BY <1>1, <1>t, NoNewStale, OneMoves DEF AccessInv
  <2>2. found'[c] = found[c]
    BY <1>1, <1>t DEF RequestStep, Start, FindUser, SaveUser, Probe, SavePermission,
       FindPermission, FindRow, DeletePermission, Check, Fails
  <2>3. QED
    BY <2>1, <2>2 DEF AccessInv, CheckInv
<1>2. CASE a = c /\ Start(c)
  <2>1. barred'[c] = UNION {barred[r] : r \in {q \in Revokes : pc[q] = "ok"}}
    BY <1>2, <1>t DEF Start, BarredNow
  <2>2. perms' = perms /\ pc'[c] = "user"
    BY <1>2, <1>t DEF Start, Goto
  <2>3. QED
    BY <2>1, <2>2 DEF AccessInv, RevokeInv, Stale
<1>3. CASE a = c /\ ~Start(c)
  <2>1. Stale(c)' \subseteq Stale(c) /\ barred'[c] = barred[c]
    BY <1>3, <1>t, NoNewStale, OneMoves DEF AccessInv
  <2>2. Stale(c) = {}
    BY DEF AccessInv, CheckInv
  <2>3. CASE Check(c)
    <3>1. CASE \E g \in perms : found' = [found EXCEPT ![c] = g]
      BY <1>t, <2>1, <2>2, <3>1 DEF Stale
    <3>2. CASE Goto(c, "refused")
      BY <1>t, <2>1, <2>2, <3>2 DEF Goto
    <3>3. QED
      BY <2>3, <3>1, <3>2 DEF Check
  <2>4. CASE FindUser(c) \/ Fails(c)
    <3>1. PICK step \in {"permission", "refused", "failed", "crashed"} :
            pc' = [pc EXCEPT ![c] = step]
      BY <1>t, <2>4 DEF FindUser, Fails, Goto
    <3>2. QED
      BY <1>t, <2>1, <2>2, <3>1
  <2>5. QED
    BY <1>3, <1>t, <2>3, <2>4
    DEF RequestStep, SaveUser, Probe, SavePermission, FindPermission, FindRow, DeletePermission
<1>4. QED
  BY <1>1, <1>2, <1>3

LEMMA AccessInvStep ==
  ASSUME TypeOK, AccessInv, [Next]_vars
  PROVE  AccessInv'
<1>1. CASE Finished \/ UNCHANGED vars
  BY <1>1 DEF Finished, vars, AccessInv, BarredEnded, RevokeInv, CheckInv, Stale
<1>2. ASSUME NEW a \in Requests, RequestStep(a)
      PROVE  AccessInv'
  <2>1. BarredEnded'
    BY <1>2, BarredStep DEF AccessInv
  <2>2. RevokeInv'
    BY <1>2, RevokeStep DEF RevokeInv
  <2>3. CheckInv'
    BY <1>2, CheckStep DEF CheckInv
  <2>4. QED
    BY <2>1, <2>2, <2>3 DEF AccessInv
<1>3. QED
  BY <1>1, <1>2 DEF Next

LEMMA AccessInvariant == Spec => []AccessInv
<1>1. Init => AccessInv
  BY AccessAssumption
  DEF Init, AccessInv, BarredEnded, RevokeInv, CheckInv, Stale, Requests
<1>2. QED
  BY <1>1, AccessInvStep, AccessTyping, PTL DEF Spec

\* An acknowledged revocation is final: whatever overlaps with it or fails, the
\* permissions that existed before it began let nobody write any more.
THEOREM RevocationIsFinal == Spec => []NoAccessAfterRevocation
<1>1. AccessInv => NoAccessAfterRevocation
  BY DEF AccessInv, CheckInv, NoAccessAfterRevocation
<1>2. QED
  BY <1>1, AccessInvariant, PTL

-----------------------------------------------------------------------------
(* One request at a time *)

Running == {"user", "permission", "row", "write"}

OneRuns      == \A a, b \in Requests : pc[a] \in Running /\ pc[b] \in Running => a = b
OneRow       == \A g, h \in perms : g = h
RowsAreOld   == \A g \in perms : pc[g] \in Ended
WritesFirst  == \A g \in Grants : pc[g] = "write" => perms = {}

\* A revocation in flight has seen the answers to all grants.
RevokesKnow == \A r \in Revokes, g \in Grants :
                 pc[r] \in Running /\ pc[g] = "ok" => g \in barred[r]
KeptOrTaken == \A g \in Grants : pc[g] = "ok" => g \in perms \/ \E r \in Revokes : g \in barred[r]

TurnInv ==
  /\ \A a \in Requests : pc[a] = "idle" => barred[a] = {}
  /\ limit = 1 => /\ OneRuns /\ OneRow /\ RowsAreOld
                  /\ WritesFirst /\ RevokesKnow /\ KeptOrTaken

\* A request starts when no other one is in flight.
LEMMA StartsAlone ==
  ASSUME TypeOK, TurnInv, limit = 1, NEW a \in Requests, Start(a)
  PROVE  \A b \in Requests : pc[b] \notin Running
<1> SUFFICES ASSUME NEW b \in Requests, pc[b] \in Running
             PROVE  FALSE
  OBVIOUS
<1>1. Active = {b}
  BY DEF Active, TurnInv, OneRuns, Running, Ended, TypeOK
<1>2. Cardinality(Active) = 1
  BY <1>1, FS_Singleton
<1> QED
  BY <1>2 DEF Start

LEMMA StartInTurn ==
  ASSUME TypeOK, TurnInv, limit = 1, NEW a \in Requests, Start(a)
  PROVE  OneRuns' /\ OneRow' /\ RowsAreOld' /\ WritesFirst' /\ RevokesKnow' /\ KeptOrTaken'
<1>1. /\ pc' = [pc EXCEPT ![a] = "user"] /\ UNCHANGED perms /\ pc[a] = "idle"
      /\ barred' = [barred EXCEPT ![a] = BarredNow(a)]
  BY DEF Start, Goto
<1>2. /\ \A b \in Requests \ {a} : pc'[b] = pc[b] /\ barred'[b] = barred[b]
      /\ pc'[a] = "user" /\ barred'[a] = BarredNow(a)
      /\ perms \subseteq Requests /\ Grants \subseteq Requests /\ Revokes \subseteq Requests
  BY <1>1 DEF TypeOK, Requests
<1>3. OneRuns' /\ OneRow' /\ RowsAreOld' /\ WritesFirst'
  BY <1>1, <1>2, StartsAlone DEF TurnInv, OneRuns, OneRow, RowsAreOld, WritesFirst, Ended
<1>4. RevokesKnow'
  BY <1>2, StartsAlone DEF RevokesKnow, BarredNow, Ended
<1>5. KeptOrTaken'
  BY <1>1, <1>2 DEF TurnInv, KeptOrTaken
<1> QED
  BY <1>3, <1>4, <1>5

\* What one step of a running request does to the permissions
LEMMA TurnsTaken ==
  ASSUME TypeOK, NEW a \in Requests, RequestStep(a), ~Start(a)
  PROVE  /\ pc[a] \in Running
         /\ \/ UNCHANGED perms /\ (pc'[a] = "ok" => a \notin Grants)
            \/ /\ a \in Grants /\ pc[a] = "write" /\ perms' \in {perms, perms \cup {a}}
               /\ pc'[a] \in Ended /\ (pc'[a] = "ok" => a \in perms')
            \/ a \in Revokes /\ perms' \subseteq perms /\ pc'[a] \in Ended
         /\ a \in Grants /\ pc'[a] = "write" => perms = {} /\ UNCHANGED perms
<1>1. pc = [b \in Requests |-> pc[b]]
  BY DEF TypeOK
<1>2. CASE FindUser(a) \/ SaveUser(a) \/ Probe(a) \/ FindPermission(a) \/ FindRow(a)
           \/ Check(a) \/ Fails(a)
  <2>1. UNCHANGED perms /\ pc[a] \in Running
    BY <1>2 DEF FindUser, SaveUser, Probe, FindPermission, FindRow, Check, Fails, Running,
                Active, Ended, TypeOK
  <2>2. a \in Grants => pc'[a] # "ok" /\ (pc'[a] = "write" => perms = {})
    BY <1>1, <1>2, AccessAssumption
       DEF FindUser, SaveUser, Probe, FindPermission, FindRow, Check, Fails, Goto
  <2> QED
    BY <2>1, <2>2
<1>3. CASE SavePermission(a)
  BY <1>1, <1>3 DEF SavePermission, FailedWrite, Goto, Running, Ended
<1>4. CASE DeletePermission(a)
  <2>1. a \notin Grants
    BY <1>4, AccessAssumption DEF DeletePermission
  <2> QED
    BY <1>1, <1>4, <2>1 DEF DeletePermission, FailedWrite, Goto, Running, Ended
<1> QED
  BY <1>2, <1>3, <1>4 DEF RequestStep

LEMMA StepInTurn ==
  ASSUME TypeOK, TurnInv, limit = 1, NEW a \in Requests, RequestStep(a), ~Start(a)
  PROVE  OneRuns' /\ OneRow' /\ RowsAreOld' /\ WritesFirst' /\ RevokesKnow' /\ KeptOrTaken'
<1>1. /\ \A b \in Requests \ {a} : pc'[b] = pc[b]
      /\ \A b \in Requests : barred'[b] = barred[b]
      /\ Grants \subseteq Requests /\ Revokes \subseteq Requests
      /\ perms \subseteq Grants /\ Grants \cap Revokes = {}
  BY OneMoves, AccessAssumption DEF TypeOK, Requests
<1>2. pc[a] \in Running /\ \A b \in Requests \ {a} : pc[b] \notin Running
  BY TurnsTaken DEF TurnInv, OneRuns
<1>3. OneRuns'
  BY <1>1, <1>2 DEF OneRuns
<1>4. OneRow' /\ RowsAreOld'
  BY <1>1, <1>2, TurnsTaken DEF TurnInv, OneRow, RowsAreOld, WritesFirst, Running, Ended
<1>5. WritesFirst'
  BY <1>1, <1>2, TurnsTaken DEF WritesFirst, Running
<1>6. RevokesKnow'
  BY <1>1, <1>2 DEF TurnInv, RevokesKnow
<1>7. KeptOrTaken'
  <2> SUFFICES ASSUME NEW g \in Grants, pc'[g] = "ok"
               PROVE  g \in perms' \/ \E r \in Revokes : g \in barred[r]
    BY <1>1 DEF KeptOrTaken
  <2>1. CASE g = a
    BY <1>1, <2>1, TurnsTaken
  <2>2. CASE g # a
    <3>1. pc[g] = "ok"
      BY <1>1, <2>2
    <3>2. a \in Revokes => g \in barred[a]
      BY <1>2, <3>1 DEF TurnInv, RevokesKnow
    <3> QED
      BY <3>1, <3>2, TurnsTaken DEF TurnInv, KeptOrTaken
  <2> QED
    BY <2>1, <2>2
<1> QED
  BY <1>3, <1>4, <1>5, <1>6, <1>7

LEMMA TurnStep ==
  ASSUME TypeOK, TurnInv, [Next]_vars
  PROVE  TurnInv'
<1>1. CASE Finished \/ UNCHANGED vars
  BY <1>1 DEF Finished, vars, TurnInv, OneRuns, OneRow, RowsAreOld, WritesFirst,
              RevokesKnow, KeptOrTaken
<1>2. ASSUME NEW a \in Requests, RequestStep(a)
      PROVE  TurnInv'
  <2>1. UNCHANGED limit
    BY <1>2 DEF RequestStep, Start, FindUser, SaveUser, Probe, SavePermission, FindPermission,
                FindRow, DeletePermission, Check, Fails
  <2>2. ASSUME NEW b \in Requests, pc'[b] = "idle"  PROVE barred'[b] = {}
    <3>1. pc'[a] # "idle"
      <4>1. CASE Start(a)
        BY <4>1 DEF Start, Goto, TypeOK
      <4>2. CASE ~Start(a)
        BY <1>2, <4>2 DEF RequestStep, FindUser, SaveUser, Probe, SavePermission,
           FindPermission, FindRow, DeletePermission, Check, Fails, Goto, TypeOK
      <4> QED
        BY <4>1, <4>2
    <3> QED
      BY <1>2, <2>2, <3>1, OneMoves DEF TurnInv
  <2> QED
    BY <1>2, <2>1, <2>2, StartInTurn, StepInTurn DEF TurnInv
<1> QED
  BY <1>1, <1>2 DEF Next

\* As long as requests do not overlap, a permission is neither doubled nor lost: it is
\* there from the answer to its creation until a revocation begins, whatever fails.
THEOREM PermissionsStay == Spec => []GrantedUntilRevoked
<1>1. Init => TurnInv
  BY AccessAssumption DEF Init, TurnInv, OneRuns, OneRow, RowsAreOld, WritesFirst,
     RevokesKnow, KeptOrTaken, Running, Requests
<1>2. TurnInv => GrantedUntilRevoked
  <2>1. ASSUME OneRow  PROVE Cardinality(perms) <= 1
    <3>1. perms = {} \/ \E g \in perms : perms = {g}
      BY <2>1 DEF OneRow
    <3>2. Cardinality(perms) = 0 \/ Cardinality(perms) = 1
      BY <3>1, FS_EmptySet, FS_Singleton, Zenon
    <3> QED
      BY <3>2
  <2> QED
    BY <2>1 DEF TurnInv, KeptOrTaken, GrantedUntilRevoked
<1> QED
  BY <1>1, <1>2, TurnStep, AccessTyping, PTL DEF Spec

=============================================================================
