---------------------------- MODULE AccessControl ----------------------------
(***************************************************************************)
(* Accounts and WRITE permissions.  The owner of the first document of a   *)
(* lineage grants and revokes the permission of another user, who is named *)
(* by an email, while that user registers and creates new versions.  Every *)
(* request looks into the database first and acts on what it has read some *)
(* statements later; there is no lock, and the only constraint of the      *)
(* database that helps is the unique index on emails.                      *)
(*                                                                         *)
(* Users and documents do not influence each other here, so one email and  *)
(* one first document are enough.  A registration creates at most one      *)
(* account and a grant at most one permission: both are named after it.    *)
(***************************************************************************)
EXTENDS Integers, FiniteSets

CONSTANTS
  Registrations,  \* requests to register the email = accounts
  Grants,         \* requests to create the permission = permission rows
  Revokes,        \* requests to delete it
  Checks,         \* requests of that user to create a new version
  Limits,         \* how many requests may be in flight, to be considered
  Faults,         \* what may go wrong, a subset of AccessFaults
  None

AccessFaults == {"fail", "lost", "crash"}
Requests     == Registrations \cup Grants \cup Revokes \cup Checks

ASSUME AccessAssumption ==
  /\ Limits \subseteq Nat
  /\ Faults \subseteq AccessFaults
  /\ Registrations \cap (Grants \cup Revokes \cup Checks) = {}
  /\ Grants \cap (Revokes \cup Checks) = {}
  /\ Revokes \cap Checks = {}
  /\ None \notin Requests

VARIABLES
  limit,  \* how many requests are in flight at most
  users,  \* the accounts with the email
  perms,  \* the permission rows of that user on the first document
  pc,     \* where each request is
  found,  \* the permission row a request has read
  barred  \* history: the grants that count as revoked for a request

vars == <<limit, users, perms, pc, found, barred>>

Ended  == {"ok", "refused", "failed", "crashed"}
Active == {a \in Requests : pc[a] \notin Ended \cup {"idle"}}

TypeOK ==
  /\ limit \in Limits
  /\ users \subseteq Registrations
  /\ perms \subseteq Grants
  /\ pc \in [Requests -> {"idle", "user", "permission", "row", "write"} \cup Ended]
  /\ found \in [Requests -> Grants \cup {None}]
  /\ barred \in [Requests -> SUBSET Grants]

Init ==
  /\ limit \in Limits
  /\ users = {}
  /\ perms = {}
  /\ pc = [a \in Requests |-> "idle"]
  /\ found = [a \in Requests |-> None]
  /\ barred = [a \in Requests |-> {}]

Goto(a, step) == pc' = [pc EXCEPT ![a] = step]

\* What a write that reports an error may have left behind
FailedWrite(before, after) ==
  {s \in {before} : "fail" \in Faults} \cup {s \in {after} : "lost" \in Faults}

-----------------------------------------------------------------------------

\* The grants that have ended when a revocation begins, and for everybody else
\* those that an acknowledged revocation has taken back.
BarredNow(a) ==
  IF a \in Revokes THEN {g \in Grants : pc[g] \in Ended}
  ELSE UNION {barred[r] : r \in {q \in Revokes : pc[q] = "ok"}}

\* A request arrives.  The document, its first version and the rights of the
\* owner are looked up too; nothing here changes them.
Start(a) ==
  /\ pc[a] = "idle"
  /\ Cardinality(Active) < limit
  /\ Goto(a, "user")
  /\ barred' = [barred EXCEPT ![a] = BarredNow(a)]
  /\ UNCHANGED <<limit, users, perms, found>>

\* get_user_by_email finds the account, or none; several are an error.
FindUser(a) ==
  /\ pc[a] = "user"
  /\ Goto(a, IF a \in Registrations
             THEN IF users = {} THEN "write" ELSE "refused"
             ELSE IF Cardinality(users) = 1 THEN "permission" ELSE "refused")
  /\ UNCHANGED <<limit, users, perms, found, barred>>

\* Faulty variant: there is no unique index
SaveUserAlways(r) ==
  /\ r \in Registrations /\ pc[r] = "write"
  /\ users' = users \cup {r} /\ Goto(r, "ok")
  /\ UNCHANGED <<limit, perms, found, barred>>

\* The unique index refuses a second account for the email.
SaveUser(r) ==
  /\ r \in Registrations /\ pc[r] = "write"
  /\ \/ users = {} /\ users' = {r} /\ Goto(r, "ok")
     \/ users # {} /\ UNCHANGED users /\ Goto(r, "failed")
     \/ users = {} /\ users' \in FailedWrite(users, {r}) /\ Goto(r, "failed")
  /\ UNCHANGED <<limit, perms, found, barred>>

\* Faulty variant: an existing permission is no conflict
ProbeAlways(g) ==
  /\ g \in Grants /\ pc[g] = "permission"
  /\ Goto(g, "write")
  /\ UNCHANGED <<limit, users, perms, found, barred>>

\* save_permission looks for a permission first ...
Probe(g) ==
  /\ g \in Grants /\ pc[g] = "permission"
  /\ Goto(g, IF perms = {} THEN "write" ELSE "refused")
  /\ UNCHANGED <<limit, users, perms, found, barred>>

\* ... and inserts a row with a new id, which no constraint refuses.
SavePermission(g) ==
  /\ g \in Grants /\ pc[g] = "write"
  /\ \/ perms' = perms \cup {g} /\ Goto(g, "ok")
     \/ perms' \in FailedWrite(perms, perms \cup {g}) /\ Goto(g, "failed")
  /\ UNCHANGED <<limit, users, found, barred>>

\* Faulty variant: with several permissions, one of them is deleted
FindAnyPermission(r) ==
  /\ r \in Revokes /\ pc[r] = "permission"
  /\ \/ \E g \in perms : found' = [found EXCEPT ![r] = g] /\ Goto(r, "row")
     \/ perms = {} /\ UNCHANGED found /\ Goto(r, "refused")
  /\ UNCHANGED <<limit, users, perms, barred>>

\* Faulty variant: the list of permissions is kept instead of its only member
FindPermissionList(r) ==
  /\ r \in Revokes /\ pc[r] = "permission"
  /\ \/ perms # {} /\ found' = [found EXCEPT ![r] = perms] /\ Goto(r, "row")
     \/ perms = {} /\ UNCHANGED found /\ Goto(r, "refused")
  /\ UNCHANGED <<limit, users, perms, barred>>

\* delete_permission wants to find exactly one permission ...
FindPermission(r) ==
  /\ r \in Revokes /\ pc[r] = "permission"
  /\ \/ \E g \in perms : /\ perms = {g}
                         /\ found' = [found EXCEPT ![r] = g]
                         /\ Goto(r, "row")
     \/ Cardinality(perms) # 1 /\ UNCHANGED found /\ Goto(r, "refused")
  /\ UNCHANGED <<limit, users, perms, barred>>

\* ... reads its row once more by its id ...
FindRow(r) ==
  /\ r \in Revokes /\ pc[r] = "row"
  /\ Goto(r, IF found[r] \in perms THEN "write" ELSE "refused")
  /\ UNCHANGED <<limit, users, perms, found, barred>>

\* ... and deletes it; it is no error if it has gone by then.
DeletePermission(r) ==
  /\ r \in Revokes /\ pc[r] = "write"
  /\ LET after == perms \ {found[r]} IN
       \/ perms' = after /\ Goto(r, "ok")
       \/ perms' \in FailedWrite(perms, after) /\ Goto(r, "failed")
  /\ UNCHANGED <<limit, users, found, barred>>

\* validate_user_permission: exactly one permission lets the user go on.
Check(c) ==
  /\ c \in Checks /\ pc[c] = "permission"
  /\ \/ \E g \in perms : /\ perms = {g}
                         /\ found' = [found EXCEPT ![c] = g]
                         /\ Goto(c, "ok")
     \/ Cardinality(perms) # 1 /\ UNCHANGED found /\ Goto(c, "refused")
  /\ UNCHANGED <<limit, users, perms, barred>>

\* A read of the database goes wrong, or the worker dies.
Fails(a) ==
  /\ a \in Active
  /\ \/ "fail" \in Faults /\ pc[a] # "write" /\ Goto(a, "failed")
     \/ "crash" \in Faults /\ Goto(a, "crashed")
  /\ UNCHANGED <<limit, users, perms, found, barred>>

-----------------------------------------------------------------------------

Finished == (\A a \in Requests : pc[a] \in Ended) /\ UNCHANGED vars

RequestStep(a) ==
  \/ Start(a) \/ FindUser(a) \/ SaveUser(a) \/ Probe(a) \/ SavePermission(a)
  \/ FindPermission(a) \/ FindRow(a) \/ DeletePermission(a) \/ Check(a) \/ Fails(a)

Next == (\E a \in Requests : RequestStep(a)) \/ Finished

Spec == Init /\ [][Next]_vars

-----------------------------------------------------------------------------
(* Properties *)

\* Whoever has registered an email can log in with it and be found by it: no
\* other registration, however they race and fail, gets in between.
RegisteredIsFound == \A r \in Registrations : pc[r] = "ok" => users = {r}

\* Once a revocation has been acknowledged, no permission whose creation was over
\* when the revocation began lets anybody create a new version, also when there
\* were several of them and revocations overlap, fail or are repeated.
NoAccessAfterRevocation ==
  \A c \in Checks : pc[c] = "ok" => found[c] \notin barred[c]

\* When requests do not overlap, a permission can neither be doubled nor lost: it
\* is there from the answer to its creation until a revocation begins.
GrantedUntilRevoked ==
  limit = 1 =>
    /\ Cardinality(perms) <= 1
    /\ \A g \in Grants : pc[g] = "ok" =>
         \/ g \in perms
         \/ \E r \in Revokes : g \in barred[r]

\* POST permissions answers 409 if "A permission already exists for this user on
\* the document", so there never are two of them.
OnePermissionPerUser == Cardinality(perms) <= 1

=============================================================================
