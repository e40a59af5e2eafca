------------------------------ MODULE Tenancy ------------------------------
(***************************************************************************)
(* The requests that change a workspace and who may use it: members,       *)
(* invitations, API keys, settings (app/workspaces, app/invitations,       *)
(* app/api_keys and their routes), and the Idempotency-Key of the three    *)
(* POSTs that take one (http/idempotency.py).                              *)
(*                                                                         *)
(* A request is one READ COMMITTED transaction (get_workspace_scope): each *)
(* statement sees what is committed when it runs, a row written stays      *)
(* locked until the commit, and everything written, the audit row          *)
(* included, appears at the commit.  FastAPI leaves the dependency that    *)
(* holds the transaction after the response: the commit comes last, after  *)
(* the idempotency snapshot has been stored.                               *)
(***************************************************************************)
EXTENDS Integers, FiniteSets

CONSTANTS Requests,   \* requests; each is made once
          Users,
          Founders,   \* the owners to begin with
          GivenRoles, \* bound: the roles invitations and role changes give
          MaxFailures \* bound: transactions that do not commit

None == "none"

Roles == {"viewer", "member", "admin", "owner"}

ASSUME TenancyAssumption ==
          /\ Founders \subseteq Users /\ Founders # {}
          /\ GivenRoles \subseteq Roles
          /\ None \notin Requests
          /\ MaxFailures \in Nat

VARIABLES db,       \* the committed rows
          snapshot, \* idempotency:{identity}:{key}: the request it is of
          req,      \* each request and its transaction
          failures

vars == <<db, snapshot, req, failures>>

\* domain/policy.py: the roles that have a capability.
Policy(capability) ==
  CASE capability = "manage_members" -> {"admin", "owner"}
    [] capability = "manage_budgets" -> {"admin", "owner"}
    [] capability = "manage_api_keys" -> {"admin", "owner"}

\* require_capability of the route of each operation.
Capability ==
  [update_role |-> "manage_members", remove_member |-> "manage_members",
   create_invitation |-> "manage_members", revoke_invitation |-> "manage_members",
   update_workspace |-> "manage_budgets",
   create_key |-> "manage_api_keys", revoke_key |-> "manage_api_keys"]

ScopedOps == DOMAIN Capability
Ops == ScopedOps \cup {"create_workspace", "accept_invitation"}

\* An invitation, an API key or another workspace is named by the request
\* that created it.
Invitation == [role : Roles, consumed : BOOLEAN]
Absent == [role |-> "viewer", consumed |-> TRUE]

\* The tables: one membership for a user (UNIQUE), one row per token or key.
Memberships == [Users -> Roles \cup {None}]
Invitations == [Requests -> Invitation]
ApiKeys == [Requests -> {"none", "active", "revoked"}]
AuditLog == SUBSET Requests

Database ==
  [members : Memberships, invitations : Invitations, keys : ApiKeys,
   workspaces : SUBSET Requests, updatedAt : Nat, audit : AuditLog]

\* How far a request has come, and how one ends that comes to nothing.
Steps == {"new", "guarded", "check", "write", "store", "commit", "done"}
Failed == {"replayed", "refused", "failed"}

\* "item" is the request that created the invitation or key at hand, "joins"
\* that AcceptInvitation has found no membership; "rivals" and "twins" are no
\* variables of the code: the transactions that were open when this one read,
\* the requests with the same key that were running when the guard looked it
\* up.
Request ==
  [pc : Steps \cup Failed, op : Ops, actor : Users, target : Users,
   role : Roles, item : Requests, expected : Nat, keyed : BOOLEAN, joins : BOOLEAN,
   rivals : SUBSET Requests, twins : SUBSET Requests]

\* One key, in the namespace of the workspace or, where there is none yet, of
\* the caller.
Identities == Users \cup {"workspace"}
Identity(q) == IF q.op = "create_workspace" THEN q.actor ELSE "workspace"

TypeOK ==
  /\ db \in Database
  /\ snapshot \in [Identities -> Requests \cup {None}]
  /\ req \in [Requests -> Request]
  /\ failures \in 0 .. MaxFailures

SomeUser == CHOOSE u \in Users : TRUE

NewRequest(r) ==
  [pc |-> "new", op |-> "create_workspace", actor |-> SomeUser,
   target |-> SomeUser, role |-> "viewer", item |-> r, expected |-> 0,
   keyed |-> FALSE, joins |-> FALSE, rivals |-> {}, twins |-> {}]

\* The workspace exists and has its owners (the one who created it, and those
\* an owner has invited).
Init ==
  /\ db = [members |-> [u \in Users |-> IF u \in Founders THEN "owner" ELSE None],
           invitations |-> [r \in Requests |-> Absent],
           keys |-> [r \in Requests |-> "none"],
           workspaces |-> {}, updatedAt |-> 0, audit |-> {}]
  /\ snapshot = [i \in Identities |-> None]
  /\ req = [r \in Requests |-> NewRequest(r)]
  /\ failures = 0

-----------------------------------------------------------------------------
(* The statements of the repositories, on the rows a transaction sees.     *)

Owners(d) == {u \in Users : d.members[u] = "owner"}       \* count_by_role

CreateMembership(d, u, role) == [d EXCEPT !.members[u] = role]
UpdateRole(d, u, role) == [d EXCEPT !.members[u] = role]
DeleteMembership(d, u) == [d EXCEPT !.members[u] = None]

CreateInvitation(d, i, role) ==
  [d EXCEPT !.invitations[i] = [role |-> role, consumed |-> FALSE]]
ConsumeInvitation(d, i) ==
  [d EXCEPT !.invitations[i] = [role |-> @.role, consumed |-> TRUE]]
DeleteInvitation(d, i) == [d EXCEPT !.invitations[i] = Absent]

CreateKey(d, k) == [d EXCEPT !.keys[k] = "active"]
RevokeKey(d, k) == [d EXCEPT !.keys[k] = IF @ = "active" THEN "revoked" ELSE @]

CreateWorkspace(d, w) == [d EXCEPT !.workspaces = @ \cup {w}]
UpdateWorkspace(d) == [d EXCEPT !.updatedAt = @ + 1]

RecordAudit(d, r) == [d EXCEPT !.audit = @ \cup {r}]

-----------------------------------------------------------------------------
(* A request.                                                              *)

Open(r) == req[r].pc \in {"check", "write", "store", "commit"}
Written(r) == req[r].pc \in {"store", "commit"}
Rivals(r) == {q \in Requests \ {r} : Open(q)}

\* A request that comes to nothing leaves at most the body of its snapshot.
Ended(r, asked, pc) ==
  [NewRequest(r) EXCEPT !.pc = pc, !.op = asked.op, !.role = asked.role]

\* Request r, with these local variables, goes on, or comes to nothing.
Becomes(r, local, pc) ==
  req' = [req EXCEPT ![r] = IF pc \in Failed THEN Ended(r, local, pc)
                              ELSE [local EXCEPT !.pc = pc]]

Step(r, pc) == Becomes(r, req[r], pc)
OnlyStep(r, pc) == Step(r, pc) /\ UNCHANGED <<db, snapshot, failures>>

\* The body of a keyed request: the same key goes with the same body or not.
Body(r) == <<req[r].op, req[r].role>>

\* The requests with this key that are between their guard and their snapshot.
Running(identity) ==
  {q \in Requests : /\ req[q].keyed /\ Identity(req[q]) = identity
                    /\ req[q].pc \in {"guarded", "check", "write", "store"}}

\* What each route takes from a client, as the request it makes of it: any
\* member may be named, and any invitation or key that exists.
Asked(r, op, u) == [req[r] EXCEPT !.op = op, !.actor = u, !.target = u]

PostWorkspace(r, u) ==
  {[Asked(r, "create_workspace", u) EXCEPT !.keyed = keyed] : keyed \in BOOLEAN}

\* If-Match is the ETag the client has just been given.
PatchWorkspace(r, u) ==
  {[Asked(r, "update_workspace", u) EXCEPT !.expected = db.updatedAt]}

PatchMember(r, u) ==
  UNION {{[Asked(r, "update_role", u) EXCEPT !.target = t, !.role = role] :
            role \in GivenRoles} : t \in Users}

DeleteMember(r, u) == {[Asked(r, "remove_member", u) EXCEPT !.target = t] : t \in Users}

PostInvitation(r, u) ==
  UNION {{[Asked(r, "create_invitation", u) EXCEPT !.role = role, !.keyed = keyed] :
            role \in GivenRoles} : keyed \in BOOLEAN}

Sent == {i \in Requests : db.invitations[i] # Absent}

DeleteInvite(r, u) == {[Asked(r, "revoke_invitation", u) EXCEPT !.item = i] : i \in Sent}

PostAcceptance(r, u) == {[Asked(r, "accept_invitation", u) EXCEPT !.item = i] : i \in Sent}

PostApiKey(r, u) ==
  {[Asked(r, "create_key", u) EXCEPT !.keyed = keyed] : keyed \in BOOLEAN}

DeleteApiKey(r, u) ==
  {[Asked(r, "revoke_key", u) EXCEPT !.item = k] :
     k \in {k \in Requests : db.keys[k] # "none"}}

\* RedisIdempotencyStore.get and set.
GetSnapshot(identity) == snapshot[identity]
SetSnapshot(identity, r) == [snapshot EXCEPT ![identity] = r]

\* The client sends a request; idempotency_guard runs before the transaction.
\* A match replays the stored response, another body is a conflict.
Guard(r, asked) ==
  LET stored == GetSnapshot(Identity(asked))
  IN  \/ ~ asked.keyed /\ Becomes(r, asked, "guarded")
      \/ /\ asked.keyed /\ stored = None
         /\ Becomes(r, [asked EXCEPT !.twins = Running(Identity(asked))], "guarded")
      \/ /\ asked.keyed /\ stored # None
         /\ Becomes(r, asked, IF Body(stored) = <<asked.op, asked.role>>
                                THEN "replayed" ELSE "refused")

Send(r) ==
  /\ req[r].pc = "new"
  /\ \E u \in Users :
       \E asked \in PostWorkspace(r, u) \cup PatchWorkspace(r, u) \cup PatchMember(r, u)
                     \cup DeleteMember(r, u) \cup PostInvitation(r, u)
                     \cup DeleteInvite(r, u) \cup PostAcceptance(r, u)
                     \cup PostApiKey(r, u) \cup DeleteApiKey(r, u) :
         Guard(r, asked)
  /\ UNCHANGED <<db, snapshot, failures>>

\* require_capability.
RequireCapability(role, op) == role \in Policy(Capability[op])

\* resolve_caller_membership under the tenant of the URL.
CallerRole(r) == db.members[req[r].actor]

\* get_workspace_scope: the transaction begins, and the caller's membership is
\* read, once.
Authorize(r) ==
  /\ req[r].pc = "guarded"
  /\ req[r].op \in ScopedOps
  /\ OnlyStep(r, IF RequireCapability(CallerRole(r), req[r].op)
                   THEN IF req[r].op \in {"update_role", "remove_member"}
                          THEN "check" ELSE "write"
                   ELSE "refused")

\* get_new_workspace_connection: there is no membership to look at yet.
OpenNewWorkspace(r) ==
  /\ req[r].pc = "guarded"
  /\ req[r].op = "create_workspace"
  /\ OnlyStep(r, "write")

\* get_invitation_acceptance_scope: whoever has the token.
OpenAcceptance(r) ==
  /\ req[r].pc = "guarded"
  /\ req[r].op = "accept_invitation"
  /\ OnlyStep(r, "check")

\* The reads of a use case are done, with these transactions open.
Checked(r, ok) ==
  /\ Becomes(r, [req[r] EXCEPT !.rivals = Rivals(r)],
             IF ok THEN "write" ELSE "refused")
  /\ UNCHANGED <<db, snapshot, failures>>

\* The change leaves the workspace with an owner less.
TakesOwner(r) ==
  \/ req[r].op = "remove_member"
  \/ req[r].op = "update_role" /\ req[r].role # "owner"

MutCheckRemoval(r) ==
  /\ req[r].pc = "check"
  /\ req[r].op = "remove_member"
  /\ Checked(r, db.members[req[r].target] # None)

\* UpdateMemberRole up to its write: the member exists, and is not the last
\* owner.  (A commit between the two reads of the code only makes it refuse
\* more.)
CheckRoleChange(r) ==
  /\ req[r].pc = "check"
  /\ req[r].op = "update_role"
  /\ LET current == db.members[req[r].target]
     IN  Checked(r, /\ current # None
                    /\ current = "owner" /\ TakesOwner(r) =>
                         Cardinality(Owners(db)) > 1)

\* RemoveMember, the same.
CheckRemoval(r) ==
  /\ req[r].pc = "check"
  /\ req[r].op = "remove_member"
  /\ LET current == db.members[req[r].target]
     IN  Checked(r, /\ current # None
                    /\ current = "owner" => Cardinality(Owners(db)) > 1)

\* The role the invitation gives, and whether it is given.
ReadInvitation(r, ok) ==
  /\ Becomes(r, [req[r] EXCEPT !.rivals = Rivals(r),
                               !.role = db.invitations[req[r].item].role,
                               !.joins = db.members[req[r].target] = None],
             IF ok THEN "write" ELSE "refused")
  /\ UNCHANGED <<db, snapshot, failures>>

MutCheckInvitation(r) ==
  /\ req[r].pc = "check"
  /\ req[r].op = "accept_invitation"
  /\ ReadInvitation(r, db.invitations[req[r].item] # Absent)

\* AcceptInvitation up to the first write: known and not consumed.  (Expired
\* is one more reason to refuse.)
CheckInvitation(r) ==
  /\ req[r].pc = "check"
  /\ req[r].op = "accept_invitation"
  /\ ReadInvitation(r, ~ db.invitations[req[r].item].consumed)

\* No other open transaction has written this row.
Unlocked(r, ops, field) ==
  \A q \in Rivals(r) :
    Written(q) /\ req[q].op \in ops => req[q][field] # req[r][field]

\* (An acceptance that does not join has not touched the membership.)
MemberUnlocked(r) ==
  \A q \in Rivals(r) :
    /\ Written(q)
    /\ \/ req[q].op \in {"update_role", "remove_member"}
       \/ req[q].op = "accept_invitation" /\ req[q].joins
    => req[q].target # req[r].target

InvitationOps == {"revoke_invitation", "accept_invitation"}

\* A write statement of r: it waits for the locks it needs, then sees what is
\* committed.  Without a row to write, the request fails and rolls back.
Write(r, ops, unlocked, finds) ==
  /\ req[r].pc = "write"
  /\ req[r].op \in ops
  /\ unlocked
  /\ OnlyStep(r, IF ~ finds THEN "failed"
                 ELSE IF req[r].keyed THEN "store" ELSE "commit")

\* update_role: the assert that the row is still there.
WriteRole(r) ==
  Write(r, {"update_role"}, MemberUnlocked(r),
        db.members[req[r].target] # None)

\* DELETE or UPDATE of a row: none is fine.
WriteRemoval(r) == Write(r, {"remove_member"}, MemberUnlocked(r), TRUE)

WriteRevocation(r) ==
  Write(r, {"revoke_invitation"}, Unlocked(r, InvitationOps, "item"), TRUE)

WriteKeyRevocation(r) ==
  Write(r, {"revoke_key"}, Unlocked(r, {"revoke_key"}, "item"), TRUE)

\* INSERT of the membership, unique for a user, and UPDATE of the invitation.
WriteAcceptance(r) ==
  Write(r, {"accept_invitation"},
        /\ Unlocked(r, InvitationOps, "item")
        /\ req[r].joins => MemberUnlocked(r),
        req[r].joins => db.members[req[r].target] = None)

WriteNewWorkspace(r) == Write(r, {"create_workspace"}, TRUE, TRUE)

WriteInvitation(r) == Write(r, {"create_invitation"}, TRUE, TRUE)

WriteKey(r) == Write(r, {"create_key"}, TRUE, TRUE)

MutWriteWorkspace(r) ==
  Write(r, {"update_workspace"}, TRUE, db.updatedAt = req[r].expected)

\* UPDATE workspaces ... WHERE updated_at = the ETag; none is a conflict.
WriteWorkspace(r) ==
  Write(r, {"update_workspace"},
        \A q \in Rivals(r) : Written(q) => req[q].op # "update_workspace",
        db.updatedAt = req[r].expected)

MutStore(r) ==
  /\ req[r].pc = "store"
  /\ UNCHANGED snapshot
  /\ Step(r, "commit")
  /\ UNCHANGED <<db, failures>>

\* IdempotencyAwareRoute: the response is built, its snapshot is stored.
Store(r) ==
  /\ req[r].pc = "store"
  /\ snapshot' = SetSnapshot(Identity(req[r]), r)
  /\ Step(r, "commit")
  /\ UNCHANGED <<db, failures>>

\* What the transaction has written.
Result(r) ==
  LET q == req[r]
  IN  CASE q.op = "create_workspace" -> CreateWorkspace(db, r)
        [] q.op = "update_workspace" -> UpdateWorkspace(db)
        [] q.op = "update_role" -> UpdateRole(db, q.target, q.role)
        [] q.op = "remove_member" -> DeleteMembership(db, q.target)
        [] q.op = "create_invitation" -> CreateInvitation(db, r, q.role)
        [] q.op = "revoke_invitation" -> DeleteInvitation(db, q.item)
        [] q.op = "create_key" -> CreateKey(db, r)
        [] q.op = "revoke_key" -> RevokeKey(db, q.item)
        [] q.op = "accept_invitation" ->
             ConsumeInvitation(
               IF q.joins THEN CreateMembership(db, q.target, q.role) ELSE db, q.item)

\* Every use case ends with an audit row, but not the acceptance of one who is
\* a member already.
Audited(r) == req[r].op = "accept_invitation" => req[r].joins

\* The transaction of get_workspace_scope and its like ends.
Commit(r) ==
  /\ req[r].pc = "commit"
  /\ db' = IF Audited(r) THEN RecordAudit(Result(r), r) ELSE Result(r)
  /\ Step(r, "done")
  /\ UNCHANGED <<snapshot, failures>>

\* The connection or the process is lost before the commit, or Redis before
\* the snapshot: everything is rolled back, but not a stored snapshot.
Fail(r) ==
  /\ Open(r)
  /\ failures < MaxFailures
  /\ failures' = failures + 1
  /\ Step(r, "failed")
  /\ UNCHANGED <<db, snapshot>>

RequestStep(r) ==
  \/ Send(r) \/ Authorize(r) \/ OpenNewWorkspace(r) \/ OpenAcceptance(r)
  \/ CheckRoleChange(r) \/ CheckRemoval(r) \/ CheckInvitation(r)
  \/ WriteRole(r) \/ WriteRemoval(r) \/ WriteAcceptance(r) \/ WriteRevocation(r)
  \/ WriteKeyRevocation(r) \/ WriteNewWorkspace(r) \/ WriteInvitation(r) \/ WriteKey(r)
  \/ WriteWorkspace(r) \/ Store(r) \/ Commit(r) \/ Fail(r)

Next == \E r \in Requests : RequestStep(r)

Spec == Init /\ [][Next]_vars

-----------------------------------------------------------------------------
(* Properties.                                                             *)

Done(r) == req[r].pc = "done"

\* One was open when the other read what it decided on.
Overlapped(r, q) == r \in req[q].rivals \/ q \in req[r].rivals

\* The workspace loses its last owner only if two requests that each take an
\* owner away read the members while the other was open: one at a time,
\* last-owner protection holds over any sequence of role changes, removals,
\* invitations and acceptances.
OwnerRemains ==
  Owners(db) = {} =>
    \E r, q \in Requests :
      /\ r # q /\ Done(r) /\ Done(q)
      /\ TakesOwner(r) /\ TakesOwner(q)
      /\ Overlapped(r, q)

\* An invitation admits one user, unless two acceptances overlapped.
InvitationAdmitsOne ==
  \A r, q \in Requests :
    /\ r # q /\ Done(r) /\ Done(q)
    /\ req[r].op = "accept_invitation" /\ req[q].op = "accept_invitation"
    /\ req[r].item = req[q].item
    => Overlapped(r, q)

\* Two requests with one Idempotency-Key and one body take effect twice only
\* if the second was looked up while the first was still running.
OncePerKey ==
  \A r, q \in Requests :
    /\ r # q /\ Done(r) /\ Done(q)
    /\ req[r].keyed /\ req[q].keyed
    /\ Identity(req[r]) = Identity(req[q]) /\ Body(r) = Body(q)
    => r \in req[q].twins \/ q \in req[r].twins

\* Two updates of the workspace never start from the same ETag, even if they
\* overlap: no update is lost.
NoLostUpdate ==
  \A r, q \in Requests :
    /\ r # q /\ Done(r) /\ Done(q)
    /\ req[r].op = "update_workspace" /\ req[q].op = "update_workspace"
    => req[r].expected # req[q].expected
=============================================================================
