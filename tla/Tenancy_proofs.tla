-------------------------- MODULE Tenancy_proofs --------------------------
(***************************************************************************)
(* What holds of Tenancy for any number of requests, users and failures.   *)
(***************************************************************************)
EXTENDS Tenancy, FiniteSetTheorems, TLAPS

-----------------------------------------------------------------------------
(* Types.                                                                  *)

LEMMA SomeUserType == SomeUser \in Users
BY TenancyAssumption DEF SomeUser

LEMMA NewRequestType ==
  ASSUME NEW r \in Requests
  PROVE  NewRequest(r) \in Request
BY SomeUserType DEF NewRequest, Request, Steps, Ops, Roles

\* What Becomes leaves behind: the new step, the local variables of a request
\* that goes on, no key in one that comes to nothing.
LEMMA BecomesFacts ==
  ASSUME TypeOK, NEW r \in Requests, NEW local \in Request,
         NEW pc \in Steps \cup Failed, Becomes(r, local, pc)
  PROVE  /\ req' \in [Requests -> Request]
         /\ \A q \in Requests \ {r} : req'[q] = req[q]
         /\ req'[r].pc = pc
         /\ pc \in Failed => ~ req'[r].keyed
         /\ pc \notin Failed =>
              /\ req'[r].op = local.op /\ req'[r].actor = local.actor
              /\ req'[r].target = local.target /\ req'[r].role = local.role
              /\ req'[r].item = local.item /\ req'[r].expected = local.expected
              /\ req'[r].keyed = local.keyed /\ req'[r].joins = local.joins
              /\ req'[r].rivals = local.rivals /\ req'[r].twins = local.twins
<1>1. CASE pc \in Failed
  <2>1. /\ Ended(r, local, pc) \in Request
        /\ Ended(r, local, pc).pc = pc
        /\ ~ Ended(r, local, pc).keyed
    BY <1>1, SomeUserType DEF Ended, NewRequest, Request
  <2>2. req' = [req EXCEPT ![r] = Ended(r, local, pc)]
    BY <1>1 DEF Becomes
  <2>3. QED
    BY <1>1, <2>1, <2>2 DEF TypeOK
<1>2. CASE pc \notin Failed
  <2> DEFINE k == [local EXCEPT !.pc = pc]
  <2>1. /\ k \in Request /\ k.pc = pc
        /\ k.op = local.op /\ k.actor = local.actor
        /\ k.target = local.target /\ k.role = local.role
        /\ k.item = local.item /\ k.expected = local.expected
        /\ k.keyed = local.keyed /\ k.joins = local.joins
        /\ k.rivals = local.rivals /\ k.twins = local.twins
    BY DEF Request
  <2>2. req' = [req EXCEPT ![r] = k]
    BY <1>2 DEF Becomes
  <2> HIDE DEF k
  <2>3. QED
    BY <1>2, <2>1, <2>2 DEF TypeOK
<1>3. QED
  BY <1>1, <1>2

-----------------------------------------------------------------------------
(* The steps of a request, as far as the properties tell them apart.       *)

\* Only request r changes.
Alone(r) ==
  /\ req' \in [Requests -> Request]
  /\ \A q \in Requests \ {r} : req'[q] = req[q]

\* What the client has asked for stays.
Kept(r) ==
  /\ req'[r].op = req[r].op /\ req'[r].actor = req[r].actor
  /\ req'[r].target = req[r].target /\ req'[r].item = req[r].item
  /\ req'[r].expected = req[r].expected /\ req'[r].keyed = req[r].keyed
  /\ req'[r].twins = req[r].twins

\* And so does what the request has read.
KeptAll(r) ==
  /\ Kept(r)
  /\ req'[r].role = req[r].role /\ req'[r].joins = req[r].joins
  /\ req'[r].rivals = req[r].rivals

RoleOps == {"update_role", "remove_member"}

Sends(r) ==
  /\ req[r].pc = "new" /\ req'[r].pc = "guarded"
  /\ req'[r].keyed =>
       /\ snapshot[Identity(req'[r])] = None
       /\ req'[r].twins = Running(Identity(req'[r]))
  /\ req'[r].op = "accept_invitation" => req'[r].item \in Sent
  /\ UNCHANGED <<db, snapshot>>

Ends(r) ==
  /\ req[r].pc # "done" /\ req'[r].pc \in Failed
  /\ ~ req'[r].keyed
  /\ UNCHANGED <<db, snapshot>>

Opens(r) ==
  /\ req[r].pc = "guarded" /\ req'[r].pc \in {"check", "write"}
  /\ req'[r].pc = "write" => req[r].op \notin RoleOps \cup {"accept_invitation"}
  /\ KeptAll(r)
  /\ UNCHANGED <<db, snapshot>>

Checks(r) ==
  /\ req[r].pc = "check" /\ req'[r].pc = "write"
  /\ Kept(r)
  /\ req'[r].rivals = Rivals(r)
  /\ req[r].op \in RoleOps =>
       /\ req'[r].role = req[r].role
       /\ TakesOwner(r) /\ db.members[req[r].target] = "owner" =>
            Cardinality(Owners(db)) > 1
  /\ req[r].op = "accept_invitation" => ~ db.invitations[req[r].item].consumed
  /\ UNCHANGED <<db, snapshot>>

Writes(r) ==
  /\ req[r].pc = "write" /\ req'[r].pc \in {"store", "commit"}
  /\ req[r].keyed => req'[r].pc = "store"
  /\ KeptAll(r)
  /\ req[r].op \in RoleOps => MemberUnlocked(r)
  /\ req[r].op = "accept_invitation" /\ req[r].joins =>
       MemberUnlocked(r) /\ db.members[req[r].target] = None
  /\ req[r].op = "update_workspace" =>
       /\ db.updatedAt = req[r].expected
       /\ \A q \in Rivals(r) : Written(q) => req[q].op # "update_workspace"
  /\ UNCHANGED <<db, snapshot>>

Stores(r) ==
  /\ req[r].pc = "store" /\ req'[r].pc = "commit"
  /\ KeptAll(r)
  /\ snapshot' = SetSnapshot(Identity(req[r]), r)
  /\ UNCHANGED db

\* What a commit does to the rows.
Commits(r) ==
  /\ req[r].pc = "commit" /\ req'[r].pc = "done"
  /\ KeptAll(r)
  /\ db'.members =
       IF req[r].op = "update_role" \/ (req[r].op = "accept_invitation" /\ req[r].joins)
         THEN [db.members EXCEPT ![req[r].target] = req[r].role]
         ELSE IF req[r].op = "remove_member"
           THEN [db.members EXCEPT ![req[r].target] = None]
           ELSE db.members
  /\ db'.updatedAt = db.updatedAt + (IF req[r].op = "update_workspace" THEN 1 ELSE 0)
  /\ req[r].op = "accept_invitation" => db'.invitations[req[r].item].consumed
  /\ \A i \in Requests : i # r \/ req[r].op # "create_invitation" =>
       /\ db.invitations[i].consumed => db'.invitations[i].consumed
       /\ db.invitations[i] = Absent => db'.invitations[i] = Absent
  /\ UNCHANGED snapshot

Moves(r) ==
  \/ Sends(r) \/ Ends(r) \/ Opens(r) \/ Checks(r) \/ Writes(r) \/ Stores(r)
  \/ Commits(r)

\* Every request a client can send is one.
LEMMA AskedType ==
  ASSUME TypeOK, NEW r \in Requests, NEW u \in Users,
         NEW asked \in PostWorkspace(r, u) \cup PatchWorkspace(r, u) \cup PatchMember(r, u)
                     \cup DeleteMember(r, u) \cup PostInvitation(r, u)
                     \cup DeleteInvite(r, u) \cup PostAcceptance(r, u)
                     \cup PostApiKey(r, u) \cup DeleteApiKey(r, u)
  PROVE  /\ asked \in Request
         /\ asked.op = "accept_invitation" => asked.item \in Sent
<1>1. req[r] \in Request /\ db.updatedAt \in Nat /\ GivenRoles \subseteq Roles
      /\ Sent \subseteq Requests
  BY TenancyAssumption DEF TypeOK, Database, Sent
<1>2. CASE asked \in PostWorkspace(r, u)
  BY <1>1, <1>2 DEF PostWorkspace, Asked, Request, Ops, ScopedOps, Capability
<1>3. CASE asked \in PatchWorkspace(r, u)
  BY <1>1, <1>3 DEF PatchWorkspace, Asked, Request, Ops, ScopedOps, Capability
<1>4. CASE asked \in PatchMember(r, u)
  <2>1. PICK t \in Users, role \in GivenRoles :
          asked = [Asked(r, "update_role", u) EXCEPT !.target = t, !.role = role]
    BY <1>4 DEF PatchMember
  <2>2. Asked(r, "update_role", u) \in Request
    BY <1>1 DEF Asked, Request, Ops, ScopedOps, Capability
  <2>3. Asked(r, "update_role", u).op = "update_role"
    BY <1>1 DEF Asked, Request
  <2>4. QED
    BY <1>1, <2>1, <2>2, <2>3 DEF Request
<1>5. CASE asked \in DeleteMember(r, u)
  BY <1>1, <1>5 DEF DeleteMember, Asked, Request, Ops, ScopedOps, Capability
<1>6. CASE asked \in PostInvitation(r, u)
  <2> DEFINE Body2(role, keyed) ==
               [Asked(r, "create_invitation", u) EXCEPT !.role = role, !.keyed = keyed]
  <2>0. PICK keyed \in BOOLEAN : asked \in {Body2(role, keyed) : role \in GivenRoles}
    BY <1>6 DEF PostInvitation
  <2>1. PICK role \in GivenRoles : asked = Body2(role, keyed)
    BY <2>0
  <2>2. Asked(r, "create_invitation", u) \in Request
    BY <1>1 DEF Asked, Request, Ops, ScopedOps, Capability
  <2>3. Asked(r, "create_invitation", u).op = "create_invitation"
    BY <1>1 DEF Asked, Request
  <2>4. QED
    BY <1>1, <2>1, <2>2, <2>3 DEF Request
<1>7. CASE asked \in DeleteInvite(r, u)
  BY <1>1, <1>7 DEF DeleteInvite, Asked, Request, Ops, ScopedOps, Capability
<1>8. CASE asked \in PostAcceptance(r, u)
  <2>1. PICK i \in Sent : asked = [Asked(r, "accept_invitation", u) EXCEPT !.item = i]
    BY <1>8 DEF PostAcceptance
  <2>2. Asked(r, "accept_invitation", u) \in Request
    BY <1>1 DEF Asked, Request, Ops
  <2>3. QED
    BY <1>1, <2>1, <2>2 DEF Request
<1>9. CASE asked \in PostApiKey(r, u)
  BY <1>1, <1>9 DEF PostApiKey, Asked, Request, Ops, ScopedOps, Capability
<1>10. CASE asked \in DeleteApiKey(r, u)
  BY <1>1, <1>10 DEF DeleteApiKey, Asked, Request, Ops, ScopedOps, Capability
<1>11. QED
  BY <1>2, <1>3, <1>4, <1>5, <1>6, <1>7, <1>8, <1>9, <1>10

\* The statements on invitations and members, one at a time.
LEMMA MembersFacts ==
  ASSUME NEW d \in Database, NEW u \in Users, NEW role \in Roles \cup {None}
  PROVE  LET e == [d EXCEPT !.members[u] = role]
         IN  /\ e \in Database
             /\ e.members = [d.members EXCEPT ![u] = role]
             /\ e.updatedAt = d.updatedAt /\ e.invitations = d.invitations
BY DEF Database, Memberships

LEMMA InvitationFacts ==
  ASSUME NEW d \in Database, NEW i \in Requests, NEW v \in Invitation
  PROVE  LET e == [d EXCEPT !.invitations[i] = v]
         IN  /\ e \in Database
             /\ e.members = d.members /\ e.updatedAt = d.updatedAt
             /\ e.invitations = [d.invitations EXCEPT ![i] = v]
BY DEF Database, Invitations

LEMMA ConsumeFacts ==
  ASSUME NEW d \in Database, NEW i \in Requests
  PROVE  LET e == ConsumeInvitation(d, i)
         IN  /\ e \in Database
             /\ e.members = d.members /\ e.updatedAt = d.updatedAt
             /\ e.invitations[i].consumed
             /\ \A j \in Requests :
                  /\ d.invitations[j].consumed => e.invitations[j].consumed
                  /\ d.invitations[j] = Absent => e.invitations[j] = Absent
<1> DEFINE v == [role |-> d.invitations[i].role, consumed |-> TRUE]
           e == [d EXCEPT !.invitations[i] = v]
<1>1. ConsumeInvitation(d, i) = e
  BY DEF ConsumeInvitation
<1>2. d.invitations \in [Requests -> Invitation]
  BY DEF Database, Invitations
<1>3. v \in Invitation /\ v.consumed /\ (d.invitations[i] = Absent => v = Absent)
  <2>1. d.invitations[i] \in Invitation
    BY <1>2
  <2>2. v \in Invitation /\ v.consumed
    BY <2>1 DEF Invitation
  <2>3. [role |-> Absent.role, consumed |-> TRUE] = Absent
    BY DEF Absent
  <2>4. QED
    BY <2>2, <2>3
<1> HIDE DEF v
<1>4. /\ e \in Database
      /\ e.members = d.members /\ e.updatedAt = d.updatedAt
      /\ e.invitations = [d.invitations EXCEPT ![i] = v]
  BY <1>3, InvitationFacts
<1> HIDE DEF e
<1>5. QED
  BY <1>1, <1>2, <1>3, <1>4

\* The database after a commit.
LEMMA CommitFacts ==
  ASSUME TypeOK, NEW r \in Requests, Commit(r)
  PROVE  db' \in Database /\ Commits(r) /\ Alone(r)
<1> DEFINE q == req[r]
<1>1. req[r] \in Request /\ db \in Database
  BY DEF TypeOK
<1>2. /\ Alone(r) /\ req'[r].pc = "done" /\ req[r].pc = "commit" /\ KeptAll(r)
      /\ UNCHANGED snapshot
  BY <1>1, BecomesFacts DEF Commit, Step, Alone, KeptAll, Kept, Steps, Failed
<1>3. db' = RecordAudit(Result(r), r) \/ db' = Result(r)
  BY DEF Commit
<1>4. /\ q.target \in Users /\ q.role \in Roles /\ q.item \in Requests
      /\ q.op \in Ops /\ None \notin Roles
  BY <1>1 DEF Request, Roles, None
<1>5. SUFFICES /\ Result(r) \in Database
               /\ Result(r).members =
                    IF q.op = "update_role" \/ (q.op = "accept_invitation" /\ q.joins)
                      THEN [db.members EXCEPT ![q.target] = q.role]
                      ELSE IF q.op = "remove_member"
                        THEN [db.members EXCEPT ![q.target] = None]
                        ELSE db.members
               /\ Result(r).updatedAt =
                    db.updatedAt + (IF q.op = "update_workspace" THEN 1 ELSE 0)
               /\ q.op = "accept_invitation" =>
                    Result(r).invitations[q.item].consumed
               /\ \A i \in Requests : i # r \/ q.op # "create_invitation" =>
                    /\ db.invitations[i].consumed => Result(r).invitations[i].consumed
                    /\ db.invitations[i] = Absent => Result(r).invitations[i] = Absent
  <2> HIDE DEF q
  <2>1. ASSUME NEW d \in Database
        PROVE  /\ RecordAudit(d, r) \in Database
               /\ RecordAudit(d, r).members = d.members
               /\ RecordAudit(d, r).updatedAt = d.updatedAt
               /\ RecordAudit(d, r).invitations = d.invitations
    BY <2>1 DEF RecordAudit, Database, AuditLog
  <2>2. QED
    BY <1>2, <1>3, <1>5, <2>1 DEF Commits, q
<1>6. CASE q.op = "create_workspace"
  BY <1>1, <1>4, <1>6 DEF Result, CreateWorkspace, Database
<1>7. CASE q.op = "update_workspace"
  BY <1>1, <1>4, <1>7 DEF Result, UpdateWorkspace, Database
<1>8. CASE q.op = "update_role"
  <2>1. Result(r) = [db EXCEPT !.members[q.target] = q.role]
    BY <1>8 DEF Result, UpdateRole
  <2>2. QED
    <3>1. /\ Result(r) \in Database
          /\ Result(r).members = [db.members EXCEPT ![q.target] = q.role]
          /\ Result(r).updatedAt = db.updatedAt
          /\ Result(r).invitations = db.invitations
      BY <1>1, <1>4, <2>1, MembersFacts
    <3>2. db.updatedAt \in Nat
      BY <1>1 DEF Database
    <3> HIDE DEF q
    <3>3. QED
      BY <1>8, <3>1, <3>2
<1>9. CASE q.op = "remove_member"
  BY <1>1, <1>4, <1>9 DEF Result, DeleteMembership, Database, Memberships
<1>10. CASE q.op = "create_invitation"
  <2> DEFINE v == [role |-> q.role, consumed |-> FALSE]
  <2>1. Result(r) = [db EXCEPT !.invitations[r] = v]
    BY <1>10 DEF Result, CreateInvitation
  <2>2. v \in Invitation
    BY <1>4 DEF Invitation
  <2> HIDE DEF v
  <2>3. QED
    <3>1. /\ Result(r) \in Database
          /\ Result(r).members = db.members /\ Result(r).updatedAt = db.updatedAt
          /\ Result(r).invitations = [db.invitations EXCEPT ![r] = v]
      BY <1>1, <2>1, <2>2, InvitationFacts
    <3>2. db.invitations \in [Requests -> Invitation] /\ db.updatedAt \in Nat
      BY <1>1 DEF Database, Invitations
    <3> HIDE DEF q
    <3>3. QED
      BY <1>10, <3>1, <3>2
<1>11. CASE q.op = "revoke_invitation"
  <2>1. Result(r) = [db EXCEPT !.invitations[q.item] = Absent]
    BY <1>11 DEF Result, DeleteInvitation
  <2>2. Absent \in Invitation /\ Absent.consumed
    BY DEF Invitation, Absent, Roles
  <2>3. QED
    <3>1. /\ Result(r) \in Database
          /\ Result(r).members = db.members /\ Result(r).updatedAt = db.updatedAt
          /\ Result(r).invitations = [db.invitations EXCEPT ![q.item] = Absent]
      BY <1>1, <1>4, <2>1, <2>2, InvitationFacts
    <3>2. db.invitations \in [Requests -> Invitation] /\ db.updatedAt \in Nat
      BY <1>1 DEF Database, Invitations
    <3> HIDE DEF q
    <3>3. QED
      BY <1>4, <1>11, <2>2, <3>1, <3>2
<1>12. CASE q.op = "create_key"
  BY <1>1, <1>4, <1>12 DEF Result, CreateKey, Database, ApiKeys
<1>13. CASE q.op = "revoke_key"
  BY <1>1, <1>4, <1>13 DEF Result, RevokeKey, Database, ApiKeys
<1>14. CASE q.op = "accept_invitation" /\ q.joins
  <2> DEFINE d == [db EXCEPT !.members[q.target] = q.role]
  <2>1. Result(r) = ConsumeInvitation(d, q.item)
    BY <1>14 DEF Result, CreateMembership
  <2>2. /\ d \in Database
        /\ d.members = [db.members EXCEPT ![q.target] = q.role]
        /\ d.updatedAt = db.updatedAt /\ d.invitations = db.invitations
    BY <1>1, <1>4, MembersFacts
  <2> HIDE DEF d
  <2>3. QED
    <3>1. /\ Result(r) \in Database
          /\ Result(r).members = [db.members EXCEPT ![q.target] = q.role]
          /\ Result(r).updatedAt = db.updatedAt
          /\ Result(r).invitations[q.item].consumed
          /\ \A j \in Requests :
               /\ db.invitations[j].consumed => Result(r).invitations[j].consumed
               /\ db.invitations[j] = Absent => Result(r).invitations[j] = Absent
      <4> HIDE DEF q
      <4>1. /\ ConsumeInvitation(d, q.item) \in Database
            /\ ConsumeInvitation(d, q.item).members = d.members
            /\ ConsumeInvitation(d, q.item).updatedAt = d.updatedAt
            /\ ConsumeInvitation(d, q.item).invitations[q.item].consumed
            /\ \A j \in Requests :
                 /\ d.invitations[j].consumed =>
                      ConsumeInvitation(d, q.item).invitations[j].consumed
                 /\ d.invitations[j] = Absent =>
                      ConsumeInvitation(d, q.item).invitations[j] = Absent
        BY <1>4, <2>2, ConsumeFacts
      <4>2. QED
        BY <2>1, <2>2, <4>1
    <3>2. db.updatedAt \in Nat
      BY <1>1 DEF Database
    <3> HIDE DEF q
    <3>3. QED
      BY <1>14, <3>1, <3>2
<1>15. CASE q.op = "accept_invitation" /\ ~ q.joins
  <2>1. Result(r) = ConsumeInvitation(db, q.item)
    BY <1>15 DEF Result
  <2>2. QED
    <3>1. /\ Result(r) \in Database
          /\ Result(r).members = db.members
          /\ Result(r).updatedAt = db.updatedAt
          /\ Result(r).invitations[q.item].consumed
          /\ \A j \in Requests :
               /\ db.invitations[j].consumed => Result(r).invitations[j].consumed
               /\ db.invitations[j] = Absent => Result(r).invitations[j] = Absent
      BY <1>1, <1>4, <2>1, ConsumeFacts
    <3>2. db.updatedAt \in Nat
      BY <1>1 DEF Database
    <3> HIDE DEF q
    <3>3. QED
      BY <1>15, <3>1, <3>2
<1>16. QED
  BY <1>4, <1>6, <1>7, <1>8, <1>9, <1>10, <1>11, <1>12, <1>13, <1>14, <1>15
     DEF Ops, ScopedOps, Capability

\* A step that only moves r from one step to another, or ends it.
LEMMA StepFacts ==
  ASSUME TypeOK, NEW r \in Requests, NEW pc \in Steps \cup Failed, Step(r, pc)
  PROVE  /\ Alone(r)
         /\ req'[r].pc = pc
         /\ pc \in Failed => ~ req'[r].keyed
         /\ pc \notin Failed => KeptAll(r)
<1>1. req[r] \in Request
  BY DEF TypeOK
<1>2. QED
  BY <1>1, BecomesFacts DEF Step, Alone, KeptAll, Kept

\* Every step of a request is one of these moves, and keeps the types.
LEMMA Movement ==
  ASSUME TypeOK, NEW r \in Requests, RequestStep(r)
  PROVE  Moves(r) /\ Alone(r) /\ TypeOK'
<1>1. req[r] \in Request /\ db \in Database
  BY DEF TypeOK
<1>2. CASE Send(r)
  <2>1. PICK u \in Users :
          \E asked \in PostWorkspace(r, u) \cup PatchWorkspace(r, u) \cup PatchMember(r, u)
                     \cup DeleteMember(r, u) \cup PostInvitation(r, u)
                     \cup DeleteInvite(r, u) \cup PostAcceptance(r, u)
                     \cup PostApiKey(r, u) \cup DeleteApiKey(r, u) : Guard(r, asked)
    BY <1>2 DEF Send
  <2>2. PICK asked \in Request :
          /\ asked.op = "accept_invitation" => asked.item \in Sent
          /\ Guard(r, asked)
    BY <2>1, AskedType
  <2>3. req[r].pc = "new" /\ UNCHANGED <<db, snapshot, failures>>
    BY <1>2 DEF Send
  <2> DEFINE local == [asked EXCEPT !.twins = Running(Identity(asked))]
  <2>4. /\ local \in Request
        /\ local.op = asked.op /\ local.actor = asked.actor
        /\ local.item = asked.item /\ local.keyed = asked.keyed
        /\ local.twins = Running(Identity(asked))
    BY DEF Request, Running
  <2>5. ASSUME NEW l \in Request, Becomes(r, l, "guarded"), l.op = asked.op,
               l.actor = asked.actor, l.item = asked.item, l.keyed = asked.keyed,
               asked.keyed => /\ snapshot[Identity(asked)] = None
                              /\ l.twins = Running(Identity(asked))
        PROVE  Moves(r) /\ Alone(r) /\ TypeOK'
    <3>1. /\ Alone(r) /\ req'[r].pc = "guarded" /\ req'[r].keyed = asked.keyed
          /\ req'[r].op = asked.op /\ req'[r].actor = asked.actor
          /\ req'[r].item = asked.item /\ req'[r].twins = l.twins
      BY <2>5, BecomesFacts DEF Steps, Failed, Alone
    <3>2. Identity(req'[r]) = Identity(asked)
      BY <3>1 DEF Identity
    <3>3. Sends(r)
      BY <2>2, <2>3, <2>5, <3>1, <3>2 DEF Sends
    <3>4. QED
      BY <2>3, <3>1, <3>3 DEF Moves, TypeOK, Alone
  <2> HIDE DEF local
  <2>6. CASE ~ asked.keyed /\ Becomes(r, asked, "guarded")
    BY <2>5, <2>6
  <2>7. CASE /\ asked.keyed /\ GetSnapshot(Identity(asked)) = None
             /\ Becomes(r, local, "guarded")
    BY <2>4, <2>5, <2>7 DEF GetSnapshot
  <2>8. ASSUME NEW pc \in {"replayed", "refused"}, Becomes(r, asked, pc)
        PROVE  Moves(r) /\ Alone(r) /\ TypeOK'
    BY <2>3, <2>8, BecomesFacts DEF Moves, Ends, TypeOK, Alone, Steps, Failed
  <2>9. QED
    BY <2>2, <2>6, <2>7, <2>8 DEF Guard, local
<1>3. ASSUME NEW pc \in {"check", "write", "refused"}, OnlyStep(r, pc),
             req[r].pc = "guarded",
             pc = "write" => req[r].op \notin RoleOps \cup {"accept_invitation"}
      PROVE  Moves(r) /\ Alone(r) /\ TypeOK'
  BY <1>3, StepFacts
     DEF OnlyStep, Moves, Opens, Ends, TypeOK, Alone, Steps, Failed
<1>4. CASE Authorize(r)
  BY <1>3, <1>4 DEF Authorize, RoleOps, ScopedOps, Capability
<1>5. CASE OpenNewWorkspace(r)
  BY <1>3, <1>5 DEF OpenNewWorkspace, RoleOps
<1>6. CASE OpenAcceptance(r)
  BY <1>3, <1>6 DEF OpenAcceptance
<1>7. ASSUME NEW ok \in BOOLEAN, Checked(r, ok), req[r].pc = "check",
             req[r].op \in RoleOps,
             ok /\ TakesOwner(r) /\ db.members[req[r].target] = "owner" =>
               Cardinality(Owners(db)) > 1
      PROVE  Moves(r) /\ Alone(r) /\ TypeOK'
  <2> DEFINE local == [req[r] EXCEPT !.rivals = Rivals(r)]
  <2>1. /\ local \in Request
        /\ local.op = req[r].op /\ local.actor = req[r].actor
        /\ local.target = req[r].target /\ local.role = req[r].role
        /\ local.item = req[r].item /\ local.expected = req[r].expected
        /\ local.keyed = req[r].keyed /\ local.joins = req[r].joins
        /\ local.rivals = Rivals(r) /\ local.twins = req[r].twins
    BY <1>1 DEF Request, Rivals
  <2>2. Becomes(r, local, IF ok THEN "write" ELSE "refused")
        /\ UNCHANGED <<db, snapshot, failures>>
    BY <1>7 DEF Checked
  <2> HIDE DEF local
  <2>3. CASE ok
    BY <1>7, <2>1, <2>2, <2>3, BecomesFacts
       DEF Moves, Checks, Kept, TypeOK, Alone, Steps, Failed, RoleOps
  <2>4. CASE ~ ok
    BY <1>7, <2>1, <2>2, <2>4, BecomesFacts
       DEF Moves, Ends, TypeOK, Alone, Steps, Failed
  <2>5. QED
    BY <2>3, <2>4
<1>8. CASE CheckRoleChange(r)
  BY <1>7, <1>8 DEF CheckRoleChange, RoleOps
<1>9. CASE CheckRemoval(r)
  BY <1>7, <1>9 DEF CheckRemoval, RoleOps
<1>10. CASE CheckInvitation(r)
  <2> DEFINE i == req[r].item
             ok == ~ db.invitations[i].consumed
             local == [req[r] EXCEPT !.rivals = Rivals(r),
                                     !.role = db.invitations[req[r].item].role,
                                     !.joins = db.members[req[r].target] = None]
  <2>1. db.invitations[i] \in Invitation
    BY <1>1 DEF Database, Invitations, Request
  <2>2. /\ local \in Request
        /\ local.op = req[r].op /\ local.actor = req[r].actor
        /\ local.target = req[r].target
        /\ local.item = req[r].item /\ local.expected = req[r].expected
        /\ local.keyed = req[r].keyed
        /\ local.rivals = Rivals(r) /\ local.twins = req[r].twins
    BY <1>1, <2>1 DEF Request, Rivals, Invitation
  <2>3. /\ req[r].pc = "check" /\ req[r].op = "accept_invitation"
        /\ Becomes(r, local, IF ok THEN "write" ELSE "refused")
        /\ UNCHANGED <<db, snapshot, failures>>
    BY <1>10 DEF CheckInvitation, ReadInvitation
  <2> HIDE DEF local
  <2>4. CASE ok
    BY <2>2, <2>3, <2>4, BecomesFacts
       DEF Moves, Checks, Kept, TypeOK, Alone, Steps, Failed, RoleOps
  <2>5. CASE ~ ok
    BY <2>2, <2>3, <2>5, BecomesFacts
       DEF Moves, Ends, TypeOK, Alone, Steps, Failed
  <2>6. QED
    BY <2>4, <2>5
<1>11. ASSUME NEW pc \in {"store", "commit", "failed"}, req[r].pc = "write",
              OnlyStep(r, pc),
              pc = "commit" => ~ req[r].keyed,
              pc # "failed" =>
                /\ req[r].op \in RoleOps => MemberUnlocked(r)
                /\ req[r].op = "accept_invitation" /\ req[r].joins =>
                     MemberUnlocked(r) /\ db.members[req[r].target] = None
                /\ req[r].op = "update_workspace" =>
                     /\ db.updatedAt = req[r].expected
                     /\ \A q \in Rivals(r) : Written(q) => req[q].op # "update_workspace"
       PROVE  Moves(r) /\ Alone(r) /\ TypeOK'
  <2>1. /\ Alone(r) /\ req'[r].pc = pc /\ UNCHANGED <<db, snapshot, failures>>
        /\ pc = "failed" => ~ req'[r].keyed
        /\ pc # "failed" => KeptAll(r)
    BY <1>11, StepFacts DEF OnlyStep, Steps, Failed
  <2>2. CASE pc = "failed"
    BY <1>11, <2>1, <2>2 DEF Moves, Ends, TypeOK, Alone, Failed
  <2>3. CASE pc # "failed"
    BY <1>11, <2>1, <2>3 DEF Moves, Writes, TypeOK, Alone
  <2>4. QED
    BY <2>2, <2>3
<1>12. CASE \/ WriteRole(r) \/ WriteRemoval(r) \/ WriteAcceptance(r)
            \/ WriteWorkspace(r)
  BY <1>1, <1>11, <1>12
     DEF WriteRole, WriteRemoval, WriteAcceptance, WriteWorkspace, Write, RoleOps
<1>13. CASE \/ WriteRevocation(r) \/ WriteKeyRevocation(r) \/ WriteNewWorkspace(r)
            \/ WriteInvitation(r) \/ WriteKey(r)
  BY <1>1, <1>11, <1>13
     DEF WriteRevocation, WriteKeyRevocation, WriteNewWorkspace, WriteInvitation,
         WriteKey, Write, RoleOps
<1>14. CASE Store(r)
  <2>1. Alone(r) /\ req'[r].pc = "commit" /\ KeptAll(r)
    BY <1>14, StepFacts DEF Store, Steps, Failed
  <2>2. Identity(req[r]) \in Identities
    BY <1>1 DEF Identity, Identities, Request
  <2>3. QED
    BY <1>14, <2>1, <2>2 DEF Store, Moves, Stores, TypeOK, Alone, SetSnapshot
<1>15. CASE Commit(r)
  BY <1>15, CommitFacts DEF Commit, Moves, TypeOK, Alone
<1>16. CASE Fail(r)
  BY <1>16, StepFacts, TenancyAssumption
     DEF Fail, Open, Moves, Ends, TypeOK, Alone, Steps, Failed
<1>17. QED
  BY <1>2, <1>4, <1>5, <1>6, <1>8, <1>9, <1>10, <1>12, <1>13, <1>14, <1>15, <1>16
     DEF RequestStep

LEMMA TypeInit == Init => TypeOK
<1> SUFFICES ASSUME Init PROVE TypeOK
  OBVIOUS
<1>1. db \in Database
  BY TenancyAssumption
     DEF Init, Database, Memberships, Invitations, Invitation, Absent, ApiKeys,
         AuditLog, Roles
<1>2. req \in [Requests -> Request]
  BY NewRequestType DEF Init
<1>3. QED
  BY <1>1, <1>2, TenancyAssumption DEF Init, TypeOK

LEMMA TypeStep == TypeOK /\ [Next]_vars => TypeOK'
<1>1. ASSUME TypeOK, vars' = vars
      PROVE  TypeOK'
  BY <1>1 DEF TypeOK, vars
<1>2. QED
  BY <1>1, Movement DEF Next

\* Every value of Tenancy keeps its type.
THEOREM TenancyTypeCorrect == Spec => []TypeOK
BY TypeInit, TypeStep, PTL DEF Spec

-----------------------------------------------------------------------------
(* No update is lost.                                                      *)

Updates(r) == req[r].op = "update_workspace"

\* An update that has been written is the only one, and of the version there
\* is; one that is done is of an earlier version, and each of another one.
UpdateInv ==
  /\ TypeOK
  /\ \A r \in Requests : Updates(r) =>
       /\ Written(r) => req[r].expected = db.updatedAt
       /\ Done(r) => req[r].expected < db.updatedAt
  /\ \A r, q \in Requests : Updates(r) /\ Updates(q) /\ r # q =>
       /\ ~ (Written(r) /\ Written(q))
       /\ Done(r) /\ Done(q) => req[r].expected # req[q].expected

LEMMA UpdateInit == Init => UpdateInv
BY TypeInit DEF Init, UpdateInv, NewRequest, Written, Done, Updates

LEMMA UpdateStep == UpdateInv /\ [Next]_vars => UpdateInv'
<1> SUFFICES ASSUME UpdateInv, [Next]_vars
             PROVE  UpdateInv'
  OBVIOUS
<1>1. CASE vars' = vars
  BY <1>1, TypeStep DEF UpdateInv, vars, Written, Done, Updates
<1>2. ASSUME NEW r \in Requests, RequestStep(r)
      PROVE  UpdateInv'
  <2>1. Moves(r) /\ Alone(r) /\ TypeOK'
    BY <1>2, Movement DEF UpdateInv
  <2>2. /\ db.updatedAt \in Nat
        /\ \A q \in Requests : req[q].expected \in Nat
    BY DEF UpdateInv, TypeOK, Database, Request
  <2>3. CASE Sends(r) \/ Ends(r) \/ Opens(r) \/ Checks(r)
    <3>1. db' = db /\ req'[r].pc \notin {"store", "commit", "done"}
      BY <2>3 DEF Sends, Ends, Opens, Checks, Failed
    <3>2. QED
      BY <2>1, <3>1 DEF UpdateInv, Alone, Written, Done, Updates
  <2>4. CASE Writes(r)
    BY <2>1, <2>4 DEF UpdateInv, Alone, Written, Done, Updates, Writes, KeptAll, Kept,
                      Rivals, Open
  <2>5. CASE Stores(r)
    BY <2>1, <2>5 DEF UpdateInv, Alone, Written, Done, Updates, Stores, KeptAll, Kept
  <2>6. CASE Commits(r)
    <3>1. CASE Updates(r)
      <4>1. db'.updatedAt = db.updatedAt + 1 /\ req[r].expected = db.updatedAt
        BY <2>6, <3>1 DEF Commits, Updates, UpdateInv, Written
      <4>2. \A q \in Requests \ {r} : Updates(q) => ~ Written(q)
        BY <2>6, <3>1 DEF UpdateInv, Commits, Written
      <4>3. QED
        BY <2>1, <2>2, <2>6, <3>1, <4>1, <4>2
           DEF UpdateInv, Alone, Written, Done, Updates, Commits, KeptAll, Kept
    <3>2. CASE ~ Updates(r)
      <4>1. db'.updatedAt = db.updatedAt
        BY <2>2, <2>6, <3>2 DEF Commits, Updates
      <4>2. QED
        BY <2>1, <2>6, <3>2, <4>1
           DEF UpdateInv, Alone, Written, Done, Updates, Commits, KeptAll, Kept
    <3>3. QED
      BY <3>1, <3>2
  <2>7. QED
    BY <2>1, <2>3, <2>4, <2>5, <2>6 DEF Moves
<1>3. QED
  BY <1>1, <1>2 DEF Next

\* Two updates of a workspace never start from the same ETag, even if they
\* overlap (UpdateWorkspace, app/workspaces/update_workspace.py).
THEOREM UpdatesNeverLost == Spec => []NoLostUpdate
<1>1. UpdateInv => NoLostUpdate
  BY DEF UpdateInv, NoLostUpdate, Updates, Done
<1>2. QED
  BY UpdateInit, UpdateStep, <1>1, PTL DEF Spec

-----------------------------------------------------------------------------
(* One effect per idempotency key.                                         *)

\* r is past its guard with a key, and has not failed.
Guarded(r) == req[r].keyed /\ req[r].pc \in Steps \ {"new"}

\* Whoever has passed the guard with the key of another was looked up while
\* that one was running, and a key that took effect has its snapshot.
KeyInv ==
  /\ TypeOK
  /\ \A r \in Requests :
       /\ req[r].pc = "new" => ~ req[r].keyed
       /\ Guarded(r) /\ req[r].pc \in {"commit", "done"} =>
            snapshot[Identity(req[r])] # None
  /\ \A r, q \in Requests :
       r # q /\ Guarded(r) /\ Guarded(q) /\ Identity(req[r]) = Identity(req[q]) =>
         r \in req[q].twins \/ q \in req[r].twins

LEMMA KeyInit == Init => KeyInv
BY TypeInit DEF Init, KeyInv, NewRequest, Guarded, Steps

LEMMA KeyStep == KeyInv /\ [Next]_vars => KeyInv'
<1> SUFFICES ASSUME KeyInv, [Next]_vars
             PROVE  KeyInv'
  OBVIOUS
<1>1. CASE vars' = vars
  BY <1>1, TypeStep DEF KeyInv, vars, Guarded
<1>2. ASSUME NEW r \in Requests, RequestStep(r)
      PROVE  KeyInv'
  <2>1. Moves(r) /\ Alone(r) /\ TypeOK'
    BY <1>2, Movement DEF KeyInv
  <2>2. CASE Sends(r)
    <3>1. ASSUME NEW q \in Requests, q # r, Guarded(q), Guarded(r)',
                 Identity(req[q]) = Identity(req'[r])
          PROVE  q \in req'[r].twins
      <4>1. snapshot[Identity(req[q])] = None
        BY <2>2, <3>1 DEF Sends, Guarded
      <4>2. req[q].pc \in {"guarded", "check", "write", "store"}
        BY <3>1, <4>1 DEF KeyInv, Guarded, Steps
      <4>3. QED
        BY <2>2, <3>1, <4>2 DEF Sends, Guarded, Running
    <3>2. QED
      BY <2>1, <2>2, <3>1 DEF KeyInv, Alone, Guarded, Sends
  <2>3. CASE Ends(r)
    BY <2>1, <2>3 DEF KeyInv, Alone, Guarded, Ends
  <2>4. CASE Opens(r) \/ Checks(r) \/ Writes(r) \/ Stores(r) \/ Commits(r)
    <3>1. /\ Identity(req'[r]) = Identity(req[r])
          /\ req'[r].keyed = req[r].keyed /\ req'[r].twins = req[r].twins
          /\ req[r].pc \in Steps \ {"new"} /\ req'[r].pc \in Steps \ {"new"}
      BY <2>4 DEF Opens, Checks, Writes, Stores, Commits, KeptAll, Kept, Identity, Steps
    <3>2. \A q \in Requests : Guarded(q)' = Guarded(q)
      BY <2>1, <3>1 DEF Guarded, Alone
    <3>3. \A q \in Requests : Identity(req[q]) \in Identities
      BY DEF KeyInv, TypeOK, Request, Identity, Identities
    <3>4. /\ \A i \in Identities : snapshot[i] # None => snapshot'[i] # None
          /\ Guarded(r) /\ req'[r].pc \in {"commit", "done"} =>
               snapshot'[Identity(req[r])] # None
      <4>1. CASE Stores(r)
        BY <3>3, <4>1, TenancyAssumption
           DEF Stores, SetSnapshot, KeyInv, TypeOK
      <4>2. CASE Opens(r) \/ Checks(r) \/ Writes(r)
        BY <4>2 DEF Opens, Checks, Writes, Guarded
      <4>3. CASE Commits(r)
        BY <4>3 DEF Commits, KeyInv, Guarded
      <4>4. QED
        BY <2>4, <4>1, <4>2, <4>3
    <3>5. \A q \in Requests :
            /\ Identity(req'[q]) = Identity(req[q])
            /\ req'[q].twins = req[q].twins
            /\ req'[q].pc = "new" => ~ req'[q].keyed
      BY <2>1, <3>1 DEF KeyInv, Alone
    <3>6. ASSUME NEW q \in Requests, Guarded(q)', req'[q].pc \in {"commit", "done"}
          PROVE  snapshot'[Identity(req'[q])] # None
      <4>1. Guarded(q)
        BY <3>2, <3>6
      <4>2. CASE q = r
        BY <3>1, <3>4, <3>6, <4>1, <4>2
      <4>3. CASE q # r
        BY <2>1, <3>3, <3>4, <3>5, <3>6, <4>1, <4>3 DEF KeyInv, Alone
      <4>4. QED
        BY <4>2, <4>3
    <3>7. QED
      BY <2>1, <3>2, <3>5, <3>6 DEF KeyInv
  <2>5. QED
    BY <2>1, <2>2, <2>3, <2>4 DEF Moves
<1>3. QED
  BY <1>1, <1>2 DEF Next

\* Two requests with one key and one body take effect twice only if one was
\* looked up while the other was running (idempotency_guard,
\* http/idempotency.py).
THEOREM KeysTakeEffectOnce == Spec => []OncePerKey
<1>1. KeyInv => OncePerKey
  BY DEF KeyInv, OncePerKey, Guarded, Done, Steps
<1>2. QED
  BY KeyInit, KeyStep, <1>1, PTL DEF Spec

-----------------------------------------------------------------------------
(* One user per invitation.                                                *)

Accepts(r) == req[r].op = "accept_invitation"

\* r has read what it decides on, and has not failed.
Decided(r) == req[r].pc \in {"write", "store", "commit", "done"}

\* Invitations come of requests that are done, one that has been accepted is
\* consumed, and acceptances of one invitation that both have found it open
\* overlapped.
InvitationInv ==
  /\ TypeOK
  /\ \A i \in Requests :
       db.invitations[i] # Absent => Done(i) /\ req[i].op = "create_invitation"
  /\ \A r \in Requests :
       Accepts(r) /\ req[r].pc \in Steps \ {"new"} =>
         /\ Done(req[r].item) /\ req[req[r].item].op = "create_invitation"
         /\ Done(r) => db.invitations[req[r].item].consumed
  /\ \A r, q \in Requests :
       /\ r # q /\ Decided(r) /\ Decided(q)
       /\ Accepts(r) /\ Accepts(q) /\ req[r].item = req[q].item
       => Overlapped(r, q)

LEMMA InvitationInit == Init => InvitationInv
BY TypeInit DEF Init, InvitationInv, NewRequest, Done, Decided, Accepts, Steps

LEMMA InvitationStep == InvitationInv /\ [Next]_vars => InvitationInv'
<1> SUFFICES ASSUME InvitationInv, [Next]_vars
             PROVE  InvitationInv'
  OBVIOUS
<1>1. CASE vars' = vars
  BY <1>1, TypeStep DEF InvitationInv, vars, Done, Decided, Accepts, Overlapped
<1>2. ASSUME NEW r \in Requests, RequestStep(r)
      PROVE  InvitationInv'
  <2>1. Moves(r) /\ Alone(r) /\ TypeOK'
    BY <1>2, Movement DEF InvitationInv
  <2>2. \A q \in Requests : req[q].item \in Requests /\ req[q].rivals \subseteq Requests
    BY DEF InvitationInv, TypeOK, Request
  <2>3. CASE Sends(r)
    BY <2>1, <2>2, <2>3
       DEF InvitationInv, Alone, Sends, Done, Decided, Accepts, Overlapped, Sent, Steps
  <2>4. CASE Ends(r)
    BY <2>1, <2>2, <2>4
       DEF InvitationInv, Alone, Ends, Done, Decided, Accepts, Overlapped, Failed, Steps
  <2>5. CASE Opens(r)
    BY <2>1, <2>2, <2>5
       DEF InvitationInv, Alone, Opens, KeptAll, Kept, Done, Decided, Accepts,
           Overlapped, Steps
  <2>6. CASE Checks(r)
    <3>1. ASSUME NEW q \in Requests, q # r, Decided(q), Accepts(r), Accepts(q),
                 req[r].item = req[q].item
          PROVE  q \in req'[r].rivals
      <4>1. ~ Done(q)
        BY <2>6, <3>1 DEF Checks, Accepts, InvitationInv, Decided, Steps
      <4>2. QED
        BY <2>6, <3>1, <4>1 DEF Checks, Rivals, Open, Decided, Done
    <3>2. QED
      BY <2>1, <2>2, <2>6, <3>1
         DEF InvitationInv, Alone, Checks, Kept, Done, Decided, Accepts, Overlapped, Steps
  <2>7. CASE Writes(r) \/ Stores(r)
    <3>1. /\ db' = db /\ KeptAll(r)
          /\ Decided(r) /\ Decided(r)' /\ ~ Done(r) /\ ~ Done(r)'
          /\ req[r].pc \in Steps \ {"new"}
      BY <2>7 DEF Writes, Stores, Decided, Done, Steps
    <3>2. QED
      BY <2>1, <2>2, <3>1
         DEF InvitationInv, Alone, KeptAll, Kept, Done, Decided, Accepts, Overlapped, Steps
  <2>8. CASE Commits(r)
    <3>1. ASSUME NEW q \in Requests, Accepts(q), Done(q)
          PROVE  db'.invitations[req[q].item].consumed
      <4>1. /\ req[q].item # r /\ db.invitations[req[q].item].consumed
        BY <2>8, <3>1 DEF InvitationInv, Commits, Done, Steps
      <4>2. QED
        BY <2>2, <2>8, <4>1 DEF Commits
    <3>2. QED
      BY <2>1, <2>2, <2>8, <3>1
         DEF InvitationInv, Alone, Commits, KeptAll, Kept, Done, Decided, Accepts,
             Overlapped, Steps
  <2>9. QED
    BY <2>1, <2>3, <2>4, <2>5, <2>6, <2>7, <2>8 DEF Moves
<1>3. QED
  BY <1>1, <1>2 DEF Next

\* An invitation admits one user, unless two acceptances overlapped
\* (AcceptInvitation, app/invitations/accept_invitation.py).
THEOREM InvitationsAdmitOne == Spec => []InvitationAdmitsOne
<1>1. InvitationInv => InvitationAdmitsOne
  BY DEF InvitationInv, InvitationAdmitsOne, Decided, Done, Accepts
<1>2. QED
  BY InvitationInit, InvitationStep, <1>1, PTL DEF Spec

-----------------------------------------------------------------------------
(* The last owner.                                                         *)

\* r has read the members, and has yet to commit.
Pending(r) == req[r].pc \in {"write", "store", "commit"}

\* r writes a membership.
Touches(r) == req[r].op \in RoleOps \/ (Accepts(r) /\ req[r].joins)

Took(r) == Done(r) /\ TakesOwner(r)

\* Two requests have each taken an owner, and overlapped.
TwoTook ==
  \E r, q \in Requests : r # q /\ Took(r) /\ Took(q) /\ Overlapped(r, q)

\* What r will leave has an owner, unless one has been taken since r looked.
LeavesOwner(r) ==
  \/ Owners(db) \ {req[r].target} # {}
  \/ \E q \in Requests \ {r} : Took(q) /\ Overlapped(r, q)

\* Requests that have written hold the rows of their targets, the member an
\* acceptance inserts is new, requests that change roles at the same time
\* overlap, and each of them leaves an owner unless another one took one.
OwnerInv ==
  /\ TypeOK
  /\ \A r, q \in Requests :
       /\ r # q /\ Written(r) /\ Written(q) /\ Touches(r) /\ Touches(q) =>
            req[r].target # req[q].target
       /\ /\ r # q /\ Pending(r) /\ Pending(q)
          /\ req[r].op \in RoleOps /\ req[q].op \in RoleOps
          => Overlapped(r, q)
  /\ \A r \in Requests :
       /\ Written(r) /\ Accepts(r) /\ req[r].joins => db.members[req[r].target] = None
       /\ Pending(r) /\ TakesOwner(r) => LeavesOwner(r) \/ TwoTook
  /\ Owners(db) = {} => TwoTook

LEMMA OwnerInit == Init => OwnerInv
<1> SUFFICES ASSUME Init PROVE OwnerInv
  OBVIOUS
<1>1. \A r \in Requests : ~ Written(r) /\ ~ Pending(r)
  BY DEF Init, NewRequest, Written, Pending
<1>2. Owners(db) # {}
  BY TenancyAssumption DEF Init, Owners
<1>3. QED
  BY <1>1, <1>2, TypeInit DEF OwnerInv

\* What has been done is done.
LEMMA TookStays ==
  ASSUME NEW r \in Requests, Moves(r), Alone(r)
  PROVE  /\ ~ Done(r)
         /\ \A q \in Requests : Took(q) => Took(q)' /\ req'[q] = req[q]
         /\ TwoTook => TwoTook'
<1>1. ~ Done(r)
  BY DEF Moves, Sends, Ends, Opens, Checks, Writes, Stores, Commits, Done
<1>2. \A q \in Requests : Took(q) => Took(q)' /\ req'[q] = req[q]
  BY <1>1 DEF Alone, Took, Done, TakesOwner
<1>3. QED
  BY <1>1, <1>2 DEF TwoTook, Overlapped

\* A step that commits nothing.
LEMMA OwnerQuiet ==
  ASSUME OwnerInv, NEW r \in Requests, Moves(r), Alone(r), TypeOK', db' = db,
         Written(r)' => Written(r) \/ Writes(r),
         Pending(r)' /\ req'[r].op \in RoleOps =>
           \/ Pending(r) /\ KeptAll(r)
           \/ Checks(r),
         Written(r)' => KeptAll(r)
  PROVE  OwnerInv'
<1>1. ASSUME NEW q \in Requests, q # r
      PROVE  /\ Written(q)' = Written(q) /\ Touches(q)' = Touches(q)
             /\ Pending(q)' = Pending(q) /\ TakesOwner(q)' = TakesOwner(q)
             /\ Accepts(q)' = Accepts(q) /\ req'[q] = req[q]
  BY <1>1 DEF Alone, Written, Touches, Pending, TakesOwner, Accepts
<1>2. \A q \in Requests : req[q].rivals \subseteq Requests
  BY DEF OwnerInv, TypeOK, Request
<1>3. Owners(db)' = Owners(db)
  BY DEF Owners
<1>4. ASSUME NEW q \in Requests, q # r, Written(r)', Written(q), Touches(r)', Touches(q)
      PROVE  req'[r].target # req[q].target
  <2>1. KeptAll(r) /\ Touches(r)
    BY <1>4 DEF KeptAll, Kept, Touches, Accepts
  <2>2. CASE Written(r)
    BY <1>4, <2>1, <2>2 DEF OwnerInv, KeptAll, Kept
  <2>3. CASE Writes(r)
    <3>1. MemberUnlocked(r)
      BY <2>1, <2>3 DEF Writes, Touches, Accepts
    <3>2. q \in Rivals(r)
      BY <1>4 DEF Rivals, Open, Written
    <3>3. QED
      BY <1>4, <2>1, <3>1, <3>2 DEF MemberUnlocked, Touches, Accepts, RoleOps, KeptAll, Kept
  <2>4. QED
    BY <1>4, <2>2, <2>3
<1>5. ASSUME NEW q \in Requests, q # r, Pending(r)', Pending(q),
             req'[r].op \in RoleOps, req[q].op \in RoleOps
      PROVE  q \in req'[r].rivals \/ r \in req[q].rivals
  <2>1. CASE Pending(r) /\ KeptAll(r)
    BY <1>5, <2>1 DEF OwnerInv, KeptAll, Kept, Overlapped
  <2>2. CASE Checks(r)
    BY <1>5, <2>2 DEF Checks, Rivals, Open, Pending
  <2>3. QED
    BY <1>5, <2>1, <2>2
<1>6. Written(r)' /\ Accepts(r)' /\ req'[r].joins => db.members[req'[r].target] = None
  BY DEF OwnerInv, KeptAll, Kept, Accepts, Writes
<1>7. ASSUME NEW q \in Requests, LeavesOwner(q) \/ TwoTook,
             req'[q].rivals = req[q].rivals, req'[q].target = req[q].target
      PROVE  LeavesOwner(q)' \/ TwoTook'
  <2>1. CASE Owners(db) \ {req[q].target} # {} \/ TwoTook
    BY <1>3, <1>7, <2>1, TookStays DEF LeavesOwner
  <2>2. ASSUME NEW s \in Requests \ {q}, Took(s), Overlapped(q, s)
        PROVE  LeavesOwner(q)'
    BY <1>7, <2>2, TookStays DEF LeavesOwner, Overlapped
  <2>3. QED
    BY <1>7, <2>1, <2>2 DEF LeavesOwner
<1>8. ASSUME Pending(r)', TakesOwner(r)'
      PROVE  LeavesOwner(r)' \/ TwoTook'
  <2>1. req'[r].op \in RoleOps
    BY <1>8 DEF TakesOwner, RoleOps
  <2>2. CASE Pending(r) /\ KeptAll(r)
    BY <1>7, <1>8, <2>2 DEF OwnerInv, KeptAll, Kept, TakesOwner
  <2>3. CASE Checks(r)
    <3>1. TakesOwner(r) /\ req'[r].target = req[r].target
      BY <1>8, <2>1, <2>3 DEF Checks, Kept, TakesOwner, RoleOps
    <3>2. CASE Owners(db) = {}
      BY <3>2, TookStays DEF OwnerInv
    <3>3. CASE Owners(db) # {}
      <4>1. Owners(db) # {req[r].target}
        <5>1. SUFFICES ASSUME Owners(db) = {req[r].target}
                       PROVE  FALSE
          OBVIOUS
        <5>2. db.members[req[r].target] = "owner"
          BY <5>1 DEF Owners
        <5>3. Cardinality(Owners(db)) > 1
          BY <2>1, <2>3, <3>1, <5>2 DEF Checks, Kept
        <5>4. Cardinality({req[r].target}) = 1
          BY FS_Singleton
        <5>5. QED
          BY <5>1, <5>3, <5>4
      <4>2. QED
        BY <1>3, <3>1, <3>3, <4>1 DEF LeavesOwner
    <3>4. QED
      BY <3>2, <3>3
  <2>4. QED
    BY <1>8, <2>1, <2>2, <2>3
<1>9. Owners(db)' = {} => TwoTook'
  BY <1>3, TookStays DEF OwnerInv
<1>10. ASSUME NEW q \in Requests, Pending(q)', TakesOwner(q)'
       PROVE  LeavesOwner(q)' \/ TwoTook'
  BY <1>1, <1>7, <1>8, <1>10 DEF OwnerInv
<1>11. ASSUME NEW q \in Requests, Written(q)', Accepts(q)', req'[q].joins
       PROVE  db'.members[req'[q].target] = None
  BY <1>1, <1>6, <1>11 DEF OwnerInv
<1>12. ASSUME NEW p \in Requests, NEW q \in Requests, p # q
       PROVE  /\ Written(p)' /\ Written(q)' /\ Touches(p)' /\ Touches(q)' =>
                   req'[p].target # req'[q].target
              /\ Pending(p)' /\ Pending(q)' /\ req'[p].op \in RoleOps /\ req'[q].op \in RoleOps =>
                   Overlapped(p, q)'
  <2>1. CASE p # r /\ q # r
    BY <1>1, <1>12, <2>1 DEF OwnerInv, Overlapped
  <2>2. CASE p = r
    BY <1>1, <1>4, <1>5, <1>12, <2>2 DEF Overlapped
  <2>3. CASE q = r
    BY <1>1, <1>4, <1>5, <1>12, <2>3 DEF Overlapped
  <2>4. QED
    BY <2>1, <2>2, <2>3
<1>13. QED
  BY <1>9, <1>10, <1>11, <1>12 DEF OwnerInv

\* A commit.
LEMMA OwnerCommit ==
  ASSUME OwnerInv, NEW r \in Requests, Commits(r), Alone(r), TypeOK'
  PROVE  OwnerInv'
<1>1. ASSUME NEW q \in Requests
      PROVE  /\ q # r => req'[q] = req[q]
             /\ Touches(q)' = Touches(q) /\ TakesOwner(q)' = TakesOwner(q)
             /\ Accepts(q)' = Accepts(q) /\ req'[q].target = req[q].target
             /\ req'[q].joins = req[q].joins /\ req'[q].op = req[q].op
             /\ req'[q].rivals = req[q].rivals
             /\ Written(q)' => Written(q) /\ q # r
             /\ Pending(q)' => Pending(q) /\ q # r
  BY <1>1 DEF Alone, Commits, KeptAll, Kept, Touches, TakesOwner, Accepts, Written, Pending
<1>2. Written(r) /\ Pending(r) /\ Done(r)'
  BY DEF Commits, Written, Pending, Done
<1>3. TwoTook => TwoTook'
  BY TookStays DEF Moves
<1>4. db.members \in Memberships /\ req[r].target \in Users
  BY DEF OwnerInv, TypeOK, Database, Request
<1>5. ASSUME NEW q \in Requests, Written(q)', Accepts(q)', req'[q].joins
      PROVE  db'.members[req'[q].target] = None
  <2>1. Written(q) /\ q # r /\ Accepts(q) /\ req[q].joins /\ Touches(q)
    BY <1>1, <1>5 DEF Touches
  <2>2. db.members[req[q].target] = None
    BY <2>1 DEF OwnerInv
  <2>3. Touches(r) => req[q].target # req[r].target
    BY <1>2, <2>1 DEF OwnerInv
  <2>4. QED
    BY <1>1, <1>4, <2>2, <2>3 DEF Commits, Touches, Accepts, RoleOps, Memberships
<1>6. ~ TakesOwner(r) => Owners(db) \subseteq Owners(db)'
  <2>1. Accepts(r) /\ req[r].joins => db.members[req[r].target] = None
    BY <1>2 DEF OwnerInv
  <2>2. QED
    BY <1>4, <2>1 DEF Commits, Owners, TakesOwner, Accepts, Memberships, None
<1>7. TakesOwner(r) => Owners(db) \ {req[r].target} \subseteq Owners(db)'
  BY <1>4 DEF Commits, Owners, TakesOwner, Memberships
<1>8. ASSUME NEW q \in Requests \ {r}, Pending(q), TakesOwner(q)
      PROVE  LeavesOwner(q)' \/ TwoTook'
  <2>1. LeavesOwner(q) \/ TwoTook
    BY <1>8 DEF OwnerInv
  <2>2. CASE TakesOwner(r)
    <3>1. Overlapped(q, r)
      BY <1>2, <1>8, <2>2 DEF OwnerInv, TakesOwner, RoleOps
    <3>2. QED
      BY <1>1, <1>2, <1>8, <2>2, <3>1 DEF LeavesOwner, Took, Overlapped
  <2>3. CASE ~ TakesOwner(r)
    <3>1. CASE Owners(db) \ {req[q].target} # {}
      BY <1>1, <1>6, <2>3, <3>1 DEF LeavesOwner
    <3>2. ASSUME NEW s \in Requests \ {q}, Took(s), Overlapped(q, s)
          PROVE  LeavesOwner(q)'
      BY <1>1, <3>2, TookStays DEF LeavesOwner, Overlapped, Moves
    <3>3. QED
      BY <1>3, <2>1, <3>1, <3>2 DEF LeavesOwner
  <2>4. QED
    BY <2>2, <2>3
<1>9. ASSUME Owners(db)' = {}
      PROVE  TwoTook'
  <2>1. CASE ~ TakesOwner(r)
    BY <1>3, <1>6, <1>9, <2>1 DEF OwnerInv
  <2>2. CASE TakesOwner(r)
    <3>1. Owners(db) \ {req[r].target} = {}
      BY <1>7, <1>9, <2>2
    <3>2. LeavesOwner(r) \/ TwoTook
      BY <1>2, <2>2 DEF OwnerInv
    <3>3. ASSUME NEW s \in Requests \ {r}, Took(s), Overlapped(r, s)
          PROVE  TwoTook'
      BY <1>1, <1>2, <2>2, <3>3, TookStays DEF TwoTook, Took, Overlapped, Moves
    <3>4. QED
      BY <1>3, <3>1, <3>2, <3>3 DEF LeavesOwner
  <2>3. QED
    BY <2>1, <2>2
<1>10. ASSUME NEW p \in Requests, NEW q \in Requests, p # q
       PROVE  /\ Written(p)' /\ Written(q)' /\ Touches(p)' /\ Touches(q)' =>
                   req'[p].target # req'[q].target
              /\ Pending(p)' /\ Pending(q)' /\ req'[p].op \in RoleOps /\ req'[q].op \in RoleOps =>
                   Overlapped(p, q)'
  BY <1>1, <1>10 DEF OwnerInv, Overlapped
<1>11. QED
  BY <1>1, <1>5, <1>8, <1>9, <1>10 DEF OwnerInv

LEMMA OwnerStep == OwnerInv /\ [Next]_vars => OwnerInv'
<1> SUFFICES ASSUME OwnerInv, [Next]_vars
             PROVE  OwnerInv'
  OBVIOUS
<1>1. CASE vars' = vars
  BY <1>1, TypeStep
     DEF OwnerInv, vars, Written, Touches, Pending, Accepts, Overlapped, TakesOwner,
         LeavesOwner, TwoTook, Took, Done, Owners
<1>2. ASSUME NEW r \in Requests, RequestStep(r)
      PROVE  OwnerInv'
  <2>1. Moves(r) /\ Alone(r) /\ TypeOK'
    BY <1>2, Movement DEF OwnerInv
  <2>2. CASE Commits(r)
    BY <2>1, <2>2, OwnerCommit
  <2>3. CASE Sends(r) \/ Ends(r)
    BY <2>1, <2>3, OwnerQuiet DEF Sends, Ends, Written, Pending, Failed
  <2>4. CASE Opens(r)
    BY <2>1, <2>4, OwnerQuiet DEF Opens, Written, Pending, RoleOps, KeptAll, Kept
  <2>5. CASE Checks(r)
    BY <2>1, <2>5, OwnerQuiet DEF Checks, Written
  <2>6. CASE Writes(r)
    BY <2>1, <2>6, OwnerQuiet DEF Writes, Pending
  <2>7. CASE Stores(r)
    BY <2>1, <2>7, OwnerQuiet DEF Stores, Pending, Written
  <2>8. QED
    BY <2>1, <2>2, <2>3, <2>4, <2>5, <2>6, <2>7 DEF Moves
<1>3. QED
  BY <1>1, <1>2 DEF Next

\* The workspace loses its last owner only if two requests that take an owner
\* overlapped (UpdateMemberRole and RemoveMember,
\* app/workspaces/manage_members.py).
THEOREM LastOwnerProtected == Spec => []OwnerRemains
<1>1. OwnerInv => OwnerRemains
  BY DEF OwnerInv, OwnerRemains, TwoTook, Took
<1>2. QED
  BY OwnerInit, OwnerStep, <1>1, PTL DEF Spec
=============================================================================
