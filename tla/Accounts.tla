------------------------------ MODULE Accounts ------------------------------
(***************************************************************************)
(* One account: registration, login, refresh-token rotation, logout and    *)
(* password reset (app/auth, app/password_reset, http/routes/auth.py), and *)
(* the dispatcher that mails the reset codes (app/notifications).          *)
(*                                                                         *)
(* The repositories these use cases are given run on the pool: every call  *)
(* is a transaction of its own, and an action here is one such call.  Two  *)
(* requests interleave between any two of them, and a crash may separate   *)
(* them.  A raw token or code is the position of its row, a password its   *)
(* version, and whoever holds a raw token may present it from any device.  *)
(* The access tokens are in RequestGate.                                   *)
(***************************************************************************)
EXTENDS Integers, Sequences, FiniteSets, SequencesExt

CONSTANTS Requests,     \* request slots: at most this many at a time
          Devices,      \* device fingerprints
          GraceSeconds, \* grace_seconds, in ticks
          RefreshTtl,   \* refresh_ttl_seconds, in ticks
          ResetTtl,     \* _EXPIRY of a reset code, in ticks
          MaxAttempts,  \* _MAX_ATTEMPTS of the mail dispatcher
          MaxRequests,  \* bound: requests in all
          MaxCrashes,   \* bound: requests and dispatchers that die half way
          MaxNow        \* bound: ticks of the clock

ASSUME AccountsAssumption ==
          /\ GraceSeconds \in Nat /\ RefreshTtl \in Nat /\ ResetTtl \in Nat
          /\ MaxAttempts \in Nat \ {0} /\ Devices # {}
          /\ MaxRequests \in Nat /\ MaxCrashes \in Nat /\ MaxNow \in Nat

VARIABLES
  password, \* users.password_hash: the version, 0 without an account
  tokens,   \* refresh_tokens
  codes,    \* password_reset_tokens
  outbox,   \* the email.send rows of the outbox; each carries a code
  audit,    \* audit_log
  inbox,    \* the codes the mail provider has delivered
  req,      \* the local variables of each request
  mailer,   \* DispatchEmailOutbox: the rows of its batch, whether Head is sent
  now, begun, crashes

tables == <<password, tokens, codes, outbox, audit>>
mail == <<inbox, mailer>>
vars == <<tables, mail, req, now, begun, crashes>>

None == -1

\* "version" and "late" are no columns: the password the session was opened
\* with, and that the row, or one it descends from, was inserted by a request
\* that a revocation overtook.
RefreshToken ==
  [family : Nat, device : Devices, usedAt : Nat \cup {None}, successor : Nat,
   revoked : BOOLEAN, expiresAt : Nat, version : Nat, late : BOOLEAN]

PasswordResetToken == [expiresAt : Nat, consumed : BOOLEAN]

OutboxEntry == [code : Nat, attempts : 0 .. MaxAttempts, dispatched : BOOLEAN]

AuditEntry ==
  [action : {"user_registered", "login_succeeded", "logout", "password_reset_completed"},
   on : Nat]

Request ==
  [pc : {"idle", "login", "rotate", "mark", "reuse", "logout", "mail", "update",
         "consume", "revoke", "audit"},
   token : Nat, device : Devices, at : Nat, made : Nat,
   version : Nat, late : BOOLEAN, entry : AuditEntry]

NoEntry == [action |-> "user_registered", on |-> 0]

Idle == [pc |-> "idle", token |-> 0, device |-> CHOOSE d \in Devices : TRUE,
         at |-> 0, made |-> 0, version |-> 0, late |-> FALSE, entry |-> NoEntry]

TypeOK ==
  /\ password \in Nat
  /\ tokens \in Seq(RefreshToken)
  /\ codes \in Seq(PasswordResetToken)
  /\ outbox \in Seq(OutboxEntry)
  /\ audit \subseteq AuditEntry
  /\ inbox \subseteq Nat
  /\ req \in [Requests -> Request]
  /\ mailer \in [batch : Seq(Nat), sent : BOOLEAN]
  /\ now \in 0 .. MaxNow /\ begun \in 0 .. MaxRequests /\ crashes \in 0 .. MaxCrashes

Init ==
  /\ password = 0
  /\ tokens = <<>> /\ codes = <<>> /\ outbox = <<>> /\ audit = {}
  /\ inbox = {}
  /\ req = [r \in Requests |-> Idle]
  /\ mailer = [batch |-> <<>>, sent |-> FALSE]
  /\ now = 0 /\ begun = 0 /\ crashes = 0

-----------------------------------------------------------------------------
(* The repositories, each as the table after the statement.                *)

\* users: get_by_email finds the account, create inserts it, and
\* update_password_hash overwrites its hash.
GetByEmail == password # 0

CreateUser == 1

UpdatePasswordHash == password + 1

\* refresh_tokens.create, by a request that read the clock at the time "at".
CreateToken(family, device, at, version, late) ==
  Append(tokens, [family |-> family, device |-> device, usedAt |-> None,
                  successor |-> 0, revoked |-> FALSE,
                  expiresAt |-> at + RefreshTtl, version |-> version, late |-> late])

\* refresh_tokens.mark_used: unconditional.
MarkUsed(t, successor, at) ==
  [tokens EXCEPT ![t].usedAt = at, ![t].successor = successor]

RevokeFamily(family) ==
  [t \in DOMAIN tokens |->
     [tokens[t] EXCEPT !.revoked = @ \/ tokens[t].family = family]]

RevokeAllForUser == [t \in DOMAIN tokens |-> [tokens[t] EXCEPT !.revoked = TRUE]]

\* The requests that a revocation of these families overtakes: they have read
\* what it revokes, and have yet to insert a row.  (A login will open a family
\* of its own, which only the revocation of all of them is about.)
Overtaken(families, logins) ==
  [r \in Requests |->
     [req[r] EXCEPT !.late =
        \/ @
        \/ req[r].pc = "rotate" /\ tokens[req[r].token].family \in families
        \/ req[r].pc = "login" /\ logins]]

CreateCode == Append(codes, [expiresAt |-> now + ResetTtl, consumed |-> FALSE])

ConsumeCode(c) == [codes EXCEPT ![c].consumed = TRUE]

Enqueue(c) == Append(outbox, [code |-> c, attempts |-> 0, dispatched |-> FALSE])

\* fetch_pending, in the order of the inserts.
FetchPending ==
  SelectSeq([i \in DOMAIN outbox |-> i],
            LAMBDA i : ~ outbox[i].dispatched /\ outbox[i].attempts < MaxAttempts)

MarkDispatched(i) == [outbox EXCEPT ![i].dispatched = TRUE]

RecordAttemptFailure(i) == [outbox EXCEPT ![i].attempts = @ + 1]

-----------------------------------------------------------------------------
(* Requests.                                                               *)

Begin(r) ==
  /\ req[r].pc = "idle"
  /\ begun < MaxRequests
  /\ begun' = begun + 1

Becomes(r, local) == req' = [req EXCEPT ![r] = local]

\* What remains to be done is the audit row.
Auditing(action, on) ==
  [Idle EXCEPT !.pc = "audit", !.entry = [action |-> action, on |-> on]]

RecordAudit(r) ==
  /\ req[r].pc = "audit"
  /\ audit' = audit \cup {req[r].entry}
  /\ Becomes(r, Idle)
  /\ UNCHANGED <<password, tokens, codes, outbox, mail, now, begun, crashes>>

\* RegisterUser: a second registration fails on the unique e-mail.
RegisterCreate(r) ==
  /\ Begin(r)
  /\ ~ GetByEmail
  /\ password' = CreateUser
  /\ Becomes(r, Auditing("user_registered", CreateUser))
  /\ UNCHANGED <<tokens, codes, outbox, audit, mail, now, crashes>>

Register(r) == RegisterCreate(r)

\* LoginUser, with the right password: get_by_email and verify, then create.
LoginVerify(r, d) ==
  /\ Begin(r)
  /\ GetByEmail
  /\ Becomes(r, [Idle EXCEPT !.pc = "login", !.device = d, !.version = password])
  /\ UNCHANGED <<tables, mail, now, crashes>>

LoginCreate(r) ==
  /\ req[r].pc = "login"
  /\ tokens' = CreateToken(Len(tokens) + 1, req[r].device, now,
                            req[r].version, req[r].late)
  /\ Becomes(r, Auditing("login_succeeded", Len(tokens) + 1))
  /\ UNCHANGED <<password, codes, outbox, audit, mail, now, begun, crashes>>

Login(r) == (\E d \in Devices : LoginVerify(r, d)) \/ LoginCreate(r)

\* A token that get_by_hash returns and RefreshSession does not refuse.
Usable(t) == ~ tokens[t].revoked /\ tokens[t].expiresAt > now

\* The race of two tabs: used, within the grace window, from the same device.
Benign(t, d) ==
  /\ tokens[t].usedAt # None
  /\ now - tokens[t].usedAt <= GraceSeconds
  /\ tokens[t].device = d
  /\ tokens[t].successor # 0

MutRefreshRead(r, t, d) ==
  /\ Begin(r)
  /\ tokens[t].expiresAt > now
  /\ ~ Benign(t, d)
  /\ Becomes(r, [Idle EXCEPT
       !.pc = IF tokens[t].usedAt = None THEN "rotate" ELSE "reuse",
       !.token = t, !.device = d, !.at = now])
  /\ UNCHANGED <<tables, mail, now, crashes>>

\* RefreshSession.execute up to its first write.  A benign race ends here: it
\* only issues an access token.
RefreshRead(r, t, d) ==
  /\ Begin(r)
  /\ Usable(t)
  /\ ~ Benign(t, d)
  /\ Becomes(r, [Idle EXCEPT
       !.pc = IF tokens[t].usedAt = None THEN "rotate" ELSE "reuse",
       !.token = t, !.device = d, !.at = now])
  /\ UNCHANGED <<tables, mail, now, crashes>>

\* The successor: same family, the device that presented the token.
RefreshCreate(r) ==
  /\ req[r].pc = "rotate"
  /\ LET old == tokens[req[r].token]
     IN  tokens' = CreateToken(old.family, req[r].device, req[r].at, old.version,
                               old.late \/ req[r].late)
  /\ Becomes(r, [req[r] EXCEPT !.pc = "mark", !.made = Len(tokens) + 1])
  /\ UNCHANGED <<password, codes, outbox, audit, mail, now, begun, crashes>>

RefreshMark(r) ==
  /\ req[r].pc = "mark"
  /\ tokens' = MarkUsed(req[r].token, req[r].made, req[r].at)
  /\ Becomes(r, Idle)
  /\ UNCHANGED <<password, codes, outbox, audit, mail, now, begun, crashes>>

\* A used token outside the grace window or from another device.
RefreshReused(r) ==
  /\ req[r].pc = "reuse"
  /\ LET family == tokens[req[r].token].family
     IN  /\ tokens' = RevokeFamily(family)
         /\ req' = [Overtaken({family}, FALSE) EXCEPT ![r] = Idle]
  /\ UNCHANGED <<password, codes, outbox, audit, mail, now, begun, crashes>>

Refresh(r) ==
  \/ \E t \in DOMAIN tokens, d \in Devices : RefreshRead(r, t, d)
  \/ RefreshCreate(r) \/ RefreshMark(r) \/ RefreshReused(r)

\* LogoutUser: the access token is denied first, which may be all that
\* happens.  Without a refresh cookie (t = 0) only the audit row is left.
LogoutDeny(r, t) ==
  /\ Begin(r)
  /\ tokens # <<>>   \* the access token comes from a login
  /\ Becomes(r, IF t = 0 THEN Auditing("logout", 0)
                          ELSE [Idle EXCEPT !.pc = "logout", !.token = t])
  /\ UNCHANGED <<tables, mail, now, crashes>>

LogoutRevoke(r) ==
  /\ req[r].pc = "logout"
  /\ LET family == tokens[req[r].token].family
     IN  /\ tokens' = RevokeFamily(family)
         /\ req' = [Overtaken({family}, FALSE) EXCEPT ![r] = Auditing("logout", family)]
  /\ UNCHANGED <<password, codes, outbox, audit, mail, now, begun, crashes>>

Logout(r) == (\E t \in {0} \cup DOMAIN tokens : LogoutDeny(r, t)) \/ LogoutRevoke(r)

-----------------------------------------------------------------------------
(* Password reset.                                                         *)

ForgotCreate(r) ==
  /\ Begin(r)
  /\ GetByEmail
  /\ codes' = CreateCode
  /\ Becomes(r, [Idle EXCEPT !.pc = "mail", !.made = Len(codes) + 1])
  /\ UNCHANGED <<password, tokens, outbox, audit, mail, now, crashes>>

ForgotEnqueue(r) ==
  /\ req[r].pc = "mail"
  /\ outbox' = Enqueue(req[r].made)
  /\ Becomes(r, Idle)
  /\ UNCHANGED <<password, tokens, codes, audit, mail, now, begun, crashes>>

RequestPasswordReset(r) == ForgotCreate(r) \/ ForgotEnqueue(r)

\* ResetPassword.execute: get_by_token_hash and its three refusals.
ResetRead(r, c) ==
  /\ Begin(r)
  /\ ~ codes[c].consumed
  /\ codes[c].expiresAt > now
  /\ Becomes(r, [Idle EXCEPT !.pc = "update", !.token = c])
  /\ UNCHANGED <<tables, mail, now, crashes>>

ResetUpdate(r) ==
  /\ req[r].pc = "update"
  /\ password' = UpdatePasswordHash
  /\ Becomes(r, [req[r] EXCEPT !.pc = "consume", !.version = UpdatePasswordHash])
  /\ UNCHANGED <<tokens, codes, outbox, audit, mail, now, begun, crashes>>

ResetConsume(r) ==
  /\ req[r].pc = "consume"
  /\ codes' = ConsumeCode(req[r].token)
  /\ Becomes(r, [req[r] EXCEPT !.pc = "revoke"])
  /\ UNCHANGED <<password, tokens, outbox, audit, mail, now, begun, crashes>>

MutResetRevoke(r) ==
  /\ req[r].pc = "revoke"
  /\ UNCHANGED tokens
  /\ Becomes(r, Auditing("password_reset_completed", req[r].version))
  /\ UNCHANGED <<password, codes, outbox, audit, mail, now, begun, crashes>>

\* RevokeUserSessions.
ResetRevoke(r) ==
  /\ req[r].pc = "revoke"
  /\ tokens' = RevokeAllForUser
  /\ req' = [Overtaken({tokens[t].family : t \in DOMAIN tokens}, TRUE)
               EXCEPT ![r] = Auditing("password_reset_completed", req[r].version)]
  /\ UNCHANGED <<password, codes, outbox, audit, mail, now, begun, crashes>>

ResetPassword(r) ==
  \/ \E c \in inbox : ResetRead(r, c)
  \/ ResetUpdate(r) \/ ResetConsume(r) \/ ResetRevoke(r)

-----------------------------------------------------------------------------
(* DispatchEmailOutbox.execute, one cycle after the other.                 *)

MailFetch ==
  /\ mailer.batch = <<>>
  /\ FetchPending # <<>>
  /\ mailer' = [batch |-> FetchPending, sent |-> FALSE]
  /\ UNCHANGED <<tables, inbox, req, now, begun, crashes>>

\* email.send returns.
MailSend ==
  /\ mailer.batch # <<>> /\ ~ mailer.sent
  /\ inbox' = inbox \cup {outbox[Head(mailer.batch)].code}
  /\ mailer' = [mailer EXCEPT !.sent = TRUE]
  /\ UNCHANGED <<tables, req, now, begun, crashes>>

\* email.send raises: the attempt is counted and the batch goes on.
MailFail ==
  /\ mailer.batch # <<>> /\ ~ mailer.sent
  /\ outbox' = RecordAttemptFailure(Head(mailer.batch))
  /\ mailer' = [mailer EXCEPT !.batch = Tail(@)]
  /\ UNCHANGED <<password, tokens, codes, audit, inbox, req, now, begun, crashes>>

MutMailMark ==
  /\ mailer.batch # <<>>
  /\ outbox' = MarkDispatched(Head(mailer.batch))
  /\ mailer' = [batch |-> Tail(mailer.batch), sent |-> FALSE]
  /\ UNCHANGED <<password, tokens, codes, audit, inbox, req, now, begun, crashes>>

MailMark ==
  /\ mailer.batch # <<>> /\ mailer.sent
  /\ outbox' = MarkDispatched(Head(mailer.batch))
  /\ mailer' = [batch |-> Tail(mailer.batch), sent |-> FALSE]
  /\ UNCHANGED <<password, tokens, codes, audit, inbox, req, now, begun, crashes>>

Mailer == MailFetch \/ MailSend \/ MailFail \/ MailMark

-----------------------------------------------------------------------------

\* The API process dies, or a statement of the request fails.
CrashRequest(r) ==
  /\ req[r].pc # "idle"
  /\ crashes < MaxCrashes
  /\ crashes' = crashes + 1
  /\ Becomes(r, Idle)
  /\ UNCHANGED <<tables, mail, now, begun>>

\* The worker dies, and starts again.
CrashMailer ==
  /\ mailer.batch # <<>>
  /\ crashes < MaxCrashes
  /\ crashes' = crashes + 1
  /\ mailer' = [batch |-> <<>>, sent |-> FALSE]
  /\ UNCHANGED <<tables, inbox, req, now, begun>>

Tick ==
  /\ now < MaxNow
  /\ now' = now + 1
  /\ UNCHANGED <<tables, mail, req, begun, crashes>>

RequestStep(r) ==
  \/ Register(r) \/ Login(r) \/ Refresh(r) \/ Logout(r) \/ RecordAudit(r)
  \/ RequestPasswordReset(r) \/ ResetPassword(r) \/ CrashRequest(r)

Next ==
  \/ \E r \in Requests : RequestStep(r)
  \/ Mailer \/ CrashMailer \/ Tick

Spec == Init /\ [][Next]_vars

\* The worker polls for ever.
FairSpec == Spec /\ WF_vars(Mailer)

-----------------------------------------------------------------------------
(* Properties.                                                             *)

Live(t) == ~ tokens[t].revoked

\* Revocation reaches the whole family.  Once one row of a family is revoked
\* (logout, reuse, password reset), a row of it that is still live comes from
\* a refresh that had read its token before the revocation and inserted the
\* successor after it (or descends from that row): the window between
\* get_by_hash and create of RefreshSession is the only way round.
RevocationSticks ==
  \A t, u \in DOMAIN tokens :
    Live(t) /\ ~ Live(u) /\ tokens[t].family = tokens[u].family => tokens[t].late

\* Once the audit log says that a password reset is complete, no session that
\* was opened with an earlier password is live, but for those a login or a
\* refresh inserted after the revocation, having read before it.
ResetEndsSessions ==
  \A e \in audit : e.action = "password_reset_completed" =>
    \A t \in DOMAIN tokens :
      Live(t) => tokens[t].version >= e.on \/ tokens[t].late

\* Every reset mail that is enqueued is in the end delivered and marked, or
\* has used up its attempts, whatever sends fail and wherever the worker dies.
EveryMailSettles ==
  <>[](\A i \in DOMAIN outbox :
         \/ outbox[i].dispatched /\ outbox[i].code \in inbox
         \/ outbox[i].attempts = MaxAttempts)
=============================================================================
