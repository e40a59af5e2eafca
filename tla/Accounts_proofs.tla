-------------------------- MODULE Accounts_proofs --------------------------
(***************************************************************************)
(* What holds of Accounts for any number of requests, devices, tokens and  *)
(* crashes, any lifetimes and any grace period: revocation, and the end of *)
(* the sessions at a password reset.                                       *)
(***************************************************************************)
EXTENDS Accounts, TLAPS

-----------------------------------------------------------------------------
(* The state the sessions depend on.                                       *)

\* The local variables of a request; its token is the position of a refresh
\* token, or a code, of which nothing needs to be known.
Local(S) ==
  [pc : {"idle", "login", "rotate", "mark", "reuse", "logout", "mail", "update",
         "consume", "revoke", "audit"},
   token : S, device : Devices, at : Nat, made : Nat,
   version : Nat, late : BOOLEAN, entry : AuditEntry]

HoldsToken == {"rotate", "mark", "reuse", "logout"}

IsReset(e) == e.action = "password_reset_completed"

\* The resets that are complete, whether or not the audit row is there yet.
Completed(r) == req[r].pc = "audit" /\ IsReset(req[r].entry)
Resets ==
  {e \in audit : IsReset(e)} \cup {req[r].entry : r \in {q \in Requests : Completed(q)}}

SessionTypes ==
  /\ password \in Nat /\ now \in Nat
  /\ tokens \in Seq(RefreshToken) /\ audit \subseteq AuditEntry
  /\ \E S : req \in [Requests -> Local(S)]
  /\ \A r \in Requests : req[r].pc \in HoldsToken => req[r].token \in DOMAIN tokens
  /\ \A t \in DOMAIN tokens : tokens[t].family \in 1 .. Len(tokens)

\* A refresh whose token has been revoked since it was read is marked as late;
\* what survives a revocation comes of such a refresh.
RevocationInv ==
  /\ RevocationSticks
  /\ \A r \in Requests : req[r].pc = "rotate" =>
       Live(req[r].token) \/ req[r].late

\* A session, or a login on its way, is of the password of every completed
\* reset or of a later one, unless the reset has overtaken it.
ResetInv ==
  /\ \A e \in Resets : e.on <= password
  /\ \A r \in Requests :
       req[r].pc \in {"consume", "revoke"} => req[r].version <= password
  /\ \A e \in Resets :
       /\ \A t \in DOMAIN tokens : Live(t) => tokens[t].version >= e.on \/ tokens[t].late
       /\ \A r \in Requests :
            req[r].pc = "login" => req[r].version >= e.on \/ req[r].late

SessionInv == SessionTypes /\ RevocationInv /\ ResetInv

LEMMA IdleType ==
  ASSUME NEW S, 0 \in S PROVE Idle \in Local(S) /\ Idle.pc = "idle"
BY AccountsAssumption DEF Idle, Local, NoEntry, AuditEntry

-----------------------------------------------------------------------------
(* The tables.                                                             *)

\* tokens' has the rows of tokens, as far as the sessions depend on them.
LEMMA CreateFacts ==
  ASSUME tokens \in Seq(RefreshToken), NEW f \in Nat, NEW d \in Devices, NEW at \in Nat,
         NEW v \in Nat, NEW l \in BOOLEAN,
         tokens' = CreateToken(f, d, at, v, l)
  PROVE  /\ tokens' \in Seq(RefreshToken)
         /\ Len(tokens') = Len(tokens) + 1
         /\ DOMAIN tokens' = DOMAIN tokens \cup {Len(tokens) + 1}
         /\ \A t \in DOMAIN tokens : tokens'[t] = tokens[t]
         /\ tokens'[Len(tokens) + 1].family = f
         /\ tokens'[Len(tokens) + 1].version = v
         /\ tokens'[Len(tokens) + 1].late = l
         /\ ~ tokens'[Len(tokens) + 1].revoked
<1>1. PICK row : row = [family |-> f, device |-> d, usedAt |-> None, successor |-> 0,
                        revoked |-> FALSE, expiresAt |-> at + RefreshTtl,
                        version |-> v, late |-> l]
  OBVIOUS
<1>2. row \in RefreshToken
  BY <1>1, AccountsAssumption DEF RefreshToken
<1>3. row.family = f /\ row.version = v /\ row.late = l /\ ~ row.revoked
  BY <1>1
<1>4. tokens' = Append(tokens, row)
  BY <1>1 DEF CreateToken
<1>5. QED
  BY <1>2, <1>3, <1>4

LEMMA MarkFacts ==
  ASSUME tokens \in Seq(RefreshToken), NEW i \in DOMAIN tokens, NEW s \in Nat, NEW at \in Nat,
         tokens' = MarkUsed(i, s, at)
  PROVE  /\ tokens' \in Seq(RefreshToken) /\ Len(tokens') = Len(tokens)
         /\ \A t \in DOMAIN tokens :
              /\ tokens'[t].family = tokens[t].family
              /\ tokens'[t].version = tokens[t].version
              /\ tokens'[t].late = tokens[t].late
              /\ tokens'[t].revoked = tokens[t].revoked
<1> tokens[i] \in RefreshToken
  OBVIOUS
<1>1. PICK used : used = [tokens[i] EXCEPT !.usedAt = at]
  OBVIOUS
<1>2. /\ used \in RefreshToken
      /\ used.family = tokens[i].family /\ used.version = tokens[i].version
      /\ used.late = tokens[i].late /\ used.revoked = tokens[i].revoked
  BY <1>1 DEF RefreshToken
<1>3. PICK row : row = [used EXCEPT !.successor = s]
  OBVIOUS
<1>4. /\ row \in RefreshToken
      /\ row.family = tokens[i].family /\ row.version = tokens[i].version
      /\ row.late = tokens[i].late /\ row.revoked = tokens[i].revoked
  BY <1>2, <1>3 DEF RefreshToken
<1>5. tokens' = [tokens EXCEPT ![i] = row]
  <2>1. [tokens EXCEPT ![i].usedAt = at] = [tokens EXCEPT ![i] = used]
    BY <1>1
  <2>2. [tokens EXCEPT ![i] = used][i] = used
    OBVIOUS
  <2>3. [[tokens EXCEPT ![i] = used] EXCEPT ![i].successor = s]
          = [[tokens EXCEPT ![i] = used] EXCEPT ![i] = row]
    BY <2>2, <1>3
  <2>4. [[tokens EXCEPT ![i] = used] EXCEPT ![i] = row] = [tokens EXCEPT ![i] = row]
    OBVIOUS
  <2>5. tokens' = [[tokens EXCEPT ![i].usedAt = at] EXCEPT ![i].successor = s]
    BY DEF MarkUsed
  <2>6. QED
    BY <2>1, <2>3, <2>4, <2>5
<1>6. QED
  BY <1>4, <1>5

\* The rows of a set of families are revoked.
LEMMA RevokeFacts ==
  ASSUME tokens \in Seq(RefreshToken), NEW F,
         tokens' = [t \in DOMAIN tokens |->
                      [tokens[t] EXCEPT !.revoked = @ \/ tokens[t].family \in F]]
  PROVE  /\ tokens' \in Seq(RefreshToken) /\ Len(tokens') = Len(tokens)
         /\ \A t \in DOMAIN tokens :
              /\ tokens'[t].family = tokens[t].family
              /\ tokens'[t].version = tokens[t].version
              /\ tokens'[t].late = tokens[t].late
              /\ tokens'[t].revoked <=> tokens[t].revoked \/ tokens[t].family \in F
<1>1. ASSUME NEW t \in DOMAIN tokens
      PROVE  /\ tokens'[t] \in RefreshToken
             /\ tokens'[t].family = tokens[t].family
             /\ tokens'[t].version = tokens[t].version
             /\ tokens'[t].late = tokens[t].late
             /\ tokens'[t].revoked <=> tokens[t].revoked \/ tokens[t].family \in F
  <2>1. PICK b \in BOOLEAN : b = (tokens[t].revoked \/ tokens[t].family \in F)
    OBVIOUS
  <2>2. tokens'[t] = [tokens[t] EXCEPT !.revoked = b]
    BY <2>1
  <2>3. tokens[t] \in RefreshToken
    OBVIOUS
  <2>4. /\ tokens'[t] \in RefreshToken
        /\ tokens'[t].family = tokens[t].family
        /\ tokens'[t].version = tokens[t].version
        /\ tokens'[t].late = tokens[t].late
        /\ tokens'[t].revoked = b
    BY <2>2, <2>3 DEF RefreshToken
  <2>5. tokens'[t].revoked <=> tokens[t].revoked \/ tokens[t].family \in F
    BY <2>1, <2>4, Zenon
  <2>6. QED
    BY <2>4, <2>5
<1>2. DOMAIN tokens = 1 .. Len(tokens) /\ Len(tokens) \in Nat /\ DOMAIN tokens' = DOMAIN tokens
  OBVIOUS
<1>3. tokens' \in [1 .. Len(tokens) -> RefreshToken]
  <2> DEFINE Row(t) == [tokens[t] EXCEPT !.revoked = @ \/ tokens[t].family \in F]
  <2>1. tokens' = [t \in 1 .. Len(tokens) |-> Row(t)]
    BY <1>2
  <2>2. \A t \in 1 .. Len(tokens) : tokens'[t] \in RefreshToken
    BY <1>1, <1>2
  <2>3. \A t \in 1 .. Len(tokens) : tokens'[t] = Row(t)
    BY <2>1
  <2> HIDE DEF Row
  <2>4. QED
    BY <2>1, <2>2, <2>3
<1>4. tokens' \in Seq(RefreshToken) /\ Len(tokens') = Len(tokens)
  BY <1>2, <1>3
<1>5. QED
  BY <1>1, <1>4

-----------------------------------------------------------------------------
(* The kinds of step.                                                      *)

\* A larger set of tokens to hold makes a larger set of requests.
LEMMA LocalGrows ==
  ASSUME NEW S, NEW T, S \subseteq T PROVE Local(S) \subseteq Local(T)
BY DEF Local

\* What a step may leave in the local variables of its request, when it is no
\* refresh about to insert and no completed reset.
Harmless(local) ==
  /\ local.pc \in HoldsToken => local.token \in DOMAIN tokens
  /\ local.pc = "rotate" => Live(local.token)
  /\ local.pc = "login" => local.version = password
  /\ local.pc = "audit" => ~ IsReset(local.entry)

\* Steps that leave the refresh tokens alone.
LEMMA QuietStep ==
  ASSUME SessionInv, NEW r \in Requests, NEW S, NEW local \in Local(S),
         req' = [req EXCEPT ![r] = local], Harmless(local),
         UNCHANGED tokens, now' \in Nat,
         password' \in Nat, password' >= password,
         local.pc = "login" => password' = password,
         local.pc \in {"consume", "revoke"} => local.version <= password',
         audit' = audit \/ (req[r].pc = "audit" /\ audit' = audit \cup {req[r].entry})
  PROVE  SessionInv'
<1>1. PICK T : req \in [Requests -> Local(T)]
  BY DEF SessionInv, SessionTypes
<1>2. req \in [Requests -> Local(S \cup T)] /\ local \in Local(S \cup T)
  BY <1>1, LocalGrows
<1>3. req' \in [Requests -> Local(S \cup T)] /\ req'[r] = local
      /\ \A q \in Requests : q # r => req'[q] = req[q]
  BY <1>2
<1>4. Resets' \subseteq Resets
  <2>1. \A q \in Requests : Completed(q)' => Completed(q) /\ req'[q].entry = req[q].entry
    BY <1>3 DEF Completed, Harmless
  <2>2. \A e \in audit' : IsReset(e) => e \in Resets
    BY <1>1 DEF Resets, Completed
  <2>3. QED
    BY <2>1, <2>2 DEF Resets
<1>5. SessionTypes'
  <2>1. audit' \subseteq AuditEntry
    BY <1>1 DEF SessionInv, SessionTypes, Local
  <2>2. \A q \in Requests : req'[q].pc \in HoldsToken => req'[q].token \in DOMAIN tokens
    BY <1>3 DEF SessionInv, SessionTypes, Harmless
  <2>3. QED
    BY <1>3, <2>1, <2>2 DEF SessionInv, SessionTypes
<1>6. RevocationInv'
  <2>1. RevocationSticks'
    BY DEF SessionInv, RevocationInv, RevocationSticks, Live
  <2>2. \A q \in Requests : req'[q].pc = "rotate" =>
          ~ tokens'[req'[q].token].revoked \/ req'[q].late
    BY <1>3 DEF SessionInv, RevocationInv, Harmless, Live
  <2>3. QED
    BY <2>1, <2>2 DEF RevocationInv, Live
<1>7. ResetInv'
  <2>1. \A e \in Resets' : e.on <= password'
    <3>1. ASSUME NEW e \in Resets PROVE e.on \in Nat
      BY <1>1 DEF Resets, SessionInv, SessionTypes, Local, AuditEntry
    <3>2. QED
      BY <1>4, <3>1 DEF SessionInv, SessionTypes, ResetInv
  <2>2. \A q \in Requests : req'[q].pc \in {"consume", "revoke"} => req'[q].version <= password'
    <3>1. \A q \in Requests : req[q].version \in Nat
      BY <1>1 DEF Local
    <3>2. QED
      BY <1>3, <3>1 DEF SessionInv, SessionTypes, ResetInv, Harmless
  <2>3. ASSUME NEW e \in Resets'
        PROVE  /\ \A t \in DOMAIN tokens' :
                    Live(t)' => tokens'[t].version >= e.on \/ tokens'[t].late
               /\ \A q \in Requests :
                    req'[q].pc = "login" => req'[q].version >= e.on \/ req'[q].late
    <3>1. e \in Resets
      BY <1>4
    <3>2. local.pc = "login" => local.version >= e.on
      BY <3>1 DEF SessionInv, ResetInv, Harmless, SessionTypes
    <3>3. \A t \in DOMAIN tokens' :
                    Live(t)' => tokens'[t].version >= e.on \/ tokens'[t].late
      BY <3>1 DEF SessionInv, ResetInv, Live
    <3>4. \A q \in Requests :
                    req'[q].pc = "login" => req'[q].version >= e.on \/ req'[q].late
      BY <3>1, <3>2, <1>3 DEF SessionInv, ResetInv
    <3>5. QED
      BY <3>3, <3>4
  <2>4. QED
    BY <2>1, <2>2, <2>3 DEF ResetInv
<1>8. QED
  BY <1>5, <1>6, <1>7 DEF SessionInv

\* Steps of anyone but the requests.
LEMMA OtherStep ==
  ASSUME SessionInv, UNCHANGED <<password, tokens, audit, req>>, now' \in Nat
  PROVE  SessionInv'
BY DEF SessionInv, SessionTypes, RevocationInv, RevocationSticks, ResetInv, Live,
       Resets, Completed

\* Steps that insert a row: it is marked late when a row of its family is
\* revoked, or when it is of an older password than a completed reset.
LEMMA InsertStep ==
  ASSUME SessionInv, NEW r \in Requests, NEW S, NEW local \in Local(S),
         req' = [req EXCEPT ![r] = local],
         local.pc = "mark" \/ (local.pc = "audit" /\ ~ IsReset(local.entry)),
         local.pc = "mark" => local.token \in DOMAIN tokens,
         UNCHANGED <<password, audit, now>>,
         NEW f \in 1 .. (Len(tokens) + 1), NEW d \in Devices, NEW at \in Nat,
         NEW v \in Nat, NEW l \in BOOLEAN,
         tokens' = CreateToken(f, d, at, v, l),
         \A u \in DOMAIN tokens : ~ Live(u) /\ tokens[u].family = f => l,
         \A e \in Resets : v >= e.on \/ l
  PROVE  SessionInv'
<1>1. PICK T : req \in [Requests -> Local(T)]
  BY DEF SessionInv, SessionTypes
<1>2. req \in [Requests -> Local(S \cup T)] /\ local \in Local(S \cup T)
  BY <1>1, LocalGrows
<1>3. req' \in [Requests -> Local(S \cup T)] /\ req'[r] = local
      /\ \A q \in Requests : q # r => req'[q] = req[q]
  BY <1>2
<1> DEFINE new == Len(tokens) + 1
<1>4. /\ tokens' \in Seq(RefreshToken) /\ Len(tokens') = new
      /\ DOMAIN tokens' = DOMAIN tokens \cup {new}
      /\ \A t \in DOMAIN tokens : tokens'[t] = tokens[t]
      /\ tokens'[new].family = f /\ tokens'[new].version = v
      /\ tokens'[new].late = l /\ ~ tokens'[new].revoked
  <2>1. tokens \in Seq(RefreshToken) /\ f \in Nat
    BY DEF SessionInv, SessionTypes
  <2>2. QED
    BY <2>1, CreateFacts
<1>5. Len(tokens) \in Nat /\ DOMAIN tokens = 1 .. Len(tokens)
  BY DEF SessionInv, SessionTypes
<1> HIDE DEF new
<1>6. Resets' \subseteq Resets
  BY <1>3 DEF Resets, Completed
<1>7. SessionTypes'
  <2>1. \A q \in Requests : req'[q].pc \in HoldsToken => req'[q].token \in DOMAIN tokens'
    BY <1>3, <1>4 DEF SessionInv, SessionTypes, HoldsToken
  <2>2. \A t \in DOMAIN tokens' : tokens'[t].family \in 1 .. Len(tokens')
    BY <1>4, <1>5 DEF SessionInv, SessionTypes, new
  <2>3. QED
    BY <1>3, <1>4, <2>1, <2>2 DEF SessionInv, SessionTypes
<1>8. RevocationInv'
  <2>1. ASSUME NEW t \in DOMAIN tokens', NEW u \in DOMAIN tokens',
               ~ tokens'[t].revoked, tokens'[u].revoked,
               tokens'[t].family = tokens'[u].family
        PROVE  tokens'[t].late
    BY <1>4, <2>1 DEF SessionInv, RevocationInv, RevocationSticks, Live
  <2>2. ASSUME NEW q \in Requests, req'[q].pc = "rotate"
        PROVE  ~ tokens'[req'[q].token].revoked \/ req'[q].late
    <3>1. req'[q] = req[q] /\ req[q].token \in DOMAIN tokens
      BY <1>3, <2>2 DEF SessionInv, SessionTypes, HoldsToken
    <3>2. QED
      BY <1>4, <2>2, <3>1 DEF SessionInv, RevocationInv, Live
  <2>3. QED
    BY <2>1, <2>2 DEF RevocationInv, RevocationSticks, Live
<1>9. ResetInv'
  <2>1. \A e \in Resets' : e.on <= password'
    BY <1>6 DEF SessionInv, ResetInv
  <2>2. \A q \in Requests : req'[q].pc \in {"consume", "revoke"} => req'[q].version <= password'
    BY <1>3 DEF SessionInv, ResetInv
  <2>3. ASSUME NEW e \in Resets', NEW t \in DOMAIN tokens', ~ tokens'[t].revoked
        PROVE  tokens'[t].version >= e.on \/ tokens'[t].late
    BY <1>4, <1>6, <2>3 DEF SessionInv, ResetInv, Live
  <2>4. ASSUME NEW e \in Resets', NEW q \in Requests, req'[q].pc = "login"
        PROVE  req'[q].version >= e.on \/ req'[q].late
    BY <1>3, <1>6, <2>4 DEF SessionInv, ResetInv
  <2>5. QED
    BY <2>1, <2>2, <2>3, <2>4 DEF ResetInv, Live
<1>10. QED
  BY <1>7, <1>8, <1>9 DEF SessionInv

\* RefreshMark.
LEMMA MarkStep ==
  ASSUME SessionInv, NEW r \in Requests, RefreshMark(r)
  PROVE  SessionInv'
<1>1. PICK T : req \in [Requests -> Local(T)]
  BY DEF SessionInv, SessionTypes
<1>2. req \in [Requests -> Local(T \cup {0})] /\ Idle \in Local(T \cup {0}) /\ Idle.pc = "idle"
  BY <1>1, LocalGrows, IdleType
<1>3. req' \in [Requests -> Local(T \cup {0})] /\ req'[r].pc = "idle"
      /\ \A q \in Requests : q # r => req'[q] = req[q]
  BY <1>2 DEF RefreshMark, Becomes
<1>4. req[r].token \in DOMAIN tokens /\ req[r].made \in Nat /\ req[r].at \in Nat
  BY <1>1 DEF SessionInv, SessionTypes, HoldsToken, RefreshMark, Local
<1>5. UNCHANGED <<password, audit, now>> /\ tokens' = MarkUsed(req[r].token, req[r].made, req[r].at)
  BY DEF RefreshMark
<1>6. /\ tokens' \in Seq(RefreshToken) /\ Len(tokens') = Len(tokens)
      /\ \A t \in DOMAIN tokens :
              /\ tokens'[t].family = tokens[t].family
              /\ tokens'[t].version = tokens[t].version
              /\ tokens'[t].late = tokens[t].late
              /\ tokens'[t].revoked = tokens[t].revoked
  BY <1>4, <1>5, MarkFacts DEF SessionInv, SessionTypes
<1>7. DOMAIN tokens' = DOMAIN tokens
  BY <1>6 DEF SessionInv, SessionTypes
<1>8. Resets' \subseteq Resets
  BY <1>3, <1>5 DEF Resets, Completed
<1>9. SessionTypes'
  <2>1. \A q \in Requests : req'[q].pc \in HoldsToken => req'[q].token \in DOMAIN tokens'
    BY <1>3, <1>7 DEF SessionInv, SessionTypes, HoldsToken
  <2>2. \A t \in DOMAIN tokens' : tokens'[t].family \in 1 .. Len(tokens')
    BY <1>6, <1>7 DEF SessionInv, SessionTypes
  <2>3. QED
    BY <1>3, <1>5, <1>6, <2>1, <2>2 DEF SessionInv, SessionTypes
<1>10. RevocationInv'
  <2>1. RevocationSticks'
    BY <1>6, <1>7 DEF SessionInv, RevocationInv, RevocationSticks, Live
  <2>2. \A q \in Requests : req'[q].pc = "rotate" =>
          ~ tokens'[req'[q].token].revoked \/ req'[q].late
    BY <1>3, <1>6 DEF SessionInv, SessionTypes, HoldsToken, RevocationInv, Live
  <2>3. QED
    BY <2>1, <2>2 DEF RevocationInv, Live
<1>11. ResetInv'
  <2>1. \A e \in Resets' : e.on <= password'
    BY <1>5, <1>8 DEF SessionInv, ResetInv
  <2>2. \A q \in Requests : req'[q].pc \in {"consume", "revoke"} => req'[q].version <= password'
    BY <1>3, <1>5 DEF SessionInv, ResetInv
  <2>3. ASSUME NEW e \in Resets', NEW t \in DOMAIN tokens', ~ tokens'[t].revoked
        PROVE  tokens'[t].version >= e.on \/ tokens'[t].late
    BY <1>6, <1>7, <1>8, <2>3 DEF SessionInv, ResetInv, Live
  <2>4. ASSUME NEW e \in Resets', NEW q \in Requests, req'[q].pc = "login"
        PROVE  req'[q].version >= e.on \/ req'[q].late
    BY <1>3, <1>8, <2>4 DEF SessionInv, ResetInv
  <2>5. QED
    BY <2>1, <2>2, <2>3, <2>4 DEF ResetInv, Live
<1>12. QED
  BY <1>9, <1>10, <1>11 DEF SessionInv

\* A revocation leaves its mark on the requests that it overtakes.
LEMMA OvertakenFacts ==
  ASSUME NEW F, NEW logins \in BOOLEAN, NEW T, req \in [Requests -> Local(T)]
  PROVE  /\ Overtaken(F, logins) \in [Requests -> Local(T)]
         /\ \A q \in Requests :
             /\ Overtaken(F, logins)[q].pc = req[q].pc
             /\ Overtaken(F, logins)[q].token = req[q].token
             /\ Overtaken(F, logins)[q].version = req[q].version
             /\ Overtaken(F, logins)[q].entry = req[q].entry
             /\ Overtaken(F, logins)[q].late <=>
                  \/ req[q].late
                  \/ req[q].pc = "rotate" /\ tokens[req[q].token].family \in F
                  \/ req[q].pc = "login" /\ logins
<1>1. ASSUME NEW q \in Requests
      PROVE  /\ Overtaken(F, logins)[q] \in Local(T)
             /\ Overtaken(F, logins)[q].pc = req[q].pc
             /\ Overtaken(F, logins)[q].token = req[q].token
             /\ Overtaken(F, logins)[q].version = req[q].version
             /\ Overtaken(F, logins)[q].entry = req[q].entry
             /\ Overtaken(F, logins)[q].late <=>
                  \/ req[q].late
                  \/ req[q].pc = "rotate" /\ tokens[req[q].token].family \in F
                  \/ req[q].pc = "login" /\ logins
  <2>1. PICK b \in BOOLEAN : b = (\/ req[q].late
                                  \/ req[q].pc = "rotate" /\ tokens[req[q].token].family \in F
                                  \/ req[q].pc = "login" /\ logins)
    OBVIOUS
  <2>2. Overtaken(F, logins)[q] = [req[q] EXCEPT !.late = b]
    BY <2>1 DEF Overtaken
  <2>3. req[q] \in Local(T)
    OBVIOUS
  <2>4. /\ Overtaken(F, logins)[q] \in Local(T)
        /\ Overtaken(F, logins)[q].pc = req[q].pc
        /\ Overtaken(F, logins)[q].token = req[q].token
        /\ Overtaken(F, logins)[q].version = req[q].version
        /\ Overtaken(F, logins)[q].entry = req[q].entry
        /\ Overtaken(F, logins)[q].late = b
    BY <2>2, <2>3 DEF Local
  <2>5. Overtaken(F, logins)[q].late <=>
                  \/ req[q].late
                  \/ req[q].pc = "rotate" /\ tokens[req[q].token].family \in F
                  \/ req[q].pc = "login" /\ logins
    BY <2>1, <2>4, Zenon
  <2>6. QED
    BY <2>4, <2>5
<1>2. \E f : f = Overtaken(F, logins) /\ f = [q \in Requests |-> f[q]]
  BY DEF Overtaken
<1>3. PICK f : f = Overtaken(F, logins) /\ f = [q \in Requests |-> f[q]]
  BY <1>2
<1>4. f \in [Requests -> Local(T)]
  BY <1>1, <1>3
<1>5. QED
  BY <1>1, <1>3, <1>4

\* Steps that revoke families; only the revocation of all of them completes a
\* reset.
LEMMA RevokeStep ==
  ASSUME SessionInv, NEW r \in Requests, NEW S, NEW local \in Local(S),
         NEW F, NEW logins \in BOOLEAN,
         tokens' = [t \in DOMAIN tokens |->
                      [tokens[t] EXCEPT !.revoked = @ \/ tokens[t].family \in F]],
         req' = [Overtaken(F, logins) EXCEPT ![r] = local],
         local.pc \in {"idle", "audit"},
         local.pc = "audit" /\ IsReset(local.entry) =>
            /\ local.entry.on <= password
            /\ logins /\ \A t \in DOMAIN tokens : tokens[t].family \in F,
         UNCHANGED <<password, audit, now>>
  PROVE  SessionInv'
<1>1. PICK T : req \in [Requests -> Local(T)]
  BY DEF SessionInv, SessionTypes
<1>2. req \in [Requests -> Local(S \cup T)] /\ local \in Local(S \cup T)
  BY <1>1, LocalGrows
<1>3. /\ req' \in [Requests -> Local(S \cup T)] /\ req'[r] = local
      /\ \A q \in Requests : q # r =>
              /\ req'[q].pc = req[q].pc /\ req'[q].token = req[q].token
              /\ req'[q].version = req[q].version /\ req'[q].entry = req[q].entry
              /\ req'[q].late <=>
                   \/ req[q].late
                   \/ req[q].pc = "rotate" /\ tokens[req[q].token].family \in F
                   \/ req[q].pc = "login" /\ logins
  <2>1. PICK U : U = S \cup T
    OBVIOUS
  <2>2. req \in [Requests -> Local(U)] /\ local \in Local(U)
    BY <1>2, <2>1
  <2>3. PICK f : f = Overtaken(F, logins)
    OBVIOUS
  <2>4. /\ f \in [Requests -> Local(U)]
        /\ \A q \in Requests :
              /\ f[q].pc = req[q].pc /\ f[q].token = req[q].token
              /\ f[q].version = req[q].version /\ f[q].entry = req[q].entry
              /\ f[q].late <=>
                   \/ req[q].late
                   \/ req[q].pc = "rotate" /\ tokens[req[q].token].family \in F
                   \/ req[q].pc = "login" /\ logins
    BY <2>2, <2>3, OvertakenFacts
  <2>5. req' = [f EXCEPT ![r] = local]
    BY <2>3
  <2>6. req' \in [Requests -> Local(U)] /\ req'[r] = local
        /\ \A q \in Requests : q # r => req'[q] = f[q]
    BY <2>2, <2>4, <2>5
  <2>7. QED
    BY <2>1, <2>4, <2>6
<1>4. /\ tokens' \in Seq(RefreshToken) /\ Len(tokens') = Len(tokens)
      /\ \A t \in DOMAIN tokens :
              /\ tokens'[t].family = tokens[t].family
              /\ tokens'[t].version = tokens[t].version
              /\ tokens'[t].late = tokens[t].late
              /\ tokens'[t].revoked <=> tokens[t].revoked \/ tokens[t].family \in F
  BY RevokeFacts DEF SessionInv, SessionTypes
<1>5. DOMAIN tokens' = DOMAIN tokens
  BY <1>4 DEF SessionInv, SessionTypes
<1>6. Resets' \subseteq Resets \cup {e \in {local.entry} : local.pc = "audit" /\ IsReset(e)}
  BY <1>3 DEF Resets, Completed
<1>7. SessionTypes'
  <2>1. \A q \in Requests : req'[q].pc \in HoldsToken => req'[q].token \in DOMAIN tokens'
    BY <1>3, <1>5 DEF SessionInv, SessionTypes, HoldsToken
  <2>2. \A t \in DOMAIN tokens' : tokens'[t].family \in 1 .. Len(tokens')
    BY <1>4, <1>5 DEF SessionInv, SessionTypes
  <2>3. QED
    BY <1>3, <1>4, <2>1, <2>2 DEF SessionInv, SessionTypes
<1>8. RevocationInv'
  <2>1. ASSUME NEW t \in DOMAIN tokens', NEW u \in DOMAIN tokens',
               ~ tokens'[t].revoked, tokens'[u].revoked,
               tokens'[t].family = tokens'[u].family
        PROVE  tokens'[t].late
    BY <1>4, <1>5, <2>1 DEF SessionInv, RevocationInv, RevocationSticks, Live
  <2>2. ASSUME NEW q \in Requests, req'[q].pc = "rotate"
        PROVE  ~ tokens'[req'[q].token].revoked \/ req'[q].late
    <3>1. q # r /\ req[q].pc = "rotate" /\ req[q].token \in DOMAIN tokens
      BY <1>3, <2>2 DEF SessionInv, SessionTypes, HoldsToken
    <3>2. ~ tokens[req[q].token].revoked \/ req[q].late
      BY <3>1 DEF SessionInv, RevocationInv, Live
    <3>3. QED
      BY <1>3, <1>4, <3>1, <3>2
  <2>3. QED
    BY <2>1, <2>2 DEF RevocationInv, RevocationSticks, Live
<1>9. ResetInv'
  <2>1. \A e \in Resets' : e.on <= password'
    BY <1>6 DEF SessionInv, ResetInv
  <2>2. \A q \in Requests : req'[q].pc \in {"consume", "revoke"} => req'[q].version <= password'
    BY <1>3 DEF SessionInv, ResetInv
  <2>3. ASSUME NEW e \in Resets', NEW t \in DOMAIN tokens', ~ tokens'[t].revoked
        PROVE  tokens'[t].version >= e.on \/ tokens'[t].late
    <3>1. e \in Resets
      <4>1. t \in DOMAIN tokens /\ tokens[t].family \notin F
        BY <1>4, <1>5, <2>3
      <4>2. ~ (local.pc = "audit" /\ IsReset(local.entry))
        BY <4>1
      <4>3. QED
        BY <1>6, <4>2
    <3>2. t \in DOMAIN tokens /\ ~ tokens[t].revoked
          /\ tokens'[t].version = tokens[t].version /\ tokens'[t].late = tokens[t].late
      BY <1>4, <1>5, <2>3
    <3>3. QED
      BY <3>1, <3>2 DEF SessionInv, ResetInv, Live
  <2>4. ASSUME NEW e \in Resets', NEW q \in Requests, req'[q].pc = "login"
        PROVE  req'[q].version >= e.on \/ req'[q].late
    <3>1. q # r /\ req[q].pc = "login"
      BY <1>3, <2>4
    <3>2. CASE e \in Resets
      BY <1>3, <3>1, <3>2 DEF SessionInv, ResetInv
    <3>3. CASE e \notin Resets
      BY <1>3, <1>6, <3>1, <3>3
    <3>4. QED
      BY <3>2, <3>3
  <2>5. QED
    BY <2>1, <2>2, <2>3, <2>4 DEF ResetInv, Live
<1>10. QED
  BY <1>7, <1>8, <1>9 DEF SessionInv

-----------------------------------------------------------------------------
(* The steps.                                                              *)

LEMMA SessionInit == Init => SessionInv
<1> SUFFICES ASSUME Init PROVE SessionInv
  OBVIOUS
<1>1. Idle \in Local({0}) /\ Idle.pc = "idle"
  BY IdleType
<1>2. req \in [Requests -> Local({0})] /\ \A r \in Requests : req[r].pc = "idle"
  BY <1>1 DEF Init
<1>3. tokens \in Seq(RefreshToken) /\ DOMAIN tokens = {}
  BY DEF Init
<1>4. SessionTypes
  BY <1>2, <1>3 DEF SessionTypes, HoldsToken, Init
<1>5. RevocationInv
  BY <1>2, <1>3 DEF RevocationInv, RevocationSticks
<1>6. Resets = {}
  BY <1>2 DEF Resets, Completed, Init
<1>7. ResetInv
  BY <1>2, <1>6 DEF ResetInv
<1>8. QED
  BY <1>4, <1>5, <1>7 DEF SessionInv

LEMMA AuditingFacts ==
  ASSUME NEW a \in {"user_registered", "login_succeeded", "logout",
                    "password_reset_completed"},
         NEW on \in Nat, NEW S, 0 \in S
  PROVE  /\ Auditing(a, on) \in Local(S) /\ Auditing(a, on).pc = "audit"
         /\ Auditing(a, on).entry.on = on
         /\ IsReset(Auditing(a, on).entry) <=> a = "password_reset_completed"
BY AccountsAssumption DEF Auditing, Idle, Local, NoEntry, AuditEntry, IsReset

\* Registration, the audit row, and a crash.
LEMMA PlainSteps ==
  ASSUME SessionInv, NEW r \in Requests,
         RegisterCreate(r) \/ RecordAudit(r) \/ CrashRequest(r) \/ ForgotEnqueue(r)
  PROVE  SessionInv'
<1>0. PICK U : U = {0}
  OBVIOUS
<1>1. Idle \in Local(U) /\ Harmless(Idle) /\ Idle.pc = "idle"
  BY <1>0, IdleType DEF Harmless, HoldsToken
<1>2. password \in Nat /\ now \in Nat
  BY DEF SessionInv, SessionTypes
<1>3. CASE RegisterCreate(r)
  <2>1. PICK local : local = Auditing("user_registered", 1)
    OBVIOUS
  <2>2. local \in Local(U) /\ local.pc = "audit" /\ ~ IsReset(local.entry)
    BY <1>0, <2>1, AuditingFacts
  <2>3. /\ req' = [req EXCEPT ![r] = local] /\ password = 0 /\ password' = 1
        /\ UNCHANGED <<tokens, now, audit>>
    BY <1>3, <2>1 DEF RegisterCreate, Becomes, CreateUser, GetByEmail
  <2>4. Harmless(local)
    BY <2>2 DEF Harmless, HoldsToken
  <2>5. /\ req' = [req EXCEPT ![r] = local] /\ UNCHANGED <<tokens, audit>>
        /\ now' \in Nat /\ password' \in Nat /\ password' >= password
    BY <1>2, <2>3
  <2>6. QED
    BY <2>2, <2>4, <2>5, QuietStep
<1>4. CASE RecordAudit(r)
  <2>1. /\ req' = [req EXCEPT ![r] = Idle] /\ req[r].pc = "audit"
        /\ audit' = audit \cup {req[r].entry} /\ UNCHANGED tokens
        /\ now' \in Nat /\ password' \in Nat /\ password' >= password
    BY <1>2, <1>4 DEF RecordAudit, Becomes
  <2>2. QED
    BY <1>1, <2>1, QuietStep
<1>5. CASE CrashRequest(r) \/ ForgotEnqueue(r)
  <2>1. /\ req' = [req EXCEPT ![r] = Idle] /\ UNCHANGED <<tokens, audit>>
        /\ now' \in Nat /\ password' \in Nat /\ password' >= password
    BY <1>2, <1>5 DEF CrashRequest, ForgotEnqueue, Becomes, tables
  <2>2. QED
    BY <1>1, <2>1, QuietStep
<1>6. QED
  BY <1>3, <1>4, <1>5

LEMMA LoginSteps ==
  ASSUME SessionInv, NEW r \in Requests, Login(r)
  PROVE  SessionInv'
<1>0. PICK U : U = {0}
  OBVIOUS
<1>1. password \in Nat /\ now \in Nat
  BY DEF SessionInv, SessionTypes
<1>2. PICK T : req \in [Requests -> Local(T)]
  BY DEF SessionInv, SessionTypes
<1>3. ASSUME NEW d \in Devices, LoginVerify(r, d) PROVE SessionInv'
  <2>1. PICK local : local = [Idle EXCEPT !.pc = "login", !.device = d, !.version = password]
    OBVIOUS
  <2>2. local \in Local(U) /\ local.pc = "login" /\ local.version = password
    BY <1>0, <1>1, <2>1, IdleType DEF Local, Idle, NoEntry
  <2>3. /\ req' = [req EXCEPT ![r] = local] /\ UNCHANGED <<tokens, audit>>
        /\ now' \in Nat /\ password' \in Nat /\ password' >= password
        /\ local.pc = "login" => password' = password
    BY <1>1, <1>3, <2>1 DEF LoginVerify, Becomes, tables
  <2>4. Harmless(local)
    BY <2>2 DEF Harmless, HoldsToken
  <2>5. QED
    BY <2>2, <2>3, <2>4, QuietStep
<1>4. CASE LoginCreate(r)
  <2>1. PICK f : f = Len(tokens) + 1
    OBVIOUS
  <2>2. f \in Nat /\ f \in 1 .. (Len(tokens) + 1)
        /\ \A u \in DOMAIN tokens : tokens[u].family # f
    BY <2>1 DEF SessionInv, SessionTypes
  <2>3. PICK local : local = Auditing("login_succeeded", f)
    OBVIOUS
  <2>4. local \in Local(U) /\ local.pc = "audit" /\ ~ IsReset(local.entry)
    BY <2>2, <1>0, <2>3, AuditingFacts
  <2>5. /\ req' = [req EXCEPT ![r] = local] /\ req[r].pc = "login"
        /\ UNCHANGED <<now, password, audit>>
        /\ tokens' = CreateToken(f, req[r].device, now, req[r].version, req[r].late)
    BY <1>4, <2>1, <2>3 DEF LoginCreate, Becomes
  <2>6. /\ req[r].device \in Devices /\ req[r].version \in Nat /\ req[r].late \in BOOLEAN
    BY <1>2 DEF Local
  <2>7. \A e \in Resets : req[r].version >= e.on \/ req[r].late
    BY <2>5 DEF SessionInv, ResetInv
  <2>8. QED
    BY <1>1, <2>2, <2>4, <2>5, <2>6, <2>7, InsertStep
<1>5. QED
  BY <1>3, <1>4 DEF Login

LEMMA RefreshSteps ==
  ASSUME SessionInv, NEW r \in Requests, Refresh(r)
  PROVE  SessionInv'
<1>1. password \in Nat /\ now \in Nat
  BY DEF SessionInv, SessionTypes
<1>2. PICK T : req \in [Requests -> Local(T)]
  BY DEF SessionInv, SessionTypes
<1>3. ASSUME NEW t \in DOMAIN tokens, NEW d \in Devices, RefreshRead(r, t, d)
      PROVE  SessionInv'
  <2>1. PICK U : U = {0, t}
    OBVIOUS
  <2>2. PICK pc \in {"rotate", "reuse"} :
          pc = IF tokens[t].usedAt = None THEN "rotate" ELSE "reuse"
    OBVIOUS
  <2>3. PICK local : local = [Idle EXCEPT !.pc = pc, !.token = t, !.device = d, !.at = now]
    OBVIOUS
  <2>4. local \in Local(U) /\ local.pc = pc /\ local.token = t
    BY <1>1, <2>1, <2>3, IdleType DEF Local, Idle, NoEntry
  <2>5. /\ req' = [req EXCEPT ![r] = local] /\ UNCHANGED <<tokens, audit>>
        /\ now' \in Nat /\ password' \in Nat /\ password' >= password
    BY <1>1, <1>3, <2>2, <2>3 DEF RefreshRead, Becomes, tables
  <2>6. Live(t)
    BY <1>3 DEF RefreshRead, Usable, Live
  <2>7. Harmless(local)
    BY <2>4, <2>6 DEF Harmless, HoldsToken
  <2>8. QED
    BY <2>4, <2>5, <2>7, QuietStep
<1>4. CASE RefreshCreate(r)
  <2>1. PICK i : i = req[r].token
    OBVIOUS
  <2>2. req[r].pc = "rotate" /\ i \in DOMAIN tokens
    BY <1>4, <2>1 DEF RefreshCreate, SessionInv, SessionTypes, HoldsToken
  <2>3. /\ tokens[i].family \in 1 .. Len(tokens) /\ tokens[i].version \in Nat
        /\ tokens[i].late \in BOOLEAN /\ Len(tokens) \in Nat
    <3>1. tokens \in Seq(RefreshToken) /\ tokens[i].family \in 1 .. Len(tokens)
      BY <2>2 DEF SessionInv, SessionTypes
    <3>2. tokens[i] \in RefreshToken /\ Len(tokens) \in Nat
      BY <2>2, <3>1
    <3>3. QED
      BY <3>1, <3>2 DEF RefreshToken
  <2>4. /\ req[r].device \in Devices /\ req[r].at \in Nat /\ req[r].late \in BOOLEAN
        /\ req[r].version \in Nat
    BY <1>2 DEF Local
  <2>5. PICK l \in BOOLEAN : l = (tokens[i].late \/ req[r].late)
    OBVIOUS
  <2>6. l <=> tokens[i].late \/ req[r].late
    BY <2>3, <2>4, <2>5, Zenon
  <2>7. Live(i) \/ l
    BY <2>1, <2>2, <2>6 DEF SessionInv, RevocationInv
  <2>8. ASSUME NEW u \in DOMAIN tokens, ~ Live(u), tokens[u].family = tokens[i].family
        PROVE  l
    BY <2>2, <2>6, <2>7, <2>8 DEF SessionInv, RevocationInv, RevocationSticks
  <2>9. ASSUME NEW e \in Resets PROVE tokens[i].version >= e.on \/ l
    BY <2>2, <2>6, <2>7 DEF SessionInv, ResetInv
  <2>10. PICK made : made = Len(tokens) + 1
    OBVIOUS
  <2>11. PICK local : local = [req[r] EXCEPT !.pc = "mark", !.made = made]
    OBVIOUS
  <2>12. local \in Local(T) /\ local.pc = "mark" /\ local.token = i
    <3>1. req[r] \in Local(T) /\ made \in Nat
      BY <1>2, <2>3, <2>10
    <3>2. local \in Local(T) /\ local.pc = "mark" /\ local.token = req[r].token
      BY <2>11, <3>1 DEF Local
    <3>3. QED
      BY <2>1, <3>2
  <2>13. PICK f : f = tokens[i].family
    OBVIOUS
  <2>14. /\ f \in 1 .. (Len(tokens) + 1)
         /\ \A u \in DOMAIN tokens : ~ Live(u) /\ tokens[u].family = f => l
    BY <2>3, <2>8, <2>13
  <2>15. /\ req' = [req EXCEPT ![r] = local] /\ UNCHANGED <<password, audit, now>>
         /\ tokens' = CreateToken(f, req[r].device, req[r].at, tokens[i].version, l)
    BY <1>4, <2>1, <2>5, <2>10, <2>11, <2>13 DEF RefreshCreate, Becomes
  <2>16. QED
    BY <2>2, <2>3, <2>4, <2>9, <2>12, <2>14, <2>15, InsertStep
<1>5. CASE RefreshReused(r)
  <2>1. PICK F : F = {tokens[req[r].token].family}
    OBVIOUS
  <2>2. PICK U : U = {0}
    OBVIOUS
  <2>3. Idle \in Local(U) /\ Idle.pc = "idle"
    BY <2>2, IdleType
  <2>4. /\ tokens' = RevokeFamily(tokens[req[r].token].family)
        /\ req' = [Overtaken(F, FALSE) EXCEPT ![r] = Idle]
        /\ UNCHANGED <<password, audit, now>>
    BY <1>5, <2>1 DEF RefreshReused
  <2>5. tokens' = [t \in DOMAIN tokens |->
                     [tokens[t] EXCEPT !.revoked = @ \/ tokens[t].family \in F]]
    BY <2>1, <2>4 DEF RevokeFamily
  <2>6. QED
    BY <2>3, <2>4, <2>5, RevokeStep
<1>6. QED
  BY <1>3, <1>4, <1>5, MarkStep DEF Refresh

LEMMA LogoutSteps ==
  ASSUME SessionInv, NEW r \in Requests, Logout(r)
  PROVE  SessionInv'
<1>1. password \in Nat /\ now \in Nat
  BY DEF SessionInv, SessionTypes
<1>2. ASSUME NEW t \in {0} \cup DOMAIN tokens, LogoutDeny(r, t) PROVE SessionInv'
  <2>1. PICK U : U = {0, t}
    OBVIOUS
  <2>2. PICK bare : bare = Auditing("logout", 0)
    OBVIOUS
  <2>3. bare \in Local(U) /\ bare.pc = "audit" /\ ~ IsReset(bare.entry)
    BY <2>1, <2>2, AuditingFacts
  <2>4. PICK held : held = [Idle EXCEPT !.pc = "logout", !.token = t]
    OBVIOUS
  <2>5. held \in Local(U) /\ held.pc = "logout" /\ held.token = t
    BY <2>1, <2>4, IdleType DEF Local, Idle, NoEntry
  <2>6. PICK local \in {bare, held} : local = IF t = 0 THEN bare ELSE held
    OBVIOUS
  <2>7. local \in Local(U) /\ Harmless(local)
        /\ local.pc \notin {"login", "consume", "revoke"}
    <3>1. CASE t = 0
      BY <2>3, <2>6, <3>1 DEF Harmless, HoldsToken
    <3>2. CASE t # 0
      BY <2>5, <2>6, <3>2 DEF Harmless, HoldsToken
    <3>3. QED
      BY <3>1, <3>2
  <2>8. /\ req' = [req EXCEPT ![r] = local] /\ UNCHANGED <<tokens, audit>>
        /\ now' \in Nat /\ password' \in Nat /\ password' >= password
    BY <1>1, <1>2, <2>2, <2>4, <2>6 DEF LogoutDeny, Becomes, tables
  <2>9. QED
    BY <2>7, <2>8, QuietStep
<1>3. CASE LogoutRevoke(r)
  <2>1. PICK f : f = tokens[req[r].token].family
    OBVIOUS
  <2>2. PICK U : U = {0}
    OBVIOUS
  <2>3. f \in Nat
    BY <1>3, <2>1 DEF LogoutRevoke, SessionInv, SessionTypes, HoldsToken
  <2>4. PICK local : local = Auditing("logout", f)
    OBVIOUS
  <2>5. local \in Local(U) /\ local.pc = "audit" /\ ~ IsReset(local.entry)
    BY <2>2, <2>3, <2>4, AuditingFacts
  <2>6. PICK F : F = {f}
    OBVIOUS
  <2>7. /\ tokens' = RevokeFamily(f)
        /\ req' = [Overtaken(F, FALSE) EXCEPT ![r] = local]
        /\ UNCHANGED <<password, audit, now>>
    BY <1>3, <2>1, <2>4, <2>6 DEF LogoutRevoke
  <2>8. tokens' = [t \in DOMAIN tokens |->
                     [tokens[t] EXCEPT !.revoked = @ \/ tokens[t].family \in F]]
    BY <2>6, <2>7 DEF RevokeFamily
  <2>9. QED
    BY <2>5, <2>7, <2>8, RevokeStep
<1>4. QED
  BY <1>2, <1>3 DEF Logout

LEMMA PasswordResetSteps ==
  ASSUME SessionInv, NEW r \in Requests, RequestPasswordReset(r) \/ ResetPassword(r)
  PROVE  SessionInv'
<1>0. PICK U : U = {0}
  OBVIOUS
<1>1. password \in Nat /\ now \in Nat
  BY DEF SessionInv, SessionTypes
<1>2. PICK T : req \in [Requests -> Local(T)]
  BY DEF SessionInv, SessionTypes
<1>3. req[r] \in Local(T) /\ req[r].version \in Nat
  BY <1>2 DEF Local
<1>4. CASE ForgotCreate(r)
  <2>1. PICK made \in Nat : made = Len(codes) + 1
    BY <1>4
  <2>2. PICK local : local = [Idle EXCEPT !.pc = "mail", !.made = made]
    OBVIOUS
  <2>3. local \in Local(U) /\ local.pc = "mail"
    BY <1>0, <2>1, <2>2, IdleType DEF Local, Idle, NoEntry
  <2>4. /\ req' = [req EXCEPT ![r] = local] /\ UNCHANGED <<tokens, audit>>
        /\ now' \in Nat /\ password' \in Nat /\ password' >= password
    BY <1>1, <1>4, <2>1, <2>2 DEF ForgotCreate, Becomes
  <2>5. Harmless(local)
    BY <2>3 DEF Harmless, HoldsToken
  <2>6. QED
    BY <2>3, <2>4, <2>5, QuietStep
<1>5. ASSUME NEW c \in inbox, ResetRead(r, c) PROVE SessionInv'
  <2>1. PICK V : V = {0, c}
    OBVIOUS
  <2>2. PICK local : local = [Idle EXCEPT !.pc = "update", !.token = c]
    OBVIOUS
  <2>3. local \in Local(V) /\ local.pc = "update"
    BY <2>1, <2>2, IdleType DEF Local, Idle, NoEntry
  <2>4. /\ req' = [req EXCEPT ![r] = local] /\ UNCHANGED <<tokens, audit>>
        /\ now' \in Nat /\ password' \in Nat /\ password' >= password
    BY <1>1, <1>5, <2>2 DEF ResetRead, Becomes, tables
  <2>5. Harmless(local)
    BY <2>3 DEF Harmless, HoldsToken
  <2>6. QED
    BY <2>3, <2>4, <2>5, QuietStep
<1>6. CASE ResetUpdate(r)
  <2>1. PICK local : local = [req[r] EXCEPT !.pc = "consume", !.version = password + 1]
    OBVIOUS
  <2>2. local \in Local(T) /\ local.pc = "consume" /\ local.version = password + 1
    <3>1. PICK moved : moved = [req[r] EXCEPT !.pc = "consume"]
      OBVIOUS
    <3>2. moved \in Local(T) /\ moved.pc = "consume"
      BY <1>3, <3>1 DEF Local
    <3>3. local = [moved EXCEPT !.version = password + 1]
      BY <2>1, <3>1
    <3>4. password + 1 \in Nat
      BY <1>1
    <3>5. QED
      BY <3>2, <3>3, <3>4 DEF Local
  <2>3. /\ req' = [req EXCEPT ![r] = local] /\ UNCHANGED <<tokens, audit>>
        /\ now' \in Nat /\ password' \in Nat /\ password' >= password
        /\ local.version <= password'
    BY <1>1, <1>6, <2>1, <2>2 DEF ResetUpdate, Becomes, UpdatePasswordHash
  <2>4. Harmless(local)
    BY <2>2 DEF Harmless, HoldsToken
  <2>5. QED
    BY <2>2, <2>3, <2>4, QuietStep
<1>7. CASE ResetConsume(r)
  <2>1. PICK local : local = [req[r] EXCEPT !.pc = "revoke"]
    OBVIOUS
  <2>2. local \in Local(T) /\ local.pc = "revoke" /\ local.version = req[r].version
    BY <1>3, <2>1 DEF Local
  <2>3. req[r].version <= password
    BY <1>7 DEF ResetConsume, SessionInv, ResetInv
  <2>4. /\ req' = [req EXCEPT ![r] = local] /\ UNCHANGED <<tokens, audit>>
        /\ now' \in Nat /\ password' \in Nat /\ password' >= password
        /\ local.version <= password'
    BY <1>1, <1>7, <2>1, <2>2, <2>3 DEF ResetConsume, Becomes
  <2>5. Harmless(local)
    BY <2>2 DEF Harmless, HoldsToken
  <2>6. QED
    BY <2>2, <2>4, <2>5, QuietStep
<1>8. CASE ResetRevoke(r)
  <2>1. PICK v \in Nat : v = req[r].version
    BY <1>3
  <2>2. v <= password
    BY <1>8, <2>1 DEF ResetRevoke, SessionInv, ResetInv
  <2>3. PICK local : local = Auditing("password_reset_completed", v)
    OBVIOUS
  <2>4. local \in Local(U) /\ local.pc = "audit" /\ local.entry.on = v
    BY <1>0, <2>1, <2>3, AuditingFacts
  <2>5. PICK F : F = {tokens[t].family : t \in DOMAIN tokens}
    OBVIOUS
  <2>6. \A t \in DOMAIN tokens : tokens[t].family \in F
    BY <2>5
  <2>7. /\ req' = [Overtaken(F, TRUE) EXCEPT ![r] = local]
        /\ UNCHANGED <<password, audit, now>>
    BY <1>8, <2>1, <2>3, <2>5 DEF ResetRevoke
  <2>8. tokens' = [t \in DOMAIN tokens |->
                     [tokens[t] EXCEPT !.revoked = @ \/ tokens[t].family \in F]]
    <3>1. tokens' = RevokeAllForUser
      BY <1>8 DEF ResetRevoke
    <3>2. QED
      BY <2>6, <3>1, Zenon DEF RevokeAllForUser
  <2>9. QED
    BY <2>2, <2>4, <2>6, <2>7, <2>8, RevokeStep
<1>9. QED
  BY <1>4, <1>5, <1>6, <1>7, <1>8, PlainSteps DEF RequestPasswordReset, ResetPassword

LEMMA SessionStep == SessionInv /\ [Next]_vars => SessionInv'
<1> SUFFICES ASSUME SessionInv, [Next]_vars PROVE SessionInv'
  OBVIOUS
<1>1. ASSUME NEW r \in Requests, RequestStep(r) PROVE SessionInv'
  BY <1>1, PlainSteps, LoginSteps, RefreshSteps, LogoutSteps, PasswordResetSteps
     DEF RequestStep, Register
<1>2. CASE Mailer \/ CrashMailer \/ Tick \/ UNCHANGED vars
  <2>1. UNCHANGED <<password, tokens, audit, req>>
    BY <1>2 DEF Mailer, MailFetch, MailSend, MailFail, MailMark, CrashMailer, Tick,
                vars, tables, mail
  <2>2. now' \in Nat
    BY <1>2 DEF Mailer, MailFetch, MailSend, MailFail, MailMark, CrashMailer, Tick,
                vars, SessionInv, SessionTypes
  <2>3. QED
    BY <2>1, <2>2, OtherStep
<1>3. QED
  BY <1>1, <1>2 DEF Next

-----------------------------------------------------------------------------
(* Theorems.                                                               *)

\* Revocation reaches the whole family: what survives it was inserted by a
\* refresh that had read its token before (RefreshSession, revoke_family).
THEOREM RevocationsStick == Spec => []RevocationSticks
<1>1. SessionInv => RevocationSticks
  BY DEF SessionInv, RevocationInv
<1>2. QED
  BY <1>1, SessionInit, SessionStep, PTL DEF Spec

\* A completed password reset has ended the sessions of earlier passwords, but
\* for those inserted by a request it overtook (ResetPassword.execute).
THEOREM ResetsEndSessions == Spec => []ResetEndsSessions
<1>1. SessionInv => ResetEndsSessions
  BY DEF SessionInv, ResetInv, ResetEndsSessions, Resets, IsReset
<1>2. QED
  BY <1>1, SessionInit, SessionStep, PTL DEF Spec
=============================================================================
