------------------------ MODULE RequestGate_proofs ------------------------
(***************************************************************************)
(* What holds of RequestGate for any limit, window, lifetime and length of *)
(* a tick, and any number of requests, tokens and outages.                 *)
(***************************************************************************)
EXTENDS RequestGate, TLAPS

-----------------------------------------------------------------------------
(* Types.                                                                  *)

LEMMA TypeInit == GateInit => GateTypeOK
BY GateAssumption DEF GateInit, GateTypeOK, Full, Capacity, Bucket, Idle, Visit

\* A token of a request or of a logout is one that was issued, and a logout
\* denies it nearly to its end.
GateInv ==
  /\ GateTypeOK
  /\ Len(access) <= MaxTokens
  /\ \A r \in Slots : visit[r].jti \in {0} \cup DOMAIN access
  /\ \A r \in Slots : visit[r].pc = "session" => visit[r].jti # 0
  /\ \A j \in loggedOut :
       j \in DOMAIN access /\ denied[j] > access[j] - PerSecond
  /\ LogoutHolds

LEMMA IdleType == Idle \in Visit /\ Idle.jti = 0 /\ Idle.pc = "idle"
BY GateAssumption DEF Idle, Visit

LEMMA PresentedType ==
  ASSUME NEW j \in Nat, NEW k, k = [Idle EXCEPT !.pc = "session", !.jti = j]
  PROVE  k \in Visit /\ k.jti = j
BY IdleType DEF Visit

\* A local variable of a request is replaced.
LEMMA BecomesType ==
  ASSUME GateInv, NEW r \in Slots, NEW k \in Visit, Continues(r, k),
         k.jti \in {0} \cup DOMAIN access, k.pc = "session" => k.jti # 0
  PROVE  /\ visit' \in [Slots -> Visit]
         /\ \A q \in Slots : visit'[q].jti \in {0} \cup DOMAIN access
         /\ \A q \in Slots : visit'[q].pc = "session" => visit'[q].jti # 0
BY DEF Continues, GateInv, GateTypeOK

LEMMA RefillType ==
  ASSUME NEW b \in Bucket, NEW at \in 0 .. MaxNow
  PROVE  /\ Refill(b, at) \in 0 .. Capacity
         /\ Refill(b, at) <= b.units + (IF at > b.ts THEN at - b.ts ELSE 0) * Limit
         /\ Drawn(b, at) \in Bucket
         /\ Drawn(b, at).ts = at
         /\ Drawn(b, at).units =
              IF Allows(b, at) THEN Refill(b, at) - WindowTicks ELSE Refill(b, at)
<1>1. Capacity \in Nat
  BY GateAssumption DEF Capacity
<1>2. PICK e \in Nat : e = (IF at > b.ts THEN at - b.ts ELSE 0) * Limit
  <2>1. (IF at > b.ts THEN at - b.ts ELSE 0) \in Nat
    BY GateAssumption DEF Bucket
  <2>2. QED
    BY <2>1, GateAssumption
<1>3. /\ Refill(b, at) \in 0 .. Capacity
      /\ Refill(b, at) <= b.units + e
  BY <1>1, <1>2 DEF Refill, Least, Bucket
<1>4. QED
  BY <1>1, <1>2, <1>3, GateAssumption DEF Drawn, Allows, Bucket

\* exp is a natural number.
LEMMA ExpiryType ==
  ASSUME now \in Nat
  PROVE  ((now \div PerSecond) + AccessTtl) * PerSecond \in Nat
<1>1. now \div PerSecond \in Nat
  BY GateAssumption
<1>2. QED
  BY <1>1, GateAssumption

\* The denial ends after the token has less than a second to live.
LEMMA DenialReaches ==
  ASSUME GateTypeOK, NEW j \in DOMAIN access
  PROVE  DenyTtl(j) \in Nat /\ now + DenyTtl(j) > access[j] - PerSecond
<1> DEFINE x == access[j] - now
           s == x \div PerSecond
<1>1. x \in Int /\ PerSecond \in Nat \ {0}
  BY GateAssumption DEF GateTypeOK
<1>2. s \in Int /\ x < s * PerSecond + PerSecond
  BY <1>1
<1>3. DenyTtl(j) = (IF s > 1 THEN s ELSE 1) * PerSecond
  BY DEF DenyTtl
<1>4. now \in Nat /\ access[j] = now + x
  BY DEF GateTypeOK
<1> HIDE DEF x, s
<1>5. CASE s > 1
  <2>1. PICK n \in Nat : n = s * PerSecond
    BY <1>1, <1>2, <1>5
  <2>2. QED
    BY <1>1, <1>2, <1>3, <1>4, <1>5, <2>1
<1>6. CASE ~ (s > 1)
  <2>1. s * PerSecond <= PerSecond
    BY <1>1, <1>2, <1>6
  <2>2. QED
    BY <1>1, <1>2, <1>3, <1>4, <1>6, <2>1
<1>7. QED
  BY <1>5, <1>6

\* The rest of an action that leaves the tokens alone is typed.
LEMMA TokensStay ==
  ASSUME GateInv, UNCHANGED <<access, denied, loggedOut, late>>,
         visit' \in [Slots -> Visit],
         \A q \in Slots : visit'[q].jti \in {0} \cup DOMAIN access,
         \A q \in Slots : visit'[q].pc = "session" => visit'[q].jti # 0,
         now' \in 0 .. MaxNow, redisUp' \in BOOLEAN,
         apiKey' \in {"active", "revoked"},
         bucket' \in Bucket, local' \in Bucket,
         passed' \in Seq(0 .. MaxNow), slipped' \in Nat,
         begun' \in 0 .. MaxRequests, outages' \in 0 .. MaxOutages
  PROVE  GateInv'
<1>1. GateTypeOK'
  BY DEF GateInv, GateTypeOK
<1>2. QED
  BY <1>1 DEF GateInv, LogoutHolds

LEMMA GateHolds == GateInit => GateInv
BY TypeInit, GateAssumption DEF GateInit, GateInv, Idle, LogoutHolds

LEMMA GateStep == GateInv /\ [GateNext]_gateVars => GateInv'
<1> SUFFICES ASSUME GateInv, [GateNext]_gateVars PROVE GateInv'
  OBVIOUS
<1> USE GateAssumption, IdleType
<1>0. GateTypeOK
  BY DEF GateInv
<1>1. CASE Issue
  <2> DEFINE exp == ((now \div PerSecond) + AccessTtl) * PerSecond
  <2>1. exp \in Nat
    BY <1>0, ExpiryType DEF GateTypeOK
  <2>2. access' = Append(access, exp)
    BY <1>1 DEF Issue
  <2> HIDE DEF exp
  <2>3. /\ access' \in Seq(Nat) /\ Len(access') = Len(access) + 1
        /\ DOMAIN access \subseteq DOMAIN access'
        /\ \A j \in DOMAIN access : access'[j] = access[j]
    BY <1>0, <2>1, <2>2 DEF GateTypeOK
  <2>4. /\ UNCHANGED <<now, redisUp, denied, loggedOut, apiKey, late, limits, visit,
                        begun, outages>>
        /\ Len(access) < MaxTokens
    BY <1>1 DEF Issue
  <2>5. GateTypeOK'
    BY <1>0, <2>3, <2>4 DEF GateTypeOK, limits
  <2>6. LogoutHolds'
    BY <2>4 DEF GateInv, LogoutHolds
  <2>7. /\ Len(access') <= MaxTokens
        /\ \A r \in Slots : visit'[r].jti \in {0} \cup DOMAIN access'
        /\ \A r \in Slots : visit'[r].pc = "session" => visit'[r].jti # 0
    BY <1>0, <2>3, <2>4 DEF GateInv, GateTypeOK
  <2>8. ASSUME NEW j \in loggedOut'
        PROVE  j \in DOMAIN access' /\ denied'[j] > access'[j] - PerSecond
    <3>1. j \in DOMAIN access /\ denied[j] > access[j] - PerSecond
      BY <2>4, <2>8 DEF GateInv
    <3>2. QED
      BY <2>3, <2>4, <3>1
  <2>9. QED
    BY <2>5, <2>6, <2>7, <2>8 DEF GateInv
<1>2. ASSUME NEW r \in Slots, NEW j \in 1 .. Len(access), Present(r, j) PROVE GateInv'
  <2>1. PICK k : k = [Idle EXCEPT !.pc = "session", !.jti = j]
    OBVIOUS
  <2>2. Continues(r, k)
    BY <1>2, <2>1 DEF Present
  <2>a. j \in DOMAIN access /\ j \in Nat /\ j # 0
    BY <1>0 DEF GateTypeOK
  <2>3. k \in Visit /\ k.jti = j
    BY <2>1, <2>a, PresentedType
  <2>4. /\ visit' \in [Slots -> Visit]
        /\ \A q \in Slots : visit'[q].jti \in {0} \cup DOMAIN access
        /\ \A q \in Slots : visit'[q].pc = "session" => visit'[q].jti # 0
    BY <2>2, <2>a, <2>3, BecomesType
  <2>5. begun' \in 0 .. MaxRequests
    BY <1>0, <1>2 DEF Present, Begin, GateTypeOK
  <2>6. QED
    BY <1>0, <1>2, <2>4, <2>5, TokensStay DEF Present, GateTypeOK, limits, tokens
<1>3. ASSUME NEW r \in Slots, CheckDenied(r) PROVE GateInv'
  <2> DEFINE j == visit[r].jti
  <2>1. j \in DOMAIN access
    BY <1>3 DEF CheckDenied, GateInv
  <2>a. access[j] \in Nat /\ now \in Nat
    BY <1>0, <2>1 DEF GateTypeOK
  <2>2. [visit[r] EXCEPT !.pc = "limit"] \in Visit
    BY <1>0 DEF GateTypeOK, Visit
  <2>3. /\ visit' \in [Slots -> Visit]
        /\ \A q \in Slots : visit'[q].jti \in {0} \cup DOMAIN access
        /\ \A q \in Slots : visit'[q].pc = "session" => visit'[q].jti # 0
    <3>1. CASE Continues(r, Idle)
      BY <3>1, BecomesType
    <3>2. CASE Continues(r, [visit[r] EXCEPT !.pc = "limit"])
      <4> DEFINE k == [visit[r] EXCEPT !.pc = "limit"]
      <4>1. k \in Visit /\ k.jti = visit[r].jti /\ k.pc = "limit"
        BY <1>0 DEF GateTypeOK, Visit
      <4> HIDE DEF k
      <4>2. Continues(r, k)
        BY <3>2 DEF k
      <4>3. QED
        BY <4>1, <4>2, <2>1, BecomesType
    <3>3. QED
      BY <1>3, <3>1, <3>2 DEF CheckDenied
  <2>4. ASSUME ~ IsDenied(j), redisUp, j \in loggedOut
        PROVE  access[j] - now < PerSecond
    <3>1. denied[j] \in Nat /\ denied[j] <= now
      BY <1>0, <2>1, <2>4 DEF IsDenied, GateTypeOK
    <3>2. QED
      BY <2>1, <2>a, <2>4, <3>1 DEF GateInv
  <2>b. late \subseteq Int /\ (\A left \in late : left < PerSecond)
    BY <1>0 DEF GateTypeOK, GateInv, LogoutHolds
  <2>c. late' = IF ~ IsDenied(j) /\ redisUp /\ j \in loggedOut
                  THEN late \cup {access[j] - now} ELSE late
    BY <1>3 DEF CheckDenied
  <2>5. late' \subseteq Int /\ \A left \in late' : left < PerSecond
    <3>1. CASE late' = late
      BY <2>b, <3>1
    <3>2. CASE late' = late \cup {access[j] - now} /\ access[j] - now < PerSecond
      <4>1. access[j] - now \in Int
        BY <2>a
      <4>2. QED
        BY <2>b, <3>2, <4>1
    <3>3. QED
      BY <2>c, <2>4, <3>1, <3>2
  <2>6. QED
    BY <1>3, <2>3, <2>5 DEF CheckDenied, GateInv, GateTypeOK, LogoutHolds, limits
<1>4. ASSUME NEW r \in Slots, PresentKey(r) PROVE GateInv'
  <2>1. PICK k : k = [Idle EXCEPT !.pc = "touch"]
    OBVIOUS
  <2>2. k \in Visit /\ k.jti = 0 /\ k.pc = "touch"
    BY <2>1 DEF Idle, Visit
  <2>3. /\ visit' \in [Slots -> Visit]
        /\ \A q \in Slots : visit'[q].jti \in {0} \cup DOMAIN access
        /\ \A q \in Slots : visit'[q].pc = "session" => visit'[q].jti # 0
    BY <1>4, <2>1, <2>2, BecomesType DEF PresentKey
  <2>4. begun' \in 0 .. MaxRequests
    BY <1>0, <1>4 DEF PresentKey, Begin, GateTypeOK
  <2>5. QED
    BY <1>0, <1>4, <2>3, <2>4, TokensStay DEF PresentKey, GateTypeOK, limits, tokens
<1>5. ASSUME NEW r \in Slots, TouchKey(r) PROVE GateInv'
  <2>1. PICK k : k = [visit[r] EXCEPT !.pc = "handle"]
    OBVIOUS
  <2>2. k \in Visit /\ k.jti \in {0} \cup DOMAIN access /\ k.pc = "handle"
    BY <1>0, <2>1 DEF GateInv, GateTypeOK, Visit
  <2>3. Continues(r, Idle) \/ Continues(r, k)
    BY <1>5, <2>1 DEF TouchKey
  <2>4. /\ visit' \in [Slots -> Visit]
        /\ \A q \in Slots : visit'[q].jti \in {0} \cup DOMAIN access
        /\ \A q \in Slots : visit'[q].pc = "session" => visit'[q].jti # 0
    BY <2>2, <2>3, BecomesType
  <2>5. QED
    BY <1>0, <1>5, <2>4, TokensStay DEF TouchKey, GateTypeOK, limits, tokens
<1>6. ASSUME NEW r \in Slots, ReadClock(r) PROVE GateInv'
  <2>1. PICK k : k = [visit[r] EXCEPT !.pc = "call", !.at = now]
    OBVIOUS
  <2>2. k \in Visit /\ k.jti \in {0} \cup DOMAIN access /\ k.pc = "call"
    <3>1. /\ visit[r] \in Visit /\ now \in 0 .. MaxNow
          /\ visit[r].jti \in {0} \cup DOMAIN access
      BY <1>0 DEF GateInv, GateTypeOK
    <3>2. QED
      BY <2>1, <3>1 DEF Visit
  <2>3. /\ visit' \in [Slots -> Visit]
        /\ \A q \in Slots : visit'[q].jti \in {0} \cup DOMAIN access
        /\ \A q \in Slots : visit'[q].pc = "session" => visit'[q].jti # 0
    BY <1>6, <2>1, <2>2, BecomesType DEF ReadClock
  <2>4. QED
    BY <1>0, <1>6, <2>3, TokensStay DEF ReadClock, GateTypeOK, limits, tokens
<1>7. ASSUME NEW r \in Slots, RedisCheck(r) PROVE GateInv'
  <2>1. PICK k : k = [visit[r] EXCEPT !.pc = "handle"]
    OBVIOUS
  <2>2. k \in Visit /\ k.jti \in {0} \cup DOMAIN access /\ k.pc = "handle"
    BY <1>0, <2>1 DEF GateInv, GateTypeOK, Visit
  <2>3. Continues(r, Idle) \/ Continues(r, k)
    BY <1>7, <2>1 DEF RedisCheck
  <2>4. /\ visit' \in [Slots -> Visit]
        /\ \A q \in Slots : visit'[q].jti \in {0} \cup DOMAIN access
        /\ \A q \in Slots : visit'[q].pc = "session" => visit'[q].jti # 0
    BY <2>2, <2>3, BecomesType
  <2>5. visit[r].at \in 0 .. MaxNow /\ bucket.ts \in Nat
    BY <1>0 DEF GateTypeOK, Visit, Bucket
  <2>6. slipped' \in Nat
    <3> DEFINE back == IF visit[r].at < bucket.ts THEN bucket.ts - visit[r].at ELSE 0
    <3>1. back \in Nat
      BY <2>5
    <3>2. slipped' = slipped + back /\ slipped \in Nat
      BY <1>0, <1>7 DEF RedisCheck, GateTypeOK
    <3> HIDE DEF back
    <3>3. QED
      BY <3>1, <3>2
  <2>7. bucket' \in Bucket
    BY <1>0, <1>7, <2>5, RefillType DEF RedisCheck, GateTypeOK
  <2>8. passed' \in Seq(0 .. MaxNow)
    <3>1. passed \in Seq(0 .. MaxNow) /\ passed' \in {passed, Append(passed, visit[r].at)}
      BY <1>0, <1>7 DEF RedisCheck, GateTypeOK
    <3>2. QED
      BY <2>5, <3>1
  <2>9. QED
    BY <1>0, <1>7, <2>4, <2>6, <2>7, <2>8, TokensStay DEF RedisCheck, GateTypeOK, tokens
<1>8. ASSUME NEW r \in Slots, LocalCheck(r) PROVE GateInv'
  <2>1. PICK k : k = [visit[r] EXCEPT !.pc = "handle"]
    OBVIOUS
  <2>2. k \in Visit /\ k.jti \in {0} \cup DOMAIN access /\ k.pc = "handle"
    BY <1>0, <2>1 DEF GateInv, GateTypeOK, Visit
  <2>3. Continues(r, Idle) \/ Continues(r, k)
    BY <1>8, <2>1 DEF LocalCheck
  <2>4. /\ visit' \in [Slots -> Visit]
        /\ \A q \in Slots : visit'[q].jti \in {0} \cup DOMAIN access
        /\ \A q \in Slots : visit'[q].pc = "session" => visit'[q].jti # 0
    BY <2>2, <2>3, BecomesType
  <2>5. local' \in Bucket
    BY <1>0, <1>8, RefillType DEF LocalCheck, GateTypeOK
  <2>6. QED
    BY <1>0, <1>8, <2>4, <2>5, TokensStay DEF LocalCheck, GateTypeOK, tokens
<1>9. ASSUME NEW r \in Slots, Deny(r) PROVE GateInv'
  <2> DEFINE j == visit[r].jti
             ttl == DenyTtl(j)
  <2>1. j \in DOMAIN access /\ j \in 1 .. MaxTokens
    BY <1>0, <1>9 DEF Deny, GateInv, GateTypeOK
  <2>2. ttl \in Nat /\ now + ttl > access[j] - PerSecond
    BY <1>0, <2>1, DenialReaches
  <2>3. /\ denied' = [denied EXCEPT ![j] = now + ttl]
        /\ loggedOut' = loggedOut \cup {j}
        /\ Continues(r, Idle)
        /\ UNCHANGED <<now, redisUp, access, apiKey, late, limits, begun, outages>>
    BY <1>9 DEF Deny
  <2> HIDE DEF j, ttl
  <2>4. /\ visit' \in [Slots -> Visit]
        /\ \A q \in Slots : visit'[q].jti \in {0} \cup DOMAIN access
        /\ \A q \in Slots : visit'[q].pc = "session" => visit'[q].jti # 0
    BY <2>3, BecomesType
  <2>5. /\ denied' \in [1 .. MaxTokens -> Nat]
        /\ loggedOut' \subseteq 1 .. MaxTokens
        /\ \A i \in loggedOut' : i \in DOMAIN access /\ denied'[i] > access[i] - PerSecond
    <3>1. now + ttl \in Nat /\ denied'[j] = now + ttl
      BY <1>0, <2>1, <2>2, <2>3 DEF GateTypeOK
    <3>2. QED
      BY <1>0, <2>1, <2>2, <2>3, <3>1 DEF GateTypeOK, GateInv
  <2>6. GateTypeOK'
    BY <1>0, <2>3, <2>4, <2>5 DEF GateTypeOK, limits
  <2>7. QED
    BY <2>3, <2>4, <2>5, <2>6 DEF GateInv, LogoutHolds
<1>10. ASSUME NEW r \in Slots, Handle(r) PROVE GateInv'
  <2>1. /\ visit' \in [Slots -> Visit]
        /\ \A q \in Slots : visit'[q].jti \in {0} \cup DOMAIN access
        /\ \A q \in Slots : visit'[q].pc = "session" => visit'[q].jti # 0
    BY <1>10, BecomesType DEF Handle
  <2>2. QED
    BY <1>0, <1>10, <2>1, TokensStay DEF Handle, GateTypeOK, limits, tokens
<1>11. CASE RevokeApiKey \/ Outage \/ Recover \/ Tick
  <2>1. /\ visit' = visit /\ UNCHANGED <<access, denied, loggedOut, late, limits, begun>>
        /\ now' \in 0 .. MaxNow /\ redisUp' \in BOOLEAN
        /\ apiKey' \in {"active", "revoked"} /\ outages' \in 0 .. MaxOutages
    <3>1. CASE RevokeApiKey
      BY <1>0, <3>1 DEF RevokeApiKey, GateTypeOK
    <3>2. CASE Outage
      <4>1. outages' \in 0 .. MaxOutages
        BY <1>0, <3>2 DEF Outage, GateTypeOK
      <4>2. QED
        BY <1>0, <3>2, <4>1 DEF Outage, GateTypeOK, tokens
    <3>3. CASE Recover
      BY <1>0, <3>3 DEF Recover, GateTypeOK, tokens
    <3>4. CASE Tick
      BY <1>0, <3>4 DEF Tick, GateTypeOK, tokens
    <3>5. QED
      BY <1>11, <3>1, <3>2, <3>3, <3>4
  <2>2. QED
    BY <1>0, <2>1, TokensStay DEF GateInv, GateTypeOK, limits
<1>12. CASE UNCHANGED gateVars
  BY <1>0, <1>12, TokensStay DEF gateVars, GateInv, GateTypeOK, tokens, limits
<1>13. QED
  BY <1>1, <1>2, <1>3, <1>4, <1>5, <1>6, <1>7, <1>8, <1>9, <1>10, <1>11, <1>12
     DEF GateNext, SessionOrApiKey, CurrentSession, Enforce, FailOpenCheck

\* A token that was logged out is refused until less than a second is left of
\* its life, while Redis answers, whatever the lengths of tick, second and life.
THEOREM LogoutsHold == GateSpec => []LogoutHolds
<1>1. GateSpec => []GateInv
  BY GateHolds, GateStep, PTL DEF GateSpec
<1>2. GateInv => LogoutHolds
  BY DEF GateInv
<1>3. QED
  BY <1>1, <1>2, PTL

\* Every reachable state is well typed.
THEOREM GateTypeCorrect == GateSpec => []GateTypeOK
<1>1. GateSpec => []GateInv
  BY GateHolds, GateStep, PTL DEF GateSpec
<1>2. GateInv => GateTypeOK
  BY DEF GateInv
<1>3. QED
  BY <1>1, <1>2, PTL

-----------------------------------------------------------------------------
(* The rate.                                                               *)

Drew(m) == m * WindowTicks     \* what m requests draw
Earned(t) == Limit * t         \* what is refilled in t ticks

LEMMA DrewFacts ==
  ASSUME NEW m \in Int
  PROVE  Drew(m) \in Int /\ Drew(m + 1) = Drew(m) + WindowTicks
BY GateAssumption DEF Drew

LEMMA EarnedFacts ==
  ASSUME NEW t \in Int, NEW e \in Nat
  PROVE  /\ Earned(t) \in Int /\ Earned(e) \in Nat
         /\ Earned(t + e) = Earned(t) + Earned(e)
BY GateAssumption DEF Earned

\* What the requests from the i-th on have drawn, and what is left, is no more
\* than a full bucket and the refill since then.
RateInv ==
  /\ GateInv
  /\ \A i, k \in DOMAIN passed : i <= k =>
       Drew(k - i + 1) <= Capacity + Earned(passed[k] - passed[i] + slipped)
  /\ \A i \in DOMAIN passed :
       Drew(Len(passed) - i + 1) + bucket.units <=
         Capacity + Earned(bucket.ts - passed[i] + slipped)

LEMMA RateInit == GateInit => RateInv
BY GateHolds DEF GateInit, RateInv

\* One check of the bucket, in terms of the time it goes forward, or back.
LEMMA CheckFacts ==
  ASSUME GateInv, GateInv', NEW r \in Slots, RedisCheck(r)
  PROVE  \E at, fwd, back \in Nat, R \in 0 .. Capacity :
           /\ at + back = bucket.ts + fwd
           /\ slipped' = slipped + back
           /\ R <= bucket.units + Earned(fwd)
           /\ bucket'.ts = at
           /\ \/ passed' = passed /\ bucket'.units = R
              \/ passed' = Append(passed, at) /\ bucket'.units = R - WindowTicks
<1> DEFINE at == visit[r].at
           fwd == IF at > bucket.ts THEN at - bucket.ts ELSE 0
           back == IF at < bucket.ts THEN bucket.ts - at ELSE 0
           R == Refill(bucket, at)
<1>1. GateTypeOK
  BY DEF GateInv
<1>2. at \in 0 .. MaxNow /\ bucket \in Bucket /\ bucket.ts \in Nat /\ at \in Nat
  BY <1>1, GateAssumption DEF GateTypeOK, Visit, Bucket
<1>3. fwd \in Nat /\ back \in Nat /\ at + back = bucket.ts + fwd
  BY <1>2
<1>4. slipped' = slipped + back /\ bucket' = Drawn(bucket, at)
  BY DEF RedisCheck
<1>5. passed' = IF Allows(bucket, at) THEN Append(passed, at) ELSE passed
  BY DEF RedisCheck
<1>6. R \in 0 .. Capacity /\ R <= bucket.units + fwd * Limit
  BY <1>2, RefillType
<1>7. /\ Drawn(bucket, at).ts = at
      /\ Drawn(bucket, at).units =
           IF Allows(bucket, at) THEN R - WindowTicks ELSE R
  BY <1>2, RefillType
<1> HIDE DEF at, fwd, back, R
<1>8. fwd * Limit = Earned(fwd)
  BY <1>3, GateAssumption DEF Earned
<1>9. QED
  BY <1>2, <1>3, <1>4, <1>5, <1>6, <1>7, <1>8

LEMMA RateStep == RateInv /\ [GateNext]_gateVars => RateInv'
<1> SUFFICES ASSUME RateInv, [GateNext]_gateVars PROVE RateInv'
  OBVIOUS
<1>1. GateInv /\ GateInv' /\ GateTypeOK /\ GateTypeOK'
  BY GateStep DEF RateInv, GateInv
<1>2. CASE UNCHANGED <<bucket, passed, slipped>>
  BY <1>1, <1>2 DEF RateInv
<1>3. ASSUME NEW r \in Slots, RedisCheck(r) PROVE RateInv'
  <2>1. PICK at, fwd, back \in Nat, R \in 0 .. Capacity :
          /\ at + back = bucket.ts + fwd
          /\ slipped' = slipped + back
          /\ R <= bucket.units + Earned(fwd)
          /\ bucket'.ts = at
          /\ \/ passed' = passed /\ bucket'.units = R
             \/ passed' = Append(passed, at) /\ bucket'.units = R - WindowTicks
    BY <1>1, <1>3, CheckFacts
  <2>2. PICK n \in Nat : n = Len(passed) /\ DOMAIN passed = 1 .. n
    BY <1>1 DEF GateTypeOK
  <2>3. /\ bucket.ts \in Nat /\ bucket.units \in Nat /\ slipped \in Nat
        /\ Capacity \in Nat /\ WindowTicks \in Nat
    BY <1>1, GateAssumption DEF GateTypeOK, Bucket, Capacity
  <2>4. \A i \in 1 .. n : passed[i] \in Nat
    BY <1>1, <2>2, GateAssumption DEF GateTypeOK
  <2>5. ASSUME NEW i \in 1 .. n
        PROVE  Drew(n - i + 1) + R <= Capacity + Earned(at - passed[i] + slipped')
    <3>1. PICK x \in Int : x = bucket.ts - passed[i] + slipped
      BY <2>3, <2>4
    <3>2. Drew(n - i + 1) + bucket.units <= Capacity + Earned(x)
      BY <2>2, <3>1 DEF RateInv
    <3>3. at - passed[i] + slipped' = x + fwd
      <4>1. PICK p \in Nat : p = passed[i]
        BY <2>4
      <4>2. slipped' = slipped + back /\ at + back = bucket.ts + fwd
        BY <2>1
      <4>3. x = bucket.ts - p + slipped
        BY <3>1, <4>1
      <4>4. at - p + slipped' = x + fwd
        BY <2>3, <4>2, <4>3
      <4>5. QED
        BY <4>1, <4>4
    <3>4. Earned(x) \in Int /\ Earned(fwd) \in Nat /\ Earned(x + fwd) = Earned(x) + Earned(fwd)
      BY EarnedFacts
    <3>5. PICK d \in Int : d = Drew(n - i + 1)
      <4>1. n - i + 1 \in Int
        OBVIOUS
      <4>2. QED
        BY <4>1, DrewFacts
    <3>6. d + R <= Capacity + Earned(x + fwd)
      BY <2>1, <2>3, <3>2, <3>4, <3>5
    <3>7. QED
      BY <3>3, <3>5, <3>6
  <2>6. ASSUME NEW i \in 1 .. n, NEW k \in 1 .. n, i <= k
        PROVE  Drew(k - i + 1) <= Capacity + Earned(passed[k] - passed[i] + slipped')
    <3>1. Drew(k - i + 1) <= Capacity + Earned(passed[k] - passed[i] + slipped)
      BY <2>2, <2>6 DEF RateInv
    <3>2. /\ passed[k] - passed[i] + slipped' = (passed[k] - passed[i] + slipped) + back
          /\ passed[k] - passed[i] + slipped \in Int /\ k - i + 1 \in Int
      BY <2>1, <2>3, <2>4
    <3>3. /\ Earned(passed[k] - passed[i] + slipped) \in Int /\ Earned(back) \in Nat
          /\ Earned((passed[k] - passed[i] + slipped) + back) =
               Earned(passed[k] - passed[i] + slipped) + Earned(back)
      BY <3>2, EarnedFacts
    <3>4. Drew(k - i + 1) \in Int
      BY <3>2, DrewFacts
    <3>5. QED
      BY <2>3, <3>1, <3>2, <3>3, <3>4
  <2>7. CASE passed' = passed /\ bucket'.units = R
    BY <1>1, <2>1, <2>2, <2>5, <2>6, <2>7 DEF RateInv
  <2>8. CASE passed' = Append(passed, at) /\ bucket'.units = R - WindowTicks
    <3>1. /\ bucket'.units \in Nat /\ slipped' \in Nat
          /\ Len(passed') = n + 1 /\ DOMAIN passed' = 1 .. n + 1
      BY <1>1, <2>1, <2>2, <2>8 DEF GateTypeOK, Bucket
    <3>2. passed'[n + 1] = at /\ \A i \in 1 .. n : passed'[i] = passed[i]
      BY <1>1, <2>2, <2>8 DEF GateTypeOK
    <3>3. ASSUME NEW i \in 1 .. n + 1
          PROVE  /\ Drew((n + 1) - i + 1) + bucket'.units <=
                      Capacity + Earned(at - passed'[i] + slipped')
                 /\ Drew((n + 1) - i + 1) <= Capacity + Earned(at - passed'[i] + slipped')
      <4>1. CASE i = n + 1
        <5>1. (n + 1) - i + 1 = 0 + 1 /\ at - passed'[i] + slipped' = slipped'
          BY <2>2, <3>1, <3>2, <4>1
        <5>2. Drew(0) = 0
          BY GateAssumption DEF Drew
        <5>3. Drew(0 + 1) = WindowTicks
          BY <2>3, <5>2, DrewFacts
        <5>4. Earned(slipped') \in Nat
          BY <3>1, EarnedFacts
        <5>5. QED
          BY <2>1, <2>3, <2>8, <3>1, <5>1, <5>3, <5>4
      <4>2. CASE i \in 1 .. n
        <5>1. (n + 1) - i + 1 = (n - i + 1) + 1 /\ n - i + 1 \in Int
          BY <2>2, <4>2
        <5>2. Drew((n - i + 1) + 1) = Drew(n - i + 1) + WindowTicks /\ Drew(n - i + 1) \in Int
          BY <5>1, DrewFacts
        <5>3. at - passed[i] + slipped' \in Int
          BY <2>4, <3>1, <4>2
        <5>4. Earned(at - passed[i] + slipped') \in Int
          BY <5>3, EarnedFacts
        <5>5. PICK d \in Int : d = Drew(n - i + 1)
          BY <5>2
        <5>6. PICK e \in Int : e = Earned(at - passed[i] + slipped')
          BY <5>4
        <5>7. d + R <= Capacity + e
          BY <2>5, <4>2, <5>5, <5>6
        <5>8. /\ Drew((n + 1) - i + 1) = d + WindowTicks
              /\ Earned(at - passed'[i] + slipped') = e
          BY <3>2, <4>2, <5>1, <5>2, <5>5, <5>6
        <5>9. QED
          BY <2>1, <2>3, <2>8, <3>1, <5>7, <5>8
      <4>3. QED
        BY <2>2, <3>3, <4>1, <4>2
    <3>4. ASSUME NEW i \in 1 .. n + 1, NEW k \in 1 .. n + 1, i <= k
          PROVE  Drew(k - i + 1) <= Capacity + Earned(passed'[k] - passed'[i] + slipped')
      <4>1. CASE k = n + 1
        BY <3>2, <3>3, <4>1
      <4>2. CASE k \in 1 .. n
        <5>1. i \in 1 .. n
          BY <2>2, <3>4, <4>2
        <5>2. QED
          BY <2>6, <3>2, <3>4, <4>2, <5>1
      <4>3. QED
        BY <2>2, <3>4, <4>1, <4>2
    <3>5. QED
      BY <1>1, <2>1, <3>1, <3>3, <3>4 DEF RateInv
  <2>9. QED
    BY <2>1, <2>7, <2>8
<1>4. QED
  BY <1>2, <1>3
     DEF GateNext, gateVars, limits, Issue, RevokeApiKey, Outage, Recover, Tick, SessionOrApiKey,
         CurrentSession, Present, CheckDenied, PresentKey, TouchKey, Enforce,
         ReadClock, FailOpenCheck, LocalCheck, Deny, Handle

\* Between any two of the requests it lets pass, the Redis bucket lets pass no
\* more than a full bucket, the refill and what the clocks were set back.
THEOREM RateStaysBounded == GateSpec => []RateBounded
<1>1. GateSpec => []RateInv
  BY RateInit, RateStep, PTL DEF GateSpec
<1>2. RateInv => RateBounded
  BY DEF RateInv, RateBounded, Drew, Earned
<1>3. QED
  BY <1>1, <1>2, PTL

=============================================================================
