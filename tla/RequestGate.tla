---------------------------- MODULE RequestGate ----------------------------
(***************************************************************************)
(* What a request goes through before its handler: the access token or API *)
(* key it presents (http/deps.py, adapters/jwt, adapters/redis/denylist,   *)
(* app/api_keys/verify_api_key) and the token bucket of its identity       *)
(* (http/rate_limit_deps.py, adapters/redis/rate_limiter.py), with Redis   *)
(* up or down.  Logout is the handler that writes here: it denies the      *)
(* token it came with.                                                     *)
(*                                                                         *)
(* Time is in ticks, PerSecond of them to the second: whole seconds are    *)
(* what JWTs and Redis TTLs are rounded to.  The tokens of a bucket are    *)
(* counted in units of 1 / WindowTicks, so that one tick adds Limit units. *)
(***************************************************************************)
EXTENDS Integers, Sequences, FiniteSets

CONSTANTS Slots,       \* request slots
          Limit,       \* requests per window of the rate limit class
          WindowTicks, \* window_seconds, in ticks
          PerSecond,   \* ticks in a second
          AccessTtl,   \* lifetime of an access token, in seconds
          MaxTokens,   \* bound: access tokens issued
          MaxRequests, \* bound: requests in all
          MaxOutages,  \* bound: times Redis goes down
          MaxNow       \* bound: ticks of the clock

ASSUME GateAssumption ==
          /\ Limit \in Nat \ {0} /\ WindowTicks \in Nat \ {0}
          /\ PerSecond \in Nat \ {0} /\ AccessTtl \in Nat
          /\ MaxTokens \in Nat /\ MaxRequests \in Nat
          /\ MaxOutages \in Nat /\ MaxNow \in Nat

VARIABLES
  now, redisUp,
  access,     \* expires_at of each access token; its position is the jti
  denied,     \* until when aether:revoked-jti:{jti} is there (0: never set)
  loggedOut,  \* the tokens whose logout has denied them
  apiKey,     \* "active" or "revoked"
  bucket,     \* ratelimit:{class}:{identity} in Redis
  local,      \* the same in the process, while Redis is down
  visit,      \* the local variables of each request
  passed,     \* the clocks of the requests the Redis bucket has let pass
  slipped,    \* by how many ticks, in all, the bucket's ts has gone back
  late,       \* passes of a logged-out token: ticks left to its expiry
  begun, outages

limits == <<bucket, local, passed, slipped>>
tokens == <<access, denied, loggedOut, apiKey, late>>
gateVars == <<now, redisUp, tokens, limits, visit, begun, outages>>

Capacity == Limit * WindowTicks
Full(at) == [units |-> Capacity, ts |-> at]
Bucket == [units : 0 .. Capacity, ts : 0 .. MaxNow]

Visit == [pc : {"idle", "session", "touch", "limit", "call", "handle"},
          jti : Nat, at : 0 .. MaxNow]
Idle == [pc |-> "idle", jti |-> 0, at |-> 0]

GateTypeOK ==
  /\ now \in 0 .. MaxNow /\ redisUp \in BOOLEAN
  /\ access \in Seq(Nat) /\ denied \in [1 .. MaxTokens -> Nat]
  /\ loggedOut \subseteq 1 .. MaxTokens /\ apiKey \in {"active", "revoked"}
  /\ bucket \in Bucket /\ local \in Bucket
  /\ visit \in [Slots -> Visit]
  /\ passed \in Seq(0 .. MaxNow) /\ slipped \in Nat /\ late \subseteq Int
  /\ begun \in 0 .. MaxRequests /\ outages \in 0 .. MaxOutages

GateInit ==
  /\ now = 0 /\ redisUp = TRUE
  /\ access = <<>> /\ denied = [j \in 1 .. MaxTokens |-> 0]
  /\ loggedOut = {} /\ apiKey = "active"
  /\ bucket = Full(0) /\ local = Full(0)
  /\ visit = [r \in Slots |-> Idle]
  /\ passed = <<>> /\ slipped = 0 /\ late = {}
  /\ begun = 0 /\ outages = 0

Continues(r, locals) == visit' = [visit EXCEPT ![r] = locals]

-----------------------------------------------------------------------------
(* Access tokens and API keys.                                             *)

\* issue_access_token: exp is cut to a whole second.
Issue ==
  /\ Len(access) < MaxTokens
  /\ access' = Append(access, ((now \div PerSecond) + AccessTtl) * PerSecond)
  /\ UNCHANGED <<now, redisUp, denied, loggedOut, apiKey, late, limits, visit, begun, outages>>

Begin(r) ==
  /\ visit[r].pc = "idle"
  /\ begun < MaxRequests
  /\ begun' = begun + 1

\* verify_access_token: PyJWT refuses a token from the second of its exp on.
Valid(j) == access[j] > now

\* get_current_session with a token of this server.
Present(r, j) ==
  /\ Begin(r)
  /\ Valid(j)
  /\ Continues(r, [Idle EXCEPT !.pc = "session", !.jti = j])
  /\ UNCHANGED <<now, redisUp, tokens, limits, outages>>

\* is_denied: Redis is asked; when it is down, nothing is denied.
IsDenied(j) == redisUp /\ denied[j] > now

\* The token is denied (401), or the request goes on.
CheckDenied(r) ==
  /\ visit[r].pc = "session"
  /\ LET j == visit[r].jti
     IN  /\ Continues(r, IF IsDenied(j) THEN Idle ELSE [visit[r] EXCEPT !.pc = "limit"])
         /\ late' = IF ~ IsDenied(j) /\ redisUp /\ j \in loggedOut
                      THEN late \cup {access[j] - now} ELSE late
  /\ UNCHANGED <<now, redisUp, access, denied, loggedOut, apiKey, limits, begun, outages>>

\* A session: the token, then the denylist.
CurrentSession(r) ==
  (\E j \in 1 .. Len(access) : Present(r, j)) \/ CheckDenied(r)

\* get_by_prefix, and the refusals of VerifyApiKey (an unknown key, another
\* secret, a revoked or expired key).
KeyAccepted == apiKey = "active"

\* VerifyApiKey: the key is read, then its last use is written.
PresentKey(r) ==
  /\ Begin(r)
  /\ KeyAccepted
  /\ Continues(r, [Idle EXCEPT !.pc = "touch"])
  /\ UNCHANGED <<now, redisUp, tokens, limits, outages>>

\* The bucket of the key is another one than the user's: it may be empty.
TouchKey(r) ==
  /\ visit[r].pc = "touch"
  /\ \E next \in {Idle, [visit[r] EXCEPT !.pc = "handle"]} : Continues(r, next)
  /\ UNCHANGED <<now, redisUp, tokens, limits, begun, outages>>

\* What the chat routes accept: a session, or a key.
SessionOrApiKey(r) == CurrentSession(r) \/ PresentKey(r) \/ TouchKey(r)

RevokeApiKey ==
  /\ apiKey = "active"
  /\ apiKey' = "revoked"
  /\ UNCHANGED <<now, redisUp, access, denied, loggedOut, late, limits, visit, begun, outages>>

-----------------------------------------------------------------------------
(* The token bucket of the user.                                           *)

Least(a, b) == IF a < b THEN a ELSE b

MutRefill(b, at) == b.units + (IF at > b.ts THEN at - b.ts ELSE 0) * Limit

\* The units of bucket b at time at: min(capacity, tokens + elapsed * rate).
Refill(b, at) ==
  Least(Capacity, b.units + (IF at > b.ts THEN at - b.ts ELSE 0) * Limit)

Allows(b, at) == Refill(b, at) >= WindowTicks

\* The bucket after one check, with the time of the check as its ts.
Drawn(b, at) ==
  [units |-> IF Allows(b, at) THEN Refill(b, at) - WindowTicks ELSE Refill(b, at),
   ts |-> at]

\* The clock is read before the script is sent: two requests may reach Redis
\* in the other order.
ReadClock(r) ==
  /\ visit[r].pc = "limit"
  /\ Continues(r, [visit[r] EXCEPT !.pc = "call", !.at = now])
  /\ UNCHANGED <<now, redisUp, tokens, limits, begun, outages>>

\* RedisTokenBucketRateLimiter.check: 429, or the handler.
RedisCheck(r) ==
  /\ visit[r].pc = "call"
  /\ redisUp
  /\ LET at == visit[r].at
         ok == Allows(bucket, at)
     IN  /\ bucket' = Drawn(bucket, at)
         /\ passed' = IF ok THEN Append(passed, at) ELSE passed
         /\ slipped' = slipped + (IF at < bucket.ts THEN bucket.ts - at ELSE 0)
         /\ Continues(r, IF ok THEN [visit[r] EXCEPT !.pc = "handle"] ELSE Idle)
  /\ UNCHANGED <<now, redisUp, tokens, local, begun, outages>>

\* LocalTokenBucketRateLimiter, the fallback: the bucket of the process, on a
\* clock of its own.
LocalCheck(r) ==
  /\ visit[r].pc = "call"
  /\ ~ redisUp
  /\ local' = Drawn(local, now)
  /\ Continues(r, IF Allows(local, now) THEN [visit[r] EXCEPT !.pc = "handle"] ELSE Idle)
  /\ UNCHANGED <<now, redisUp, tokens, bucket, passed, slipped, begun, outages>>

\* FailOpenRateLimiter: Redis, or the fallback when it fails.
FailOpenCheck(r) == RedisCheck(r) \/ LocalCheck(r)

Enforce(r) == ReadClock(r) \/ FailOpenCheck(r)

-----------------------------------------------------------------------------
(* The handlers.                                                           *)

\* RedisJtiDenylist.deny, with max(int(remaining), 1) seconds to live.
DenyTtl(j) ==
  LET seconds == (access[j] - now) \div PerSecond
  IN  (IF seconds > 1 THEN seconds ELSE 1) * PerSecond

MutDeny(r) ==
  /\ visit[r].pc = "handle"
  /\ visit[r].jti # 0
  /\ redisUp
  /\ denied' = [denied EXCEPT ![visit[r].jti] = now + PerSecond]
  /\ loggedOut' = loggedOut \cup {visit[r].jti}
  /\ Continues(r, Idle)
  /\ UNCHANGED <<now, redisUp, access, apiKey, late, limits, begun, outages>>

\* Logout; it fails when Redis is down.
Deny(r) ==
  /\ visit[r].pc = "handle"
  /\ visit[r].jti # 0
  /\ redisUp
  /\ denied' = [denied EXCEPT ![visit[r].jti] = now + DenyTtl(visit[r].jti)]
  /\ loggedOut' = loggedOut \cup {visit[r].jti}
  /\ Continues(r, Idle)
  /\ UNCHANGED <<now, redisUp, access, apiKey, late, limits, begun, outages>>

\* Any other handler, or one that fails.
Handle(r) ==
  /\ visit[r].pc = "handle"
  /\ Continues(r, Idle)
  /\ UNCHANGED <<now, redisUp, tokens, limits, begun, outages>>

Outage ==
  /\ outages < MaxOutages
  /\ redisUp
  /\ redisUp' = FALSE
  /\ outages' = outages + 1
  /\ UNCHANGED <<now, tokens, limits, visit, begun>>

\* Redis is back, with what it had.
Recover ==
  /\ ~ redisUp
  /\ redisUp' = TRUE
  /\ UNCHANGED <<now, tokens, limits, visit, begun, outages>>

Tick ==
  /\ now < MaxNow
  /\ now' = now + 1
  /\ UNCHANGED <<redisUp, tokens, limits, visit, begun, outages>>

GateNext ==
  \/ Issue \/ RevokeApiKey \/ Outage \/ Recover \/ Tick
  \/ \E r \in Slots :
       SessionOrApiKey(r) \/ Enforce(r) \/ Deny(r) \/ Handle(r)

GateSpec == GateInit /\ [][GateNext]_gateVars

-----------------------------------------------------------------------------
(* Properties.                                                             *)

\* From one request it lets pass to another, the Redis bucket never lets pass
\* more than the limit plus what is refilled between their clocks, plus the
\* refill of the ticks by which requests that reach Redis out of order have
\* set its ts back (the script stores the caller's clock without comparing).
RateBounded ==
  \A i, k \in DOMAIN passed :
    i <= k =>
      (k - i + 1) * WindowTicks <=
        Capacity + Limit * (passed[k] - passed[i] + slipped)

\* While Redis answers, a token that has been logged out is refused until less
\* than a second is left to its expiry: int() cuts the TTL of the denial to
\* whole seconds, and that fraction is all the denial falls short of.
LogoutHolds == \A left \in late : left < PerSecond
=============================================================================
