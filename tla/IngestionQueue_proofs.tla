------------------------ MODULE IngestionQueue_proofs ------------------------
(***************************************************************************)
(* Theorems about IngestionQueue, for any tenants, workers, enqueuers and  *)
(* bounds: the rotation, the wake-ups, at-least-once delivery and the       *)
(* refinement of the port.  What is stated of FaultySpec holds with        *)
(* crashes; Spec is its crash-free part.                                   *)
(***************************************************************************)
EXTENDS IngestionQueue, TLAPS

\* Each step of a process, by name: the case split of every proof below.
LEMMA StepCases ==
  ASSUME FaultyNext
  PROVE  \/ \E e \in Enqueuers, t \in Tenants : EnsureGroup(e, t)
         \/ \E e \in Enqueuers : XAdd(e) \/ EnqueueInterrupted(e)
         \/ \E p \in Procs : ScheduleSAdd(p) \/ ScheduleRPush(p)
         \/ \E w \in Workers : \/ IdlePoll(w) \/ LPop(w) \/ SRem(w)
                               \/ XPending(w) \/ XClaim(w) \/ XReadGroup(w)
                               \/ HandlerReturns(w) \/ HandlerRaises(w)
                               \/ DlqAdd(w) \/ XAck(w)
                               \/ WorkerDies(w) \/ WorkerRestarts(w)
  BY DEF FaultyNext, Next, Failure, EnqueuerNext, WorkerNext, Procs

\* A process in the middle of a call works for a tenant.
LEMMA TenantOf ==
  ASSUME ProcTypeOK, NEW p \in Procs, pc[p] \notin {"idle", "down"}
  PROVE  tenant[p] \in Tenants
  BY DEF ProcTypeOK

\* The type invariant holds initially and every step, crashes included, keeps it.
LEMMA TypeInductive ==
  /\ Init => TypeOK
  /\ TypeOK /\ [FaultyNext]_vars => TypeOK'
<1>1. Init => TypeOK
  BY ConstantsAssumption
     DEF Init, TypeOK, RedisTypeOK, ProcTypeOK, ClaimTypeOK, Entries,
         EnqueuerSteps, WorkerSteps, Holding, Procs
<1>2. ASSUME TypeOK, [FaultyNext]_vars PROVE TypeOK'
  <2> USE ConstantsAssumption, <1>2
      DEF TypeOK, RedisTypeOK, ProcTypeOK, ClaimTypeOK, Goto, Forget, ScheduleReturns, streamVars, outcomeVars,
          localVars, EnqueuerSteps, WorkerSteps, Holding, Procs, Entries
  <2>1. ASSUME NEW e \in Enqueuers, NEW t \in Tenants, EnsureGroup(e, t) PROVE TypeOK'
    <3>1. RedisTypeOK' BY <2>1 DEF EnsureGroup
    <3>2. ProcTypeOK' BY <2>1 DEF EnsureGroup
    <3>3. ClaimTypeOK' BY <2>1 DEF EnsureGroup
    <3> QED BY <3>1, <3>2, <3>3
  <2>2. ASSUME NEW e \in Enqueuers, XAdd(e) PROVE TypeOK'
    <3>1. tenant[e] \in Tenants BY <2>2 DEF XAdd
    <3>2. RedisTypeOK'
      <4>1. added' \in [Tenants -> 0 .. MaxEntries] BY <2>2, <3>1 DEF XAdd
      <4> QED BY <2>2, <4>1 DEF XAdd
    <3>3. ProcTypeOK' BY <2>2 DEF XAdd
    <3>4. ClaimTypeOK' BY <2>2 DEF XAdd
    <3> QED BY <3>2, <3>3, <3>4
  <2>3. ASSUME NEW e \in Enqueuers, EnqueueInterrupted(e) PROVE TypeOK'
    <3>1. RedisTypeOK' BY <2>3 DEF EnqueueInterrupted
    <3>2. ProcTypeOK' BY <2>3 DEF EnqueueInterrupted
    <3>3. ClaimTypeOK' BY <2>3 DEF EnqueueInterrupted
    <3> QED BY <3>1, <3>2, <3>3
  <2>4. ASSUME NEW p \in Procs, ScheduleSAdd(p) PROVE TypeOK'
    <3>1. RedisTypeOK' BY <2>4 DEF ScheduleSAdd
    <3>2. ProcTypeOK' BY <2>4 DEF ScheduleSAdd
    <3>3. ClaimTypeOK' BY <2>4 DEF ScheduleSAdd
    <3> QED BY <3>1, <3>2, <3>3
  <2>5. ASSUME NEW p \in Procs, ScheduleRPush(p) PROVE TypeOK'
    <3>1. tenant[p] \in Tenants BY <2>5 DEF ScheduleRPush
    <3>2. RedisTypeOK'
      <4>1. rotation' \in Seq(Tenants) BY <2>5, <3>1 DEF ScheduleRPush
      <4> QED BY <2>5, <4>1 DEF ScheduleRPush
    <3>3. ProcTypeOK' BY <2>5 DEF ScheduleRPush
    <3>4. ClaimTypeOK' BY <2>5 DEF ScheduleRPush
    <3> QED BY <3>2, <3>3, <3>4
  <2>6. ASSUME NEW w \in Workers, IdlePoll(w) PROVE TypeOK'
    <3>1. RedisTypeOK' BY <2>6 DEF IdlePoll, vars
    <3>2. ProcTypeOK' BY <2>6 DEF IdlePoll, vars
    <3>3. ClaimTypeOK' BY <2>6 DEF IdlePoll, vars
    <3> QED BY <3>1, <3>2, <3>3
  <2>7. ASSUME NEW w \in Workers, LPop(w) PROVE TypeOK'
    <3>1. Head(rotation) \in Tenants /\ Tail(rotation) \in Seq(Tenants)
      BY <2>7 DEF LPop
    <3>2. RedisTypeOK' BY <2>7, <3>1 DEF LPop
    <3>3. ProcTypeOK' BY <2>7, <3>1 DEF LPop
    <3>4. ClaimTypeOK' BY <2>7 DEF LPop
    <3> QED BY <3>2, <3>3, <3>4
  <2>8. ASSUME NEW w \in Workers, SRem(w) PROVE TypeOK'
    <3>1. RedisTypeOK' BY <2>8 DEF SRem
    <3>2. ProcTypeOK' BY <2>8 DEF SRem
    <3>3. ClaimTypeOK' BY <2>8 DEF SRem
    <3> QED BY <3>1, <3>2, <3>3
  <2>9. ASSUME NEW w \in Workers, XPending(w) PROVE TypeOK'
    <3>1. tenant[w] \in Tenants BY <2>9, TenantOf DEF XPending
    <3>2. RedisTypeOK' BY <2>9 DEF XPending
    <3>3. ProcTypeOK' BY <2>9 DEF XPending
    <3>4. ClaimTypeOK'
      <4>1. CASE pel[tenant[w]] = {} /\ Goto(w, "xreadgroup")
                   /\ UNCHANGED <<entry, count>>
        BY <2>9, <4>1 DEF XPending
      <4>2. ASSUME NEW i \in pel[tenant[w]],
                   entry' = [entry EXCEPT ![w] = i],
                   count' = [count EXCEPT ![w] = times[tenant[w]][i] + 1],
                   Goto(w, "xclaim")
            PROVE  ClaimTypeOK'
        <5>1. i \in Entries BY <3>1
        <5>2. times[tenant[w]][i] + 1 \in Nat BY <3>1, <5>1
        <5> QED BY <2>9, <4>2, <5>1, <5>2 DEF XPending
      <4> QED BY <2>9, <4>1, <4>2 DEF XPending
    <3> QED BY <3>2, <3>3, <3>4
  <2>10. ASSUME NEW w \in Workers, XClaim(w) PROVE TypeOK'
    <3>1. tenant[w] \in Tenants /\ entry[w] \in Entries
      BY <2>10 DEF XClaim
    <3>2. RedisTypeOK'
      <4>1. CASE UNCHANGED times BY <2>10, <4>1 DEF XClaim
      <4>2. CASE times' = [times EXCEPT ![tenant[w]][entry[w]] = @ + 1]
        <5>1. times' \in [Tenants -> [Entries -> Nat]] BY <3>1, <4>2
        <5> QED BY <2>10, <5>1 DEF XClaim
      <4> QED BY <2>10, <4>1, <4>2 DEF XClaim
    <3>3. ProcTypeOK' BY <2>10 DEF XClaim
    <3>4. ClaimTypeOK'
      <4>1. CASE Goto(w, "sadd") /\ UNCHANGED <<entry, count>>
        BY <2>10, <3>1, <4>1 DEF XClaim
      <4>2. CASE /\ entry' = [entry EXCEPT ![w] = 0]
                 /\ count' = [count EXCEPT ![w] = 0]
                 /\ Goto(w, "xreadgroup")
        BY <2>10, <4>2 DEF XClaim
      <4> QED BY <2>10, <4>1, <4>2 DEF XClaim
    <3> QED BY <3>2, <3>3, <3>4
  <2>11. ASSUME NEW w \in Workers, XReadGroup(w) PROVE TypeOK'
    <3> DEFINE t == tenant[w]
               i == cursor[t] + 1
    <3>1. t \in Tenants BY <2>11, TenantOf DEF XReadGroup, ReadFresh, NoneFresh
    <3>2. CASE /\ cursor[t] < added[t]
               /\ cursor' = [cursor EXCEPT ![t] = i]
               /\ pel' = [pel EXCEPT ![t] = @ \cup {i}]
               /\ times' = [times EXCEPT ![t][i] = 1]
               /\ entry' = [entry EXCEPT ![w] = i]
               /\ count' = [count EXCEPT ![w] = 1]
               /\ Goto(w, "sadd")
               /\ UNCHANGED tenant
      <4>1. i \in Entries BY <3>1, <3>2
      <4> HIDE DEF i
      <4>2. cursor' \in [Tenants -> 0 .. MaxEntries] BY <3>1, <3>2, <4>1
      <4>3. pel' \in [Tenants -> SUBSET Entries] BY <3>1, <3>2, <4>1
      <4>4. times' \in [Tenants -> [Entries -> Nat]] BY <3>1, <3>2, <4>1
      <4>5. RedisTypeOK' BY <2>11, <4>2, <4>3, <4>4 DEF XReadGroup, ReadFresh, NoneFresh
      <4>6. ProcTypeOK' BY <3>1, <3>2
      <4>7. ClaimTypeOK' BY <2>11, <3>2, <4>1 DEF XReadGroup, ReadFresh, NoneFresh
      <4> QED BY <4>5, <4>6, <4>7
    <3>3. CASE Forget(w, "idle") /\ UNCHANGED <<cursor, pel, times>>
      <4>1. RedisTypeOK' BY <2>11, <3>3 DEF XReadGroup, ReadFresh, NoneFresh
      <4>2. ProcTypeOK' BY <3>3
      <4>3. ClaimTypeOK' BY <2>11, <3>3 DEF XReadGroup, ReadFresh, NoneFresh
      <4> QED BY <4>1, <4>2, <4>3
    <3> QED BY <2>11, <3>2, <3>3 DEF XReadGroup, ReadFresh, NoneFresh
  <2>12. ASSUME NEW w \in Workers, HandlerReturns(w) PROVE TypeOK'
    <3>1. RedisTypeOK' BY <2>12 DEF HandlerReturns
    <3>2. ProcTypeOK' BY <2>12 DEF HandlerReturns
    <3>3. ClaimTypeOK' BY <2>12 DEF HandlerReturns
    <3> QED BY <3>1, <3>2, <3>3
  <2>13. ASSUME NEW w \in Workers, HandlerRaises(w) PROVE TypeOK'
    <3>1. RedisTypeOK' BY <2>13 DEF HandlerRaises
    <3>2. ProcTypeOK' BY <2>13 DEF HandlerRaises
    <3>3. ClaimTypeOK'
      <4>1. CASE Goto(w, "dlqadd") /\ UNCHANGED localVars
        BY <2>13, <4>1 DEF HandlerRaises
      <4>2. CASE Forget(w, "idle")
        BY <2>13, <4>2 DEF HandlerRaises
      <4> QED BY <2>13, <4>1, <4>2 DEF HandlerRaises
    <3> QED BY <3>1, <3>2, <3>3
  <2>14. ASSUME NEW w \in Workers, DlqAdd(w) PROVE TypeOK'
    <3>1. RedisTypeOK' BY <2>14 DEF DlqAdd
    <3>2. ProcTypeOK' BY <2>14 DEF DlqAdd
    <3>3. ClaimTypeOK' BY <2>14 DEF DlqAdd
    <3> QED BY <3>1, <3>2, <3>3
  <2>15. ASSUME NEW w \in Workers, XAck(w) PROVE TypeOK'
    <3>1. RedisTypeOK' BY <2>15 DEF XAck
    <3>2. ProcTypeOK' BY <2>15 DEF XAck
    <3>3. ClaimTypeOK' BY <2>15 DEF XAck
    <3> QED BY <3>1, <3>2, <3>3
  <2>16. ASSUME NEW w \in Workers, WorkerDies(w) PROVE TypeOK'
    <3>1. RedisTypeOK' BY <2>16 DEF WorkerDies
    <3>2. ProcTypeOK' BY <2>16 DEF WorkerDies
    <3>3. ClaimTypeOK' BY <2>16 DEF WorkerDies
    <3> QED BY <3>1, <3>2, <3>3
  <2>17. ASSUME NEW w \in Workers, WorkerRestarts(w) PROVE TypeOK'
    <3>1. RedisTypeOK' BY <2>17 DEF WorkerRestarts
    <3>2. ProcTypeOK' BY <2>17 DEF WorkerRestarts
    <3>3. ClaimTypeOK' BY <2>17 DEF WorkerRestarts
    <3> QED BY <3>1, <3>2, <3>3
  <2>18. CASE UNCHANGED vars
    BY <2>18 DEF vars
  <2> QED
    BY <1>2, StepCases, <2>1, <2>2, <2>3, <2>4, <2>5, <2>6, <2>7, <2>8, <2>9,
       <2>10, <2>11, <2>12, <2>13, <2>14, <2>15, <2>16, <2>17, <2>18
<1> QED
  BY <1>1, <1>2

\* Every reachable state of the queue, crashes included, is well typed.
THEOREM TypeCorrect == FaultySpec => []TypeOK
  BY TypeInductive, PTL DEF FaultySpec
-----------------------------------------------------------------------------
(* The rotation.                                                           *)

Occurs(s, u) == \E k \in DOMAIN s : s[k] = u
Distinct(s) == \A k, l \in DOMAIN s : s[k] = s[l] => k = l

\* RPUSH adds one occurrence, at the end.
LEMMA AppendOccurs ==
  ASSUME NEW S, NEW s \in Seq(S), NEW x \in S
  PROVE  /\ \A u : Occurs(Append(s, x), u) <=> Occurs(s, u) \/ u = x
         /\ Distinct(s) /\ ~Occurs(s, x) => Distinct(Append(s, x))
<1>1. /\ DOMAIN Append(s, x) = 1 .. (Len(s) + 1)
      /\ DOMAIN s = 1 .. Len(s)
      /\ Len(s) \in Nat
      /\ \A k \in 1 .. Len(s) : Append(s, x)[k] = s[k]
      /\ Append(s, x)[Len(s) + 1] = x
  OBVIOUS
<1>2. ASSUME NEW u PROVE Occurs(Append(s, x), u) <=> Occurs(s, u) \/ u = x
  BY <1>1 DEF Occurs
<1>3. ASSUME Distinct(s), ~Occurs(s, x) PROVE Distinct(Append(s, x))
  BY <1>1, <1>3 DEF Distinct, Occurs
<1> QED
  BY <1>2, <1>3

\* LPOP of a list without repetitions removes the head and nothing else.
LEMMA TailOccurs ==
  ASSUME NEW S, NEW s \in Seq(S), s # <<>>, Distinct(s)
  PROVE  /\ Occurs(s, Head(s))
         /\ \A u : Occurs(Tail(s), u) <=> Occurs(s, u) /\ u # Head(s)
         /\ Distinct(Tail(s))
<1>1. /\ Len(s) \in Nat /\ Len(s) > 0
      /\ DOMAIN s = 1 .. Len(s)
      /\ DOMAIN Tail(s) = 1 .. (Len(s) - 1)
      /\ \A k \in 1 .. (Len(s) - 1) : Tail(s)[k] = s[k + 1]
      /\ Head(s) = s[1]
  OBVIOUS
<1>2. Occurs(s, Head(s))
  BY <1>1 DEF Occurs
<1>3. ASSUME NEW u, Occurs(Tail(s), u) PROVE Occurs(s, u) /\ u # Head(s)
  BY <1>1, <1>3 DEF Occurs, Distinct
<1>4. ASSUME NEW u, Occurs(s, u), u # Head(s) PROVE Occurs(Tail(s), u)
  <2>1. PICK k \in 1 .. Len(s) : s[k] = u BY <1>1, <1>4 DEF Occurs
  <2>2. k - 1 \in 1 .. (Len(s) - 1) /\ (k - 1) + 1 = k BY <1>1, <1>4, <2>1
  <2> QED BY <1>1, <2>1, <2>2 DEF Occurs
<1>5. Distinct(Tail(s))
  BY <1>1 DEF Distinct
<1> QED
  BY <1>2, <1>3, <1>4, <1>5
\* A step that leaves LIST and SET alone and takes no tenant in hand keeps OneToken.
LEMMA TokenFrame ==
  ASSUME OneToken, UNCHANGED <<rotation, members>>,
         \A p \in Procs, t \in Tenants : InHand(p, t)' => InHand(p, t)
  PROVE  OneToken'
  BY DEF OneToken, Token, Waiting

LEMMA OneTokenInductive ==
  /\ Init => OneToken
  /\ TypeOK /\ OneToken /\ [FaultyNext]_vars => OneToken'
<1>1. Init => OneToken
  BY DEF Init, OneToken, Token, Waiting, InHand
<1>2. ASSUME TypeOK, OneToken, [FaultyNext]_vars PROVE OneToken'
  <2> USE <1>2, ConstantsAssumption
      DEF TypeOK, ProcTypeOK, InHand, Goto, Forget, ScheduleReturns, streamVars,
          outcomeVars, localVars, Procs
  <2>1. ASSUME NEW p \in Procs, ScheduleSAdd(p) PROVE OneToken'
    <3>1. CASE tenant[p] \in members
      <4>1. members' = members BY <2>1, <3>1 DEF ScheduleSAdd
      <4> QED BY <2>1, <3>1, <4>1, TokenFrame DEF ScheduleSAdd
    <3>2. CASE tenant[p] \notin members
      <4>1. ~Token(tenant[p]) BY <2>1, <3>2 DEF ScheduleSAdd, OneToken
      <4>2. \A q \in Procs, t \in Tenants :
               InHand(q, t)' <=> InHand(q, t) \/ (q = p /\ t = tenant[p])
        BY <2>1, <3>2 DEF ScheduleSAdd
      <4>3. rotation' = rotation /\ members' = members \cup {tenant[p]}
        BY <2>1 DEF ScheduleSAdd
      <4> HIDE DEF InHand
      <4> QED BY <4>1, <4>2, <4>3 DEF OneToken, Token, Waiting
    <3> QED BY <3>1, <3>2
  <2>2. ASSUME NEW p \in Procs, ScheduleRPush(p) PROVE OneToken'
    <3> DEFINE u == tenant[p]
    <3>1. u \in Tenants /\ InHand(p, u) /\ ~Waiting(u)
      BY <2>2 DEF ScheduleRPush, OneToken
    <3>2. \A q \in Procs, t \in Tenants : InHand(q, t)' <=> InHand(q, t) /\ q # p
      BY <2>2 DEF ScheduleRPush
    <3>3. /\ \A t : Waiting(t)' <=> Waiting(t) \/ t = u
          /\ Distinct(rotation)'
      <4>1. rotation \in Seq(Tenants) BY DEF RedisTypeOK
      <4>2. Distinct(rotation) /\ ~Occurs(rotation, u)
        BY <3>1 DEF OneToken, Distinct, Occurs, Waiting
      <4>3. rotation' = Append(rotation, u) BY <2>2 DEF ScheduleRPush
      <4> HIDE DEF u
      <4> QED BY <3>1, <4>1, <4>2, <4>3, AppendOccurs DEF Occurs, Waiting
    <3>4. members' = members BY <2>2 DEF ScheduleRPush
    <3> HIDE DEF InHand, u
    <3> QED BY <3>1, <3>2, <3>3, <3>4 DEF OneToken, Token, Distinct
  <2>3. ASSUME NEW w \in Workers, LPop(w) PROVE OneToken'
    <3> DEFINE u == Head(rotation)
    <3>1. rotation \in Seq(Tenants) /\ rotation # <<>> /\ Distinct(rotation)
      BY <2>3 DEF LPop, RedisTypeOK, OneToken, Distinct
    <3>2. /\ Waiting(u)
          /\ \A t : Waiting(t)' <=> Waiting(t) /\ t # u
          /\ Distinct(rotation)'
      <4>1. rotation' = Tail(rotation) BY <2>3 DEF LPop
      <4> QED BY <3>1, <4>1, TailOccurs DEF Occurs, Waiting
    <3>3. \A q \in Procs, t \in Tenants :
             InHand(q, t)' <=> InHand(q, t) \/ (q = w /\ t = u)
      BY <2>3 DEF LPop
    <3>4. members' = members BY <2>3 DEF LPop
    <3> HIDE DEF InHand, u
    <3> QED BY <3>2, <3>3, <3>4 DEF OneToken, Token, Distinct
  <2>4. ASSUME NEW w \in Workers, SRem(w) PROVE OneToken'
    <3> DEFINE u == tenant[w]
    <3>1. u \in Tenants /\ InHand(w, u) BY <2>4 DEF SRem
    <3>2. \A q \in Procs, t \in Tenants : InHand(q, t)' <=> InHand(q, t) /\ q # w
      BY <2>4 DEF SRem
    <3>3. rotation' = rotation /\ members' = members \ {u} BY <2>4 DEF SRem
    <3> HIDE DEF InHand, u
    <3> QED BY <3>1, <3>2, <3>3 DEF OneToken, Token, Waiting
  <2>5. ASSUME NEW e \in Enqueuers, NEW t \in Tenants, EnsureGroup(e, t) PROVE OneToken'
    BY <2>5, TokenFrame DEF EnsureGroup
  <2>6. ASSUME NEW e \in Enqueuers, XAdd(e) PROVE OneToken'
    BY <2>6, TokenFrame DEF XAdd
  <2>7. ASSUME NEW e \in Enqueuers, EnqueueInterrupted(e) PROVE OneToken'
    BY <2>7, TokenFrame DEF EnqueueInterrupted
  <2>8. ASSUME NEW w \in Workers, XPending(w) PROVE OneToken'
    BY <2>8, TokenFrame DEF XPending
  <2>9. ASSUME NEW w \in Workers, XClaim(w) PROVE OneToken'
    BY <2>9, TokenFrame DEF XClaim
  <2>10. ASSUME NEW w \in Workers, XReadGroup(w) PROVE OneToken'
    BY <2>10, TokenFrame DEF XReadGroup, ReadFresh, NoneFresh
  <2>11. ASSUME NEW w \in Workers, HandlerReturns(w) PROVE OneToken'
    BY <2>11, TokenFrame DEF HandlerReturns
  <2>12. ASSUME NEW w \in Workers, HandlerRaises(w) PROVE OneToken'
    BY <2>12, TokenFrame DEF HandlerRaises
  <2>13. ASSUME NEW w \in Workers, DlqAdd(w) PROVE OneToken'
    BY <2>13, TokenFrame DEF DlqAdd
  <2>14. ASSUME NEW w \in Workers, XAck(w) PROVE OneToken'
    BY <2>14, TokenFrame DEF XAck
  <2>15. ASSUME NEW w \in Workers, WorkerDies(w) PROVE OneToken'
    BY <2>15, TokenFrame DEF WorkerDies
  <2>16. ASSUME NEW w \in Workers, WorkerRestarts(w) PROVE OneToken'
    BY <2>16, TokenFrame DEF WorkerRestarts
  <2>17. CASE UNCHANGED vars \/ \E w \in Workers : IdlePoll(w)
    BY <2>17, TokenFrame DEF IdlePoll, vars
  <2> QED
    BY StepCases, <2>1, <2>2, <2>3, <2>4, <2>5, <2>6, <2>7, <2>8, <2>9, <2>10,
       <2>11, <2>12, <2>13, <2>14, <2>15, <2>16, <2>17
<1> QED
  BY <1>1, <1>2

\* No crash and no interleaving duplicates a tenant in the rotation.
THEOREM RotationSafe == FaultySpec => []OneToken
  BY TypeInductive, OneTokenInductive, PTL DEF FaultySpec
\* RPUSH puts nobody in front of a tenant that already waits, and LPOP leaves
\* the order of the others alone.
LEMMA AppendOrder ==
  ASSUME NEW t \in Tenants, NEW u \in Tenants, NEW x \in Tenants,
         rotation \in Seq(Tenants), rotation' = Append(rotation, x),
         x # t, Before(u, t)'
  PROVE  Before(u, t)
<1>1. /\ DOMAIN rotation' = 1 .. (Len(rotation) + 1)
      /\ DOMAIN rotation = 1 .. Len(rotation)
      /\ Len(rotation) \in Nat
      /\ \A k \in 1 .. Len(rotation) : rotation'[k] = rotation[k]
      /\ rotation'[Len(rotation) + 1] = x
  OBVIOUS
<1>2. PICK k, l \in DOMAIN rotation' : k < l /\ rotation'[k] = u /\ rotation'[l] = t
  BY DEF Before
<1>3. l \in 1 .. Len(rotation) /\ k \in 1 .. Len(rotation)
  BY <1>1, <1>2
<1> QED BY <1>1, <1>2, <1>3 DEF Before

LEMMA TailOrder ==
  ASSUME NEW t \in Tenants, NEW u \in Tenants,
         rotation \in Seq(Tenants), rotation # <<>>, rotation' = Tail(rotation),
         Before(u, t)'
  PROVE  Before(u, t)
<1>1. /\ Len(rotation) \in Nat /\ Len(rotation) > 0
      /\ DOMAIN rotation = 1 .. Len(rotation)
      /\ DOMAIN rotation' = 1 .. (Len(rotation) - 1)
      /\ \A k \in 1 .. (Len(rotation) - 1) : rotation'[k] = rotation[k + 1]
  OBVIOUS
<1>2. PICK k, l \in DOMAIN rotation' : k < l /\ rotation'[k] = u /\ rotation'[l] = t
  BY DEF Before
<1>3. /\ k + 1 \in DOMAIN rotation /\ l + 1 \in DOMAIN rotation /\ k + 1 < l + 1
      /\ rotation[k + 1] = u /\ rotation[l + 1] = t
  BY <1>1, <1>2
<1> QED BY <1>3 DEF Before

\* Only RPUSH and LPOP touch the LIST, and RPUSH adds the tenant in hand.
LEMMA RotationSteps ==
  ASSUME TypeOK, [FaultyNext]_vars
  PROVE  \/ rotation' = rotation
         \/ rotation # <<>> /\ rotation' = Tail(rotation)
         \/ \E p \in Procs, x \in Tenants :
              InHand(p, x) /\ rotation' = Append(rotation, x)
<1>1. ASSUME NEW p \in Procs, ScheduleRPush(p)
      PROVE  \E x \in Tenants : InHand(p, x) /\ rotation' = Append(rotation, x)
  <2>1. tenant[p] \in Tenants BY <1>1, TenantOf DEF ScheduleRPush, TypeOK
  <2> QED BY <1>1, <2>1 DEF ScheduleRPush, InHand
<1>2. ASSUME NEW w \in Workers, LPop(w)
      PROVE  rotation # <<>> /\ rotation' = Tail(rotation)
  BY <1>2 DEF LPop
<1>3. ASSUME NEW w \in Workers,
             \/ IdlePoll(w) \/ SRem(w) \/ XPending(w) \/ XClaim(w) \/ XReadGroup(w)
             \/ HandlerReturns(w) \/ HandlerRaises(w) \/ DlqAdd(w) \/ XAck(w)
             \/ WorkerDies(w) \/ WorkerRestarts(w)
      PROVE  rotation' = rotation
  BY <1>3 DEF IdlePoll, SRem, XPending, XClaim, XReadGroup, ReadFresh, NoneFresh,
              HandlerReturns, HandlerRaises, DlqAdd, XAck, WorkerDies,
              WorkerRestarts, vars
<1>4. ASSUME NEW e \in Enqueuers, XAdd(e) \/ EnqueueInterrupted(e)
      PROVE  rotation' = rotation
  BY <1>4 DEF XAdd, EnqueueInterrupted
<1>5. ASSUME NEW e \in Enqueuers, NEW t \in Tenants, EnsureGroup(e, t)
      PROVE  rotation' = rotation
  BY <1>5 DEF EnsureGroup
<1>6. ASSUME NEW p \in Procs, ScheduleSAdd(p) PROVE rotation' = rotation
  BY <1>6 DEF ScheduleSAdd
<1>7. CASE UNCHANGED vars BY <1>7 DEF vars
<1> QED
  BY StepCases, <1>1, <1>2, <1>3, <1>4, <1>5, <1>6, <1>7

\* Round robin, crashes included: nobody who joins or rejoins the rotation is
\* ever put before a tenant that is waiting in it.
THEOREM RoundRobin == FaultySpec => NeverOvertaken
<1>1. ASSUME TypeOK, OneToken, [FaultyNext]_vars,
             NEW t \in Tenants, NEW u \in Tenants,
             Waiting(t), ~ Before(u, t)
      PROVE  ~ Before(u, t)'
  <2>1. rotation \in Seq(Tenants) BY <1>1 DEF TypeOK, RedisTypeOK
  <2>2. CASE rotation' = rotation BY <1>1, <2>2 DEF Before
  <2>3. CASE rotation # <<>> /\ rotation' = Tail(rotation)
    BY <1>1, <2>1, <2>3, TailOrder
  <2>4. ASSUME NEW p \in Procs, NEW x \in Tenants,
               InHand(p, x), rotation' = Append(rotation, x)
        PROVE  ~ Before(u, t)'
    <3>1. x # t BY <1>1, <2>4 DEF OneToken
    <3> QED BY <1>1, <2>1, <2>4, <3>1, AppendOrder
  <2> QED BY <1>1, <2>2, <2>3, <2>4, RotationSteps
<1>2. ASSUME TypeOK, OneToken, [FaultyNext]_vars
      PROVE  [\A t, u \in Tenants : Waiting(t) /\ Waiting(t)' /\ ~ Before(u, t)
                                      => ~ Before(u, t)']_vars
  BY <1>1, <1>2
<1> QED
  BY <1>2, TypeCorrect, RotationSafe, PTL DEF FaultySpec, NeverOvertaken

-----------------------------------------------------------------------------
(* No lost wake-up while nothing is interrupted.  Neither conjunct of      *)
(* WakeUp is inductive without the other facts: a process whose SADD       *)
(* returns 0 walks away from unread entries, trusting the token.           *)

WakeUp == MembersHaveTokens /\ UnreadEntriesAttended

\* A step that leaves LIST, SET and streams alone, and every hand where it is.
LEMMA WakeUpFrame ==
  ASSUME WakeUp, UNCHANGED <<rotation, members, added, cursor>>,
         \A p \in Procs, t \in Tenants : /\ InHand(p, t) => InHand(p, t)'
                                         /\ Attending(p, t) => Attending(p, t)',
         members \subseteq Tenants
  PROVE  WakeUp'
  BY DEF WakeUp, MembersHaveTokens, UnreadEntriesAttended, Token, Attended,
         Waiting

LEMMA WakeUpInductive ==
  /\ Init => WakeUp
  /\ TypeOK /\ OneToken /\ WakeUp /\ [Next]_vars => WakeUp'
<1>1. Init => WakeUp
  BY DEF Init, WakeUp, MembersHaveTokens, UnreadEntriesAttended
<1>2. ASSUME TypeOK, OneToken, WakeUp, [Next]_vars PROVE WakeUp'
  <2> USE <1>2, ConstantsAssumption
      DEF TypeOK, ProcTypeOK, InHand, Attending, Goto, Forget, ScheduleReturns,
          streamVars, outcomeVars, localVars, Procs
  <2>m. members \subseteq Tenants BY DEF RedisTypeOK
  <2>1. ASSUME NEW e \in Enqueuers, NEW t \in Tenants, EnsureGroup(e, t)
        PROVE  WakeUp'
    BY <2>1, <2>m, WakeUpFrame DEF EnsureGroup
  <2>2. ASSUME NEW e \in Enqueuers, XAdd(e) PROVE WakeUp'
    <3>0. PICK u \in Tenants : u = tenant[e] BY <2>2 DEF XAdd, RedisTypeOK
    <3>1. /\ u \in Tenants
          /\ UNCHANGED <<rotation, members, cursor>>
          /\ \A t \in Tenants : t # u => added'[t] = added[t]
      BY <3>0, <2>2 DEF XAdd, RedisTypeOK
    <3>2. Attending(e, u)' BY <3>0, <2>2 DEF XAdd
    <3>3. \A p \in Procs, t \in Tenants : /\ InHand(p, t) => InHand(p, t)'
                                          /\ Attending(p, t) => Attending(p, t)'
      BY <3>0, <2>2 DEF XAdd
    <3> HIDE DEF InHand, Attending
    <3> QED BY <2>m, <3>1, <3>2, <3>3 DEF WakeUp, MembersHaveTokens,
               UnreadEntriesAttended, Token, Attended, Waiting
  <2>3. ASSUME NEW p \in Procs, ScheduleSAdd(p) PROVE WakeUp'
    <3>0. PICK u \in Tenants : u = tenant[p] BY <2>3 DEF ScheduleSAdd, RedisTypeOK
    <3>1. u \in Tenants /\ UNCHANGED <<rotation, added, cursor>>
      BY <3>0, <2>3 DEF ScheduleSAdd
    <3>2. members' = members \cup {u} BY <3>0, <2>3 DEF ScheduleSAdd
    <3>3. \A q \in Procs, t \in Tenants :
             /\ InHand(q, t) => InHand(q, t)'
             /\ Attending(q, t) /\ ~(q = p /\ t = u) => Attending(q, t)'
      BY <3>0, <2>3 DEF ScheduleSAdd
    <3>4. CASE u \in members
      <4>1. Token(u) BY <3>4 DEF WakeUp, MembersHaveTokens
      <4>2. Attended(u)'
        <5>1. CASE Waiting(u) BY <3>1, <5>1 DEF Attended, Waiting
        <5>2. ASSUME NEW q \in Procs, InHand(q, u) PROVE Attended(u)'
          <6>1. Attending(q, u) /\ q # p BY <3>0, <2>3, <5>2 DEF ScheduleSAdd
          <6> QED BY <3>1, <3>3, <6>1 DEF Attended
        <5> QED BY <4>1, <5>1, <5>2 DEF Token
      <4> HIDE DEF InHand, Attending
      <4> QED BY <2>m, <3>1, <3>2, <3>3, <3>4, <4>2 DEF WakeUp,
                 MembersHaveTokens, UnreadEntriesAttended, Token, Attended, Waiting
    <3>5. CASE u \notin members
      <4>1. InHand(p, u)' /\ Attending(p, u)' BY <3>0, <2>3, <3>5 DEF ScheduleSAdd
      <4> HIDE DEF InHand, Attending
      <4> QED BY <2>m, <3>1, <3>2, <3>3, <4>1 DEF WakeUp, MembersHaveTokens,
                 UnreadEntriesAttended, Token, Attended, Waiting
    <3> QED BY <3>4, <3>5
  <2>4. ASSUME NEW p \in Procs, ScheduleRPush(p) PROVE WakeUp'
    <3>0. PICK u \in Tenants : u = tenant[p] BY <2>4 DEF ScheduleRPush, RedisTypeOK
    <3>1. u \in Tenants /\ UNCHANGED <<members, added, cursor>>
      BY <3>0, <2>4 DEF ScheduleRPush
    <3>2. \A q \in Procs, t \in Tenants : t # u =>
             /\ InHand(q, t) => InHand(q, t)'
             /\ Attending(q, t) => Attending(q, t)'
      BY <3>0, <2>4 DEF ScheduleRPush
    <3>3. \A t : Waiting(t)' <=> Waiting(t) \/ t = u
      <4>1. rotation \in Seq(Tenants) BY DEF RedisTypeOK
      <4>2. rotation' = Append(rotation, u) BY <3>0, <2>4 DEF ScheduleRPush
      <4> QED BY <3>1, <4>1, <4>2, AppendOccurs DEF Occurs, Waiting
    <3> HIDE DEF InHand, Attending
    <3> QED BY <2>m, <3>1, <3>2, <3>3 DEF WakeUp, MembersHaveTokens,
               UnreadEntriesAttended, Token, Attended
  <2>5. ASSUME NEW w \in Workers, LPop(w) PROVE WakeUp'
    <3>0. PICK u \in Tenants : u = Head(rotation) BY <2>5 DEF LPop, RedisTypeOK
    <3>1. rotation \in Seq(Tenants) /\ rotation # <<>> /\ Distinct(rotation)
      BY <3>0, <2>5 DEF LPop, RedisTypeOK, OneToken, Distinct
    <3>2. \A t : Waiting(t)' <=> Waiting(t) /\ t # u
      <4>1. rotation' = Tail(rotation) BY <3>0, <2>5 DEF LPop
      <4>2. \A t : Occurs(Tail(rotation), t)
                     <=> Occurs(rotation, t) /\ t # Head(rotation)
        BY <3>1, TailOccurs
      <4> QED BY <3>0, <4>1, <4>2 DEF Occurs, Waiting
    <3>3. UNCHANGED <<members, added, cursor>> BY <3>0, <2>5 DEF LPop
    <3>4. \A q \in Procs, t \in Tenants : /\ InHand(q, t) => InHand(q, t)'
                                          /\ Attending(q, t) => Attending(q, t)'
      BY <3>0, <2>5 DEF LPop
    <3>5. InHand(w, u)' /\ Attending(w, u)' BY <3>0, <2>5 DEF LPop
    <3> HIDE DEF InHand, Attending
    <3> QED BY <2>m, <3>2, <3>3, <3>4, <3>5 DEF WakeUp, MembersHaveTokens,
               UnreadEntriesAttended, Token, Attended
  <2>6. ASSUME NEW w \in Workers, SRem(w) PROVE WakeUp'
    <3>0. PICK u \in Tenants : u = tenant[w] BY <2>6 DEF SRem, RedisTypeOK
    <3>1. UNCHANGED <<rotation, added, cursor>> /\ members' = members \ {u}
      BY <3>0, <2>6 DEF SRem
    <3>2. \A q \in Procs, t \in Tenants :
             /\ t # u => (InHand(q, t) => InHand(q, t)')
             /\ Attending(q, t) => Attending(q, t)'
      BY <3>0, <2>6 DEF SRem
    <3> HIDE DEF InHand, Attending
    <3> QED BY <2>m, <3>1, <3>2 DEF WakeUp, MembersHaveTokens,
               UnreadEntriesAttended, Token, Attended, Waiting
  <2>7. ASSUME NEW w \in Workers, XPending(w) PROVE WakeUp'
    BY <2>7, <2>m, WakeUpFrame DEF XPending
  <2>8. ASSUME NEW w \in Workers, XClaim(w) PROVE WakeUp'
    BY <2>8, <2>m, WakeUpFrame DEF XClaim
  <2>9. ASSUME NEW w \in Workers, XReadGroup(w) PROVE WakeUp'
    <3>0. PICK u \in Tenants : u = tenant[w] BY <2>9 DEF XReadGroup, ReadFresh, NoneFresh, RedisTypeOK
    <3>1. /\ u \in Tenants
          /\ UNCHANGED <<rotation, members, added>>
          /\ \A t \in Tenants : t # u => cursor'[t] = cursor[t]
      BY <3>0, <2>9 DEF XReadGroup, ReadFresh, NoneFresh, RedisTypeOK
    <3>2. \A q \in Procs, t \in Tenants :
             /\ InHand(q, t) => InHand(q, t)'
             /\ t # u => (Attending(q, t) => Attending(q, t)')
      BY <3>0, <2>9 DEF XReadGroup, ReadFresh, NoneFresh
    <3>3. (~(cursor[u] < added[u]) /\ cursor' = cursor) \/ Attending(w, u)'
      BY <3>0, <2>9 DEF XReadGroup, ReadFresh, NoneFresh, RedisTypeOK
    <3> HIDE DEF InHand, Attending
    <3> QED BY <2>m, <3>1, <3>2, <3>3 DEF WakeUp, MembersHaveTokens,
               UnreadEntriesAttended, Token, Attended, Waiting
  <2>10. ASSUME NEW w \in Workers, HandlerReturns(w) PROVE WakeUp'
    BY <2>10, <2>m, WakeUpFrame DEF HandlerReturns
  <2>11. ASSUME NEW w \in Workers, HandlerRaises(w) PROVE WakeUp'
    BY <2>11, <2>m, WakeUpFrame DEF HandlerRaises
  <2>12. ASSUME NEW w \in Workers, DlqAdd(w) PROVE WakeUp'
    BY <2>12, <2>m, WakeUpFrame DEF DlqAdd
  <2>13. ASSUME NEW w \in Workers, XAck(w) PROVE WakeUp'
    BY <2>13, <2>m, WakeUpFrame DEF XAck
  <2>14. CASE UNCHANGED vars \/ \E w \in Workers : IdlePoll(w)
    BY <2>14, <2>m, WakeUpFrame DEF IdlePoll, vars
  <2> QED
    BY <2>1, <2>2, <2>3, <2>4, <2>5, <2>6, <2>7, <2>8, <2>9, <2>10, <2>11,
       <2>12, <2>13, <2>14 DEF Next, EnqueuerNext, WorkerNext
<1> QED
  BY <1>1, <1>2

LEMMA NextIsFaultyNext == [Next]_vars => [FaultyNext]_vars
  BY DEF FaultyNext

\* Without interruptions no unread entry is ever forgotten, however many
\* workers and enqueuers interleave, and SADD returning 0 can be trusted.
THEOREM NoLostWakeUp == Spec => [](MembersHaveTokens /\ UnreadEntriesAttended)
<1>1. Spec => [](TypeOK /\ OneToken /\ WakeUp)
  BY TypeInductive, OneTokenInductive, WakeUpInductive, NextIsFaultyNext, PTL
     DEF Spec
<1>2. WakeUp => MembersHaveTokens /\ UnreadEntriesAttended
  BY DEF WakeUp
<1> QED
  BY <1>1, <1>2, PTL
\* An enqueue() that returns leaves its tenant a member of the SET.
LEMMA EnqueueEndsAMember ==
  ASSUME TypeOK, OneToken, [Next]_vars, NEW e \in Enqueuers, NEW t \in Tenants,
         pc[e] \in {"sadd", "rpush"}, tenant[e] = t, pc'[e] = "idle"
  PROVE  t \in members'
<1> USE ConstantsAssumption
    DEF TypeOK, ProcTypeOK, Goto, Forget, ScheduleReturns, localVars, Procs
<1>1. ASSUME NEW p \in Procs, ScheduleSAdd(p) PROVE t \in members'
  <2>1. p = e BY <1>1 DEF ScheduleSAdd
  <2> QED BY <1>1, <2>1 DEF ScheduleSAdd
<1>2. ASSUME NEW p \in Procs, ScheduleRPush(p) PROVE t \in members'
  <2>1. p = e BY <1>2 DEF ScheduleRPush
  <2>2. InHand(e, t) BY <1>2, <2>1 DEF InHand, ScheduleRPush
  <2> QED BY <1>2, <2>2 DEF ScheduleRPush, OneToken, Token
<1>3. ASSUME NEW f \in Enqueuers, XAdd(f) PROVE FALSE
  BY <1>3 DEF XAdd
<1>4. ASSUME NEW f \in Enqueuers, NEW u \in Tenants, EnsureGroup(f, u) PROVE FALSE
  BY <1>4 DEF EnsureGroup
<1>5. ASSUME NEW w \in Workers, \/ IdlePoll(w) \/ LPop(w) \/ SRem(w) \/ XPending(w)
                                \/ XClaim(w) \/ XReadGroup(w)
                                \/ HandlerReturns(w) \/ HandlerRaises(w)
                                \/ DlqAdd(w) \/ XAck(w)
      PROVE FALSE
  <2>1. pc'[e] = pc[e]
    BY <1>5 DEF IdlePoll, LPop, SRem, XPending, XClaim, XReadGroup, ReadFresh, NoneFresh,
                HandlerReturns, HandlerRaises, DlqAdd, XAck, vars
  <2> QED BY <2>1
<1>6. CASE UNCHANGED vars
  BY <1>6 DEF vars
<1> QED
  BY <1>1, <1>2, <1>3, <1>4, <1>5, <1>6 DEF Next, EnqueuerNext, WorkerNext

\* While nothing is interrupted, enqueue() never returns before its tenant is
\* in the rotation or in the hand of a process that will put it there.
THEOREM EnqueueAlwaysSchedules == Spec => EnqueueSchedules
<1>1. Spec => [](TypeOK /\ OneToken /\ WakeUp)
  BY TypeInductive, OneTokenInductive, WakeUpInductive, NextIsFaultyNext, PTL
     DEF Spec
<1>2. ASSUME TypeOK, OneToken, WakeUp', [Next]_vars
      PROVE  [\A e \in Enqueuers, t \in Tenants :
                pc[e] \in {"sadd", "rpush"} /\ tenant[e] = t /\ pc'[e] = "idle"
                  /\ crashes' = crashes => Token(t)']_vars
  BY <1>2, EnqueueEndsAMember DEF WakeUp, MembersHaveTokens
<1> QED
  BY <1>1, <1>2, PTL DEF Spec, EnqueueSchedules

-----------------------------------------------------------------------------
(* At-least-once delivery, whatever crashes.                               *)

(***************************************************************************)
(* What every step may do to the record of deliveries: cursors, delivery   *)
(* counts and outcomes only grow.                                          *)
(***************************************************************************)
Grows ==
  \A t \in Tenants :
    /\ cursor[t] <= cursor'[t]
    /\ handled[t] \subseteq handled'[t]
    /\ dlq[t] \subseteq dlq'[t]
    /\ \A i \in Entries : i <= cursor[t] => times[t][i] <= times'[t][i]

\* A worker that takes no part in a step keeps its message consistent.
LEMMA MessageFrame ==
  ASSUME TypeOK, TypeOK', Grows, NEW v \in Workers,
         MessageInv(v, tenant[v], entry[v]),
         pc'[v] = pc[v], tenant'[v] = tenant[v], entry'[v] = entry[v],
         count'[v] = count[v]
  PROVE  MessageInv(v, tenant[v], entry[v])'
<1>1. CASE pc[v] \in Holding \cup {"xclaim"}
  <2>1. tenant[v] \in Tenants /\ entry[v] \in Entries
    BY <1>1 DEF TypeOK, ProcTypeOK, ClaimTypeOK, Procs, Holding
  <2>2. PICK t \in Tenants, i \in Entries : t = tenant[v] /\ i = entry[v]
    BY <2>1
  <2>3. /\ i <= cursor[t] /\ cursor[t] <= cursor'[t]
        /\ times[t][i] <= times'[t][i]
        /\ handled[t] \subseteq handled'[t] /\ dlq[t] \subseteq dlq'[t]
    BY <1>1, <2>2 DEF Grows, MessageInv
  <2>4. /\ i \in Nat /\ cursor[t] \in Nat /\ cursor'[t] \in Nat
        /\ times[t][i] \in Nat /\ times'[t][i] \in Nat /\ count[v] \in Nat
    BY <2>2, ConstantsAssumption
    DEF TypeOK, RedisTypeOK, ClaimTypeOK, Entries
  <2> QED BY <2>2, <2>3, <2>4 DEF MessageInv
<1>2. CASE pc[v] \notin Holding \cup {"xclaim"}
  BY <1>2 DEF MessageInv, Holding
<1> QED BY <1>1, <1>2

\* A step that touches no stream and no outcome keeps everything but the
\* message of the worker that takes it.
LEMMA DeliveryFrame ==
  ASSUME TypeOK, TypeOK', DeliveryInv, UNCHANGED <<streamVars, outcomeVars>>,
         \A v \in Workers :
           \/ MessageInv(v, tenant[v], entry[v])'
           \/ /\ pc'[v] = pc[v] /\ tenant'[v] = tenant[v]
              /\ entry'[v] = entry[v] /\ count'[v] = count[v]
  PROVE  DeliveryInv'
<1>1. Grows
  BY ConstantsAssumption
  DEF Grows, streamVars, outcomeVars, TypeOK, RedisTypeOK, Entries
<1>2. StreamInv' /\ SettledNotLost' /\ DeadLettersExhausted'
  BY DEF DeliveryInv, StreamInv, SettledNotLost, DeadLettersExhausted,
         streamVars, outcomeVars
<1>3. \A v \in Workers : MessageInv(v, tenant[v], entry[v])'
  BY <1>1, MessageFrame DEF DeliveryInv
<1> QED BY <1>2, <1>3 DEF DeliveryInv

LEMMA DeliveryInductive ==
  /\ Init => DeliveryInv
  /\ TypeOK /\ TypeOK' /\ DeliveryInv /\ [FaultyNext]_vars => DeliveryInv'
<1>1. Init => DeliveryInv
  <2> SUFFICES ASSUME Init PROVE DeliveryInv OBVIOUS
  <2>1. StreamInv
    BY ConstantsAssumption DEF Init, StreamInv, Entries
  <2>2. \A w \in Workers : MessageInv(w, tenant[w], entry[w])
    BY DEF Init, MessageInv, Holding, Procs
  <2>3. SettledNotLost /\ DeadLettersExhausted
    BY DEF Init, SettledNotLost, DeadLettersExhausted
  <2> QED BY <2>1, <2>2, <2>3 DEF DeliveryInv
<1>2. ASSUME TypeOK, TypeOK', DeliveryInv, [FaultyNext]_vars PROVE DeliveryInv'
  <2> USE <1>2, ConstantsAssumption
      DEF Goto, Forget, ScheduleReturns, localVars, Procs, Holding
  <2>t. /\ pc \in [Procs -> EnqueuerSteps \cup WorkerSteps]
        /\ tenant \in [Procs -> Tenants \cup {NoTenant}]
        /\ entry \in [Workers -> Entries \cup {0}]
        /\ count \in [Workers -> Nat]
        /\ \A p \in Procs : pc[p] \notin {"idle", "down"} => tenant[p] \in Tenants
        /\ \A w \in Workers : pc[w] \in Holding \cup {"xclaim"} => entry[w] \in Entries
    BY DEF TypeOK, ProcTypeOK, ClaimTypeOK
  <2>r. /\ added \in [Tenants -> Nat] /\ cursor \in [Tenants -> Nat]
        /\ pel \in [Tenants -> SUBSET Entries]
        /\ times \in [Tenants -> [Entries -> Nat]]
        /\ dlq \in [Tenants -> SUBSET Entries]
        /\ handled \in [Tenants -> SUBSET Entries]
        /\ Entries \subseteq Nat \ {0}
    BY DEF TypeOK, RedisTypeOK, Entries
  <2>i. /\ StreamInv /\ SettledNotLost /\ DeadLettersExhausted
        /\ \A w \in Workers : MessageInv(w, tenant[w], entry[w])
    BY DEF DeliveryInv
  \* Steps that leave streams and outcomes alone.
  <2>1. ASSUME NEW p \in Procs, ScheduleSAdd(p) PROVE DeliveryInv'
    BY <2>1, <2>t, <2>i, DeliveryFrame DEF ScheduleSAdd, MessageInv, streamVars, outcomeVars
  <2>2. ASSUME NEW p \in Procs, ScheduleRPush(p) PROVE DeliveryInv'
    BY <2>2, <2>t, <2>i, DeliveryFrame DEF ScheduleRPush, MessageInv, streamVars, outcomeVars
  <2>3. ASSUME NEW e \in Enqueuers, EnqueueInterrupted(e) PROVE DeliveryInv'
    BY <2>3, <2>t, DeliveryFrame DEF EnqueueInterrupted
  <2>4. ASSUME NEW w \in Workers, LPop(w) PROVE DeliveryInv'
    BY <2>4, <2>t, DeliveryFrame DEF LPop, MessageInv
  <2>5. ASSUME NEW w \in Workers, SRem(w) PROVE DeliveryInv'
    BY <2>5, <2>t, DeliveryFrame DEF SRem, MessageInv
  <2>6. ASSUME NEW w \in Workers, WorkerDies(w) PROVE DeliveryInv'
    BY <2>6, <2>t, DeliveryFrame DEF WorkerDies, MessageInv
  <2>7. ASSUME NEW w \in Workers, WorkerRestarts(w) PROVE DeliveryInv'
    BY <2>7, <2>t, DeliveryFrame DEF WorkerRestarts, MessageInv
  <2>8. ASSUME NEW w \in Workers, HandlerRaises(w) PROVE DeliveryInv'
    BY <2>8, <2>t, <2>i, DeliveryFrame DEF HandlerRaises, MessageInv, streamVars, outcomeVars
  <2>9. ASSUME NEW w \in Workers, XPending(w) PROVE DeliveryInv'
    BY <2>9, <2>t, <2>r, <2>i, DeliveryFrame DEF XPending, MessageInv, StreamInv, streamVars, outcomeVars
  <2>10. CASE UNCHANGED vars \/ \E w \in Workers : IdlePoll(w)
    BY <2>10, DeliveryFrame DEF IdlePoll, vars, streamVars, outcomeVars
  \* Steps on a stream or an outcome.
  <2>11. ASSUME NEW e \in Enqueuers, NEW t \in Tenants, EnsureGroup(e, t)
         PROVE  DeliveryInv'
    <3>1. UNCHANGED <<added, cursor, pel, times, dlq, handled, entry, count>>
      BY <2>11 DEF EnsureGroup, outcomeVars
    <3>2. StreamInv' /\ SettledNotLost' /\ DeadLettersExhausted' /\ Grows
      BY <2>i, <2>r, <3>1 DEF StreamInv, SettledNotLost, DeadLettersExhausted, Grows
    <3>3. \A v \in Workers : pc'[v] = pc[v] /\ tenant'[v] = tenant[v]
      BY <2>11, <2>t DEF EnsureGroup
    <3>4. \A v \in Workers : MessageInv(v, tenant[v], entry[v])'
      BY <2>i, <3>1, <3>2, <3>3, MessageFrame
    <3> QED BY <3>2, <3>4 DEF DeliveryInv
  <2>12. ASSUME NEW e \in Enqueuers, XAdd(e) PROVE DeliveryInv'
    <3>1. UNCHANGED <<cursor, pel, times, dlq, handled, tenant, entry, count>>
      BY <2>12 DEF XAdd, outcomeVars
    <3>2. \A t \in Tenants : added[t] <= added'[t] /\ added'[t] \in Nat
      BY <2>12, <2>r DEF XAdd
    <3>3. StreamInv' /\ SettledNotLost' /\ DeadLettersExhausted' /\ Grows
      BY <2>i, <2>r, <3>1, <3>2
      DEF StreamInv, SettledNotLost, DeadLettersExhausted, Grows
    <3>4. \A v \in Workers : pc'[v] = pc[v]
      BY <2>12, <2>t DEF XAdd
    <3>5. \A v \in Workers : MessageInv(v, tenant[v], entry[v])'
      BY <2>i, <3>1, <3>3, <3>4, MessageFrame
    <3> QED BY <3>3, <3>5 DEF DeliveryInv
  <2>13. ASSUME NEW w \in Workers, XClaim(w) PROVE DeliveryInv'
    <3>1. PICK t \in Tenants, i \in Entries : t = tenant[w] /\ i = entry[w]
      BY <2>13, <2>t DEF XClaim
    <3>2. /\ UNCHANGED <<added, cursor, pel, dlq, handled, tenant>>
          /\ pc[w] = "xclaim"
      BY <2>13 DEF XClaim, outcomeVars
    <3>3. CASE i \in pel[t]
      <4>1. /\ times' = [times EXCEPT ![t][i] = @ + 1]
            /\ Goto(w, "sadd")
            /\ UNCHANGED <<entry, count>>
        BY <2>13, <3>1, <3>3 DEF XClaim
      <4>2. /\ \A u \in Tenants, j \in Entries :
                 <<u, j>> # <<t, i>> => times'[u][j] = times[u][j]
            /\ times'[t][i] = times[t][i] + 1
        BY <2>r, <3>1, <4>1
      <4>3. i <= cursor[t] BY <2>i, <3>1, <3>2 DEF MessageInv
      <4>4. \A u \in Tenants, j \in Entries : times[u][j] <= times'[u][j]
        BY <2>r, <4>2
      <4>5. Grows BY <2>r, <3>2, <4>4 DEF Grows
      <4>6. StreamInv' BY <2>i, <2>r, <3>2, <4>2, <4>3 DEF StreamInv
      <4>7. SettledNotLost' BY <2>i, <3>2 DEF SettledNotLost
      <4>8. DeadLettersExhausted'
        <5> SUFFICES ASSUME NEW u \in Tenants, NEW j \in dlq[u]
                     PROVE  times'[u][j] >= MaxDeliveries
          BY <3>2 DEF DeadLettersExhausted
        <5>1. times[u][j] >= MaxDeliveries /\ times[u][j] <= times'[u][j]
          BY <2>i, <2>r, <4>4 DEF DeadLettersExhausted
        <5>2. j \in Entries BY <2>r
        <5>3. times[u][j] \in Nat /\ times'[u][j] \in Nat /\ MaxDeliveries \in Nat
          BY <2>r, <5>2 DEF TypeOK, RedisTypeOK
        <5> QED BY <5>1, <5>3
      <4>9. MessageInv(w, tenant[w], entry[w])'
        <5>1. /\ pc'[w] = "sadd" /\ tenant'[w] = t /\ entry'[w] = i
              /\ count'[w] = count[w] /\ cursor' = cursor
          BY <2>t, <3>1, <3>2, <4>1
        <5>2. count[w] <= times[t][i] + 1 /\ count[w] >= 1
          BY <2>i, <3>1, <3>2 DEF MessageInv
        <5> QED BY <4>2, <4>3, <5>1, <5>2 DEF MessageInv
      <4>10. \A v \in Workers : v # w => pc'[v] = pc[v] BY <2>t, <4>1
      <4>11. \A v \in Workers : MessageInv(v, tenant[v], entry[v])'
        BY <2>i, <3>2, <4>1, <4>5, <4>9, <4>10, MessageFrame
      <4> QED BY <4>6, <4>7, <4>8, <4>11 DEF DeliveryInv
    <3>4. CASE i \notin pel[t]
      BY <2>13, <2>t, <3>1, <3>2, <3>4, DeliveryFrame
      DEF XClaim, MessageInv, streamVars, outcomeVars
    <3> QED BY <3>3, <3>4
  <2>14. ASSUME NEW w \in Workers, XReadGroup(w) PROVE DeliveryInv'
    <3>1. PICK t \in Tenants : t = tenant[w] BY <2>14, <2>t DEF XReadGroup, ReadFresh, NoneFresh
    <3>2. UNCHANGED <<added, dlq, handled>>
      BY <2>14 DEF XReadGroup, ReadFresh, NoneFresh, streamVars, outcomeVars
    <3>3. CASE cursor[t] < added[t]
      <4>1. PICK i \in Entries : i = cursor[t] + 1
        BY <2>r, <3>1, <3>3 DEF TypeOK, RedisTypeOK, Entries
      <4>2. /\ cursor' = [cursor EXCEPT ![t] = i]
            /\ pel' = [pel EXCEPT ![t] = @ \cup {i}]
            /\ times' = [times EXCEPT ![t][i] = 1]
            /\ entry' = [entry EXCEPT ![w] = i]
            /\ count' = [count EXCEPT ![w] = 1]
            /\ Goto(w, "sadd")
            /\ UNCHANGED tenant
        BY <2>14, <2>r, <3>1, <3>3, <4>1 DEF XReadGroup, ReadFresh, NoneFresh
      <4>3. /\ cursor'[t] = i /\ pel'[t] = pel[t] \cup {i} /\ times'[t][i] = 1
            /\ \A u \in Tenants : u # t =>
                 cursor'[u] = cursor[u] /\ pel'[u] = pel[u] /\ times'[u] = times[u]
            /\ \A j \in Entries : j # i => times'[t][j] = times[t][j]
        BY <2>r, <4>2
      <4>4. times[t][i] = 0 /\ i \notin dlq[t]
        BY <2>i, <2>r, <4>1 DEF StreamInv
      <4>5. Grows
        <5> SUFFICES ASSUME NEW u \in Tenants
                     PROVE  /\ cursor[u] <= cursor'[u]
                            /\ \A j \in Entries :
                                 j <= cursor[u] => times[u][j] <= times'[u][j]
          BY <3>2 DEF Grows
        <5>1. CASE u = t BY <2>r, <4>1, <4>3, <5>1
        <5>2. CASE u # t BY <2>r, <4>3, <5>2
        <5> QED BY <5>1, <5>2
      <4>6. StreamInv' BY <2>i, <2>r, <3>2, <3>3, <4>1, <4>3 DEF StreamInv
      <4>7. SettledNotLost'
        <5> SUFFICES ASSUME NEW u \in Tenants, NEW j \in 1 .. cursor'[u],
                            j \notin pel'[u]
                     PROVE  j \in handled[u] \cup dlq[u]
          BY <3>2 DEF SettledNotLost
        <5>1. CASE u = t
          <6>1. j # i /\ j \notin pel[t] BY <4>3, <5>1
          <6>2. cursor[t] \in Nat /\ cursor'[u] = cursor[t] + 1
            BY <2>r, <4>1, <4>3, <5>1
          <6>3. j \in 1 .. cursor[t] BY <4>1, <6>1, <6>2
          <6> QED BY <2>i, <5>1, <6>1, <6>3 DEF SettledNotLost
        <5>2. CASE u # t BY <2>i, <4>3, <5>2 DEF SettledNotLost
        <5> QED BY <5>1, <5>2
      <4>8. DeadLettersExhausted'
        BY <2>i, <2>r, <3>2, <4>3, <4>4 DEF DeadLettersExhausted
      <4>9. MessageInv(w, tenant[w], entry[w])'
        <5>1. /\ pc'[w] = "sadd" /\ tenant'[w] = t /\ entry'[w] = i
              /\ count'[w] = 1
          BY <2>t, <3>1, <4>2
        <5> QED BY <2>r, <4>3, <5>1 DEF MessageInv
      <4>10. \A v \in Workers : v # w => /\ pc'[v] = pc[v] /\ entry'[v] = entry[v]
                                         /\ count'[v] = count[v]
        BY <2>t, <4>2
      <4>11. \A v \in Workers : MessageInv(v, tenant[v], entry[v])'
        BY <2>i, <4>2, <4>5, <4>9, <4>10, MessageFrame
      <4> QED BY <4>6, <4>7, <4>8, <4>11 DEF DeliveryInv
    <3>4. CASE ~(cursor[t] < added[t])
      BY <2>14, <2>t, <3>1, <3>2, <3>4, DeliveryFrame
      DEF XReadGroup, ReadFresh, NoneFresh, MessageInv, streamVars, outcomeVars
    <3> QED BY <3>3, <3>4
  <2>15. ASSUME NEW w \in Workers, HandlerReturns(w) PROVE DeliveryInv'
    <3>1. PICK t \in Tenants, i \in Entries : t = tenant[w] /\ i = entry[w]
      BY <2>15, <2>t DEF HandlerReturns
    <3>2. /\ UNCHANGED <<added, cursor, pel, times, dlq, tenant, entry, count>>
          /\ handled' = [handled EXCEPT ![t] = @ \cup {i}]
          /\ pc[w] = "handle" /\ Goto(w, "ack")
      BY <2>15, <3>1 DEF HandlerReturns, streamVars
    <3>3. /\ i \in handled'[t]
          /\ \A u \in Tenants : handled[u] \subseteq handled'[u]
      BY <2>r, <3>2
    <3>4. StreamInv' /\ SettledNotLost' /\ DeadLettersExhausted' /\ Grows
      BY <2>i, <2>r, <3>2, <3>3
      DEF StreamInv, SettledNotLost, DeadLettersExhausted, Grows
    <3>5. MessageInv(w, tenant[w], entry[w])'
      BY <2>i, <2>t, <3>1, <3>2, <3>3 DEF MessageInv
    <3>6. \A v \in Workers : v # w => pc'[v] = pc[v] BY <2>t, <3>2
    <3>7. \A v \in Workers : MessageInv(v, tenant[v], entry[v])'
      BY <2>i, <3>2, <3>4, <3>5, <3>6, MessageFrame
    <3> QED BY <3>4, <3>7 DEF DeliveryInv
  <2>16. ASSUME NEW w \in Workers, DlqAdd(w) PROVE DeliveryInv'
    <3>1. PICK t \in Tenants, i \in Entries : t = tenant[w] /\ i = entry[w]
      BY <2>16, <2>t DEF DlqAdd
    <3>2. /\ UNCHANGED <<added, cursor, pel, times, handled, tenant, entry, count>>
          /\ dlq' = [dlq EXCEPT ![t] = @ \cup {i}]
          /\ pc[w] = "dlqadd" /\ Goto(w, "dlqack")
      BY <2>16, <3>1 DEF DlqAdd, streamVars
    <3>3. /\ dlq'[t] = dlq[t] \cup {i}
          /\ \A u \in Tenants : u # t => dlq'[u] = dlq[u]
      BY <2>r, <3>2
    <3>4. i <= cursor[t] /\ MaxDeliveries <= count[w] /\ count[w] <= times[t][i]
      BY <2>i, <3>1, <3>2 DEF MessageInv
    <3>5. StreamInv' BY <2>i, <2>r, <3>2, <3>3, <3>4 DEF StreamInv
    <3>6. SettledNotLost' BY <2>i, <3>2, <3>3 DEF SettledNotLost
    <3>7. DeadLettersExhausted'
      <4>1. times[t][i] >= MaxDeliveries BY <2>r, <2>t, <3>4
      <4> QED BY <2>i, <3>2, <3>3, <4>1 DEF DeadLettersExhausted
    <3>8. Grows BY <2>r, <3>2, <3>3 DEF Grows
    <3>9. MessageInv(w, tenant[w], entry[w])'
      BY <2>i, <2>t, <3>1, <3>2, <3>3 DEF MessageInv
    <3>10. \A v \in Workers : v # w => pc'[v] = pc[v] BY <2>t, <3>2
    <3>11. \A v \in Workers : MessageInv(v, tenant[v], entry[v])'
      BY <2>i, <3>2, <3>8, <3>9, <3>10, MessageFrame
    <3> QED BY <3>5, <3>6, <3>7, <3>11 DEF DeliveryInv
  <2>17. ASSUME NEW w \in Workers, XAck(w) PROVE DeliveryInv'
    <3>1. PICK t \in Tenants, i \in Entries : t = tenant[w] /\ i = entry[w]
      BY <2>17, <2>t DEF XAck
    <3>2. /\ UNCHANGED <<added, cursor, times, dlq, handled>>
          /\ pel' = [pel EXCEPT ![t] = @ \ {i}]
          /\ pc[w] \in {"ack", "dlqack"} /\ Forget(w, "idle")
      BY <2>17, <3>1 DEF XAck, outcomeVars
    <3>3. /\ pel'[t] = pel[t] \ {i}
          /\ \A u \in Tenants : u # t => pel'[u] = pel[u]
      BY <2>r, <3>2
    <3>4. i \in handled[t] \cup dlq[t] BY <2>i, <3>1, <3>2 DEF MessageInv
    <3>5. StreamInv' /\ DeadLettersExhausted' /\ Grows
      BY <2>i, <2>r, <3>2, <3>3 DEF StreamInv, DeadLettersExhausted, Grows
    <3>6. SettledNotLost' BY <2>i, <3>2, <3>3, <3>4 DEF SettledNotLost
    <3>7. MessageInv(w, tenant[w], entry[w])' BY <2>t, <3>2 DEF MessageInv
    <3>8. \A v \in Workers : v # w =>
            /\ pc'[v] = pc[v] /\ tenant'[v] = tenant[v]
            /\ entry'[v] = entry[v] /\ count'[v] = count[v]
      BY <2>t, <3>2
    <3>9. \A v \in Workers : MessageInv(v, tenant[v], entry[v])'
      BY <2>i, <3>5, <3>7, <3>8, MessageFrame
    <3> QED BY <3>5, <3>6, <3>9 DEF DeliveryInv
  <2> QED
    BY StepCases, <2>1, <2>2, <2>3, <2>4, <2>5, <2>6, <2>7, <2>8, <2>9, <2>10,
       <2>11, <2>12, <2>13, <2>14, <2>15, <2>16, <2>17
<1> QED
  BY <1>1, <1>2

\* At-least-once delivery, whatever crashes: an entry leaves the pending list
\* only when handled or dead-lettered, and it is dead-lettered only after
\* max_deliveries deliveries.
THEOREM AtLeastOnce == FaultySpec => [](SettledNotLost /\ DeadLettersExhausted)
<1>1. FaultySpec => []DeliveryInv
  BY TypeInductive, DeliveryInductive, PTL DEF FaultySpec
<1>2. DeliveryInv => SettledNotLost /\ DeadLettersExhausted
  BY DEF DeliveryInv
<1> QED
  BY <1>1, <1>2, PTL

-----------------------------------------------------------------------------
(* The refinement of IngestionQueuePort.  TypeOK and DeliveryInv are what   *)
(* it needs of the reachable states; then each Redis command is one action  *)
(* of AtLeastOnceQueue or changes nothing that the port can see.            *)

\* What a worker shows to the port is as it was.
Shown(v) == /\ pc'[v] \in Holding <=> pc[v] \in Holding
            /\ pc[v] \in Holding => /\ tenant'[v] = tenant[v]
                                    /\ entry'[v] = entry[v]
                                    /\ count'[v] = count[v]

LEMMA StreamsShown ==
  ASSUME UNCHANGED <<added, cursor, pel, times, dlq, handled>>
  PROVE  UNCHANGED <<Owed, Deliveries, Done, Dead>>
BY DEF Owed, Deliveries, Done, Dead

\* Redis counts the delivery of one entry.
LEMMA ItemCounted ==
  ASSUME NEW it \in Items, times'[it[1]][it[2]] = Deliveries[it] + 1,
         \A x \in Items : x # it => times'[x[1]][x[2]] = times[x[1]][x[2]]
  PROVE  Deliveries' = [Deliveries EXCEPT ![it] = Deliveries[it] + 1]
<1>1. PICK k : k = Deliveries[it] + 1 OBVIOUS
<1>2. \A x \in Items : times'[x[1]][x[2]] = IF x = it THEN k ELSE times[x[1]][x[2]]
  BY <1>1
<1>3. Deliveries' = [Deliveries EXCEPT ![it] = k] BY <1>2 DEF Deliveries
<1> QED BY <1>1, <1>3

LEMMA WorkersShown ==
  ASSUME \A v \in Workers : Shown(v)
  PROVE  UNCHANGED <<Held, Seen>>
<1>1. Held' = Held BY DEF Held, Shown
<1>2. Seen' = Seen BY DEF Seen, Shown
<1> QED BY <1>1, <1>2

LEMMA WorkerTakes ==
  ASSUME NEW w \in Workers, \A v \in Workers \ {w} : Shown(v), pc'[w] \in Holding
  PROVE  /\ Held' = [Held EXCEPT ![w] = <<tenant'[w], entry'[w]>>]
         /\ Seen' = [Seen EXCEPT ![w] = count'[w]]
<1>1. Held' = [Held EXCEPT ![w] = <<tenant'[w], entry'[w]>>] BY DEF Held, Shown
<1>2. Seen' = [Seen EXCEPT ![w] = count'[w]] BY DEF Seen, Shown
<1> QED BY <1>1, <1>2

LEMMA WorkerDrops ==
  ASSUME NEW w \in Workers, \A v \in Workers \ {w} : Shown(v), pc'[w] \notin Holding
  PROVE  /\ Held' = [Held EXCEPT ![w] = NoItem]
         /\ Seen' = [Seen EXCEPT ![w] = 0]
<1>1. Held' = [Held EXCEPT ![w] = NoItem] BY DEF Held, Shown
<1>2. Seen' = [Seen EXCEPT ![w] = 0] BY DEF Seen, Shown
<1> QED BY <1>1, <1>2

\* A worker that holds something holds an item of the port.
LEMMA HeldItem ==
  ASSUME TypeOK, NEW w \in Workers, pc[w] \in Holding
  PROVE  /\ tenant[w] \in Tenants /\ entry[w] \in Entries
         /\ Held[w] = <<tenant[w], entry[w]>> /\ Held[w] \in Items
         /\ Held[w] # NoItem /\ Seen[w] = count[w]
<1>1. tenant[w] \in Tenants
  BY DEF TypeOK, ProcTypeOK, Procs, Holding
<1>2. entry[w] \in Entries
  BY DEF TypeOK, ClaimTypeOK
<1>3. Held[w] = <<tenant[w], entry[w]>> /\ Seen[w] = count[w]
  BY DEF Held, Seen
<1>4. <<tenant[w], entry[w]>> # <<NoTenant, 0>>
  BY <1>1, ConstantsAssumption
<1> QED BY <1>1, <1>2, <1>3, <1>4 DEF Items, NoItem

\* A worker that lets go of its message, or changes nothing the port sees.
LEMMA LocalStep ==
  ASSUME TypeOK, NEW w \in Workers,
         UNCHANGED <<added, cursor, pel, times, dlq, handled>>,
         \A v \in Workers \ {w} : Shown(v),
         Shown(w) \/ pc'[w] \notin Holding
  PROVE  [Port!QNext]_(Port!queueVars)
<1>1. UNCHANGED <<Owed, Deliveries, Done, Dead>> BY StreamsShown
<1>2. CASE Shown(w)
  <2>1. UNCHANGED <<Held, Seen>> BY <1>2, WorkersShown
  <2> QED BY <1>1, <2>1 DEF Port!queueVars
<1>3. CASE pc[w] \in Holding /\ pc'[w] \notin Holding
  <2>1. /\ Held' = [Held EXCEPT ![w] = NoItem]
        /\ Seen' = [Seen EXCEPT ![w] = 0]
    BY <1>3, WorkerDrops
  <2>2. Held[w] # NoItem BY <1>3, HeldItem
  <2>3. Port!LetGo(w) BY <1>1, <2>1, <2>2 DEF Port!LetGo
  <2> QED BY <2>3 DEF Port!QNext
<1>4. CASE pc[w] \notin Holding /\ pc'[w] \notin Holding
  BY <1>2, <1>4 DEF Shown
<1> QED BY <1>2, <1>3, <1>4

\* A delivery: the worker w takes item it with count n.
LEMMA DeliverStep ==
  ASSUME NEW w \in Workers, NEW it \in Items, NEW n \in Nat,
         pc[w] \notin Holding, it \in Owed, Deliveries[it] \in Nat,
         1 <= n, n <= Deliveries[it] + 1,
         Deliveries' = [Deliveries EXCEPT ![it] = Deliveries[it] + 1],
         Held' = [Held EXCEPT ![w] = it], Seen' = [Seen EXCEPT ![w] = n],
         UNCHANGED <<Owed, Done, Dead>>
  PROVE  Port!QNext
<1>1. Held[w] = NoItem BY DEF Held
<1>2. n \in 1 .. (Deliveries[it] + 1) OBVIOUS
<1>3. Port!Deliver(w, it, n) BY <1>1 DEF Port!Deliver
<1> QED BY <1>2, <1>3 DEF Port!QNext

LEMMA PortInit == Init => Port!QInit
<1> SUFFICES ASSUME Init PROVE Port!QInit OBVIOUS
<1>1. Owed = {}
  <2> SUFFICES ASSUME NEW t \in Tenants, NEW i \in Entries, <<t, i>> \in Owed
               PROVE  FALSE
    BY DEF Owed, Items
  <2>1. i <= 0 BY DEF Owed, Init
  <2> QED BY <2>1, ConstantsAssumption DEF Entries
<1>2. Deliveries = [it \in Items |-> 0]
  <2>1. \A it \in Items : times[it[1]][it[2]] = 0 BY DEF Init, Items
  <2> QED BY <2>1 DEF Deliveries
<1>3. Held = [w \in Workers |-> NoItem] BY DEF Init, Held, Holding, Procs
<1>4. Seen = [w \in Workers |-> 0] BY DEF Init, Seen, Holding, Procs
<1>5. Done = {} BY DEF Init, Done, Items
<1>6. Dead = {} BY DEF Init, Dead, Items
<1> QED BY <1>1, <1>2, <1>3, <1>4, <1>5, <1>6 DEF Port!QInit

\* Every step is one the port allows, or one it does not see.
LEMMA PortStep ==
  ASSUME TypeOK, TypeOK', DeliveryInv, [FaultyNext]_vars
  PROVE  [Port!QNext]_(Port!queueVars)
<1> USE DEF Procs, Goto, Forget, ScheduleReturns
<1>t. /\ pc \in [Procs -> EnqueuerSteps \cup WorkerSteps]
      /\ tenant \in [Procs -> Tenants \cup {NoTenant}]
      /\ entry \in [Workers -> Entries \cup {0}]
      /\ count \in [Workers -> Nat]
      /\ \A p \in Procs : pc[p] \notin {"idle", "down"} => tenant[p] \in Tenants
  BY DEF TypeOK, ProcTypeOK, ClaimTypeOK
<1>r. /\ added \in [Tenants -> Nat] /\ cursor \in [Tenants -> Nat]
      /\ pel \in [Tenants -> SUBSET Entries]
      /\ times \in [Tenants -> [Entries -> Nat]]
      /\ dlq \in [Tenants -> SUBSET Entries]
      /\ handled \in [Tenants -> SUBSET Entries]
      /\ Entries \subseteq Nat \ {0}
  BY ConstantsAssumption DEF TypeOK, RedisTypeOK, Entries
<1>i. /\ StreamInv
      /\ \A w \in Workers : MessageInv(w, tenant[w], entry[w])
  BY DEF DeliveryInv
<1>d. Workers \cap Enqueuers = {} BY ConstantsAssumption
\* Steps of enqueuers.
<1>e. ASSUME NEW e \in Enqueuers, \A p \in Procs \ {e} : pc'[p] = pc[p] /\ tenant'[p] = tenant[p],
             \A w \in Workers : entry'[w] = entry[w] /\ count'[w] = count[w]
      PROVE  \A v \in Workers : Shown(v)
  BY <1>e, <1>d DEF Shown
<1>1. ASSUME NEW e \in Enqueuers, NEW t \in Tenants, EnsureGroup(e, t)
      PROVE  [Port!QNext]_(Port!queueVars)
  <2>1. UNCHANGED <<added, cursor, pel, times, dlq, handled, entry, count>>
    BY <1>1 DEF EnsureGroup, outcomeVars
  <2>2. \A p \in Procs \ {e} : pc'[p] = pc[p] /\ tenant'[p] = tenant[p]
    BY <1>1, <1>t DEF EnsureGroup
  <2>3. UNCHANGED <<Held, Seen>> BY <1>e, <2>1, <2>2, WorkersShown
  <2>4. UNCHANGED <<Owed, Deliveries, Done, Dead>> BY <2>1, StreamsShown
  <2> QED BY <2>3, <2>4 DEF Port!queueVars
<1>2. ASSUME NEW e \in Enqueuers, XAdd(e)
      PROVE  [Port!QNext]_(Port!queueVars)
  <2>1. PICK t \in Tenants : t = tenant[e] BY <1>2, <1>t DEF XAdd
  <2>2. PICK i \in Entries : i = added[t] + 1
    BY <1>2, <1>r, <2>1, ConstantsAssumption DEF XAdd, Entries
  <2>3. /\ added' = [added EXCEPT ![t] = i]
        /\ UNCHANGED <<cursor, pel, times, dlq, handled, tenant, entry, count>>
    BY <1>2, <2>1, <2>2 DEF XAdd, outcomeVars, localVars
  <2>4. \A p \in Procs \ {e} : pc'[p] = pc[p] /\ tenant'[p] = tenant[p]
    BY <1>2, <1>t, <2>3 DEF XAdd
  <2>5. UNCHANGED <<Held, Seen>> BY <1>e, <2>3, <2>4, WorkersShown
  <2>6. UNCHANGED <<Deliveries, Done, Dead>> BY <2>3 DEF Deliveries, Done, Dead
  <2>7. PICK it \in Items : it = <<t, i>> BY DEF Items
  <2>8. Deliveries[it] = 0
    BY <1>i, <1>r, <2>2, <2>7 DEF Deliveries, StreamInv
  <2>9. Owed' = Owed \cup {it}
    <3>1. /\ added'[t] = added[t] + 1 /\ i > cursor[t]
          /\ \A u \in Tenants : u # t => added'[u] = added[u]
      BY <1>i, <1>r, <2>2, <2>3 DEF StreamInv
    <3>2. ASSUME NEW u \in Tenants, NEW j \in Entries
          PROVE  <<u, j>> \in Owed' <=> <<u, j>> \in Owed \/ <<u, j>> = it
      <4>1. CASE u = t
        <5>1. j \in Nat /\ added[t] \in Nat /\ (j <= added[t] + 1 <=> j <= added[t] \/ j = i)
          BY <1>r, <2>2
        <5> QED BY <2>3, <2>7, <3>1, <4>1, <5>1 DEF Owed, Items
      <4>2. CASE u # t BY <2>3, <2>7, <3>1, <4>2 DEF Owed, Items
      <4> QED BY <4>1, <4>2
    <3> QED BY <2>7, <3>2 DEF Owed, Items
  <2>10. Port!Enqueue(it) BY <2>5, <2>6, <2>8, <2>9 DEF Port!Enqueue
  <2> QED BY <2>10 DEF Port!QNext
<1>3. ASSUME NEW e \in Enqueuers, EnqueueInterrupted(e)
      PROVE  [Port!QNext]_(Port!queueVars)
  <2>1. UNCHANGED <<added, cursor, pel, times, dlq, handled>>
    BY <1>3 DEF EnqueueInterrupted, outcomeVars, streamVars
  <2>2. \A p \in Procs \ {e} : pc'[p] = pc[p] /\ tenant'[p] = tenant[p]
    BY <1>3, <1>t DEF EnqueueInterrupted
  <2>3. \A w \in Workers : entry'[w] = entry[w] /\ count'[w] = count[w]
    BY <1>3, <1>d DEF EnqueueInterrupted
  <2>4. UNCHANGED <<Held, Seen>> BY <1>e, <2>2, <2>3, WorkersShown
  <2>5. UNCHANGED <<Owed, Deliveries, Done, Dead>> BY <2>1, StreamsShown
  <2> QED BY <2>4, <2>5 DEF Port!queueVars
<1>4. ASSUME NEW p \in Procs, ScheduleSAdd(p) \/ ScheduleRPush(p)
      PROVE  [Port!QNext]_(Port!queueVars)
  <2>1. UNCHANGED <<added, cursor, pel, times, dlq, handled>>
    BY <1>4 DEF ScheduleSAdd, ScheduleRPush, outcomeVars, streamVars
  <2>2. \A v \in Workers : Shown(v)
    BY <1>4, <1>t, <1>d DEF ScheduleSAdd, ScheduleRPush, Shown, Holding, localVars
  <2>3. UNCHANGED <<Held, Seen>> BY <2>2, WorkersShown
  <2>4. UNCHANGED <<Owed, Deliveries, Done, Dead>> BY <2>1, StreamsShown
  <2> QED BY <2>3, <2>4 DEF Port!queueVars
\* Steps of a worker that touch no stream and no outcome.
<1>5. ASSUME NEW w \in Workers,
             \/ LPop(w) \/ SRem(w) \/ XPending(w) \/ HandlerRaises(w)
             \/ WorkerDies(w) \/ WorkerRestarts(w)
      PROVE  [Port!QNext]_(Port!queueVars)
  <2>1. UNCHANGED <<added, cursor, pel, times, dlq, handled>>
    BY <1>5 DEF LPop, SRem, XPending, HandlerRaises, WorkerDies, WorkerRestarts,
                outcomeVars, streamVars
  <2>2. \A v \in Workers \ {w} : Shown(v)
    BY <1>5, <1>t
    DEF Shown, LPop, SRem, XPending, HandlerRaises, WorkerDies, WorkerRestarts, localVars
  <2>3. Shown(w) \/ pc'[w] \notin Holding
    BY <1>5, <1>t
    DEF Shown, Holding, LPop, SRem, XPending, HandlerRaises, WorkerDies,
        WorkerRestarts, localVars
  <2> QED BY <2>1, <2>2, <2>3, LocalStep
<1>6. ASSUME NEW w \in Workers, XClaim(w)
      PROVE  [Port!QNext]_(Port!queueVars)
  <2>1. PICK t \in Tenants, i \in Entries : t = tenant[w] /\ i = entry[w]
    BY <1>6, <1>t DEF XClaim, TypeOK, ClaimTypeOK
  <2>2. CASE i \in pel[t]
    <3>1. /\ times' = [times EXCEPT ![t][i] = @ + 1]
          /\ pc[w] = "xclaim" /\ pc' = [pc EXCEPT ![w] = "sadd"]
          /\ UNCHANGED <<added, cursor, pel, dlq, handled, tenant, entry, count>>
      BY <1>6, <2>1, <2>2 DEF XClaim, outcomeVars
    <3>2. PICK it \in Items : it = <<t, i>> BY DEF Items
    <3>3. PICK n \in Nat : n = count[w] BY <1>t
    <3>4. 1 <= n /\ n <= times[t][i] + 1 /\ i <= cursor[t] /\ cursor[t] <= added[t]
      BY <1>i, <2>1, <3>1, <3>3 DEF MessageInv, StreamInv
    <3>5. it \in Owed BY <1>r, <2>2, <3>2, <3>4 DEF Owed
    <3>6. Deliveries[it] = times[t][i] /\ Deliveries[it] \in Nat
      BY <1>r, <3>2 DEF Deliveries
    <3>7. Deliveries' = [Deliveries EXCEPT ![it] = Deliveries[it] + 1]
      <4>1. /\ times'[t][i] = times[t][i] + 1
            /\ \A u \in Tenants, j \in Entries :
                 <<u, j>> # it => times'[u][j] = times[u][j]
        BY <1>r, <3>1, <3>2
      <4>2. \A x \in Items : x # it => times'[x[1]][x[2]] = times[x[1]][x[2]]
        BY <3>2, <4>1 DEF Items
      <4>3. times'[it[1]][it[2]] = Deliveries[it] + 1 BY <3>2, <3>6, <4>1
      <4> QED BY <4>2, <4>3, ItemCounted
    <3>8. \A v \in Workers \ {w} : Shown(v) BY <1>t, <3>1 DEF Shown
    <3>9. /\ pc'[w] \in Holding /\ tenant'[w] = t /\ entry'[w] = i /\ count'[w] = n
          /\ pc[w] \notin Holding
      BY <1>t, <2>1, <3>1, <3>3 DEF Holding
    <3>10. Held' = [Held EXCEPT ![w] = it] /\ Seen' = [Seen EXCEPT ![w] = n]
      BY <3>2, <3>8, <3>9, WorkerTakes
    <3>11. UNCHANGED <<Owed, Done, Dead>> BY <3>1 DEF Owed, Done, Dead
    <3>12. n <= Deliveries[it] + 1 BY <3>4, <3>6
    <3> QED BY <3>4, <3>5, <3>6, <3>7, <3>9, <3>10, <3>11, <3>12, DeliverStep
  <2>3. CASE i \notin pel[t]
    <3>1. /\ UNCHANGED <<added, cursor, pel, times, dlq, handled, tenant>>
          /\ entry' = [entry EXCEPT ![w] = 0] /\ count' = [count EXCEPT ![w] = 0]
          /\ pc[w] = "xclaim" /\ pc' = [pc EXCEPT ![w] = "xreadgroup"]
      BY <1>6, <2>1, <2>3 DEF XClaim, outcomeVars
    <3>2. \A v \in Workers : Shown(v) BY <1>t, <3>1 DEF Shown, Holding
    <3> QED BY <3>1, <3>2, LocalStep
  <2> QED BY <2>2, <2>3
<1>7. ASSUME NEW w \in Workers, XReadGroup(w)
      PROVE  [Port!QNext]_(Port!queueVars)
  <2>1. PICK t \in Tenants : t = tenant[w]
    BY <1>7, <1>t DEF XReadGroup, ReadFresh, NoneFresh
  <2>2. CASE cursor[t] < added[t]
    <3>1. PICK i \in Entries : i = cursor[t] + 1
      BY <1>r, <2>1, <2>2, ConstantsAssumption DEF TypeOK, RedisTypeOK, Entries
    <3>2. /\ cursor' = [cursor EXCEPT ![t] = i]
          /\ pel' = [pel EXCEPT ![t] = @ \cup {i}]
          /\ times' = [times EXCEPT ![t][i] = 1]
          /\ entry' = [entry EXCEPT ![w] = i] /\ count' = [count EXCEPT ![w] = 1]
          /\ pc[w] = "xreadgroup" /\ pc' = [pc EXCEPT ![w] = "sadd"]
          /\ UNCHANGED <<added, dlq, handled, tenant>>
      BY <1>7, <1>r, <2>1, <2>2, <3>1
      DEF XReadGroup, ReadFresh, NoneFresh, outcomeVars
    <3>3. PICK it \in Items : it = <<t, i>> BY DEF Items
    <3>4. PICK n \in Nat : n = 1 OBVIOUS
    <3>5. i <= added[t] /\ i > cursor[t] /\ times[t][i] = 0
      BY <1>r, <1>i, <2>2, <3>1 DEF StreamInv
    <3>6. it \in Owed BY <3>3, <3>5 DEF Owed
    <3>7. Deliveries[it] = 0 BY <3>3, <3>5 DEF Deliveries
    <3>8. Deliveries' = [Deliveries EXCEPT ![it] = Deliveries[it] + 1]
      <4>1. /\ times'[t][i] = 1
            /\ \A u \in Tenants, j \in Entries :
                 <<u, j>> # it => times'[u][j] = times[u][j]
        BY <1>r, <3>2, <3>3
      <4>2. \A x \in Items : x # it => times'[x[1]][x[2]] = times[x[1]][x[2]]
        BY <3>3, <4>1 DEF Items
      <4>3. times'[it[1]][it[2]] = Deliveries[it] + 1 BY <3>3, <3>7, <4>1
      <4> QED BY <4>2, <4>3, ItemCounted
    <3>9. \A v \in Workers \ {w} : Shown(v) BY <1>t, <3>2 DEF Shown
    <3>10. /\ pc'[w] \in Holding /\ tenant'[w] = t /\ entry'[w] = i /\ count'[w] = n
           /\ pc[w] \notin Holding
      BY <1>t, <2>1, <3>2, <3>4 DEF Holding
    <3>11. Held' = [Held EXCEPT ![w] = it] /\ Seen' = [Seen EXCEPT ![w] = n]
      BY <3>3, <3>9, <3>10, WorkerTakes
    <3>12. UNCHANGED <<Done, Dead>> BY <3>2 DEF Done, Dead
    <3>13. Owed' = Owed
      <4>1. /\ cursor'[t] = i /\ pel'[t] = pel[t] \cup {i}
            /\ \A u \in Tenants : u # t => cursor'[u] = cursor[u] /\ pel'[u] = pel[u]
        BY <1>r, <3>2
      <4>2. ASSUME NEW u \in Tenants, NEW j \in Entries
            PROVE  <<u, j>> \in Owed' <=> <<u, j>> \in Owed
        <5>1. CASE u = t
          <6>1. i \in Nat /\ j \in Nat /\ cursor[t] \in Nat BY <1>r
          <6>2. (j > cursor[t]) <=> (j > i \/ j = i) BY <3>1, <6>1
          <6>3. (j > cursor'[u] \/ j \in pel'[u]) <=> (j > cursor[u] \/ j \in pel[u])
            BY <4>1, <5>1, <6>2
          <6> QED BY <3>2, <6>3 DEF Owed, Items
        <5>2. CASE u # t BY <3>2, <4>1, <5>2 DEF Owed, Items
        <5> QED BY <5>1, <5>2
      <4> QED BY <4>2 DEF Owed, Items
    <3>14. Deliveries[it] \in Nat /\ 1 <= n /\ n <= Deliveries[it] + 1
      BY <3>4, <3>7
    <3> QED BY <3>6, <3>8, <3>10, <3>11, <3>12, <3>13, <3>14, DeliverStep
  <2>3. CASE ~ (cursor[t] < added[t])
    <3>1. /\ UNCHANGED <<added, cursor, pel, times, dlq, handled>>
          /\ pc[w] = "xreadgroup" /\ Forget(w, "idle")
      BY <1>7, <2>1, <2>3
      DEF XReadGroup, ReadFresh, NoneFresh, outcomeVars, streamVars
    <3>2. \A v \in Workers : Shown(v) BY <1>t, <3>1 DEF Shown, Holding
    <3> QED BY <3>1, <3>2, LocalStep
  <2> QED BY <2>2, <2>3
<1>8. ASSUME NEW w \in Workers, HandlerReturns(w)
      PROVE  [Port!QNext]_(Port!queueVars)
  <2>1. PICK t \in Tenants, i \in Entries : t = tenant[w] /\ i = entry[w]
    BY <1>8, HeldItem DEF HandlerReturns, Holding
  <2>2. /\ UNCHANGED <<added, cursor, pel, times, dlq, tenant, entry, count>>
        /\ handled' = [handled EXCEPT ![t] = @ \cup {i}]
        /\ pc[w] = "handle" /\ pc' = [pc EXCEPT ![w] = "ack"]
    BY <1>8, <2>1 DEF HandlerReturns, streamVars, localVars
  <2>3. Held[w] = <<t, i>> /\ Held[w] # NoItem
    BY <2>1, <2>2, HeldItem DEF Holding
  <2>4. Done' = Done \cup {Held[w]}
    <3>1. /\ handled'[t] = handled[t] \cup {i}
          /\ \A u \in Tenants : u # t => handled'[u] = handled[u]
      BY <1>r, <2>2
    <3> QED BY <2>3, <3>1 DEF Done, Items
  <2>5. \A v \in Workers : Shown(v) BY <1>t, <2>2 DEF Shown, Holding
  <2>6. UNCHANGED <<Held, Seen>> BY <2>5, WorkersShown
  <2>7. UNCHANGED <<Owed, Deliveries, Dead>> BY <2>2 DEF Owed, Deliveries, Dead
  <2>8. Port!Finish(w) BY <2>3, <2>4, <2>6, <2>7 DEF Port!Finish
  <2> QED BY <2>8 DEF Port!QNext
<1>9. ASSUME NEW w \in Workers, DlqAdd(w)
      PROVE  [Port!QNext]_(Port!queueVars)
  <2>1. PICK t \in Tenants, i \in Entries : t = tenant[w] /\ i = entry[w]
    BY <1>9, HeldItem DEF DlqAdd, Holding
  <2>2. /\ UNCHANGED <<added, cursor, pel, times, handled, tenant, entry, count>>
        /\ dlq' = [dlq EXCEPT ![t] = @ \cup {i}]
        /\ pc[w] = "dlqadd" /\ pc' = [pc EXCEPT ![w] = "dlqack"]
    BY <1>9, <2>1 DEF DlqAdd, streamVars, localVars
  <2>3. Held[w] = <<t, i>> /\ Held[w] # NoItem /\ Seen[w] >= MaxDeliveries
    BY <1>i, <2>1, <2>2, HeldItem DEF Holding, MessageInv
  <2>4. Dead' = Dead \cup {Held[w]}
    <3>1. /\ dlq'[t] = dlq[t] \cup {i}
          /\ \A u \in Tenants : u # t => dlq'[u] = dlq[u]
      BY <1>r, <2>2
    <3> QED BY <2>3, <3>1 DEF Dead, Items
  <2>5. \A v \in Workers : Shown(v) BY <1>t, <2>2 DEF Shown, Holding
  <2>6. UNCHANGED <<Held, Seen>> BY <2>5, WorkersShown
  <2>7. UNCHANGED <<Owed, Deliveries, Done>> BY <2>2 DEF Owed, Deliveries, Done
  <2>8. Port!DeadLetter(w) BY <2>3, <2>4, <2>6, <2>7 DEF Port!DeadLetter
  <2> QED BY <2>8 DEF Port!QNext
<1>10. ASSUME NEW w \in Workers, XAck(w)
       PROVE  [Port!QNext]_(Port!queueVars)
  <2>1. PICK t \in Tenants, i \in Entries : t = tenant[w] /\ i = entry[w]
    BY <1>10, HeldItem DEF XAck, Holding
  <2>2. /\ UNCHANGED <<added, cursor, times, dlq, handled>>
        /\ pel' = [pel EXCEPT ![t] = @ \ {i}]
        /\ pc[w] \in {"ack", "dlqack"} /\ Forget(w, "idle")
    BY <1>10, <2>1 DEF XAck, outcomeVars
  <2>3. Held[w] = <<t, i>> /\ Held[w] \in Items
    BY <2>1, <2>2, HeldItem DEF Holding
  <2>4. Held[w] \in Done \cup Dead /\ i <= cursor[t]
    BY <1>i, <2>1, <2>2, <2>3 DEF MessageInv, Done, Dead, Holding
  <2>5. Owed' = Owed \ {Held[w]}
    <3>1. /\ pel'[t] = pel[t] \ {i}
          /\ \A u \in Tenants : u # t => pel'[u] = pel[u]
      BY <1>r, <2>2
    <3>2. ~ (i > cursor[t]) BY <1>r, <2>4
    <3>3. ASSUME NEW u \in Tenants, NEW j \in Entries
          PROVE  <<u, j>> \in Owed' <=> <<u, j>> \in Owed /\ <<u, j>> # <<t, i>>
      <4>1. CASE u = t BY <2>2, <3>1, <3>2, <4>1 DEF Owed, Items
      <4>2. CASE u # t BY <2>2, <3>1, <4>2 DEF Owed, Items
      <4> QED BY <4>1, <4>2
    <3> QED BY <2>3, <3>3 DEF Owed, Items
  <2>6. \A v \in Workers \ {w} : Shown(v) BY <1>t, <2>2 DEF Shown
  <2>7. pc'[w] \notin Holding BY <1>t, <2>2 DEF Holding
  <2>8. Held' = [Held EXCEPT ![w] = NoItem] /\ Seen' = [Seen EXCEPT ![w] = 0]
    BY <2>6, <2>7, WorkerDrops
  <2>9. UNCHANGED <<Deliveries, Done, Dead>> BY <2>2 DEF Deliveries, Done, Dead
  <2>10. Port!Settle(w) BY <2>4, <2>5, <2>8, <2>9 DEF Port!Settle
  <2> QED BY <2>10 DEF Port!QNext
<1>11. CASE UNCHANGED vars \/ \E w \in Workers : IdlePoll(w)
  <2>1. UNCHANGED vars BY <1>11 DEF IdlePoll
  <2>2. UNCHANGED <<Owed, Deliveries, Done, Dead>>
    BY <2>1, StreamsShown DEF vars, streamVars, outcomeVars
  <2>3. UNCHANGED <<Held, Seen>>
    BY <2>1, WorkersShown DEF Shown, vars, localVars
  <2> QED BY <2>2, <2>3 DEF Port!queueVars
<1> QED
  BY StepCases, <1>1, <1>2, <1>3, <1>4, <1>5, <1>6, <1>7, <1>8, <1>9, <1>10, <1>11

\* RedisIngestionQueue keeps the promise of IngestionQueuePort, crashes
\* included: every behaviour of it is one of the at-least-once queue.
THEOREM QueueRefinesPort == FaultySpec => ImplementsPort
<1>1. FaultySpec => []DeliveryInv
  BY TypeInductive, DeliveryInductive, PTL DEF FaultySpec
<1> QED
  BY <1>1, TypeCorrect, PortInit, PortStep, PTL
  DEF FaultySpec, ImplementsPort, Port!QSpec
==============================================================================
