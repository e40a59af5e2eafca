-------------------------- MODULE Services_proofs --------------------------
(***************************************************************************)
(* What holds of the services around a chat turn: of ModelRouter for any   *)
(* number of calls, any threshold, any cooldown and any number of permits; *)
(* of Budget for any workspaces, generations, costs and limits; of         *)
(* ThreadMemory for any turns, any thread and any window; of Listings for  *)
(* any threads, messages and size of a page; of Chunking for any documents *)
(* and any size of a chunk; and of HybridSearch for any documents, any     *)
(* rankings of the legs and any limits.                                    *)
(***************************************************************************)
EXTENDS ModelRouter, Budget, ThreadMemory, Listings, Chunking, HybridSearch,
        FiniteSetTheorems, SequenceTheorems, WellFoundedInduction, TLAPS

-----------------------------------------------------------------------------
(* The circuit breakers.                                                   *)

Coherent(b) ==
  /\ (b.state = "closed") <=> (b.failures < FailureThreshold)
  /\ (b.state = "closed") <=> (b.openedAt = None)
  /\ b.state = "half_open" => now - b.openedAt >= CooldownSeconds

BreakerInv ==
  /\ now \in Nat
  /\ breaker \in [Adapters -> CircuitBreaker]
  /\ \A p \in Adapters : Coherent(breaker[p])

LEMMA FreshCoherent ==
  ASSUME now \in Nat
  PROVE  Fresh \in CircuitBreaker /\ Coherent(Fresh)
BY RouterAssumption DEF Fresh, CircuitBreaker, Coherent, BreakerState, None

LEMMA AdmitCoherent ==
  ASSUME now \in Nat, NEW b \in CircuitBreaker, Coherent(b), ~ IsOpen(b)
  PROVE  Admit(b) \in CircuitBreaker /\ Coherent(Admit(b))
BY RouterAssumption DEF Admit, IsOpen, CircuitBreaker, Coherent, BreakerState, None

LEMMA RecordFailureCoherent ==
  ASSUME now \in Nat, NEW b \in CircuitBreaker, Coherent(b)
  PROVE  RecordFailure(b) \in CircuitBreaker /\ Coherent(RecordFailure(b))
BY RouterAssumption
   DEF RecordFailure, CircuitBreaker, Coherent, BreakerState, None

\* A breaker that takes the place of another one leaves the rest alone.
LEMMA BreakerReplaced ==
  ASSUME now \in Nat,
         NEW brk \in [Adapters -> CircuitBreaker],
         \A p \in Adapters : Coherent(brk[p]),
         NEW q,
         NEW b,
         q \in Adapters => b \in CircuitBreaker /\ Coherent(b)
  PROVE  /\ [brk EXCEPT ![q] = b] \in [Adapters -> CircuitBreaker]
         /\ \A p \in Adapters : Coherent([brk EXCEPT ![q] = b][p])
OBVIOUS

LEMMA WalkChainCoherent ==
  ASSUME now \in Nat,
         NEW brk \in [Adapters -> CircuitBreaker],
         \A p \in Adapters : Coherent(brk[p]),
         NEW c, NEW h, NEW fr,
         WalkChain(c, h, brk, fr)
  PROVE  /\ breaker' \in [Adapters -> CircuitBreaker]
         /\ \A p \in Adapters : Coherent(breaker'[p])
<1>1. CASE breaker' = brk
  BY <1>1
<1>2. CASE \E p : ~ IsOpen(brk[p]) /\ breaker' = [brk EXCEPT ![p] = Admit(@)]
  <2>1. PICK p : ~ IsOpen(brk[p]) /\ breaker' = [brk EXCEPT ![p] = Admit(brk[p])]
    BY <1>2
  <2>2. p \in Adapters => Admit(brk[p]) \in CircuitBreaker /\ Coherent(Admit(brk[p]))
    BY <2>1, AdmitCoherent
  <2>3. QED
    BY <2>1, <2>2, BreakerReplaced
<1>3. QED
  BY <1>1, <1>2 DEF WalkChain

LEMMA BreakerInit == Init => BreakerInv
BY FreshCoherent DEF Init, BreakerInv

LEMMA BreakerStep == BreakerInv /\ [Next]_vars => BreakerInv'
<1> SUFFICES ASSUME BreakerInv, [Next]_vars
             PROVE  BreakerInv'
  OBVIOUS
<1> USE DEF BreakerInv
<1>1. CASE Tick
  BY <1>1, RouterAssumption DEF Tick, Coherent, CircuitBreaker, BreakerState, None
<1>2. CASE vars' = vars
  BY <1>2 DEF vars, Coherent
<1>3. ASSUME NEW c \in Calls, CallStep(c), now' = now,
             /\ breaker' \in [Adapters -> CircuitBreaker]
             /\ \A p \in Adapters : Coherent(breaker'[p])
      PROVE  BreakerInv'
  BY <1>3 DEF Coherent
<1>4. ASSUME NEW c \in Calls, CallStep(c)
      PROVE  /\ now' = now
             /\ breaker' \in [Adapters -> CircuitBreaker]
             /\ \A p \in Adapters : Coherent(breaker'[p])
  <2> DEFINE failed == [breaker EXCEPT ![Provider(c)] = RecordFailure(@)]
  <2>1. /\ failed \in [Adapters -> CircuitBreaker]
        /\ \A p \in Adapters : Coherent(failed[p])
    <3>1. Provider(c) \in Adapters =>
            /\ RecordFailure(breaker[Provider(c)]) \in CircuitBreaker
            /\ Coherent(RecordFailure(breaker[Provider(c)]))
      BY RecordFailureCoherent
    <3>2. QED
      BY <3>1, BreakerReplaced
  <2>2. CASE Start(c)
    BY <2>2, WalkChainCoherent DEF Start
  <2>3. CASE Text(c) \/ Usage(c)
    <3>1. Responded(c) /\ now' = now
      BY <2>3 DEF Text, Usage
    <3>2. CASE breaker' = breaker
      BY <3>1, <3>2
    <3>3. CASE breaker' = [breaker EXCEPT ![Provider(c)] = Fresh]
      BY <3>1, <3>3, FreshCoherent, BreakerReplaced
    <3>4. QED
      BY <3>1, <3>2, <3>3 DEF Responded, RecordSuccess
  <2>4. CASE FallBack(c)
    <3>1. WalkChain(c, call[c].hop, failed, Released(c)) /\ now' = now
      BY <2>4 DEF FallBack
    <3>2. QED
      BY <3>1, <2>1, WalkChainCoherent
  <2>5. CASE Refused(c)
    BY <2>5, <2>1 DEF Refused
  <2>6. CASE \/ Acquire(c) \/ Resume(c) \/ End(c) \/ Close(c) \/ Raise(c) \/ Echo(c)
    <3>1. breaker' = breaker /\ now' = now
      BY <2>6 DEF Acquire, Resume, End, Close, Raise, Echo, Leave
    <3>2. QED
      BY <3>1
  <2>7. QED
    BY <1>4, <2>2, <2>3, <2>4, <2>5, <2>6 DEF CallStep
<1>5. QED
  BY <1>1, <1>2, <1>3, <1>4 DEF Next

\* Each breaker stays coherent under calls that overlap, whatever order their
\* successes and failures come in (CircuitBreaker, app/llm/circuit_breaker.py).
THEOREM BreakersStayCoherent == Spec => []BreakerCoherent
<1>1. BreakerInv => BreakerCoherent
  BY DEF BreakerInv, BreakerCoherent, Coherent
<1>2. QED
  BY BreakerInit, BreakerStep, <1>1, PTL DEF Spec
-----------------------------------------------------------------------------
(* One voice.                                                              *)

Shape ==
  [pc : {"start", "waiting", "reading", "yielded", "echo",
         "returned", "unavailable", "raised", "closed"},
   hop : Nat, responded : BOOLEAN, textSent : BOOLEAN, leaked : BOOLEAN,
   texts : Int, metered : BOOLEAN, voices : SUBSET Adapters]

Reading(c) == call[c].pc \in {"reading", "yielded"}
Silent(c) == call[c].pc \in {"start", "waiting", "echo", "unavailable"}

LEMMA ThreeShort ==
  ASSUME NEW S, NEW s \in Seq(S), NEW t \in Seq(S), NEW u \in Seq(S),
         Len(s) \in 0 .. 1, Len(t) \in 0 .. 1, Len(u) \in 0 .. 1
  PROVE  s \o t \o u \in Seq(S) /\ Len(s \o t \o u) \in 0 .. 3
<1>1. s \o t \in Seq(S) /\ Len(s \o t) = Len(s) + Len(t)
  OBVIOUS
<1>2. (s \o t) \o u \in Seq(S) /\ Len((s \o t) \o u) = Len(s \o t) + Len(u)
  BY <1>1
<1>3. \A a, b, d \in 0 .. 1 : a + b + d \in 0 .. 3
  OBVIOUS
<1>4. Len(s) + Len(t) + Len(u) \in 0 .. 3
  BY <1>3
<1>5. QED
  BY <1>1, <1>2, <1>4

LEMMA ChainType ==
  /\ ModelChain \in Seq(Adapters)
  /\ Len(ModelChain) \in 0 .. 3
<1> DEFINE If(p) == IF p \in configured THEN <<p>> ELSE <<>>
           Short(s, n) == s \in Seq(Adapters) /\ Len(s) \in 0 .. n
<1>1. ASSUME NEW p \in Adapters
      PROVE  Short(If(p), 1)
  <2>1. <<p>> \in Seq(Adapters) /\ Len(<<p>>) = 1
    OBVIOUS
  <2>2. <<>> \in Seq(Adapters) /\ Len(<<>>) = 0
    OBVIOUS
  <2>3. QED
    BY <2>1, <2>2
<1>2. ModelChain = If("openai") \o If("anthropic") \o If("groq")
  BY DEF ModelChain, BuildGenerator
<1>3. Short(If("openai"), 1) /\ Short(If("anthropic"), 1) /\ Short(If("groq"), 1)
  BY <1>1 DEF Adapters
<1> HIDE DEF If
<1>4. QED
  BY <1>2, <1>3, ThreeShort

\* What is said while a call reads a provider is said by that provider, after
\* it has responded; a call that has yet to read, or gives up, has said
\* nothing; and over all its hops a call has one voice at most.
VoiceInv ==
  /\ call \in [Calls -> Shape]
  /\ \A c \in Calls :
       /\ Reading(c) \/ call[c].pc = "waiting" => call[c].hop \in 1 .. Len(ModelChain)
       /\ Reading(c) => call[c].voices \subseteq {Provider(c)}
       /\ Reading(c) /\ call[c].voices # {} => call[c].textSent
       /\ call[c].textSent /\ Reading(c) => call[c].responded
       /\ Silent(c) => call[c].voices = {}
       /\ call[c].pc = "waiting" => ~ call[c].textSent
       /\ \E p : call[c].voices \subseteq {p}

LEMMA VoiceInit == Init => VoiceInv
BY DEF Init, VoiceInv, NewCall, Locals, Shape, Reading, Silent

\* Only the call that steps changes.
LEMMA VoiceLocal ==
  ASSUME VoiceInv, NEW c \in Calls, UNCHANGED configured,
         NEW k \in Shape, call' = [call EXCEPT ![c] = k],
         k.pc \in {"reading", "yielded"} =>
           /\ k.voices \subseteq {ModelChain[k.hop]}
           /\ k.voices # {} => k.textSent
           /\ k.textSent => k.responded,
         k.pc \in {"start", "waiting", "echo", "unavailable"} => k.voices = {},
         k.pc = "waiting" => ~ k.textSent,
         k.pc \in {"waiting", "reading", "yielded"} => k.hop \in 1 .. Len(ModelChain),
         \E p : k.voices \subseteq {p}
  PROVE  VoiceInv'
<1>1. call' \in [Calls -> Shape]
  BY DEF VoiceInv
<1>2. ModelChain' = ModelChain
  BY DEF ModelChain
<1>3. call'[c] = k
  BY DEF VoiceInv
<1>4. ASSUME NEW d \in Calls, d # c
      PROVE  call'[d] = call[d]
  BY <1>4 DEF VoiceInv
<1>5. QED
  BY <1>1, <1>2, <1>3, <1>4 DEF VoiceInv, Reading, Silent, Provider

\* The call that steps goes on reading its provider.
ReadsOn(c, k) ==
  /\ k.pc \in {"reading", "yielded"} /\ k.hop = call[c].hop
  /\ k.voices \subseteq {Provider(c)}
  /\ k.voices # {} => k.textSent
  /\ k.textSent => k.responded

LEMMA VoiceReading ==
  ASSUME VoiceInv, NEW c \in Calls, UNCHANGED configured, Reading(c),
         NEW k \in Shape, call' = [call EXCEPT ![c] = k], ReadsOn(c, k)
  PROVE  VoiceInv'
<1>0. /\ k.pc \in {"reading", "yielded"} /\ k.hop = call[c].hop
      /\ k.voices \subseteq {Provider(c)}
      /\ k.voices # {} => k.textSent
      /\ k.textSent => k.responded
  BY DEF ReadsOn
<1>1. k.hop \in 1 .. Len(ModelChain) BY <1>0 DEF VoiceInv
<1>2. Provider(c) = ModelChain[k.hop] BY <1>0 DEF Provider
<1>3. k.voices \subseteq {ModelChain[k.hop]} BY <1>0, <1>2
<1>4. \E p : k.voices \subseteq {p} BY <1>3
<1>5. k.pc \notin {"start", "waiting", "echo", "unavailable"} BY <1>0
<1>6. k.pc # "waiting" BY <1>5
<1> QED BY <1>0, <1>1, <1>3, <1>4, <1>5, <1>6, VoiceLocal

\* The call that steps has said nothing.
LEMMA VoiceSilent ==
  ASSUME VoiceInv, NEW c \in Calls, UNCHANGED configured,
         NEW k \in Shape, call' = [call EXCEPT ![c] = k],
         k.voices = {}, k.pc \in {"waiting", "reading", "yielded"} =>
           k.hop \in 1 .. Len(ModelChain) /\ ~ k.textSent
  PROVE  VoiceInv'
<1>1. \E p : k.voices \subseteq {p}
  OBVIOUS
<1>2. k.voices \subseteq {ModelChain[k.hop]}
  OBVIOUS
<1>3. QED
  BY <1>1, <1>2, VoiceLocal

LEMMA AtHopShape ==
  ASSUME NEW c, call[c] \in Shape, NEW k \in Nat,
         NEW step \in {"reading", "waiting", "returned", "unavailable", "raised", "closed"}
  PROVE  /\ AtHop(c, k, step) \in Shape
         /\ AtHop(c, k, step).pc = step
         /\ AtHop(c, k, step).hop = k
         /\ AtHop(c, k, step).voices = call[c].voices
         /\ ~ AtHop(c, k, step).textSent
<1>1. AtHop(c, k, step) =
        [pc |-> step, hop |-> k, responded |-> FALSE, textSent |-> FALSE,
         leaked |-> FALSE, texts |-> 0, metered |-> FALSE,
         voices |-> call[c].voices]
  BY DEF AtHop, Locals
<1>2. call[c].voices \in SUBSET Adapters
  BY DEF Shape
<1>3. QED
  BY <1>1, <1>2 DEF Shape

\* What a text does to the local variables, but for the voices.
LEMMA TextShape ==
  ASSUME NEW k \in Shape, NEW n \in Int
  PROVE  LET r == [k EXCEPT !.responded = TRUE, !.texts = n]
             e == [k EXCEPT !.pc = "echo", !.texts = n, !.textSent = TRUE]
         IN  /\ r \in Shape /\ r.pc = k.pc /\ r.responded /\ r.hop = k.hop
             /\ r.voices = k.voices /\ r.textSent = k.textSent
             /\ e \in Shape /\ e.pc = "echo" /\ e.voices = k.voices
BY DEF Shape

LEMMA VoiceStep == VoiceInv /\ [Next]_vars => VoiceInv'
<1> SUFFICES ASSUME VoiceInv, [Next]_vars
             PROVE  VoiceInv'
  OBVIOUS
<1>1. CASE Tick \/ vars' = vars
  <2>1. call' = call /\ configured' = configured
    BY <1>1 DEF Tick, vars
  <2>2. ModelChain' = ModelChain
    BY <2>1 DEF ModelChain
  <2>3. QED
    BY <2>1, <2>2 DEF VoiceInv, Reading, Silent, Provider
<1>2. ASSUME NEW c \in Calls, CallStep(c)
      PROVE  VoiceInv'
  <2>0. /\ call[c] \in Shape
        /\ configured' = configured
        /\ Provider(c) = ModelChain[call[c].hop]
    BY <1>2 DEF VoiceInv, Provider, CallStep, Start, Acquire, Text, Usage, Resume,
                End, Close, FallBack, Refused, Raise, Echo, Leave
  <2> call[c].texts + 1 \in Int
    BY <2>0 DEF Shape
  <2>1. ASSUME NEW h \in Nat, NEW brk, NEW fr, WalkChain(c, h, brk, fr),
               call[c].voices = {}
        PROVE  VoiceInv'
    <3>1. PICK k \in Nat, step \in {"reading", "waiting", "unavailable"} :
            /\ call' = [call EXCEPT ![c] = AtHop(c, k, step)]
            /\ step = "unavailable" \/ k \in 1 .. Len(ModelChain)
      BY <2>1, ChainType DEF WalkChain, Finished
    <3>2. /\ AtHop(c, k, step) \in Shape
          /\ AtHop(c, k, step).pc = step /\ AtHop(c, k, step).hop = k
          /\ AtHop(c, k, step).voices = {}
          /\ ~ AtHop(c, k, step).textSent
      BY <2>0, <2>1, AtHopShape
    <3>3. QED
      BY <2>0, <3>1, <3>2, VoiceSilent
  <2>2. CASE Start(c)
    BY <2>1, <2>2 DEF Start, VoiceInv, Silent
  <2>3. CASE FallBack(c)
    BY <2>0, <2>1, <2>3 DEF FallBack, VoiceInv, Reading, Shape
  <2>4. CASE Acquire(c)
    <3> DEFINE k == [call[c] EXCEPT !.pc = "reading"]
    <3>1. k \in Shape /\ k.pc = "reading" /\ call' = [call EXCEPT ![c] = k]
      BY <2>0, <2>4 DEF Acquire, Shape
    <3>2. /\ k.voices = call[c].voices /\ k.hop = call[c].hop
          /\ k.textSent = call[c].textSent
      BY <2>0 DEF Shape
    <3>3. call[c].pc = "waiting"
      BY <2>4 DEF Acquire
    <3>4. QED
      BY <2>0, <3>1, <3>2, <3>3, VoiceSilent DEF VoiceInv, Silent
  <2>5. CASE Text(c)
    <3> DEFINE Read == [call[c] EXCEPT !.responded = TRUE, !.texts = @ + 1]
               Said(k) == \/ k = Read
                          \/ k = Relay(Read, Provider(c))
                          \/ k = Intervene(Read, Provider(c))
    <3>1. PICK k : Said(k) /\ call' = [call EXCEPT ![c] = k]
      BY <2>5 DEF Text
    <3>2. Reading(c)
      BY <2>5 DEF Text, Reading
    <3>3. /\ Read \in Shape /\ Read.pc = call[c].pc /\ Read.responded
          /\ Read.hop = call[c].hop /\ Read.voices = call[c].voices
          /\ Read.textSent = call[c].textSent
      BY <2>0, TextShape
    <3> HIDE DEF Read
    <3>4. CASE k = Read
      <4>1. k \in Shape /\ k.pc \in {"reading", "yielded"} /\ k.hop = call[c].hop
        BY <3>2, <3>3, <3>4 DEF Reading
      <4>2. k.voices \subseteq {Provider(c)} BY <3>2, <3>3, <3>4 DEF VoiceInv
      <4>3. k.voices # {} => k.textSent BY <3>2, <3>3, <3>4 DEF VoiceInv
      <4>4. k.responded BY <3>3, <3>4
      <4>5. ReadsOn(c, k) BY <4>1, <4>2, <4>3, <4>4 DEF ReadsOn
      <4> QED BY <2>0, <3>1, <3>2, <4>1, <4>5, VoiceReading
    <3>5. ASSUME k \in Shape, k.pc = "yielded", k.hop = call[c].hop, k.responded,
                 k.textSent, k.voices = call[c].voices \cup {Provider(c)}
          PROVE  VoiceInv'
      <4>1. call[c].voices \subseteq {Provider(c)} BY <3>2 DEF VoiceInv
      <4>2. k.voices \subseteq {Provider(c)} BY <3>5, <4>1
      <4>3. ReadsOn(c, k) BY <3>5, <4>2 DEF ReadsOn
      <4> QED BY <2>0, <3>1, <3>2, <3>5, <4>3, VoiceReading
    <3>6. Provider(c) \in Adapters
      BY <2>0, <3>2, ChainType DEF VoiceInv, Provider
    <3>7. CASE k = Relay(Read, Provider(c))
      BY <3>3, <3>5, <3>6, <3>7 DEF Relay, Shape
    <3>8. CASE k = Intervene(Read, Provider(c))
      BY <3>3, <3>5, <3>6, <3>8 DEF Relay, Intervene, Shape
    <3>9. QED
      BY <3>1, <3>4, <3>7, <3>8
  <2>6. CASE Usage(c)
    <3> DEFINE k == [call[c] EXCEPT !.responded = TRUE, !.metered = TRUE,
                                    !.pc = "yielded"]
    <3>1. call' = [call EXCEPT ![c] = k]
      BY <2>6 DEF Usage
    <3>2. /\ k \in Shape /\ k.pc = "yielded" /\ k.responded
          /\ k.hop = call[c].hop /\ k.voices = call[c].voices
          /\ k.textSent = call[c].textSent
      BY <2>0 DEF Shape
    <3>3. Reading(c)
      BY <2>6 DEF Usage, Reading
    <3>4. ReadsOn(c, k)
      BY <3>2, <3>3 DEF VoiceInv, ReadsOn
    <3> HIDE DEF k
    <3>5. QED
      BY <2>0, <3>1, <3>2, <3>3, <3>4, VoiceReading
  <2>7. CASE Resume(c)
    <3> DEFINE k == [call[c] EXCEPT !.pc = "reading"]
    <3>1. k \in Shape /\ k.pc = "reading" /\ call' = [call EXCEPT ![c] = k]
      BY <2>0, <2>7 DEF Resume, Shape
    <3>2. /\ k.voices = call[c].voices /\ k.hop = call[c].hop
          /\ k.textSent = call[c].textSent /\ k.responded = call[c].responded
      BY <2>0 DEF Shape
    <3>3. Reading(c)
      BY <2>7 DEF Resume, Reading
    <3>4. ReadsOn(c, k)
      BY <3>1, <3>2, <3>3 DEF VoiceInv, ReadsOn
    <3> HIDE DEF k
    <3>5. QED
      BY <2>0, <3>1, <3>2, <3>3, <3>4, VoiceReading
  <2>8. ASSUME NEW step \in {"returned", "raised", "closed"},
               call' = [call EXCEPT ![c] = Finished(c, step)]
        PROVE  VoiceInv'
    <3> DEFINE k == Finished(c, step)
    <3>1. k \in Shape /\ k.pc = step /\ k.voices = call[c].voices
      BY <2>0, <2>8, AtHopShape DEF Finished
    <3>2. \E p : k.voices \subseteq {p}
      BY <3>1 DEF VoiceInv
    <3>3. QED
      BY <2>0, <2>8, <3>1, <3>2, VoiceLocal
  <2>9. CASE End(c) \/ Close(c) \/ Raise(c)
    BY <2>8, <2>9 DEF End, Close, Raise, Leave
  <2>10. CASE Refused(c)
    <3>1. Reading(c) /\ call' = [call EXCEPT ![c] = Finished(c, "unavailable")]
      BY <2>10 DEF Refused, Reading
    <3>2. ~ call[c].responded
      BY <2>10 DEF Refused, Items, OpenAiStream, GroqStream, AnthropicStream,
                   OpenAiCompatibleStream, HttpErrors, ParseOpenAiCompatible,
                   ParseAnthropic
    <3>3. call[c].voices = {}
      BY <2>0, <3>1, <3>2 DEF VoiceInv, Shape
    <3> DEFINE k == AtHop(c, 0, "unavailable")
    <3>4. k \in Shape /\ k.pc = "unavailable" /\ k.voices = {}
      BY <2>0, <3>3, AtHopShape
    <3>5. QED
      BY <2>0, <3>1, <3>4, VoiceSilent DEF Finished
  <2>11. CASE Echo(c)
    <3>0. ASSUME call[c].pc \in {"start", "echo"}
          PROVE  call[c].voices = {}
      BY <3>0 DEF VoiceInv, Silent
    <3>1. CASE call[c].pc \in {"start", "echo"} /\ call' = [call EXCEPT ![c].pc = "echo",
                 ![c].texts = @ + 1, ![c].textSent = TRUE]
      <4> DEFINE k == [call[c] EXCEPT !.pc = "echo", !.texts = @ + 1, !.textSent = TRUE]
      <4>1. k \in Shape /\ k.pc = "echo" /\ k.voices = call[c].voices
        BY <2>0, TextShape
      <4>2. call' = [call EXCEPT ![c] = k]
        BY <3>1
      <4> HIDE DEF k
      <4>3. QED
        BY <2>0, <3>0, <3>1, <4>1, <4>2, VoiceSilent
    <3>2. CASE call[c].pc \in {"start", "echo"} /\ call' = [call EXCEPT ![c].pc = "echo",
                 ![c].metered = TRUE]
      <4> DEFINE k == [call[c] EXCEPT !.pc = "echo", !.metered = TRUE]
      <4>1. k \in Shape /\ k.pc = "echo" /\ k.voices = call[c].voices
        BY <2>0 DEF Shape
      <4>2. call' = [call EXCEPT ![c] = k]
        BY <3>2
      <4> HIDE DEF k
      <4>3. QED
        BY <2>0, <3>0, <3>2, <4>1, <4>2, VoiceSilent
    <3>3. QED
      BY <2>8, <2>11, <3>1, <3>2 DEF Echo
  <2>12. QED
    BY <1>2, <2>2, <2>3, <2>4, <2>5, <2>6, <2>7, <2>9, <2>10, <2>11 DEF CallStep
<1>3. QED
  BY <1>1, <1>2 DEF Next

\* A caller is never given the text of two providers, and none of a call that
\* finds no provider (LlmRouter.generate, app/llm/router.py).
THEOREM NeverTwoVoices == Spec => []OneVoice
<1>1. VoiceInv => OneVoice
  <2> SUFFICES ASSUME VoiceInv, NEW c \in Calls
               PROVE  /\ Cardinality(call[c].voices) <= 1
                      /\ call[c].pc = "unavailable" => call[c].voices = {}
    BY DEF OneVoice
  <2>1. PICK p : call[c].voices \subseteq {p}
    BY DEF VoiceInv
  <2>2. call[c].voices = {} \/ call[c].voices = {p}
    BY <2>1
  <2>3. Cardinality(call[c].voices) \in {0, 1}
    BY <2>2, FS_EmptySet, FS_Singleton
  <2>4. QED
    BY <2>3 DEF VoiceInv, Silent
<1>2. QED
  BY VoiceInit, VoiceStep, <1>1, PTL DEF Spec

-----------------------------------------------------------------------------
(* The permits.                                                            *)

\* 1 when the local variables k hold a permit of p.
Holds(k, p) ==
  IF k.pc \in {"reading", "yielded"} /\ ModelChain[k.hop] = p THEN 1 ELSE 0

\* A permit is free or held.
FreeInv ==
  /\ free \in [Adapters -> Int]
  /\ \A p \in Adapters :
       IsFiniteSet(Holders(p)) /\ free[p] + Cardinality(Holders(p)) = MaxConcurrent

\* The queues hold the calls that wait, each of them once.
QueueInv ==
  /\ waiters \in [Adapters -> Seq(Calls)]
  /\ \A p \in Adapters : \A i \in DOMAIN waiters[p] :
       call[waiters[p][i]].pc = "waiting" /\ Provider(waiters[p][i]) = p
  /\ \A p \in Adapters : \A i, j \in DOMAIN waiters[p] :
       waiters[p][i] = waiters[p][j] => i = j
  /\ \A c \in Calls : call[c].pc = "waiting" =>
       \E i \in DOMAIN waiters[Provider(c)] : waiters[Provider(c)][i] = c

PermitInv == VoiceInv /\ FreeInv /\ QueueInv

\* What a call takes and gives back is what it holds before and after.
LEMMA FreeStep ==
  ASSUME VoiceInv, FreeInv, NEW c \in Calls, UNCHANGED configured,
         NEW k, call' = [call EXCEPT ![c] = k],
         free' \in [Adapters -> Int],
         \A p \in Adapters : free'[p] = free[p] + Holds(call[c], p) - Holds(k, p)
  PROVE  FreeInv'
<1>1. ModelChain' = ModelChain
  BY DEF ModelChain
<1>2. call'[c] = k /\ \A d \in Calls : d # c => call'[d] = call[d]
  BY DEF VoiceInv
<1>3. SUFFICES ASSUME NEW p \in Adapters
               PROVE  /\ IsFiniteSet(Holders(p)')
                      /\ free'[p] + Cardinality(Holders(p)') = MaxConcurrent
  BY DEF FreeInv
<1> DEFINE H == Holders(p)
           Rest == H \ {c}
<1>4. /\ IsFiniteSet(H) /\ Cardinality(H) \in Nat /\ free[p] \in Int
      /\ free[p] + Cardinality(H) = MaxConcurrent
  BY FS_CardinalityType DEF FreeInv
<1>5. /\ Holds(call[c], p) = 1 <=> c \in H
      /\ Holds(call[c], p) \in {0, 1} /\ Holds(k, p) \in {0, 1}
  BY DEF Holds, Holders, Provider
<1>6. /\ Holds(k, p) = 1 => Holders(p)' = Rest \cup {c}
      /\ Holds(k, p) = 0 => Holders(p)' = Rest
  BY <1>1, <1>2 DEF Holds, Holders, Provider
<1> HIDE DEF H
<1>7. /\ IsFiniteSet(Rest)
      /\ Cardinality(Rest) = Cardinality(H) - Holds(call[c], p)
  <2>1. CASE c \in H
    BY <1>4, <1>5, <2>1, FS_RemoveElement
  <2>2. CASE c \notin H
    BY <1>4, <1>5, <2>2, FS_RemoveElement
  <2>3. QED
    BY <2>1, <2>2
<1>8. /\ IsFiniteSet(Rest \cup {c})
      /\ Cardinality(Rest \cup {c}) = Cardinality(Rest) + 1
  BY <1>7, FS_AddElement
<1> HIDE DEF Rest
<1>9. /\ IsFiniteSet(Holders(p)')
      /\ Cardinality(Holders(p)') = Cardinality(Rest) + Holds(k, p)
  <2>1. Cardinality(Rest) \in Nat
    BY <1>7, FS_CardinalityType
  <2>2. CASE Holds(k, p) = 1
    BY <1>6, <1>8, <2>2
  <2>3. CASE Holds(k, p) = 0
    <3>1. Cardinality(Holders(p)') = Cardinality(Rest)
      BY <1>6, <2>3
    <3>2. QED
      BY <1>6, <1>7, <2>1, <2>3, <3>1
  <2>4. QED
    BY <1>5, <2>2, <2>3
<1>10. free'[p] = free[p] + Holds(call[c], p) - Holds(k, p)
  OBVIOUS
<1>11. \A a, n, x, y \in Int : (a + x - y) + ((n - x) + y) = a + n
  OBVIOUS
<1>12. free'[p] + Cardinality(Holders(p)') = free[p] + Cardinality(H)
  <2>1. Holds(call[c], p) \in Int /\ Holds(k, p) \in Int /\ Cardinality(H) \in Int
    BY <1>4, <1>5
  <2>2. QED
    BY <1>4, <1>7, <1>9, <1>10, <1>11, <2>1
<1>13. QED
  BY <1>4, <1>9, <1>12

\* A call that neither waits nor comes to wait.
LEMMA QueueStays ==
  ASSUME VoiceInv, QueueInv, NEW c \in Calls, UNCHANGED <<configured, waiters>>,
         NEW k, call' = [call EXCEPT ![c] = k],
         call[c].pc # "waiting", k.pc # "waiting"
  PROVE  QueueInv'
<1>1. ModelChain' = ModelChain
  BY DEF ModelChain
<1>2. call'[c] = k /\ \A d \in Calls : d # c => call'[d] = call[d]
  BY DEF VoiceInv
<1>3. \A p \in Adapters : \A i \in DOMAIN waiters[p] :
        waiters[p][i] \in Calls /\ waiters[p][i] # c
  BY DEF QueueInv
<1>4. QED
  BY <1>1, <1>2, <1>3 DEF QueueInv, Provider

LEMMA QueueIntro ==
  ASSUME UNCHANGED configured,
         waiters' \in [Adapters -> Seq(Calls)],
         \A q \in Adapters : \A i \in DOMAIN waiters'[q] :
           call'[waiters'[q][i]].pc = "waiting" /\ ModelChain[call'[waiters'[q][i]].hop] = q,
         \A q \in Adapters : \A i, j \in DOMAIN waiters'[q] :
           waiters'[q][i] = waiters'[q][j] => i = j,
         \A d \in Calls : call'[d].pc = "waiting" =>
           \E i \in DOMAIN waiters'[ModelChain[call'[d].hop]] :
             waiters'[ModelChain[call'[d].hop]][i] = d
  PROVE  QueueInv'
<1>1. ModelChain' = ModelChain
  BY DEF ModelChain
<1>2. QED
  BY <1>1 DEF QueueInv, Provider

\* A call that comes to wait is appended.
LEMMA QueueAppend ==
  ASSUME VoiceInv, QueueInv, NEW c \in Calls, UNCHANGED configured,
         NEW k, call' = [call EXCEPT ![c] = k],
         call[c].pc # "waiting", k.pc = "waiting",
         NEW p \in Adapters, ModelChain[k.hop] = p,
         waiters' = [waiters EXCEPT ![p] = Append(@, c)]
  PROVE  QueueInv'
<1>1. ModelChain' = ModelChain
  BY DEF ModelChain
<1>2. call'[c] = k /\ \A d \in Calls : d # c => call'[d] = call[d]
  BY DEF VoiceInv
<1>3. \A q \in Adapters : \A i \in DOMAIN waiters[q] :
        waiters[q][i] \in Calls /\ waiters[q][i] # c
  BY DEF QueueInv
<1>4. waiters' \in [Adapters -> Seq(Calls)]
      /\ \A q \in Adapters : q # p => waiters'[q] = waiters[q]
  BY DEF QueueInv
<1>5. PICK n \in Nat : n = Len(waiters[p])
  BY DEF QueueInv
<1>6. /\ DOMAIN waiters[p] = 1 .. n /\ DOMAIN waiters'[p] = 1 .. n + 1
      /\ waiters'[p][n + 1] = c
      /\ \A i \in 1 .. n : waiters'[p][i] = waiters[p][i]
  BY <1>5 DEF QueueInv
<1>7. ASSUME NEW q \in Adapters, NEW i \in DOMAIN waiters'[q]
      PROVE  call'[waiters'[q][i]].pc = "waiting" /\ ModelChain[call'[waiters'[q][i]].hop] = q
  <2>1. CASE q # p \/ i # n + 1
    <3>1. i \in DOMAIN waiters[q] /\ waiters'[q][i] = waiters[q][i]
      BY <1>4, <1>6, <1>7, <2>1
    <3>2. PICK w : w = waiters[q][i]
      OBVIOUS
    <3>3. w \in Calls /\ w # c /\ call[w].pc = "waiting" /\ ModelChain[call[w].hop] = q
      BY <1>3, <3>1, <3>2 DEF QueueInv, Provider
    <3>4. QED
      BY <1>2, <3>1, <3>2, <3>3
  <2>2. CASE q = p /\ i = n + 1
    BY <1>2, <1>6, <2>2
  <2>3. QED
    BY <2>1, <2>2
<1>8. ASSUME NEW q \in Adapters, NEW i \in DOMAIN waiters'[q], NEW j \in DOMAIN waiters'[q],
             waiters'[q][i] = waiters'[q][j]
      PROVE  i = j
  <2>1. CASE q # p
    BY <1>4, <1>8, <2>1 DEF QueueInv
  <2>2. CASE q = p
    BY <1>3, <1>6, <1>8, <2>2 DEF QueueInv
  <2>3. QED
    BY <2>1, <2>2
<1>9. ASSUME NEW d \in Calls, call'[d].pc = "waiting"
      PROVE  \E i \in DOMAIN waiters'[ModelChain[call'[d].hop]] :
                waiters'[ModelChain[call'[d].hop]][i] = d
  <2>1. CASE d = c
    <3>1. ModelChain[call'[d].hop] = p
      BY <1>2, <2>1
    <3>2. n + 1 \in DOMAIN waiters'[p] /\ waiters'[p][n + 1] = d
      BY <1>6, <2>1
    <3>3. QED
      BY <3>1, <3>2
  <2>2. CASE d # c
    <3>1. ModelChain[call'[d].hop] = Provider(d) /\ call[d].pc = "waiting"
      BY <1>1, <1>2, <1>9, <2>2 DEF Provider
    <3>2. PICK i \in DOMAIN waiters[Provider(d)] : waiters[Provider(d)][i] = d
      BY <3>1 DEF QueueInv
    <3>3. Provider(d) \in Adapters
      BY <3>1, ChainType DEF VoiceInv, Provider
    <3>4. CASE Provider(d) = p
      BY <1>6, <3>1, <3>2, <3>4
    <3>5. CASE Provider(d) # p
      BY <1>4, <3>1, <3>2, <3>3, <3>5
    <3>6. QED
      BY <3>4, <3>5
  <2>3. QED
    BY <2>1, <2>2
<1>10. \A q \in Adapters : \A i \in DOMAIN waiters'[q] :
         call'[waiters'[q][i]].pc = "waiting" /\ ModelChain[call'[waiters'[q][i]].hop] = q
  BY <1>7
<1>11. \A q \in Adapters : \A i, j \in DOMAIN waiters'[q] :
         waiters'[q][i] = waiters'[q][j] => i = j
  BY <1>8
<1>12. QED
  BY <1>4, <1>9, <1>10, <1>11, QueueIntro

\* The call at the head of its queue leaves it.
LEMMA QueueTail ==
  ASSUME VoiceInv, QueueInv, NEW c \in Calls, UNCHANGED configured,
         NEW k, call' = [call EXCEPT ![c] = k],
         call[c].pc = "waiting", k.pc # "waiting",
         NEW p \in Adapters, p = Provider(c), Head(waiters[p]) = c,
         waiters' = [waiters EXCEPT ![p] = Tail(@)]
  PROVE  QueueInv'
<1>1. ModelChain' = ModelChain
  BY DEF ModelChain
<1>2. call'[c] = k /\ \A d \in Calls : d # c => call'[d] = call[d]
  BY DEF VoiceInv
<1>3. PICK n \in Nat : n = Len(waiters[p])
  BY DEF QueueInv
<1>4. waiters[p] \in Seq(Calls) /\ DOMAIN waiters[p] = 1 .. n /\ n > 0
  BY <1>3 DEF QueueInv
<1>5. waiters[p][1] = c
  BY <1>4
<1>6. Tail(waiters[p]) \in Seq(Calls) /\ DOMAIN Tail(waiters[p]) = 1 .. n - 1
      /\ \A i \in 1 .. n - 1 : Tail(waiters[p])[i] = waiters[p][i + 1]
  BY <1>3, <1>4
<1>7. /\ waiters' \in [Adapters -> Seq(Calls)]
      /\ waiters'[p] = Tail(waiters[p])
      /\ \A q \in Adapters : q # p => waiters'[q] = waiters[q]
  BY <1>6 DEF QueueInv
<1>8. ASSUME NEW q \in Adapters, NEW i \in DOMAIN waiters'[q]
      PROVE  /\ waiters'[q][i] \in Calls \ {c}
             /\ call'[waiters'[q][i]].pc = "waiting"
             /\ ModelChain[call'[waiters'[q][i]].hop] = q
  <2>1. CASE q # p
    <3>1. i \in DOMAIN waiters[q] /\ waiters'[q][i] = waiters[q][i]
      BY <1>7, <1>8, <2>1
    <3>2. PICK w : w = waiters[q][i]
      OBVIOUS
    <3>3. w \in Calls /\ w # c /\ call[w].pc = "waiting" /\ ModelChain[call[w].hop] = q
      BY <2>1, <3>1, <3>2 DEF QueueInv, Provider
    <3>4. QED
      BY <1>2, <3>1, <3>2, <3>3
  <2>2. CASE q = p
    <3>1. i + 1 \in 1 .. n /\ i + 1 # 1 /\ waiters'[q][i] = waiters[p][i + 1]
      BY <1>6, <1>7, <1>8, <2>2
    <3>2. waiters[p][i + 1] \in Calls /\ waiters[p][i + 1] # c
      BY <1>4, <1>5, <3>1 DEF QueueInv
    <3>3. PICK w : w = waiters[p][i + 1]
      OBVIOUS
    <3>4. w \in Calls /\ w # c /\ call[w].pc = "waiting" /\ ModelChain[call[w].hop] = p
      BY <1>4, <3>1, <3>2, <3>3 DEF QueueInv, Provider
    <3>5. QED
      BY <1>2, <2>2, <3>1, <3>3, <3>4
  <2>3. QED
    BY <2>1, <2>2
<1>9. ASSUME NEW q \in Adapters, NEW i \in DOMAIN waiters'[q], NEW j \in DOMAIN waiters'[q],
             waiters'[q][i] = waiters'[q][j]
      PROVE  i = j
  <2>1. CASE q # p
    BY <1>7, <1>9, <2>1 DEF QueueInv
  <2>2. CASE q = p
    <3>1. /\ i \in Int /\ j \in Int /\ i + 1 \in 1 .. n /\ j + 1 \in 1 .. n
          /\ waiters[p][i + 1] = waiters[p][j + 1]
      BY <1>6, <1>7, <1>9, <2>2
    <3>2. i + 1 = j + 1
      BY <1>4, <3>1 DEF QueueInv
    <3>3. QED
      BY <3>1, <3>2
  <2>3. QED
    BY <2>1, <2>2
<1>10. ASSUME NEW d \in Calls, call'[d].pc = "waiting"
       PROVE  \E i \in DOMAIN waiters'[ModelChain[call'[d].hop]] :
                waiters'[ModelChain[call'[d].hop]][i] = d
  <2>1. d # c /\ ModelChain[call'[d].hop] = Provider(d) /\ call[d].pc = "waiting"
    BY <1>1, <1>2, <1>10 DEF Provider
  <2>2. PICK i \in DOMAIN waiters[Provider(d)] : waiters[Provider(d)][i] = d
    BY <2>1 DEF QueueInv
  <2>3. Provider(d) \in Adapters
    BY <2>1, ChainType DEF VoiceInv, Provider
  <2>4. CASE Provider(d) = p
    <3>1. i \in 1 .. n /\ i # 1
      BY <1>4, <1>5, <2>1, <2>2, <2>4
    <3>2. i - 1 \in 1 .. n - 1 /\ (i - 1) + 1 = i
      BY <3>1
    <3>3. waiters'[p][i - 1] = d /\ i - 1 \in DOMAIN waiters'[p]
      BY <1>6, <1>7, <2>2, <2>4, <3>2
    <3>4. QED
      BY <2>1, <2>4, <3>3
  <2>5. CASE Provider(d) # p
    BY <1>7, <2>1, <2>2, <2>3, <2>5
  <2>6. QED
    BY <2>4, <2>5
<1>11. \A q \in Adapters : \A i \in DOMAIN waiters'[q] :
         call'[waiters'[q][i]].pc = "waiting" /\ ModelChain[call'[waiters'[q][i]].hop] = q
  BY <1>8
<1>12. \A q \in Adapters : \A i, j \in DOMAIN waiters'[q] :
         waiters'[q][i] = waiters'[q][j] => i = j
  BY <1>9
<1>13. QED
  BY <1>7, <1>10, <1>11, <1>12, QueueIntro

LEMMA PermitInit == Init => PermitInv
<1> SUFFICES ASSUME Init PROVE PermitInv
  OBVIOUS
<1>1. VoiceInv
  BY VoiceInit
<1>2. \A c \in Calls : call[c].pc = "start"
  BY DEF Init, NewCall, Locals
<1>3. \A p \in Adapters : Holders(p) = {}
  BY <1>2 DEF Holders
<1>4. FreeInv
  <2>1. \A p \in Adapters : IsFiniteSet(Holders(p)) /\ Cardinality(Holders(p)) = 0
    BY <1>3, FS_EmptySet
  <2>2. free \in [Adapters -> Int] /\ \A p \in Adapters : free[p] = MaxConcurrent
    BY RouterAssumption DEF Init
  <2>3. QED
    BY <2>1, <2>2 DEF FreeInv
<1>5. QueueInv
  BY <1>2 DEF Init, QueueInv
<1>6. QED
  BY <1>1, <1>4, <1>5 DEF PermitInv

\* The loop over the chain, entered by a call that has given back what it
\* held: fr is what is free then.
LEMMA WalkChainKeepsPermits ==
  ASSUME PermitInv, NEW c \in Calls, UNCHANGED configured, call[c].pc # "waiting",
         NEW h \in Nat, NEW brk, NEW fr \in [Adapters -> Int],
         \A p \in Adapters : fr[p] = free[p] + Holds(call[c], p),
         WalkChain(c, h, brk, fr)
  PROVE  FreeInv' /\ QueueInv'
<1>1. VoiceInv /\ FreeInv /\ QueueInv /\ call[c] \in Shape
  BY DEF PermitInv, VoiceInv
<1>2. \A p \in Adapters : Holds(call[c], p) \in Int /\ free[p] \in Int
  BY <1>1 DEF Holds, FreeInv
<1>3. CASE /\ free' = fr /\ UNCHANGED waiters
           /\ call' = [call EXCEPT ![c] = Finished(c, "unavailable")]
  <2>1. PICK k : k = Finished(c, "unavailable")
    OBVIOUS
  <2>2. k.pc = "unavailable" /\ call' = [call EXCEPT ![c] = k]
    BY <1>1, <1>3, <2>1, AtHopShape DEF Finished
  <2>3. \A p \in Adapters : Holds(k, p) = 0
    BY <2>2 DEF Holds
  <2>4. /\ free' \in [Adapters -> Int]
        /\ \A p \in Adapters : free'[p] = free[p] + Holds(call[c], p) - Holds(k, p)
    BY <1>2, <1>3, <2>3
  <2>5. QED
    BY <1>1, <1>3, <2>2, <2>4, FreeStep, QueueStays
<1>4. ASSUME NEW i \in h + 1 .. Len(ModelChain),
             free' = [fr EXCEPT ![ModelChain[i]] = @ - 1],
             call' = [call EXCEPT ![c] = AtHop(c, i, "reading")],
             UNCHANGED waiters
      PROVE  FreeInv' /\ QueueInv'
  <2>1. PICK k : k = AtHop(c, i, "reading")
    OBVIOUS
  <2>2. i \in Nat
    BY ChainType
  <2>3. k.pc = "reading" /\ k.hop = i /\ call' = [call EXCEPT ![c] = k]
    BY <1>1, <1>4, <2>1, <2>2, AtHopShape
  <2>4. \A p \in Adapters : Holds(k, p) = IF ModelChain[i] = p THEN 1 ELSE 0
    BY <2>3 DEF Holds
  <2>5. /\ free' \in [Adapters -> Int]
        /\ \A p \in Adapters : free'[p] = free[p] + Holds(call[c], p) - Holds(k, p)
    <3>1. PICK q \in Adapters : q = ModelChain[i]
      BY ChainType
    <3>2. /\ free' \in [Adapters -> Int]
          /\ \A p \in Adapters : free'[p] = IF q = p THEN fr[p] - 1 ELSE fr[p]
      BY <1>4, <3>1
    <3>3. QED
      BY <1>2, <2>4, <3>1, <3>2
  <2>6. k.pc # "waiting"
    BY <2>3
  <2>7. QED
    BY <1>1, <1>4, <2>3, <2>5, <2>6, FreeStep, QueueStays
<1>5. ASSUME NEW i \in h + 1 .. Len(ModelChain),
             free' = fr,
             call' = [call EXCEPT ![c] = AtHop(c, i, "waiting")],
             waiters' = [waiters EXCEPT ![ModelChain[i]] = Append(@, c)]
      PROVE  FreeInv' /\ QueueInv'
  <2>1. PICK k : k = AtHop(c, i, "waiting")
    OBVIOUS
  <2>2. i \in Nat /\ ModelChain[i] \in Adapters
    BY ChainType
  <2>3. k.pc = "waiting" /\ k.hop = i /\ call' = [call EXCEPT ![c] = k]
    BY <1>1, <1>5, <2>1, <2>2, AtHopShape
  <2>4. \A p \in Adapters : Holds(k, p) = 0
    BY <2>3 DEF Holds
  <2>5. /\ free' \in [Adapters -> Int]
        /\ \A p \in Adapters : free'[p] = free[p] + Holds(call[c], p) - Holds(k, p)
    BY <1>2, <1>5, <2>4
  <2>6. PICK p \in Adapters : p = ModelChain[i]
    BY <2>2
  <2>7. /\ ModelChain[k.hop] = p
        /\ waiters' = [waiters EXCEPT ![p] = Append(@, c)]
    BY <1>5, <2>3, <2>6
  <2>8. FreeInv'
    BY <1>1, <2>3, <2>5, FreeStep
  <2>9. QueueInv'
    BY <1>1, <2>3, <2>7, QueueAppend
  <2>10. QED
    BY <2>8, <2>9
<1>6. QED
  BY <1>3, <1>4, <1>5 DEF WalkChain

\* Steps of a call that leave its permit where it is.
LEMMA PermitStays ==
  ASSUME PermitInv, NEW c \in Calls, UNCHANGED <<configured, free, waiters>>,
         NEW k, call' = [call EXCEPT ![c] = k],
         \/ {call[c].pc, k.pc} \subseteq {"reading", "yielded"} /\ k.hop = call[c].hop
         \/ {call[c].pc, k.pc} \cap {"reading", "yielded", "waiting"} = {}
  PROVE  FreeInv' /\ QueueInv'
<1>1. ASSUME NEW p \in Adapters
      PROVE  Holds(k, p) = Holds(call[c], p) /\ Holds(k, p) \in Int
  <2>1. CASE {call[c].pc, k.pc} \subseteq {"reading", "yielded"} /\ k.hop = call[c].hop
    BY <2>1 DEF Holds
  <2>2. CASE {call[c].pc, k.pc} \cap {"reading", "yielded", "waiting"} = {}
    <3>1. call[c].pc \notin {"reading", "yielded"} /\ k.pc \notin {"reading", "yielded"}
      BY <2>2
    <3>2. QED
      BY <3>1 DEF Holds
  <2>3. QED
    BY <2>1, <2>2
<1>2. call[c].pc # "waiting" /\ k.pc # "waiting"
  OBVIOUS
<1>3. free' \in [Adapters -> Int]
      /\ \A p \in Adapters : free'[p] = free[p] + Holds(call[c], p) - Holds(k, p)
  BY <1>1 DEF PermitInv, FreeInv
<1>4. QED
  BY <1>2, <1>3, FreeStep, QueueStays DEF PermitInv

\* The call leaves the async with of the semaphore.
LEMMA ReleasedFacts ==
  ASSUME PermitInv, NEW c \in Calls, call[c].pc \in {"reading", "yielded"}
  PROVE  /\ Released(c) \in [Adapters -> Int]
         /\ \A p \in Adapters : Released(c)[p] = free[p] + Holds(call[c], p)
<1>1. free \in [Adapters -> Int]
  BY DEF PermitInv, FreeInv
<1>2. Provider(c) \in Adapters
  BY ChainType DEF PermitInv, VoiceInv, Reading, Provider
<1>3. \A p \in Adapters : Holds(call[c], p) = IF Provider(c) = p THEN 1 ELSE 0
  BY DEF Holds, Provider
<1>4. QED
  BY <1>1, <1>2, <1>3 DEF Released

LEMMA PermitStep == PermitInv /\ [Next]_vars => PermitInv'
<1> SUFFICES ASSUME PermitInv, [Next]_vars PROVE FreeInv' /\ QueueInv'
  BY VoiceStep DEF PermitInv
<1>1. VoiceInv /\ FreeInv /\ QueueInv
  BY DEF PermitInv
<1>2. CASE Tick \/ vars' = vars
  <2>1. UNCHANGED <<call, configured, free, waiters>>
    BY <1>2 DEF Tick, vars
  <2>2. ModelChain' = ModelChain
    BY <2>1 DEF ModelChain
  <2>3. QED
    BY <1>1, <2>1, <2>2 DEF FreeInv, QueueInv, Holders, Provider
<1>3. ASSUME NEW c \in Calls, CallStep(c)
      PROVE  FreeInv' /\ QueueInv'
  <2>0. /\ call[c] \in Shape
        /\ UNCHANGED configured
    BY <1>1, <1>3 DEF VoiceInv, CallStep, Start, Acquire, Text, Usage, Resume,
                      End, Close, FallBack, Refused, Raise, Echo, Leave
  <2>1. CASE Start(c)
    <3>1. call[c].pc = "start" /\ WalkChain(c, 0, breaker, free)
      BY <2>1 DEF Start
    <3>2. free \in [Adapters -> Int]
          /\ \A p \in Adapters : free[p] = free[p] + Holds(call[c], p)
      BY <1>1, <3>1 DEF FreeInv, Holds
    <3>3. call[c].pc # "waiting"
      BY <3>1
    <3>4. QED
      BY <2>0, <3>1, <3>2, <3>3, WalkChainKeepsPermits
  <2>2. CASE FallBack(c)
    <3>1. PICK brk : brk = [breaker EXCEPT ![Provider(c)] = RecordFailure(@)]
      OBVIOUS
    <3>2. PICK fr : fr = Released(c)
      OBVIOUS
    <3>3. PICK h \in Nat : h = call[c].hop
      BY <2>0 DEF Shape
    <3>4. call[c].pc = "reading" /\ WalkChain(c, h, brk, fr)
      BY <2>2, <3>1, <3>2, <3>3 DEF FallBack
    <3>5. fr \in [Adapters -> Int]
          /\ \A p \in Adapters : fr[p] = free[p] + Holds(call[c], p)
      BY <3>2, <3>4, ReleasedFacts
    <3>6. call[c].pc # "waiting"
      BY <3>4
    <3>7. QED
      BY <2>0, <3>4, <3>5, <3>6, WalkChainKeepsPermits
  <2>3. CASE Acquire(c)
    <3>1. PICK p : p = Provider(c)
      OBVIOUS
    <3>2. call[c].pc = "waiting" /\ p \in Adapters /\ ModelChain[call[c].hop] = p
      BY <1>1, <2>3, <3>1, ChainType DEF Acquire, VoiceInv, Provider
    <3>3. PICK k : k = [call[c] EXCEPT !.pc = "reading"]
      OBVIOUS
    <3>4. k.pc = "reading" /\ k.hop = call[c].hop
      BY <2>0, <3>3 DEF Shape
    <3>5. call' = [call EXCEPT ![c] = k]
      BY <2>3, <3>3 DEF Acquire
    <3>6. /\ Head(waiters[p]) = c
          /\ free' = [free EXCEPT ![p] = @ - 1]
          /\ waiters' = [waiters EXCEPT ![p] = Tail(@)]
      BY <2>3, <3>1 DEF Acquire
    <3>7. \A q \in Adapters : Holds(call[c], q) = 0
                              /\ Holds(k, q) = IF p = q THEN 1 ELSE 0
      BY <3>2, <3>4 DEF Holds
    <3>8. /\ free' \in [Adapters -> Int]
          /\ \A q \in Adapters : free'[q] = free[q] + Holds(call[c], q) - Holds(k, q)
      BY <1>1, <3>2, <3>6, <3>7 DEF FreeInv
    <3>9. FreeInv'
      BY <1>1, <2>0, <3>5, <3>8, FreeStep
    <3>10. QueueInv'
      BY <1>1, <2>0, <3>1, <3>2, <3>4, <3>5, <3>6, QueueTail
    <3>11. QED
      BY <3>9, <3>10
  <2>4. CASE Text(c)
    <3> DEFINE Read == [call[c] EXCEPT !.responded = TRUE, !.texts = @ + 1]
               Said(k) == \/ k = Read
                          \/ k = Relay(Read, Provider(c))
                          \/ k = Intervene(Read, Provider(c))
    <3>1. PICK k : Said(k) /\ call' = [call EXCEPT ![c] = k]
      BY <2>4 DEF Text
    <3>2. call[c].pc = "reading" /\ UNCHANGED <<configured, free, waiters>>
      BY <2>4 DEF Text
    <3>3. k.pc \in {"reading", "yielded"} /\ k.hop = call[c].hop
      <4>1. Read.pc = "reading" /\ Read.hop = call[c].hop
            /\ Relay(Read, Provider(c)).pc = "yielded"
            /\ Relay(Read, Provider(c)).hop = call[c].hop
        BY <2>0, <3>2 DEF Relay, Shape
      <4>2. Intervene(Read, Provider(c)).pc = "yielded"
            /\ Intervene(Read, Provider(c)).hop = call[c].hop
        BY <2>0, <3>2 DEF Relay, Intervene, Shape
      <4>3. QED
        BY <3>1, <4>1, <4>2
    <3>4. {call[c].pc, k.pc} \subseteq {"reading", "yielded"}
      BY <3>2, <3>3
    <3> HIDE DEF Said
    <3>5. QED
      BY <3>1, <3>2, <3>3, <3>4, PermitStays
  <2>5. CASE Usage(c) \/ Resume(c)
    <3>1. PICK k : /\ call' = [call EXCEPT ![c] = k]
                   /\ \/ k = [call[c] EXCEPT !.responded = TRUE, !.metered = TRUE,
                                             !.pc = "yielded"]
                      \/ k = [call[c] EXCEPT !.pc = "reading"]
      BY <2>5 DEF Usage, Resume
    <3>2. UNCHANGED <<configured, free, waiters>>
      BY <2>5 DEF Usage, Resume
    <3>3. k.pc \in {"reading", "yielded"} /\ k.hop = call[c].hop
      BY <2>0, <3>1 DEF Shape
    <3>4. {call[c].pc, k.pc} \subseteq {"reading", "yielded"}
      BY <2>5, <3>3 DEF Usage, Resume
    <3>5. QED
      BY <3>1, <3>2, <3>3, <3>4, PermitStays
  <2>6. CASE End(c) \/ Close(c) \/ Raise(c) \/ Refused(c)
    <3>1. PICK step \in {"returned", "closed", "raised", "unavailable"} :
            call' = [call EXCEPT ![c] = Finished(c, step)]
      BY <2>6 DEF End, Close, Raise, Refused, Leave
    <3>2. PICK k : k = Finished(c, step)
      OBVIOUS
    <3>3. k.pc = step /\ call' = [call EXCEPT ![c] = k]
      BY <2>0, <3>1, <3>2, AtHopShape DEF Finished
    <3>4. call[c].pc \in {"reading", "yielded"} /\ free' = Released(c) /\ UNCHANGED waiters
      BY <2>6 DEF End, Close, Raise, Refused, Leave
    <3>5. \A p \in Adapters : Holds(k, p) = 0 /\ Holds(call[c], p) \in Int
      BY <3>3 DEF Holds
    <3>6. /\ free' \in [Adapters -> Int]
          /\ \A p \in Adapters : free'[p] = free[p] + Holds(call[c], p) - Holds(k, p)
      BY <1>1, <3>4, <3>5, ReleasedFacts DEF FreeInv
    <3>7. call[c].pc # "waiting" /\ k.pc # "waiting"
      BY <3>3, <3>4
    <3>8. QED
      BY <1>1, <2>0, <3>3, <3>4, <3>6, <3>7, FreeStep, QueueStays
  <2>7. CASE Echo(c)
    <3>1. PICK k : /\ call' = [call EXCEPT ![c] = k]
                   /\ \/ k = [call[c] EXCEPT !.pc = "echo", !.texts = @ + 1, !.textSent = TRUE]
                      \/ k = [call[c] EXCEPT !.pc = "echo", !.metered = TRUE]
                      \/ k \in {Finished(c, "returned"), Finished(c, "closed")}
      BY <2>7 DEF Echo
    <3>2. UNCHANGED <<configured, free, waiters>> /\ call[c].pc \in {"start", "echo"}
      BY <2>7 DEF Echo
    <3>3. k.pc \in {"echo", "returned", "closed"}
      <4>1. Finished(c, "returned").pc = "returned" /\ Finished(c, "closed").pc = "closed"
        BY <2>0, AtHopShape DEF Finished
      <4>2. QED
        BY <2>0, <3>1, <4>1 DEF Shape
    <3>4. {call[c].pc, k.pc} \cap {"reading", "yielded", "waiting"} = {}
      BY <3>2, <3>3
    <3>5. QED
      BY <3>1, <3>2, <3>4, PermitStays
  <2>8. QED
    BY <1>3, <2>1, <2>2, <2>3, <2>4, <2>5, <2>6, <2>7 DEF CallStep
<1>4. QED
  BY <1>2, <1>3 DEF Next

\* However a stream ends, its permit is given back exactly once, and a call
\* that waits for one is queued exactly once (the async with of the semaphore,
\* LlmRouter.generate).
THEOREM PermitsStayConserved == Spec => []PermitsConserved
<1>1. PermitInv => PermitsConserved
  <2> SUFFICES ASSUME PermitInv, NEW p \in Adapters, NEW c \in Calls
               PROVE  Cardinality({i \in DOMAIN waiters[p] : waiters[p][i] = c}) =
                        IF call[c].pc = "waiting" /\ Provider(c) = p THEN 1 ELSE 0
    BY DEF PermitInv, FreeInv, PermitsConserved
  <2> DEFINE At == {i \in DOMAIN waiters[p] : waiters[p][i] = c}
  <2>1. CASE call[c].pc = "waiting" /\ Provider(c) = p
    <3>1. PICK i \in DOMAIN waiters[p] : waiters[p][i] = c
      BY <2>1 DEF PermitInv, QueueInv
    <3>2. At = {i}
      BY <3>1 DEF PermitInv, QueueInv
    <3>3. QED
      BY <2>1, <3>2, FS_Singleton
  <2>2. CASE ~ (call[c].pc = "waiting" /\ Provider(c) = p)
    <3>1. At = {}
      BY <2>2 DEF PermitInv, QueueInv
    <3>2. QED
      BY <2>2, <3>1, FS_EmptySet
  <2>3. QED
    BY <2>1, <2>2
<1>2. QED
  BY PermitInit, PermitStep, <1>1, PTL DEF Spec

-----------------------------------------------------------------------------
(* Induction and sums.                                                     *)

(***************************************************************************)
(* The least element of a set of naturals; the proofs below use it where   *)
(* others use induction.                                                   *)
(***************************************************************************)
LEMMA LeastNumber ==
  ASSUME NEW T \in SUBSET Nat, T # {}
  PROVE  \E n \in T : \A k \in T : n <= k
<1>1. PICK R : R = OpToRel(<, Nat) OBVIOUS
<1>2. IsWellFoundedOn(R, Nat) BY <1>1, NatLessThanWellFounded
<1>3. PICK n \in T : \A k \in T : <<k, n>> \notin R BY <1>2, WFMin
<1>4. \A k \in T : ~ (k < n) BY <1>1, <1>3 DEF OpToRel
<1> QED BY <1>4

\* Of some finite sets, one that is no longer among them without an element.
LEMMA MinimalSet ==
  ASSUME NEW S, IsFiniteSet(S), NEW P \in SUBSET (SUBSET S), P # {}
  PROVE  \E s \in P : \A x \in s : s \ {x} \notin P
<1> DEFINE T == {Cardinality(s) : s \in P}
<1>1. \A s \in P : IsFiniteSet(s) /\ Cardinality(s) \in Nat
  BY FS_Subset, FS_CardinalityType
<1>2. PICK n \in T : \A k \in T : n <= k
  <2>1. T \in SUBSET Nat /\ T # {} BY <1>1
  <2> HIDE DEF T
  <2> QED BY <2>1, LeastNumber
<1>3. PICK s \in P : n = Cardinality(s) OBVIOUS
<1>4. ASSUME NEW x \in s, s \ {x} \in P PROVE FALSE
  <2>1. Cardinality(s \ {x}) = Cardinality(s) - 1 BY <1>1, FS_RemoveElement
  <2>2. n <= Cardinality(s \ {x}) BY <1>2, <1>4
  <2>3. Cardinality(s) \in Nat BY <1>1
  <2> QED BY <1>3, <2>1, <2>2, <2>3
<1> QED BY <1>4

\* f has the sum of w over each subset of S.
Adds(w, S, f) ==
  /\ f \in [SUBSET S -> Nat]
  /\ f[{}] = 0
  /\ \A s \in SUBSET S : \A x \in s : f[s] = w[x] + f[s \ {x}]

LEMMA AddsExists ==
  ASSUME NEW S, IsFiniteSet(S), NEW w, \A x \in S : w[x] \in Nat
  PROVE  \E f : Adds(w, S, f)
<1> DEFINE P == {s \in SUBSET S : ~ \E f : Adds(w, s, f)}
<1>1. SUFFICES ASSUME P # {} PROVE FALSE OBVIOUS
<1>2. PICK s \in P : \A x \in s : s \ {x} \notin P BY <1>1, MinimalSet
<1>3. s # {}
  <2>1. Adds(w, {}, [t \in SUBSET {} |-> 0]) BY DEF Adds
  <2> QED BY <2>1
<1>4. PICK x \in s : TRUE BY <1>3
<1>5. PICK r : r = s \ {x} OBVIOUS
<1>6. PICK g : Adds(w, r, g) BY <1>2, <1>5
<1>7. PICK f : f = [t \in SUBSET s |-> IF x \in t THEN w[x] + g[t \ {x}] ELSE g[t]]
  OBVIOUS
<1>8. w[x] \in Nat OBVIOUS
<1>9. \A t \in SUBSET s : t \ {x} \in SUBSET r BY <1>5
<1>10. \A t \in SUBSET s : x \notin t => t \in SUBSET r BY <1>5
<1>11. f \in [SUBSET s -> Nat] BY <1>6, <1>7, <1>8, <1>9, <1>10 DEF Adds
<1>12. f[{}] = 0 BY <1>6, <1>7 DEF Adds
<1>13. ASSUME NEW t \in SUBSET s, NEW y \in t PROVE f[t] = w[y] + f[t \ {y}]
  <2>1. CASE y = x BY <1>7, <2>1
  <2>2. CASE y # x /\ x \notin t
    <3>1. t \in SUBSET r /\ t \ {y} \in SUBSET s BY <1>10, <2>2
    <3>2. g[t] = w[y] + g[t \ {y}] BY <1>6, <3>1 DEF Adds
    <3> QED BY <1>7, <2>2, <3>1, <3>2
  <2>3. CASE y # x /\ x \in t
    <3>1. PICK u : u = t \ {x} OBVIOUS
    <3>2. u \in SUBSET r /\ y \in u BY <1>9, <2>3, <3>1
    <3>3. g[u] = w[y] + g[u \ {y}] BY <1>6, <3>2 DEF Adds
    <3>4. (t \ {y}) \ {x} = u \ {y} BY <3>1
    <3>5. t \ {y} \in SUBSET s /\ x \in t \ {y} BY <2>3
    <3>6. f[t \ {y}] = w[x] + g[u \ {y}] BY <1>7, <3>4, <3>5
    <3>7. f[t] = w[x] + g[u] BY <1>7, <2>3, <3>1
    <3>8. g[u \ {y}] \in Nat /\ w[y] \in Nat BY <1>6, <3>2 DEF Adds
    <3> QED BY <1>8, <3>3, <3>6, <3>7, <3>8
  <2> QED BY <2>1, <2>2, <2>3
<1>14. Adds(w, s, f) BY <1>11, <1>12, <1>13 DEF Adds
<1> QED BY <1>14

\* The recursive function that SumFunctionOnSet stands for is that one.
LEMMA SumIsAdds ==
  ASSUME NEW S, IsFiniteSet(S), NEW w, NEW f, Adds(w, S, f)
  PROVE  SumFunctionOnSet(w, S) = f[S]
<1> DEFINE one(s) == CHOOSE x \in s : TRUE
           body(g) == [s \in SUBSET S |-> IF s = {} THEN 0 ELSE w[one(s)] + g[s \ {one(s)}]]
           iter == CHOOSE g : g = body(g)
<1>1. \A s \in SUBSET S : s # {} => one(s) \in s OBVIOUS
<1>2. f = body(f) BY <1>1 DEF Adds
<1>3. iter = body(iter) BY <1>2
<1>4. SumFunctionOnSet(w, S) = iter[S]
  BY DEF SumFunctionOnSet, FoldFunctionOnSet, MapThenFoldSet
<1>5. PICK g : g = iter OBVIOUS
<1>6. g = body(g) BY <1>3, <1>5
<1> HIDE DEF iter
<1> DEFINE P == {s \in SUBSET S : g[s] # f[s]}
<1>7. ASSUME P # {} PROVE FALSE
  <2>1. PICK s \in P : \A x \in s : s \ {x} \notin P BY <1>7, MinimalSet
  <2>2. CASE s = {} BY <1>6, <2>1, <2>2 DEF Adds
  <2>3. CASE s # {}
    <3>1. PICK x : x = one(s) OBVIOUS
    <3>2. x \in s BY <1>1, <2>3, <3>1
    <3>3. s \ {x} \in SUBSET S OBVIOUS
    <3>4. g[s \ {x}] = f[s \ {x}] BY <2>1, <3>2, <3>3
    <3>5. g[s] = w[x] + g[s \ {x}] BY <1>6, <2>3, <3>1
    <3>6. f[s] = w[x] + f[s \ {x}] BY <3>2 DEF Adds
    <3> QED BY <2>1, <3>4, <3>5, <3>6
  <2> QED BY <2>2, <2>3
<1> QED BY <1>4, <1>5, <1>7

\* The sums of all subsets of a finite set, as one function.
LEMMA SumTable ==
  ASSUME NEW S, IsFiniteSet(S), NEW w, \A x \in S : w[x] \in Nat
  PROVE  \E f : /\ Adds(w, S, f)
                /\ \A r \in SUBSET S : SumFunctionOnSet(w, r) = f[r]
<1>1. PICK f : Adds(w, S, f) BY AddsExists
<1>2. ASSUME NEW r \in SUBSET S PROVE SumFunctionOnSet(w, r) = f[r]
  <2>1. PICK g : g = [s \in SUBSET r |-> f[s]] OBVIOUS
  <2>2. Adds(w, r, g)
    <3>1. SUBSET r \subseteq SUBSET S OBVIOUS
    <3>2. ASSUME NEW s \in SUBSET r, NEW x \in s
          PROVE  g[s] = w[x] + g[s \ {x}]
      BY <1>1, <2>1, <3>1 DEF Adds
    <3> QED BY <1>1, <2>1, <3>1, <3>2 DEF Adds
  <2>3. IsFiniteSet(r) BY FS_Subset
  <2> QED BY <2>1, <2>2, <2>3, SumIsAdds
<1> QED BY <1>1, <1>2

LEMMA SumEmpty == ASSUME NEW w PROVE SumFunctionOnSet(w, {}) = 0
<1>1. Adds(w, {}, [t \in SUBSET {} |-> 0]) BY DEF Adds
<1>2. IsFiniteSet({}) BY FS_EmptySet
<1>3. PICK f : f = [t \in SUBSET {} |-> 0] OBVIOUS
<1> QED BY <1>1, <1>2, <1>3, SumIsAdds

LEMMA SumIsNat ==
  ASSUME NEW S, IsFiniteSet(S), NEW w, \A x \in S : w[x] \in Nat
  PROVE  SumFunctionOnSet(w, S) \in Nat
<1>1. PICK f : Adds(w, S, f) /\ \A r \in SUBSET S : SumFunctionOnSet(w, r) = f[r]
  BY SumTable
<1>2. S \in SUBSET S OBVIOUS
<1> QED BY <1>1, <1>2 DEF Adds

\* One more element, from wherever the weights of the others come.
LEMMA SumAdd ==
  ASSUME NEW S, IsFiniteSet(S), NEW w, \A x \in S : w[x] \in Nat,
         NEW y, y \notin S, NEW v, v[y] \in Nat, \A x \in S : v[x] = w[x]
  PROVE  SumFunctionOnSet(v, S \cup {y}) = SumFunctionOnSet(w, S) + v[y]
<1>1. PICK R : R = S \cup {y} OBVIOUS
<1>2. IsFiniteSet(R) BY <1>1, FS_AddElement
<1>3. \A x \in R : v[x] \in Nat BY <1>1
<1>4. PICK f : Adds(v, R, f) /\ \A r \in SUBSET R : SumFunctionOnSet(v, r) = f[r]
  BY <1>2, <1>3, SumTable
<1>5. f[R] = v[y] + f[S]
  <2>1. R \ {y} = S /\ y \in R BY <1>1
  <2> QED BY <1>4, <2>1 DEF Adds
<1>6. SumFunctionOnSet(w, S) = SumFunctionOnSet(v, S)
  <2>1. PICK g : Adds(w, S, g) BY AddsExists
  <2>2. Adds(v, S, g) BY <2>1 DEF Adds
  <2> QED BY <2>1, <2>2, SumIsAdds
<1>7. f[S] \in Nat BY <1>1, <1>4 DEF Adds
<1>8. SumFunctionOnSet(v, S) = f[S] /\ SumFunctionOnSet(v, R) = f[R] BY <1>1, <1>4
<1> QED BY <1>1, <1>5, <1>6, <1>7, <1>8

\* Sums look at no more than the weights of their elements.
LEMMA SumAgrees ==
  ASSUME NEW S, IsFiniteSet(S), NEW w, \A x \in S : w[x] \in Nat,
         NEW v, \A x \in S : v[x] = w[x]
  PROVE  SumFunctionOnSet(v, S) = SumFunctionOnSet(w, S)
<1>1. PICK g : Adds(w, S, g) BY AddsExists
<1>2. Adds(v, S, g) BY <1>1 DEF Adds
<1> QED BY <1>1, <1>2, SumIsAdds

LEMMA SumGrows ==
  ASSUME NEW S, IsFiniteSet(S), NEW w, \A x \in S : w[x] \in Nat, NEW R \in SUBSET S
  PROVE  SumFunctionOnSet(w, R) <= SumFunctionOnSet(w, S)
<1>1. PICK f : Adds(w, S, f) /\ \A r \in SUBSET S : SumFunctionOnSet(w, r) = f[r]
  BY SumTable
<1> DEFINE P == {s \in SUBSET S : R \subseteq s /\ f[s] < f[R]}
<1>2. ASSUME P # {} PROVE FALSE
  <2> P \in SUBSET (SUBSET S) OBVIOUS
  <2>1. PICK s \in P : \A x \in s : s \ {x} \notin P
    <3> HIDE DEF P
    <3> QED BY <1>2, MinimalSet
  <2>2. f[R] \in Nat BY <1>1 DEF Adds
  <2>3. R \subseteq s /\ f[s] < f[R] /\ s \in SUBSET S BY <2>1
  <2>4. s # R BY <2>2, <2>3
  <2>5. PICK x \in s : x \notin R BY <2>3, <2>4
  <2>6. f[s] = w[x] + f[s \ {x}] BY <1>1 DEF Adds
  <2>7. f[s \ {x}] \in Nat /\ w[x] \in Nat BY <1>1 DEF Adds
  <2>8. f[s \ {x}] < f[R] BY <2>1, <2>2, <2>6, <2>7
  <2> QED BY <2>1, <2>5, <2>8
<1>3. f[S] \in Nat /\ f[R] \in Nat BY <1>1 DEF Adds
<1> QED BY <1>1, <1>2, <1>3

\* The maximum of a finite set of numbers is the greatest of them.
LEMMA GreatestNumber ==
  ASSUME NEW T \in SUBSET Nat, IsFiniteSet(T), T # {}
  PROVE  Max(T) \in T /\ \A k \in T : k <= Max(T)
<1> DEFINE Tops(s) == {x \in s : \A y \in s : x >= y}
           P == {s \in SUBSET T : s # {} /\ Tops(s) = {}}
<1>1. ASSUME P # {} PROVE FALSE
  <2>1. P \in SUBSET (SUBSET T) OBVIOUS
  <2>2. PICK s \in P : \A x \in s : s \ {x} \notin P
    <3> HIDE DEF P
    <3> QED BY <1>1, <2>1, MinimalSet
  <2>3. s \in SUBSET T /\ s # {} /\ Tops(s) = {} OBVIOUS
  <2>4. PICK x \in s : TRUE BY <2>3
  <2>5. s \ {x} = {} \/ Tops(s \ {x}) # {} BY <2>2, <2>3, <2>4
  <2>6. CASE s \ {x} = {}
    <3>1. x \in Tops(s) BY <2>3, <2>4, <2>6
    <3> QED BY <2>3, <3>1
  <2>7. CASE Tops(s \ {x}) # {}
    <3>1. PICK y \in s \ {x} : \A z \in s \ {x} : y >= z BY <2>7
    <3>2. \A z \in s : z \in Nat BY <2>3
    <3>3. CASE x <= y
      <4>1. y \in Tops(s) BY <3>1, <3>2, <3>3
      <4> QED BY <2>3, <4>1
    <3>4. CASE y <= x
      <4>1. x \in Tops(s) BY <2>4, <3>1, <3>2, <3>4
      <4> QED BY <2>3, <4>1
    <3> QED BY <2>4, <3>1, <3>2, <3>3, <3>4
  <2> QED BY <2>5, <2>6, <2>7
<1>2. \E x \in T : \A y \in T : x >= y BY <1>1
<1>3. Max(T) \in T /\ \A y \in T : Max(T) >= y BY <1>2 DEF Max
<1> QED BY <1>3

-----------------------------------------------------------------------------
(* Budget: types.                                                          *)

LEMMA BudgetTypeInit == BudgetInit => BudgetTypeOK
BY BudgetAssumption
DEF BudgetInit, BudgetTypeOK, BudgetRow, UsageEvent, Generation, NoGeneration

LEMMA NoGenerationTyped == NoGeneration \in Generation /\ NoGeneration.pc = "idle"
BY BudgetAssumption DEF NoGeneration, Generation

\* The transactions that write to the local variables of a generation only.
LEMMA GenerationTyped ==
  ASSUME BudgetTypeOK, NEW g \in Generations, NEW r \in Generation, NowIs(g, r)
  PROVE  gen' \in [Generations -> Generation]
BY DEF BudgetTypeOK, NowIs

LEMMA BudgetTypeStep ==
  ASSUME BudgetTypeOK, LedgerInv, [BudgetNext]_budgetVars
  PROVE  BudgetTypeOK'
<1> USE BudgetAssumption
<1>1. ASSUME NEW g \in Generations, NEW w \in Tenants, Ask(g, w) PROVE BudgetTypeOK'
  <2>1. PICK r : r = (IF CheckGlobal
                        THEN [NoGeneration EXCEPT !.pc = "workspace", !.tenant = w, !.id = runs + 1]
                        ELSE NoGeneration) /\ NowIs(g, r)
    BY <1>1 DEF Ask
  <2>2. runs + 1 \in 0 .. MaxRuns BY <1>1 DEF Ask, BudgetTypeOK
  <2>3. r \in Generation BY <2>1, <2>2, NoGenerationTyped DEF Generation
  <2> QED BY <1>1, <2>1, <2>2, <2>3, GenerationTyped DEF Ask, BudgetTypeOK
<1>2. ASSUME NEW g \in Generations, NEW w \in Tenants, Retry(g, w) PROVE BudgetTypeOK'
  <2>1. PICK r : r = [NoGeneration EXCEPT !.pc = "running", !.tenant = w, !.id = runs + 1,
                                          !.checked = FALSE] /\ NowIs(g, r)
    BY <1>2 DEF Retry
  <2>2. runs + 1 \in 0 .. MaxRuns BY <1>2 DEF Retry, BudgetTypeOK
  <2>3. r \in Generation BY <2>1, <2>2, NoGenerationTyped DEF Generation
  <2> QED BY <1>2, <2>1, <2>2, <2>3, GenerationTyped DEF Retry, BudgetTypeOK
<1>3. ASSUME NEW g \in Generations, AdmitGeneration(g) PROVE BudgetTypeOK'
  <2>1. PICK w : w = gen[g].tenant OBVIOUS
  <2>2. w \in Tenants /\ gen[g] \in Generation BY <2>1 DEF BudgetTypeOK, Generation
  <2>3. PICK r : r = (IF CheckWorkspace(w) THEN [gen[g] EXCEPT !.pc = "running"] ELSE NoGeneration)
                 /\ NowIs(g, r)
    BY <1>3, <2>1 DEF AdmitGeneration
  <2>4. r \in Generation BY <2>2, <2>3, NoGenerationTyped DEF Generation
  <2>5. most' \in [Tenants -> Nat]
    <3>1. most' = [most EXCEPT ![w] = @ + 1] \/ most' = most
      BY <1>3, <2>1 DEF AdmitGeneration
    <3> QED BY <2>2, <3>1 DEF BudgetTypeOK
  <2> QED BY <1>3, <2>3, <2>4, <2>5, GenerationTyped DEF AdmitGeneration, BudgetTypeOK
<1>4. ASSUME NEW g \in Generations, Generated(g) PROVE BudgetTypeOK'
  <2>1. PICK cost \in Costs :
          NowIs(g, IF cost > 0 THEN [gen[g] EXCEPT !.pc = "settle", !.cost = cost]
                               ELSE NoGeneration)
    BY <1>4 DEF Generated
  <2>2. PICK r : r = (IF cost > 0 THEN [gen[g] EXCEPT !.pc = "settle", !.cost = cost]
                                  ELSE NoGeneration) /\ NowIs(g, r)
    BY <2>1
  <2>3. gen[g] \in Generation /\ cost \in Nat BY DEF BudgetTypeOK
  <2>4. r \in Generation BY <2>2, <2>3, NoGenerationTyped DEF Generation
  <2> QED BY <1>4, <2>2, <2>4, GenerationTyped DEF Generated, BudgetTypeOK
<1>5. ASSUME NEW g \in Generations, RecordEvent(g) PROVE BudgetTypeOK'
  <2> gen[g].id \in 1 .. MaxRuns
    BY <1>5 DEF RecordEvent, LedgerInv, Busy, BudgetTypeOK
  <2>1. gen[g] \in Generation BY DEF BudgetTypeOK
  <2>2. PICK w, cost : w = gen[g].tenant /\ cost = gen[g].cost OBVIOUS
  <2>3. w \in Tenants /\ cost \in Nat /\ gen[g].checked \in BOOLEAN BY <2>1, <2>2 DEF Generation
  <2>4. PICK e : e = [id |-> gen[g].id, tenant |-> w, cost |-> cost, checked |-> gen[g].checked]
    OBVIOUS
  <2>5. e \in UsageEvent BY <1>5, <2>3, <2>4 DEF UsageEvent
  <2>6. ledger' = ledger \cup {e} BY <1>5, <2>2, <2>4 DEF RecordEvent
  <2>7. ledger' \subseteq UsageEvent BY <2>5, <2>6 DEF BudgetTypeOK
  <2>8. budget' = [budget EXCEPT ![w].settled = @ + cost, ![w].updatedAt = @ + 1]
    BY <1>5, <2>2 DEF RecordEvent
  <2>9. budget' \in [Tenants -> BudgetRow]
    BY <2>3, <2>8 DEF BudgetTypeOK, BudgetRow
  <2>10. gen' \in [Generations -> Generation]
    BY <1>5, NoGenerationTyped, GenerationTyped DEF RecordEvent
  <2>11. counter' \in Nat BY <1>5, <2>2, <2>3 DEF RecordEvent, BudgetTypeOK
  <2> QED BY <1>5, <2>7, <2>9, <2>10, <2>11 DEF RecordEvent, BudgetTypeOK
<1>6. ASSUME NEW a \in Admins, NEW w \in Tenants, GetBudget(a, w) PROVE BudgetTypeOK'
  BY <1>6 DEF GetBudget, BudgetTypeOK, BudgetRow
<1>7. ASSUME NEW a \in Admins, NEW w \in Tenants, NEW limit \in Limits,
             UpdateBudget(a, w, limit)
      PROVE  BudgetTypeOK'
  <2>1. budget' \in [Tenants -> BudgetRow]
    BY <1>7 DEF UpdateBudget, UpdateLimit, BudgetTypeOK, BudgetRow
  <2>2. etag' \in [Admins -> [Tenants -> Nat]]
    BY <1>7 DEF UpdateBudget, BudgetTypeOK, BudgetRow
  <2>3. peak' \in [Tenants -> Nat]
    <3>1. PICK k : k = (IF limit > peak[w] THEN limit ELSE peak[w]) /\ peak' = [peak EXCEPT ![w] = k]
      BY <1>7 DEF UpdateBudget
    <3>2. k \in Nat BY <3>1 DEF BudgetTypeOK
    <3> QED BY <3>1, <3>2 DEF BudgetTypeOK
  <2>4. changes' \in 0 .. MaxChanges BY <1>7 DEF UpdateBudget, BudgetTypeOK
  <2> QED BY <1>7, <2>1, <2>2, <2>3, <2>4 DEF UpdateBudget, BudgetTypeOK
<1>8. CASE UNCHANGED budgetVars BY <1>8 DEF budgetVars, BudgetTypeOK
<1> QED BY <1>1, <1>2, <1>3, <1>4, <1>5, <1>6, <1>7, <1>8 DEF BudgetNext

-----------------------------------------------------------------------------
(* Budget: the ledger.                                                     *)

LEMMA RollupEmpty == Rollup({}) = 0
BY SumEmpty DEF Rollup

LEMMA RollupIsNat ==
  ASSUME NEW S \in SUBSET UsageEvent, IsFiniteSet(S)
  PROVE  Rollup(S) \in Nat
<1>1. PICK f : f = [e \in S |-> e.cost] OBVIOUS
<1>2. \A e \in S : f[e] \in Nat BY <1>1 DEF UsageEvent
<1> QED BY <1>1, <1>2, SumIsNat DEF Rollup

LEMMA RollupAdd ==
  ASSUME NEW S \in SUBSET UsageEvent, IsFiniteSet(S), NEW e \in UsageEvent, e \notin S
  PROVE  Rollup(S \cup {e}) = Rollup(S) + e.cost
<1>1. PICK f, g : f = [x \in S |-> x.cost] /\ g = [x \in S \cup {e} |-> x.cost] OBVIOUS
<1>2. \A x \in S : f[x] \in Nat BY <1>1 DEF UsageEvent
<1>3. \A x \in S : g[x] = f[x] BY <1>1
<1>4. g[e] = e.cost /\ g[e] \in Nat BY <1>1 DEF UsageEvent
<1>5. SumFunctionOnSet(g, S \cup {e}) = SumFunctionOnSet(f, S) + g[e]
  <2>1. g[e] \in Nat BY <1>4
  <2> QED BY <1>2, <1>3, <2>1, SumAdd, Z3
<1> QED BY <1>1, <1>4, <1>5 DEF Rollup

EventsOf(events, w, how) == {e \in events : e.tenant = w /\ e.checked = how}

\* What an event adds to the books of a workspace.
LEMMA SpentAdd ==
  ASSUME NEW S \in SUBSET UsageEvent, IsFiniteSet(S), NEW e \in UsageEvent, e \notin S,
         NEW w \in Tenants, NEW how \in BOOLEAN
  PROVE  Rollup(EventsOf(S \cup {e}, w, how)) =
           Rollup(EventsOf(S, w, how))
             + (IF e.tenant = w /\ e.checked = how THEN e.cost ELSE 0)
<1>1. PICK R : R = EventsOf(S, w, how) OBVIOUS
<1>2. R \in SUBSET UsageEvent /\ IsFiniteSet(R) /\ e \notin R
  <2>1. R \in SUBSET S BY <1>1 DEF EventsOf
  <2> QED BY <2>1, FS_Subset
<1>3. Rollup(R) \in Nat BY <1>2, RollupIsNat
<1>4. CASE e.tenant = w /\ e.checked = how
  <2>1. EventsOf(S \cup {e}, w, how) = R \cup {e} BY <1>1, <1>4 DEF EventsOf
  <2>2. Rollup(R \cup {e}) = Rollup(R) + e.cost BY <1>2, RollupAdd
  <2> QED BY <1>1, <1>4, <2>1, <2>2
<1>5. CASE ~ (e.tenant = w /\ e.checked = how)
  <2>1. EventsOf(S \cup {e}, w, how) = R BY <1>1, <1>5 DEF EventsOf
  <2> QED BY <1>1, <1>3, <1>5, <2>1
<1> QED BY <1>4, <1>5

LEMMA SpentIsNat ==
  ASSUME BudgetTypeOK, LedgerInv, NEW w \in Tenants, NEW how \in BOOLEAN
  PROVE  Spent(w, how) \in Nat /\ Spent(w, how) = Rollup(EventsOf(ledger, w, how))
<1>1. PICK R : R = EventsOf(ledger, w, how) OBVIOUS
<1>2. R \in SUBSET ledger BY <1>1 DEF EventsOf
<1>3. R \in SUBSET UsageEvent /\ IsFiniteSet(R)
  BY <1>2, FS_Subset DEF BudgetTypeOK, LedgerInv
<1> QED BY <1>1, <1>3, RollupIsNat DEF Spent, EventsOf

LEMMA LedgerInit == BudgetInit => LedgerInv
<1> SUFFICES ASSUME BudgetInit PROVE LedgerInv OBVIOUS
<1>1. IsFiniteSet(ledger) BY FS_EmptySet DEF BudgetInit
<1>2. \A g \in Generations : ~ Busy(g) BY DEF BudgetInit, Busy, NoGeneration
<1>3. \A w \in Tenants : Spent(w, TRUE) = 0 /\ Spent(w, FALSE) = 0
  <2> SUFFICES ASSUME NEW w \in Tenants, NEW how \in BOOLEAN PROVE Spent(w, how) = 0
    OBVIOUS
  <2>1. {e \in ledger : e.tenant = w /\ e.checked = how} = {} BY DEF BudgetInit
  <2> QED BY <2>1, RollupEmpty DEF Spent
<1>4. counter = Rollup(ledger) BY RollupEmpty DEF BudgetInit
<1>5. \A w \in Tenants : budget[w].settled = 0 BY DEF BudgetInit
<1>6. ledger = {} BY DEF BudgetInit
<1>7. \A w \in Tenants : budget[w].settled = Spent(w, TRUE) + Spent(w, FALSE)
  <2> TAKE w \in Tenants
  <2>1. PICK a, b : a = Spent(w, TRUE) /\ b = Spent(w, FALSE) OBVIOUS
  <2>2. a = 0 /\ b = 0 BY <1>3, <2>1, Zenon
  <2>3. budget[w].settled = a + b BY <1>5, <2>2
  <2> QED BY <2>1, <2>3, Zenon
<1> QED BY <1>1, <1>2, <1>4, <1>6, <1>7 DEF LedgerInv

\* The generations of the ledger, apart from what the events add up to.
GenerationsApart ==
  /\ \A e \in ledger : e.id <= runs
  /\ \A g \in Generations : Busy(g) =>
       /\ gen[g].id \in 1 .. runs
       /\ \A e \in ledger : e.id # gen[g].id
       /\ \A h \in Generations : Busy(h) /\ gen[h].id = gen[g].id => h = g
       /\ gen[g].pc = "settle" => gen[g].cost \in Costs

\* A new generation has a new id.
LEMMA NewGenerationApart ==
  ASSUME BudgetTypeOK, GenerationsApart, NEW g \in Generations, ~ Busy(g),
         NEW r \in Generation, NowIs(g, r), r.pc # "settle",
         r.pc = "idle" \/ r.id = runs + 1, runs' = runs + 1, ledger' = ledger
  PROVE  GenerationsApart'
<1>1. runs \in Nat BY BudgetAssumption DEF BudgetTypeOK
<1>2. \A h \in Generations : gen'[h] = IF h = g THEN r ELSE gen[h]
  BY DEF NowIs, BudgetTypeOK
<1>3. \A e \in ledger : e.id \in Nat /\ e.id <= runs
  BY DEF BudgetTypeOK, UsageEvent, GenerationsApart
<1>4. \A h \in Generations : Busy(h) => gen[h].id \in 1 .. runs BY DEF GenerationsApart
<1>5. \A h \in Generations : h # g => (Busy(h)' <=> Busy(h)) BY <1>2 DEF Busy
<1>6. Busy(g)' => r.id = runs + 1 BY <1>2 DEF Busy
<1>7. \A e \in ledger' : e.id <= runs' BY <1>1, <1>3
<1>8. ASSUME NEW h \in Generations, Busy(h)'
      PROVE  /\ gen'[h].id \in 1 .. runs'
             /\ \A e \in ledger' : e.id # gen'[h].id
             /\ \A k \in Generations : Busy(k)' /\ gen'[k].id = gen'[h].id => k = h
             /\ gen'[h].pc = "settle" => gen'[h].cost \in Costs
  <2>1. CASE h = g
    <3>1. gen'[h].id = runs + 1 /\ gen'[h].pc # "settle" BY <1>2, <1>6, <1>8, <2>1
    <3>2. ASSUME NEW k \in Generations, Busy(k)', gen'[k].id = gen'[h].id PROVE k = h
      <4>1. CASE k # g
        <5>1. gen'[k].id \in 1 .. runs BY <1>2, <1>4, <1>5, <3>2, <4>1
        <5> QED BY <1>1, <3>1, <3>2, <5>1
      <4> QED BY <2>1, <4>1
    <3> QED BY <1>1, <1>3, <3>1, <3>2
  <2>2. CASE h # g
    <3>1. Busy(h) /\ gen'[h] = gen[h] BY <1>2, <1>5, <1>8, <2>2
    <3>2. gen[h].id \in 1 .. runs BY <1>4, <3>1
    <3>3. ASSUME NEW k \in Generations, Busy(k)', gen'[k].id = gen'[h].id PROVE k = h
      <4>1. CASE k = g
        <5>1. gen'[k].id = runs + 1 BY <1>2, <1>6, <3>3, <4>1
        <5> QED BY <1>1, <3>1, <3>2, <3>3, <5>1
      <4>2. CASE k # g
        <5>1. Busy(k) /\ gen'[k] = gen[k] BY <1>2, <1>5, <3>3, <4>2
        <5> QED BY <3>1, <3>3, <5>1 DEF GenerationsApart
      <4> QED BY <4>1, <4>2
    <3> QED BY <1>1, <3>1, <3>2, <3>3 DEF GenerationsApart
  <2> QED BY <2>1, <2>2
<1> QED BY <1>7, <1>8 DEF GenerationsApart

\* A generation that goes on keeps its id.
LEMMA SameGenerationApart ==
  ASSUME BudgetTypeOK, GenerationsApart, NEW g \in Generations, Busy(g),
         NEW r \in Generation, NowIs(g, r), r.pc = "idle" \/ r.id = gen[g].id,
         r.pc = "settle" => r.cost \in Costs, runs' = runs, ledger' = ledger
  PROVE  GenerationsApart'
<1>1. \A h \in Generations : gen'[h] = IF h = g THEN r ELSE gen[h]
  BY DEF NowIs, BudgetTypeOK
<1>2. \A h \in Generations : Busy(h)' => Busy(h) /\ gen'[h].id = gen[h].id
  BY <1>1 DEF Busy
<1>3. \A h \in Generations : gen'[h].pc = "settle" => gen'[h].cost \in Costs
  BY <1>1 DEF GenerationsApart, Busy
<1> QED BY <1>2, <1>3 DEF GenerationsApart

\* A recorded one is in the ledger and no longer at work.
LEMMA RecordedApart ==
  ASSUME BudgetTypeOK, GenerationsApart, NEW g \in Generations, Busy(g),
         NowIs(g, NoGeneration), runs' = runs, NEW e, e.id = gen[g].id,
         ledger' = ledger \cup {e}
  PROVE  GenerationsApart'
<1>1. \A h \in Generations : gen'[h] = IF h = g THEN NoGeneration ELSE gen[h]
  BY DEF NowIs, BudgetTypeOK
<1>2. \A h \in Generations : Busy(h)' => Busy(h) /\ gen'[h] = gen[h] /\ h # g
  BY <1>1, NoGenerationTyped DEF Busy
<1>3. \A x \in ledger' : x.id <= runs'
  BY BudgetAssumption DEF GenerationsApart, BudgetTypeOK
<1>4. \A h \in Generations : Busy(h)' => \A x \in ledger' : x.id # gen'[h].id
  BY <1>2 DEF GenerationsApart
<1> QED BY <1>2, <1>3, <1>4 DEF GenerationsApart

LEMMA LedgerParts ==
  LedgerInv <=> /\ IsFiniteSet(ledger)
                /\ GenerationsApart
                /\ counter = Rollup(ledger)
                /\ \A w \in Tenants : budget[w].settled = Spent(w, TRUE) + Spent(w, FALSE)
BY DEF LedgerInv, GenerationsApart

\* Sums are left alone by what leaves the ledger alone.
LEMMA BooksKept ==
  ASSUME BudgetTypeOK, LedgerInv, ledger' = ledger, counter' = counter,
         \A w \in Tenants : budget'[w].settled = budget[w].settled, GenerationsApart'
  PROVE  LedgerInv'
<1>1. \A w \in Tenants : budget'[w].settled = Spent(w, TRUE)' + Spent(w, FALSE)'
  BY DEF LedgerInv, Spent
<1> QED BY <1>1 DEF LedgerInv, GenerationsApart

LEMMA LedgerStep ==
  ASSUME BudgetTypeOK, LedgerInv, [BudgetNext]_budgetVars
  PROVE  LedgerInv'
<1> USE BudgetAssumption
<1>0. GenerationsApart BY DEF LedgerInv, GenerationsApart
<1>1. ASSUME NEW g \in Generations, NEW w \in Tenants, Ask(g, w) PROVE LedgerInv'
  <2>1. PICK r : r = (IF CheckGlobal
                        THEN [NoGeneration EXCEPT !.pc = "workspace", !.tenant = w, !.id = runs + 1]
                        ELSE NoGeneration) /\ NowIs(g, r)
    BY <1>1 DEF Ask
  <2>2. runs + 1 \in 0 .. MaxRuns BY <1>1 DEF Ask, BudgetTypeOK
  <2>3. r \in Generation BY <2>1, <2>2, NoGenerationTyped DEF Generation
  <2>4. r.pc # "settle" /\ (r.pc = "idle" \/ r.id = runs + 1)
    BY <2>1, NoGenerationTyped DEF NoGeneration
  <2>5. GenerationsApart' BY <1>0, <1>1, <2>1, <2>3, <2>4, NewGenerationApart DEF Ask, Busy
  <2> QED BY <1>1, <2>5, BooksKept DEF Ask
<1>2. ASSUME NEW g \in Generations, NEW w \in Tenants, Retry(g, w) PROVE LedgerInv'
  <2>1. PICK r : r = [NoGeneration EXCEPT !.pc = "running", !.tenant = w, !.id = runs + 1,
                                          !.checked = FALSE] /\ NowIs(g, r)
    BY <1>2 DEF Retry
  <2>2. runs + 1 \in 0 .. MaxRuns BY <1>2 DEF Retry, BudgetTypeOK
  <2>3. r \in Generation BY <2>1, <2>2, NoGenerationTyped DEF Generation
  <2>4. r.pc # "settle" /\ r.id = runs + 1 BY <2>1 DEF NoGeneration
  <2>5. GenerationsApart' BY <1>0, <1>2, <2>1, <2>3, <2>4, NewGenerationApart DEF Retry, Busy
  <2> QED BY <1>2, <2>5, BooksKept DEF Retry
<1>3. ASSUME NEW g \in Generations, AdmitGeneration(g) PROVE LedgerInv'
  <2>1. PICK w : w = gen[g].tenant OBVIOUS
  <2>2. gen[g] \in Generation BY DEF BudgetTypeOK
  <2>3. PICK r : r = (IF CheckWorkspace(w) THEN [gen[g] EXCEPT !.pc = "running"] ELSE NoGeneration)
                 /\ NowIs(g, r)
    BY <1>3, <2>1 DEF AdmitGeneration
  <2>4. r \in Generation BY <2>2, <2>3, NoGenerationTyped DEF Generation
  <2>5. (r.pc = "idle" \/ r.id = gen[g].id) /\ r.pc # "settle"
    BY <2>2, <2>3, NoGenerationTyped DEF Generation
  <2>6. GenerationsApart'
    BY <1>0, <1>3, <2>3, <2>4, <2>5, SameGenerationApart DEF AdmitGeneration, Busy
  <2> QED BY <1>3, <2>6, BooksKept DEF AdmitGeneration
<1>4. ASSUME NEW g \in Generations, Generated(g) PROVE LedgerInv'
  <2>1. PICK cost \in Costs :
          NowIs(g, IF cost > 0 THEN [gen[g] EXCEPT !.pc = "settle", !.cost = cost]
                               ELSE NoGeneration)
    BY <1>4 DEF Generated
  <2>2. PICK r : r = (IF cost > 0 THEN [gen[g] EXCEPT !.pc = "settle", !.cost = cost]
                                  ELSE NoGeneration) /\ NowIs(g, r)
    BY <2>1
  <2>3. gen[g] \in Generation /\ cost \in Nat BY DEF BudgetTypeOK
  <2>4. r \in Generation BY <2>2, <2>3, NoGenerationTyped DEF Generation
  <2>5. (r.pc = "idle" \/ r.id = gen[g].id) /\ (r.pc = "settle" => r.cost \in Costs)
    BY <2>2, <2>3, NoGenerationTyped DEF Generation
  <2>6. GenerationsApart'
    BY <1>0, <1>4, <2>2, <2>4, <2>5, SameGenerationApart DEF Generated, Busy
  <2> QED BY <1>4, <2>6, BooksKept DEF Generated
<1>5. ASSUME NEW g \in Generations, RecordEvent(g) PROVE LedgerInv'
  <2>1. gen[g] \in Generation BY DEF BudgetTypeOK
  <2>2. PICK v, cost : v = gen[g].tenant /\ cost = gen[g].cost OBVIOUS
  <2>3. v \in Tenants /\ cost \in Nat /\ gen[g].checked \in BOOLEAN BY <2>1, <2>2 DEF Generation
  <2>4. PICK e : e = [id |-> gen[g].id, tenant |-> v, cost |-> cost, checked |-> gen[g].checked]
    OBVIOUS
  <2>5. Busy(g) /\ gen[g].id \in 1 .. MaxRuns
    BY <1>5 DEF RecordEvent, LedgerInv, Busy, BudgetTypeOK
  <2>6. e \in UsageEvent BY <2>3, <2>4, <2>5 DEF UsageEvent
  <2>7. ledger' = ledger \cup {e} BY <1>5, <2>2, <2>4 DEF RecordEvent
  <2>8. e \notin ledger BY <2>4, <2>5 DEF LedgerInv
  <2>9. ledger \in SUBSET UsageEvent /\ IsFiniteSet(ledger) BY DEF BudgetTypeOK, LedgerInv
  <2>10. IsFiniteSet(ledger') BY <2>7, <2>9, FS_AddElement
  <2>11. GenerationsApart'
    BY <1>0, <1>5, <2>4, <2>5, <2>7, RecordedApart DEF RecordEvent
  <2>12. counter' = Rollup(ledger')
    <3>1. Rollup(ledger \cup {e}) = Rollup(ledger) + e.cost BY <2>6, <2>8, <2>9, RollupAdd
    <3>2. counter' = counter + cost BY <1>5, <2>2 DEF RecordEvent
    <3>3. counter = Rollup(ledger) BY DEF LedgerInv
    <3> QED BY <2>4, <2>7, <3>1, <3>2, <3>3
  <2>13. ASSUME NEW w \in Tenants
         PROVE  budget'[w].settled = Spent(w, TRUE)' + Spent(w, FALSE)'
    <3>1. budget' = [budget EXCEPT ![v].settled = @ + cost, ![v].updatedAt = @ + 1]
      BY <1>5, <2>2 DEF RecordEvent
    <3>2. budget'[w].settled = budget[w].settled + (IF v = w THEN cost ELSE 0)
      BY <2>3, <3>1 DEF BudgetTypeOK, BudgetRow
    <3>3. ASSUME NEW how \in BOOLEAN
          PROVE  Spent(w, how)' = Spent(w, how)
                   + (IF v = w /\ gen[g].checked = how THEN cost ELSE 0)
      <4>1. Rollup(EventsOf(ledger \cup {e}, w, how)) = Rollup(EventsOf(ledger, w, how))
              + (IF e.tenant = w /\ e.checked = how THEN e.cost ELSE 0)
        BY <2>6, <2>8, <2>9, SpentAdd
      <4>2. Spent(w, how) = Rollup(EventsOf(ledger, w, how)) BY SpentIsNat
      <4>3. Spent(w, how)' = Rollup(EventsOf(ledger \cup {e}, w, how))
        BY <2>7 DEF Spent, EventsOf
      <4> QED BY <2>4, <4>1, <4>2, <4>3
    <3>4. budget[w].settled = Spent(w, TRUE) + Spent(w, FALSE) BY DEF LedgerInv
    <3>5. Spent(w, TRUE) \in Nat /\ Spent(w, FALSE) \in Nat BY SpentIsNat
    <3>6. Spent(w, TRUE)' + Spent(w, FALSE)' =
            Spent(w, TRUE) + Spent(w, FALSE) + (IF v = w THEN cost ELSE 0)
      <4>1. PICK a, b : a = Spent(w, TRUE) /\ b = Spent(w, FALSE) OBVIOUS
      <4>2. PICK c, d : /\ c = (IF v = w /\ gen[g].checked = TRUE THEN cost ELSE 0)
                        /\ d = (IF v = w /\ gen[g].checked = FALSE THEN cost ELSE 0)
        OBVIOUS
      <4>3. Spent(w, TRUE)' = a + c /\ Spent(w, FALSE)' = b + d
        BY <3>3, <4>1, <4>2, Zenon
      <4>4. a \in Nat /\ b \in Nat BY <3>5, <4>1
      <4>5. c \in Nat /\ d \in Nat /\ c + d = IF v = w THEN cost ELSE 0
        BY <2>3, <4>2
      <4>6. (a + c) + (b + d) = a + b + (IF v = w THEN cost ELSE 0)
        BY <2>3, <4>4, <4>5
      <4> QED BY <4>1, <4>3, <4>6, Zenon
    <3> QED BY <3>2, <3>4, <3>6
  <2> QED BY <2>10, <2>11, <2>12, <2>13 DEF LedgerInv, GenerationsApart
<1>6. ASSUME NEW a \in Admins, NEW w \in Tenants, GetBudget(a, w) PROVE LedgerInv'
  <2>1. GenerationsApart' BY <1>0, <1>6 DEF GetBudget, GenerationsApart, Busy
  <2> QED BY <1>6, <2>1, BooksKept DEF GetBudget
<1>7. ASSUME NEW a \in Admins, NEW w \in Tenants, NEW limit \in Limits,
             UpdateBudget(a, w, limit)
      PROVE  LedgerInv'
  <2>1. GenerationsApart' BY <1>0, <1>7 DEF UpdateBudget, GenerationsApart, Busy
  <2>2. \A v \in Tenants : budget'[v].settled = budget[v].settled
    BY <1>7 DEF UpdateBudget, UpdateLimit, BudgetTypeOK, BudgetRow
  <2> QED BY <1>7, <2>1, <2>2, BooksKept DEF UpdateBudget
<1>8. CASE UNCHANGED budgetVars
  <2>1. GenerationsApart' BY <1>0, <1>8 DEF budgetVars, GenerationsApart, Busy
  <2> QED BY <1>8, <2>1, BooksKept DEF budgetVars
<1> QED BY <1>1, <1>2, <1>3, <1>4, <1>5, <1>6, <1>7, <1>8 DEF BudgetNext

-----------------------------------------------------------------------------
(* Budget: admission.                                                      *)

LEMMA MaxCostBounds ==
  MaxCost \in Nat /\ \A c \in Costs : c <= MaxCost
BY BudgetAssumption, GreatestNumber DEF MaxCost

LEMMA TimesGrows ==
  ASSUME NEW m \in Nat, NEW n \in Nat, n <= m, NEW c \in Nat
  PROVE  n * c <= m * c /\ n * c \in Nat /\ (n + 1) * c = n * c + c
OBVIOUS

Admits(r, w) == r.pc \in {"running", "settle"} /\ r.tenant = w /\ r.checked

\* Who is admitted, after a generation's local variables have changed.
LEMMA AdmittedChange ==
  ASSUME BudgetTypeOK, NEW g \in Generations, NEW r, NowIs(g, r), NEW w \in Tenants
  PROVE  /\ Admits(r, w) => Admitted(w)' = Admitted(w) \cup {g}
         /\ ~ Admits(r, w) => Admitted(w)' = Admitted(w) \ {g}
<1>1. \A h \in Generations : gen'[h] = IF h = g THEN r ELSE gen[h]
  BY DEF NowIs, BudgetTypeOK
<1> QED BY <1>1 DEF Admits, Admitted

LEMMA AdmittedFinite ==
  ASSUME NEW w \in Tenants
  PROVE  IsFiniteSet(Admitted(w)) /\ Cardinality(Admitted(w)) \in Nat
<1>1. Admitted(w) \in SUBSET Generations BY DEF Admitted
<1> QED BY <1>1, BudgetAssumption, FS_Subset, FS_CardinalityType

\* The bound of a workspace: with its spending and its admitted generations.
Bounded(spent, admitted, top, times) ==
  admitted > 0 \/ spent > 0 =>
    spent + admitted * MaxCost <= top - Ceiling + times * MaxCost

Allowed(w) ==
  /\ budget[w].limit <= peak[w]
  /\ Cardinality(Admitted(w)) <= most[w]
  /\ Bounded(Spent(w, TRUE), Cardinality(Admitted(w)), peak[w], most[w])

LEMMA AdmissionParts == AdmissionInv <=> \A w \in Tenants : Allowed(w)
<1> SUFFICES ASSUME NEW w \in Tenants
             PROVE  Admitted(w) # {} <=> Cardinality(Admitted(w)) > 0
  BY DEF AdmissionInv, Allowed, Bounded
<1> QED BY AdmittedFinite, FS_EmptySet

\* Fewer admitted generations, the same spending, a higher limit or peak.
LEMMA StillBounded ==
  ASSUME NEW s \in Nat, NEW n \in Nat, NEW k \in Nat, k <= n, NEW p \in Nat, NEW q \in Nat,
         p <= q, NEW m \in Nat, NEW l \in Nat, m <= l, Bounded(s, n, p, m)
  PROVE  Bounded(s, k, q, l)
<1>1. MaxCost \in Nat BY MaxCostBounds
<1>2. PICK kc, nc, mc, lc : /\ kc = k * MaxCost /\ nc = n * MaxCost
                            /\ mc = m * MaxCost /\ lc = l * MaxCost
  OBVIOUS
<1>3. kc <= nc /\ kc \in Nat /\ nc \in Nat BY <1>1, <1>2, TimesGrows
<1>7. mc <= lc /\ mc \in Nat /\ lc \in Nat BY <1>1, <1>2, TimesGrows
<1>4. Ceiling \in Nat BY BudgetAssumption
<1>5. s > 0 \/ n > 0 => s + nc <= p - Ceiling + mc BY <1>2 DEF Bounded
<1>6. s > 0 \/ k > 0 => s + kc <= q - Ceiling + lc BY <1>3, <1>4, <1>5, <1>7
<1> QED BY <1>2, <1>6 DEF Bounded

\* A generation is recorded for no more than MaxCost.
LEMMA BoundedAfterRecord ==
  ASSUME NEW s \in Nat, NEW n \in Nat, NEW p \in Nat, NEW m \in Nat, NEW c \in Nat,
         c <= MaxCost, Bounded(s, n + 1, p, m)
  PROVE  Bounded(s + c, n, p, m)
<1>1. MaxCost \in Nat BY MaxCostBounds
<1>2. PICK nc, mc : nc = n * MaxCost /\ mc = m * MaxCost OBVIOUS
<1>3. nc \in Nat /\ mc \in Nat /\ (n + 1) * MaxCost = nc + MaxCost BY <1>1, <1>2, TimesGrows
<1>4. Ceiling \in Nat BY BudgetAssumption
<1>5. s + (nc + MaxCost) <= p - Ceiling + mc BY <1>2, <1>3 DEF Bounded
<1>6. (s + c) + nc <= p - Ceiling + mc BY <1>1, <1>3, <1>4, <1>5
<1> QED BY <1>2, <1>6 DEF Bounded

\* An admission: the check has left the ceiling free.
LEMMA BoundedAfterAdmission ==
  ASSUME NEW s \in Nat, NEW n \in Nat, NEW p \in Nat, NEW m \in Nat, n <= m,
         s + Ceiling <= p
  PROVE  Bounded(s, n, p, m)
<1>1. MaxCost \in Nat BY MaxCostBounds
<1>2. PICK nc, mc : nc = n * MaxCost /\ mc = m * MaxCost OBVIOUS
<1>3. nc <= mc /\ nc \in Nat /\ mc \in Nat BY <1>1, <1>2, TimesGrows
<1>4. Ceiling \in Nat BY BudgetAssumption
<1>5. s + nc <= p - Ceiling + mc BY <1>3, <1>4
<1> QED BY <1>2, <1>5 DEF Bounded

\* A workspace that has not spent or admitted more stays within its bound.
LEMMA AllowedGrows ==
  ASSUME BudgetTypeOK, LedgerInv, NEW w \in Tenants, Allowed(w), ledger' = ledger,
         peak'[w] \in Nat, peak[w] <= peak'[w], most'[w] \in Nat, most[w] <= most'[w],
         budget'[w].limit <= peak'[w], Admitted(w)' \subseteq Admitted(w)
  PROVE  Allowed(w)'
<1>1. PICK s, n, k : /\ s = Spent(w, TRUE) /\ n = Cardinality(Admitted(w))
                     /\ k = Cardinality(Admitted(w)')
  OBVIOUS
<1>2. s \in Nat BY <1>1, SpentIsNat, Zenon
<1>3. n \in Nat /\ k \in Nat /\ k <= n
  <2>1. IsFiniteSet(Admitted(w)) /\ n \in Nat BY <1>1, AdmittedFinite
  <2>2. PICK A, B : A = Admitted(w) /\ B = Admitted(w)' OBVIOUS
  <2>3. B \in SUBSET A BY <2>2
  <2>4. IsFiniteSet(B) /\ Cardinality(B) <= Cardinality(A) BY <2>1, <2>2, <2>3, FS_Subset
  <2>5. Cardinality(B) \in Nat BY <2>4, FS_CardinalityType
  <2> QED BY <1>1, <2>1, <2>2, <2>4, <2>5
<1>4. PICK p, q, m, l : p = peak[w] /\ q = peak'[w] /\ m = most[w] /\ l = most'[w]
  OBVIOUS
<1>5. p \in Nat /\ q \in Nat /\ m \in Nat /\ l \in Nat /\ p <= q /\ m <= l
  BY <1>4 DEF BudgetTypeOK
<1>6. n <= m /\ Bounded(s, n, p, m) BY <1>1, <1>4 DEF Allowed
<1>7. Bounded(s, k, q, l) BY <1>2, <1>3, <1>5, <1>6, StillBounded
<1>8. Spent(w, TRUE)' = s BY <1>1 DEF Spent
<1>9. k <= l BY <1>3, <1>5, <1>6
<1> QED BY <1>1, <1>4, <1>7, <1>8, <1>9 DEF Allowed, Bounded

LEMMA AllowedKept ==
  ASSUME BudgetTypeOK, LedgerInv, NEW w \in Tenants, Allowed(w), ledger' = ledger,
         peak' = peak, most' = most, budget'[w].limit = budget[w].limit,
         Admitted(w)' \subseteq Admitted(w)
  PROVE  Allowed(w)'
<1>1. peak[w] \in Nat /\ most[w] \in Nat BY DEF BudgetTypeOK
<1>2. peak[w] <= peak[w] /\ most[w] <= most[w] BY <1>1
<1>3. budget'[w].limit <= peak'[w] BY DEF Allowed
<1> QED BY <1>1, <1>2, <1>3, AllowedGrows

LEMMA AdmissionInit == BudgetInit => AdmissionInv
<1> SUFFICES ASSUME BudgetInit, NEW w \in Tenants PROVE Allowed(w)
  BY AdmissionParts
<1>1. Admitted(w) = {} BY DEF BudgetInit, Admitted, NoGeneration
<1>2. Cardinality(Admitted(w)) = 0 BY <1>1, FS_EmptySet
<1>3. Spent(w, TRUE) = 0
  <2>1. {e \in ledger : e.tenant = w /\ e.checked = TRUE} = {} BY DEF BudgetInit
  <2> QED BY <2>1, RollupEmpty DEF Spent
<1>4. budget[w].limit <= peak[w] /\ most[w] = 0 BY BudgetAssumption DEF BudgetInit
<1>5. PICK s : s = Spent(w, TRUE) OBVIOUS
<1>6. s = 0 BY <1>3, <1>5, Zenon
<1>7. Bounded(s, Cardinality(Admitted(w)), peak[w], most[w]) BY <1>2, <1>6 DEF Bounded
<1>8. Bounded(Spent(w, TRUE), Cardinality(Admitted(w)), peak[w], most[w])
  BY <1>5, <1>7, Zenon
<1>9. Cardinality(Admitted(w)) <= most[w] BY <1>2, <1>4
<1> QED BY <1>4, <1>8, <1>9, Zenon DEF Allowed

LEMMA AdmissionStep ==
  ASSUME BudgetTypeOK, LedgerInv, AdmissionInv, [BudgetNext]_budgetVars
  PROVE  AdmissionInv'
<1> USE BudgetAssumption
<1>a. \A w \in Tenants : Allowed(w) BY AdmissionParts
<1>b. SUFFICES ASSUME NEW w \in Tenants PROVE Allowed(w)'
  <2>1. (\A v \in Tenants : Allowed(v)') => AdmissionInv'
    <3>1. SUFFICES ASSUME NEW v \in Tenants PROVE (Admitted(v) # {})' <=> Cardinality(Admitted(v)') > 0
      BY DEF AdmissionInv, Allowed, Bounded
    <3>2. PICK A : A = Admitted(v)' OBVIOUS
    <3>3. A \in SUBSET Generations BY <3>2 DEF Admitted
    <3>4. IsFiniteSet(A) /\ Cardinality(A) \in Nat BY <3>3, FS_Subset, FS_CardinalityType
    <3> QED BY <3>2, <3>4, FS_EmptySet
  <2> QED BY <2>1
<1>0. Allowed(w) BY <1>a
<1>1. ASSUME NEW g \in Generations, NEW v \in Tenants, Ask(g, v) PROVE Allowed(w)'
  <2>1. PICK r : r = (IF CheckGlobal
                        THEN [NoGeneration EXCEPT !.pc = "workspace", !.tenant = v, !.id = runs + 1]
                        ELSE NoGeneration) /\ NowIs(g, r)
    BY <1>1 DEF Ask
  <2>2. ~ Admits(r, w) BY <2>1, NoGenerationTyped DEF Admits, NoGeneration
  <2>3. Admitted(w)' \subseteq Admitted(w) BY <2>1, <2>2, AdmittedChange
  <2> QED BY <1>0, <1>1, <2>3, AllowedKept DEF Ask
<1>2. ASSUME NEW g \in Generations, NEW v \in Tenants, Retry(g, v) PROVE Allowed(w)'
  <2>1. PICK r : r = [NoGeneration EXCEPT !.pc = "running", !.tenant = v, !.id = runs + 1,
                                          !.checked = FALSE] /\ NowIs(g, r)
    BY <1>2 DEF Retry
  <2>2. ~ Admits(r, w) BY <2>1 DEF Admits, NoGeneration
  <2>3. Admitted(w)' \subseteq Admitted(w) BY <2>1, <2>2, AdmittedChange
  <2> QED BY <1>0, <1>2, <2>3, AllowedKept DEF Retry
<1>3. ASSUME NEW g \in Generations, AdmitGeneration(g) PROVE Allowed(w)'
  <2>1. PICK v : v = gen[g].tenant OBVIOUS
  <2>2. gen[g] \in Generation /\ gen[g].pc = "workspace" BY <1>3 DEF BudgetTypeOK, AdmitGeneration
  <2>3. PICK r : r = (IF CheckWorkspace(v) THEN [gen[g] EXCEPT !.pc = "running"] ELSE NoGeneration)
                 /\ NowIs(g, r)
    BY <1>3, <2>1 DEF AdmitGeneration
  <2>4. v \in Tenants BY <2>1, <2>2 DEF Generation
  <2>5. CASE ~ Admits(r, w)
    <3>1. Admitted(w)' \subseteq Admitted(w) BY <2>3, <2>5, AdmittedChange
    <3>2. most' = [most EXCEPT ![v] = @ + 1] \/ most' = most
      BY <1>3, <2>1 DEF AdmitGeneration
    <3>3. most'[w] \in Nat /\ most[w] <= most'[w] BY <2>4, <3>2 DEF BudgetTypeOK
    <3>4. peak'[w] \in Nat /\ peak[w] <= peak'[w] /\ budget'[w].limit <= peak'[w]
      BY <1>0, <1>3 DEF AdmitGeneration, Allowed, BudgetTypeOK
    <3>5. ledger' = ledger BY <1>3 DEF AdmitGeneration
    <3> QED BY <1>0, <3>1, <3>3, <3>4, <3>5, AllowedGrows
  <2>6. CASE Admits(r, w)
    <3>1. v = w /\ CheckWorkspace(w)
      BY <2>1, <2>2, <2>3, <2>6, NoGenerationTyped DEF Admits, Generation
    <3>2. g \notin Admitted(w) BY <2>2 DEF Admitted
    <3>3. PICK s, n : s = Spent(w, TRUE) /\ n = Cardinality(Admitted(w)) OBVIOUS
    <3>4. Cardinality(Admitted(w)') = n + 1 /\ n \in Nat
      <4>1. IsFiniteSet(Admitted(w)) /\ n \in Nat BY <3>3, AdmittedFinite
      <4>2. Admitted(w)' = Admitted(w) \cup {g} BY <2>3, <2>6, AdmittedChange
      <4> QED BY <3>2, <3>3, <4>1, <4>2, FS_AddElement
    <3>5. most'[w] \in Nat /\ n + 1 <= most'[w]
      <4>1. n <= most[w] /\ most[w] \in Nat BY <1>0, <3>3 DEF Allowed, BudgetTypeOK
      <4>2. most' = IF n >= most[w] THEN [most EXCEPT ![w] = @ + 1] ELSE most
        BY <1>3, <2>1, <3>1, <3>3 DEF AdmitGeneration
      <4>3. CASE n >= most[w]
        <5>1. most'[w] = most[w] + 1 BY <4>2, <4>3 DEF BudgetTypeOK
        <5> QED BY <3>4, <4>1, <5>1
      <4>4. CASE ~ (n >= most[w]) BY <3>4, <4>1, <4>2, <4>4
      <4> QED BY <4>3, <4>4
    <3>6. s \in Nat /\ s + Ceiling <= peak[w]
      <4>1. PICK u : u = Spent(w, FALSE) OBVIOUS
      <4>2. budget[w].settled = s + u
        <5>1. budget[w].settled = Spent(w, TRUE) + Spent(w, FALSE) BY DEF LedgerInv
        <5> QED BY <3>3, <4>1, <5>1, Zenon
      <4>3. s \in Nat /\ u \in Nat BY <3>3, <4>1, SpentIsNat, Zenon
      <4>4. budget[w].settled + Ceiling <= budget[w].limit BY <3>1 DEF CheckWorkspace
      <4>5. budget[w].limit <= peak[w] BY <1>0 DEF Allowed
      <4>6. budget[w].limit \in Nat /\ peak[w] \in Nat
        BY DEF BudgetTypeOK, BudgetRow
      <4> QED BY <4>2, <4>3, <4>4, <4>5, <4>6
    <3>7. peak[w] \in Nat BY DEF BudgetTypeOK
    <3>8. Bounded(s, n + 1, peak[w], most'[w])
      <4>1. n + 1 \in Nat BY <3>4
      <4>2. PICK m : m = most'[w] OBVIOUS
      <4> QED BY <3>5, <3>6, <3>7, <4>1, <4>2, BoundedAfterAdmission
    <3>9. Spent(w, TRUE)' = s BY <1>3, <3>3 DEF Spent, AdmitGeneration
    <3>10. budget' = budget /\ peak' = peak BY <1>3 DEF AdmitGeneration
    <3> QED BY <1>0, <3>4, <3>5, <3>8, <3>9, <3>10 DEF Allowed, Bounded
  <2> QED BY <2>5, <2>6
<1>4. ASSUME NEW g \in Generations, Generated(g) PROVE Allowed(w)'
  <2>1. PICK cost \in Costs :
          NowIs(g, IF cost > 0 THEN [gen[g] EXCEPT !.pc = "settle", !.cost = cost]
                               ELSE NoGeneration)
    BY <1>4 DEF Generated
  <2>2. PICK r : r = (IF cost > 0 THEN [gen[g] EXCEPT !.pc = "settle", !.cost = cost]
                                  ELSE NoGeneration) /\ NowIs(g, r)
    BY <2>1
  <2>3. gen[g] \in Generation /\ gen[g].pc = "running" BY <1>4 DEF BudgetTypeOK, Generated
  <2>4. Admits(r, w) => g \in Admitted(w)
    BY <2>2, <2>3, NoGenerationTyped DEF Admits, Admitted, Generation
  <2>5. Admitted(w)' \subseteq Admitted(w) BY <2>2, <2>4, AdmittedChange
  <2> QED BY <1>0, <1>4, <2>5, AllowedKept DEF Generated
<1>5. ASSUME NEW g \in Generations, RecordEvent(g) PROVE Allowed(w)'
  <2>1. gen[g] \in Generation /\ gen[g].pc = "settle" BY <1>5 DEF BudgetTypeOK, RecordEvent
  <2>2. PICK v, cost : v = gen[g].tenant /\ cost = gen[g].cost OBVIOUS
  <2>3. v \in Tenants /\ cost \in Nat /\ gen[g].checked \in BOOLEAN BY <2>1, <2>2 DEF Generation
  <2>4. PICK e : e = [id |-> gen[g].id, tenant |-> v, cost |-> cost, checked |-> gen[g].checked]
    OBVIOUS
  <2>5. Busy(g) /\ gen[g].id \in 1 .. MaxRuns /\ cost \in Costs
    BY <1>5, <2>1, <2>2 DEF LedgerInv, Busy, BudgetTypeOK
  <2>6. e \in UsageEvent BY <2>3, <2>4, <2>5 DEF UsageEvent
  <2>7. ledger' = ledger \cup {e} BY <1>5, <2>2, <2>4 DEF RecordEvent
  <2>8. e \notin ledger BY <2>4, <2>5 DEF LedgerInv
  <2>9. ledger \in SUBSET UsageEvent /\ IsFiniteSet(ledger) BY DEF BudgetTypeOK, LedgerInv
  <2>10. PICK s, t, n, k : /\ s = Spent(w, TRUE) /\ t = Spent(w, TRUE)'
                           /\ n = Cardinality(Admitted(w)) /\ k = Cardinality(Admitted(w)')
    OBVIOUS
  <2>11. s \in Nat BY <2>10, SpentIsNat, Zenon
  <2>12. PICK p, m : p = peak[w] /\ m = most[w] OBVIOUS
  <2>13. p \in Nat /\ m \in Nat BY <2>12 DEF BudgetTypeOK
  <2>14. n <= m /\ Bounded(s, n, p, m) /\ budget[w].limit <= p
    BY <1>0, <2>10, <2>12 DEF Allowed
  <2>15. budget'[w].limit = budget[w].limit
    BY <1>5 DEF RecordEvent, BudgetTypeOK, BudgetRow
  <2>16. peak' = peak /\ most' = most /\ NowIs(g, NoGeneration) BY <1>5 DEF RecordEvent
  <2>17. t = s + (IF v = w /\ gen[g].checked = TRUE THEN cost ELSE 0)
    <3>1. PICK how : how = TRUE OBVIOUS
    <3>2. Rollup(EventsOf(ledger \cup {e}, w, how)) = Rollup(EventsOf(ledger, w, how))
            + (IF e.tenant = w /\ e.checked = how THEN e.cost ELSE 0)
      BY <2>6, <2>8, <2>9, <3>1, SpentAdd
    <3>3. s = Rollup(EventsOf(ledger, w, how)) BY <2>10, <3>1, SpentIsNat, Zenon
    <3>4. t = Rollup(EventsOf(ledger \cup {e}, w, how))
      BY <2>7, <2>10, <3>1 DEF Spent, EventsOf
    <3> QED BY <2>4, <3>1, <3>2, <3>3, <3>4
  <2>18. IsFiniteSet(Admitted(w)) /\ n \in Nat BY <2>10, AdmittedFinite
  <2>19. Admitted(w)' = Admitted(w) \ {g}
    <3>1. ~ Admits(NoGeneration, w) BY NoGenerationTyped DEF Admits
    <3> QED BY <2>16, <3>1, AdmittedChange
  <2>20. k = (IF g \in Admitted(w) THEN n - 1 ELSE n) /\ k \in Nat
    BY <2>10, <2>18, <2>19, FS_RemoveElement, FS_CardinalityType
  <2>21. g \in Admitted(w) <=> v = w /\ gen[g].checked = TRUE
    BY <2>1, <2>2, <2>3 DEF Admitted
  <2>22. Bounded(t, k, p, m) /\ k <= m
    <3>1. CASE g \in Admitted(w)
      <4>1. t = s + cost /\ n = k + 1 BY <2>17, <2>18, <2>20, <2>21, <3>1
      <4>2. cost <= MaxCost BY <2>5, MaxCostBounds
      <4>3. Bounded(s + cost, k, p, m)
        BY <2>3, <2>11, <2>13, <2>14, <2>20, <4>1, <4>2, BoundedAfterRecord
      <4> QED BY <2>13, <2>14, <2>20, <4>1, <4>3
    <3>2. CASE g \notin Admitted(w)
      <4>1. t = s /\ n = k BY <2>11, <2>17, <2>20, <2>21, <3>2
      <4> QED BY <2>14, <4>1
    <3> QED BY <3>1, <3>2
  <2> QED BY <2>10, <2>12, <2>14, <2>15, <2>16, <2>22 DEF Allowed
<1>6. ASSUME NEW a \in Admins, NEW v \in Tenants, GetBudget(a, v) PROVE Allowed(w)'
  <2>1. Admitted(w)' = Admitted(w) BY <1>6 DEF GetBudget, Admitted
  <2> QED BY <1>0, <1>6, <2>1, AllowedKept DEF GetBudget
<1>7. ASSUME NEW a \in Admins, NEW v \in Tenants, NEW limit \in Limits,
             UpdateBudget(a, v, limit)
      PROVE  Allowed(w)'
  <2>1. Admitted(w)' = Admitted(w) BY <1>7 DEF UpdateBudget, Admitted
  <2>2. PICK k : k = (IF limit > peak[v] THEN limit ELSE peak[v]) /\ peak' = [peak EXCEPT ![v] = k]
    BY <1>7 DEF UpdateBudget
  <2>3. k \in Nat /\ limit <= k /\ peak[v] <= k BY <2>2 DEF BudgetTypeOK
  <2>4. peak'[w] \in Nat /\ peak[w] <= peak'[w] BY <2>2, <2>3 DEF BudgetTypeOK
  <2>5. budget' = UpdateLimit(v, limit) BY <1>7 DEF UpdateBudget
  <2>6. budget'[w].limit = (IF w = v THEN limit ELSE budget[w].limit)
    BY <2>5 DEF UpdateLimit, BudgetTypeOK, BudgetRow
  <2>7. budget'[w].limit <= peak'[w]
    <3>1. CASE w = v
      <4>1. peak'[w] = k BY <2>2, <3>1 DEF BudgetTypeOK
      <4> QED BY <2>3, <2>6, <3>1, <4>1
    <3>2. CASE w # v
      <4>1. peak'[w] = peak[w] BY <2>2, <3>2 DEF BudgetTypeOK
      <4> QED BY <1>0, <2>6, <3>2, <4>1 DEF Allowed
    <3> QED BY <3>1, <3>2
  <2>8. ledger' = ledger /\ most' = most BY <1>7 DEF UpdateBudget
  <2>9. most'[w] \in Nat /\ most[w] <= most'[w] BY <2>8 DEF BudgetTypeOK
  <2> QED BY <1>0, <2>1, <2>4, <2>7, <2>8, <2>9, AllowedGrows
<1>8. CASE UNCHANGED budgetVars
  <2>1. Admitted(w)' = Admitted(w) BY <1>8 DEF budgetVars, Admitted
  <2> QED BY <1>0, <1>8, <2>1, AllowedKept DEF budgetVars
<1> QED BY <1>1, <1>2, <1>3, <1>4, <1>5, <1>6, <1>7, <1>8 DEF BudgetNext

LEMMA BudgetInvariant == BudgetSpec => [](BudgetTypeOK /\ LedgerInv /\ AdmissionInv)
<1>1. BudgetInit => BudgetTypeOK /\ LedgerInv /\ AdmissionInv
  BY BudgetTypeInit, LedgerInit, AdmissionInit
<1>2. BudgetTypeOK /\ LedgerInv /\ AdmissionInv /\ [BudgetNext]_budgetVars
        => (BudgetTypeOK /\ LedgerInv /\ AdmissionInv)'
  BY BudgetTypeStep, LedgerStep, AdmissionStep
<1> QED BY <1>1, <1>2, PTL DEF BudgetSpec

(***************************************************************************)
(* Budgets: the books agree with the ledger, and what overlapping          *)
(* generations overshoot is bounded, for any number of workspaces and      *)
(* generations, any costs and any changes of limits.                       *)
(***************************************************************************)
THEOREM BudgetsHold == BudgetSpec => []BudgetHeld
<1>1. BudgetTypeOK /\ LedgerInv /\ AdmissionInv => BudgetHeld
  <2> SUFFICES ASSUME BudgetTypeOK, LedgerInv, AdmissionInv PROVE BudgetHeld OBVIOUS
  <2>1. counter = Rollup(ledger) BY DEF LedgerInv
  <2>2. ASSUME NEW w \in Tenants, Spent(w, TRUE) > 0
        PROVE  Spent(w, TRUE) <= peak[w] - Ceiling + most[w] * MaxCost
    <3>1. PICK s, n : s = Spent(w, TRUE) /\ n = Cardinality(Admitted(w)) OBVIOUS
    <3>2. s \in Nat BY <3>1, SpentIsNat, Zenon
    <3>3. n \in Nat BY <3>1, AdmittedFinite
    <3>4. PICK nc, mc : nc = n * MaxCost /\ mc = most[w] * MaxCost OBVIOUS
    <3>5. nc \in Nat /\ mc \in Nat
      BY <3>3, <3>4, MaxCostBounds, TimesGrows DEF BudgetTypeOK
    <3>6. s + nc <= peak[w] - Ceiling + mc
      BY <2>2, <3>1, <3>4 DEF AdmissionInv
    <3>7. s <= peak[w] - Ceiling + mc
      BY <3>2, <3>5, <3>6, BudgetAssumption DEF BudgetTypeOK
    <3> QED BY <3>1, <3>4, <3>7
  <2>3. \A w \in Tenants : budget[w].settled = Spent(w, TRUE) + Spent(w, FALSE)
    BY DEF LedgerInv
  <2> QED BY <2>1, <2>2, <2>3 DEF BudgetHeld
<1> QED BY <1>1, BudgetInvariant, PTL

-----------------------------------------------------------------------------
(* Memory: types.                                                          *)

LEMMA IdleTurnTyped == NoSummary \in MemorySummary /\ IdleTurn \in Turn
<1>1. 0 \in 0 .. MaxMessages BY MemoryAssumption
<1>2. NoSummary \in MemorySummary BY <1>1 DEF NoSummary, MemorySummary
<1> QED BY <1>1, <1>2 DEF Turn, IdleTurn

LEMMA MemoryTypeInit == MemoryInit => MemoryTypeOK
<1> SUFFICES ASSUME MemoryInit PROVE MemoryTypeOK OBVIOUS
<1>1. messages \in Seq(Sizes) BY DEF MemoryInit
<1>2. turn \in [Turns -> Turn] BY IdleTurnTyped DEF MemoryInit
<1> QED BY <1>1, <1>2, IdleTurnTyped DEF MemoryInit, MemoryTypeOK

\* The number of tokens of each message.
LEMMA SizesOfMessages ==
  ASSUME MemoryTypeOK
  PROVE  Len(messages) \in Nat /\ \A s \in 1 .. Len(messages) : messages[s] \in Nat
<1>1. messages \in Seq(Sizes) BY DEF MemoryTypeOK
<1>2. \A s \in 1 .. Len(messages) : messages[s] \in Sizes BY <1>1
<1>3. Sizes \subseteq Nat BY MemoryAssumption DEF MemoryAssumption
<1>4. Len(messages) \in Nat BY <1>1
<1> QED BY <1>2, <1>3, <1>4

LEMMA TurnTyped ==
  ASSUME MemoryTypeOK, NEW t \in Turns, NEW r \in Turn, Becomes(t, r)
  PROVE  turn' \in [Turns -> Turn]
BY DEF MemoryTypeOK, Becomes

\* A message is appended to the thread.
LEMMA Appended ==
  ASSUME MemoryTypeOK, NEW size \in Sizes, messages' = Append(messages, size)
  PROVE  /\ messages' \in Seq(Sizes)
         /\ Len(messages) \in Nat /\ Len(messages') = Len(messages) + 1
         /\ \A s \in 1 .. Len(messages) : messages'[s] = messages[s]
BY DEF MemoryTypeOK

\* Messages up to some seq are finitely many, and their tokens are numbers.
LEMMA SeqsFinite ==
  ASSUME NEW n \in Nat, NEW S \in SUBSET (1 .. n)
  PROVE  IsFiniteSet(S) /\ S \in SUBSET Nat
<1>1. IsFiniteSet(1 .. n) BY FS_Interval
<1>2. 1 .. n \in SUBSET Nat OBVIOUS
<1> QED BY <1>1, <1>2, FS_Subset

LEMMA TokensKept ==
  ASSUME MemoryTypeOK, NEW S \in SUBSET (1 .. Len(messages)),
         \/ messages' = messages
         \/ \E size \in Sizes : messages' = Append(messages, size)
  PROVE  TokensOf(S)' = TokensOf(S)
<1>1. CASE messages' = messages BY <1>1 DEF TokensOf
<1>2. ASSUME NEW size \in Sizes, messages' = Append(messages, size)
      PROVE  TokensOf(S)' = TokensOf(S)
  <2>1. PICK w, v, n : w = messages /\ v = messages' /\ n = Len(messages) OBVIOUS
  <2>2. n \in Nat BY <2>1 DEF MemoryTypeOK
  <2>3. IsFiniteSet(S) BY <2>1, <2>2, SeqsFinite
  <2>4. \A s \in S : w[s] \in Nat BY <2>1, SizesOfMessages
  <2>5. \A s \in S : v[s] = w[s] BY <1>2, <2>1, Appended
  <2>6. SumFunctionOnSet(v, S) = SumFunctionOnSet(w, S) BY <2>3, <2>4, <2>5, SumAgrees
  <2> QED BY <2>1, <2>6 DEF TokensOf
<1> QED BY <1>1, <1>2

-----------------------------------------------------------------------------
(* Memory: the window.                                                     *)

\* _split_by_budget keeps a suffix of the candidates with the newest of them,
\* within the budget if it has more than one message.
LEMMA WindowIsSuffix ==
  ASSUME MemoryTypeOK, NEW C \in SUBSET (1 .. Len(messages)), C # {}
  PROVE  \E m \in C :
           /\ Window(C) = {u \in C : u >= m}
           /\ \A u \in C : u <= Max(C)
           /\ Max(C) \in C
           /\ m # Max(C) => TokensOf(Window(C)) <= WindowBudget
<1> DEFINE From(s) == {v \in C : v >= s}
           W == Window(C)
<1>1. PICK n, w : n = Len(messages) /\ w = messages OBVIOUS
<1>2. n \in Nat BY <1>1 DEF MemoryTypeOK
<1>3. C \in SUBSET Nat /\ IsFiniteSet(C) BY <1>1, <1>2, SeqsFinite
<1>4. Max(C) \in C /\ \A u \in C : u <= Max(C) BY <1>3, GreatestNumber
<1>5. Max(C) \in W /\ W \in SUBSET Nat BY <1>3, <1>4 DEF Window
<1>6. PICK m \in W : \A k \in W : m <= k
  <2> HIDE DEF W
  <2> QED BY <1>5, LeastNumber
<1>7. m \in C /\ (m = Max(C) \/ TokensOf(From(m)) <= WindowBudget)
  BY <1>6 DEF Window
<1>8. ASSUME NEW u \in C, u >= m PROVE u \in W
  <2>1. CASE m = Max(C)
    <3>1. u <= m /\ u \in Nat /\ m \in Nat BY <1>3, <1>4, <1>7, <2>1
    <3>2. u = m BY <1>8, <3>1
    <3> QED BY <1>6, <3>2
  <2>2. CASE TokensOf(From(m)) <= WindowBudget
    <3>1. PICK A, B : A = From(m) /\ B = From(u) OBVIOUS
    <3>2. A \in SUBSET C /\ B \in SUBSET A
      <4>1. \A x \in C : x \in Nat BY <1>3
      <4>2. u \in Nat /\ m \in Nat BY <1>3, <1>7
      <4>3. \A v \in C : v >= u => v >= m BY <1>8, <4>1, <4>2
      <4> QED BY <3>1, <4>3
    <3>3. IsFiniteSet(A) BY <1>3, <3>2, FS_Subset
    <3>4. \A x \in A : w[x] \in Nat BY <1>1, <3>2, SizesOfMessages
    <3>5. SumFunctionOnSet(w, B) <= SumFunctionOnSet(w, A) BY <3>2, <3>3, <3>4, SumGrows
    <3>6. SumFunctionOnSet(w, B) \in Nat /\ SumFunctionOnSet(w, A) \in Nat
      <4>1. IsFiniteSet(B) /\ \A x \in B : w[x] \in Nat BY <3>2, <3>3, <3>4, FS_Subset
      <4> QED BY <3>3, <3>4, <4>1, SumIsNat
    <3>7. TokensOf(B) <= WindowBudget
      BY <1>1, <2>2, <3>1, <3>5, <3>6, MemoryAssumption DEF TokensOf
    <3> QED BY <3>1, <3>7 DEF Window
  <2> QED BY <1>7, <2>1, <2>2
<1>9. W = From(m) BY <1>5, <1>6, <1>8 DEF Window
<1> QED BY <1>4, <1>7, <1>9

-----------------------------------------------------------------------------
(* Memory: the steps.                                                      *)

\* What is said of a turn stays true when messages are appended and when a
\* backlog is found.
LEMMA TurnKept ==
  ASSUME MemoryTypeOK, NEW r \in Turn, WindowInv(r), CompactInv(r),
         gap \in BOOLEAN, gap' \in BOOLEAN, gap => gap',
         \/ messages' = messages
         \/ \E size \in Sizes : messages' = Append(messages, size)
  PROVE  WindowInv(r)' /\ CompactInv(r)'
<1>1. PICK n, k : n = Len(messages) /\ k = Len(messages') OBVIOUS
<1>2. n \in Nat /\ k \in Nat /\ n <= k
  <2>1. CASE messages' = messages BY <1>1, <2>1 DEF MemoryTypeOK
  <2>2. ASSUME NEW size \in Sizes, messages' = Append(messages, size)
        PROVE  n \in Nat /\ k \in Nat /\ n <= k
    <3>1. n \in Nat /\ k = n + 1 BY <1>1, <2>2, Appended
    <3> QED BY <3>1
  <2> QED BY <2>1, <2>2
<1>3. r.upto \in Nat /\ r.existing.upto \in Nat BY DEF Turn, MemorySummary
<1>4. WindowInv(r)'
  <2>1. SUFFICES ASSUME r.pc \in {"compact", "upsert", "reply"}
                 PROVE  /\ r.upto <= Len(messages')
                        /\ r.window \subseteq 1 .. r.upto
                        /\ Cardinality(r.window) > 1 => TokensOf(r.window)' <= WindowBudget
    BY DEF WindowInv
  <2>2. r.upto <= n /\ r.window \subseteq 1 .. r.upto
        /\ (Cardinality(r.window) > 1 => TokensOf(r.window) <= WindowBudget)
    BY <1>1, <2>1 DEF WindowInv
  <2>3. r.upto <= k BY <1>2, <1>3, <2>2
  <2>4. PICK S : S = r.window OBVIOUS
  <2>5. S \in SUBSET (1 .. Len(messages)) BY <1>1, <1>2, <1>3, <2>2, <2>4
  <2>6. TokensOf(S)' = TokensOf(S) BY <2>5, TokensKept
  <2>7. TokensOf(r.window)' = TokensOf(r.window) BY <2>4, <2>6
  <2> QED BY <1>1, <2>2, <2>3, <2>7
<1>5. CompactInv(r)'
  <2>1. r.pc = "recent" => r.existing.upto <= Len(messages')
    BY <1>1, <1>2, <1>3 DEF CompactInv
  <2> QED BY <2>1, Zenon DEF CompactInv
<1> QED BY <1>4, <1>5

\* A step of one turn preserves the invariant when what it makes of its own
\* locals and of the summary satisfies it.
LEMMA TurnSteps ==
  ASSUME MemoryTypeOK, MemoryInv, NEW t \in Turns, NEW r \in Turn, Becomes(t, r),
         \/ messages' = messages
         \/ \E size \in Sizes : messages' = Append(messages, size),
         Len(messages') <= MaxMessages,
         gap' \in BOOLEAN, gap => gap',
         summary' \in MemorySummary, summary'.upto <= Len(messages'),
         ~ gap' => summary'.covers = 1 .. summary'.upto,
         WindowInv(r)', CompactInv(r)'
  PROVE  MemoryTypeOK' /\ MemoryInv'
<1>1. messages' \in Seq(Sizes)
  <2>1. CASE messages' = messages BY <2>1 DEF MemoryTypeOK
  <2>2. ASSUME NEW size \in Sizes, messages' = Append(messages, size)
        PROVE  messages' \in Seq(Sizes)
    BY <2>2, Appended
  <2> QED BY <2>1, <2>2
<1>2. turn' \in [Turns -> Turn] BY TurnTyped
<1>3. MemoryTypeOK' BY <1>1, <1>2 DEF MemoryTypeOK
<1>4. \A u \in Turns : WindowInv(turn[u])' /\ CompactInv(turn[u])'
  <2> TAKE u \in Turns
  <2>1. PICK x : x = turn'[u] OBVIOUS
  <2>2. WindowInv(x)' /\ CompactInv(x)'
    <3>1. CASE u = t
      <4>1. x = r BY <2>1, <3>1 DEF Becomes, MemoryTypeOK
      <4> QED BY <4>1
    <3>2. CASE u # t
      <4>1. x = turn[u] BY <2>1, <3>2 DEF Becomes, MemoryTypeOK
      <4>2. x \in Turn BY <4>1 DEF MemoryTypeOK
      <4>3. WindowInv(x) /\ CompactInv(x) BY <4>1 DEF MemoryInv
      <4>4. gap \in BOOLEAN BY DEF MemoryTypeOK
      <4> QED BY <4>2, <4>3, <4>4, TurnKept
    <3> QED BY <3>1, <3>2
  <2> QED BY <2>1, <2>2
<1>5. MemoryInv' BY <1>4 DEF MemoryInv
<1> QED BY <1>3, <1>5

\* What the invariant says before the step of a turn.
LEMMA MemoryFacts ==
  ASSUME MemoryTypeOK, MemoryInv, NEW t \in Turns
  PROVE  /\ gap \in BOOLEAN /\ summary \in MemorySummary /\ turn[t] \in Turn
         /\ Len(messages) <= MaxMessages /\ summary.upto <= Len(messages)
         /\ ~ gap => summary.covers = 1 .. summary.upto
         /\ WindowInv(turn[t]) /\ CompactInv(turn[t])
BY DEF MemoryTypeOK, MemoryInv

\* A message is stored, or none.
LEMMA ThreadGrows ==
  ASSUME MemoryTypeOK, MemoryInv, UNCHANGED <<summary, gap>>,
         \/ messages' = messages
         \/ Len(messages) < MaxMessages
            /\ \E size \in Sizes : messages' = Append(messages, size)
  PROVE  Len(messages') <= MaxMessages /\ summary'.upto <= Len(messages')
<1>1. PICK n, k, u : n = Len(messages) /\ k = Len(messages') /\ u = summary.upto OBVIOUS
<1>2. n \in Nat /\ u \in Nat /\ MaxMessages \in Nat
  BY <1>1, MemoryAssumption DEF MemoryAssumption, MemoryTypeOK, MemorySummary
<1>3. u <= n /\ n <= MaxMessages BY <1>1 DEF MemoryInv
<1>4. CASE messages' = messages BY <1>1, <1>3, <1>4
<1>5. ASSUME NEW size \in Sizes, messages' = Append(messages, size), n < MaxMessages
      PROVE  k <= MaxMessages /\ u <= k
  <2>1. k = n + 1 BY <1>1, <1>5, Appended
  <2> QED BY <1>2, <1>3, <1>5, <2>1
<1> QED BY <1>1, <1>4, <1>5

LEMMA PersistMessageStep ==
  ASSUME MemoryTypeOK, MemoryInv, NEW t \in Turns, PersistMessage(t)
  PROVE  MemoryTypeOK' /\ MemoryInv'
<1>1. PICK r : r = [IdleTurn EXCEPT !.pc = "summary"] OBVIOUS
<1>2. r \in Turn /\ r.pc = "summary" BY <1>1, IdleTurnTyped DEF IdleTurn, Turn
<1>3. Becomes(t, r) BY <1>1 DEF PersistMessage
<1>4. WindowInv(r)' /\ CompactInv(r)' BY <1>2 DEF WindowInv, CompactInv
<1>5. /\ Len(messages) < MaxMessages
      /\ \E size \in Sizes : messages' = Append(messages, size)
      /\ summary' = summary /\ gap' = gap
  BY DEF PersistMessage
<1>6. Len(messages') <= MaxMessages /\ summary'.upto <= Len(messages')
  BY <1>5, ThreadGrows
<1> QED BY <1>2, <1>3, <1>4, <1>5, <1>6, MemoryFacts, TurnSteps

LEMMA ReplyStep ==
  ASSUME MemoryTypeOK, MemoryInv, NEW t \in Turns, Reply(t)
  PROVE  MemoryTypeOK' /\ MemoryInv'
<1>1. PICK r : r = IdleTurn OBVIOUS
<1>2. r \in Turn /\ r.pc = "idle" BY <1>1, IdleTurnTyped DEF IdleTurn
<1>3. Becomes(t, r) BY <1>1 DEF Reply
<1>4. WindowInv(r)' /\ CompactInv(r)' BY <1>2 DEF WindowInv, CompactInv
<1>5. /\ \/ messages' = messages
         \/ Len(messages) < MaxMessages
            /\ \E size \in Sizes : messages' = Append(messages, size)
      /\ summary' = summary /\ gap' = gap
  BY DEF Reply
<1>6. Len(messages') <= MaxMessages /\ summary'.upto <= Len(messages')
  BY <1>5, ThreadGrows
<1> QED BY <1>2, <1>3, <1>4, <1>5, <1>6, MemoryFacts, TurnSteps

LEMMA ReadSummaryStep ==
  ASSUME MemoryTypeOK, MemoryInv, NEW t \in Turns, ReadSummary(t)
  PROVE  MemoryTypeOK' /\ MemoryInv'
<1>1. PICK q : q = turn[t] OBVIOUS
<1>2. PICK r : r = [q EXCEPT !.pc = "recent", !.existing = summary] OBVIOUS
<1>3. q \in Turn /\ summary \in MemorySummary BY <1>1, MemoryFacts
<1>4. r \in Turn /\ r.pc = "recent" /\ r.existing = summary BY <1>2, <1>3 DEF Turn
<1>5. Becomes(t, r) BY <1>1, <1>2 DEF ReadSummary
<1>6. messages' = messages /\ summary' = summary /\ gap' = gap BY DEF ReadSummary
<1>7. WindowInv(r)' BY <1>4 DEF WindowInv
<1>8. CompactInv(r)' BY <1>4, <1>6, MemoryFacts, Zenon DEF CompactInv
<1> QED BY <1>4, <1>5, <1>6, <1>7, <1>8, MemoryFacts, TurnSteps

LEMMA SummarizeStep ==
  ASSUME MemoryTypeOK, MemoryInv, NEW t \in Turns, Summarize(t)
  PROVE  MemoryTypeOK' /\ MemoryInv'
<1>1. PICK q : q = turn[t] OBVIOUS
<1>2. PICK c : c = q.covers \cup q.compact OBVIOUS
<1>3. PICK r : r = [q EXCEPT !.pc = "upsert", !.covers = c] OBVIOUS
<1>4. q \in Turn /\ q.pc = "compact" /\ WindowInv(q) /\ CompactInv(q)
  BY <1>1, MemoryFacts DEF Summarize
<1>5. c \in SUBSET Seqs BY <1>2, <1>4 DEF Turn
<1>6. /\ r \in Turn /\ r.pc = "upsert" /\ r.covers = c /\ r.compact = q.compact
      /\ r.window = q.window /\ r.upto = q.upto
  BY <1>3, <1>4, <1>5 DEF Turn
<1>7. Becomes(t, r)
  <2>1. turn' = [turn EXCEPT ![t] = [q EXCEPT !.pc = "upsert", !.covers = q.covers \cup q.compact]]
    BY <1>1 DEF Summarize, Becomes
  <2> QED BY <1>2, <1>3, <2>1 DEF Becomes
<1>8. messages' = messages /\ summary' = summary /\ gap' = gap BY DEF Summarize
<1>9. WindowInv(r)
  BY <1>4, <1>6, Zenon DEF WindowInv
<1>10. CompactInv(r)
  <2>1. r.compact # {} /\ r.compact \subseteq 1 .. r.upto BY <1>4, <1>6 DEF CompactInv
  <2>2. ~ gap => c = 1 .. Max(r.compact) /\ c \cup r.window = 1 .. r.upto
    BY <1>2, <1>4, <1>6, Zenon DEF CompactInv
  <2> QED BY <1>6, <2>1, <2>2 DEF CompactInv
<1>11. WindowInv(r)' /\ CompactInv(r)'
  BY <1>6, <1>8, <1>9, <1>10, MemoryFacts, TurnKept
<1> QED BY <1>6, <1>7, <1>8, <1>11, MemoryFacts, TurnSteps

LEMMA SummarizeFailsStep ==
  ASSUME MemoryTypeOK, MemoryInv, NEW t \in Turns, SummarizeFails(t)
  PROVE  MemoryTypeOK' /\ MemoryInv'
<1>1. PICK q : q = turn[t] OBVIOUS
<1>2. PICK r : r = [q EXCEPT !.pc = "reply", !.failed = TRUE] OBVIOUS
<1>3. q \in Turn /\ q.pc = "compact" /\ WindowInv(q)
  BY <1>1, MemoryFacts DEF SummarizeFails
<1>4. r \in Turn /\ r.pc = "reply" /\ r.window = q.window /\ r.upto = q.upto
  BY <1>2, <1>3 DEF Turn
<1>5. r.failed BY <1>2, <1>3 DEF Turn
<1>6. Becomes(t, r) BY <1>1, <1>2 DEF SummarizeFails
<1>7. messages' = messages /\ summary' = summary /\ gap' = gap BY DEF SummarizeFails
<1>8. WindowInv(r) BY <1>3, <1>4, Zenon DEF WindowInv
<1>9. CompactInv(r) BY <1>4, <1>5 DEF CompactInv
<1>10. WindowInv(r)' /\ CompactInv(r)' BY <1>4, <1>7, <1>8, <1>9, MemoryFacts, TurnKept
<1> QED BY <1>4, <1>6, <1>7, <1>10, MemoryFacts, TurnSteps

\* The turn that has its summary: its window is what the summary leaves out.
LEMMA Summarized ==
  ASSUME MemoryTypeOK, MemoryInv, NEW t \in Turns, turn[t].pc = "upsert",
         NEW r, r = [turn[t] EXCEPT !.pc = "reply"]
  PROVE  r \in Turn /\ WindowInv(r) /\ CompactInv(r)
<1>1. PICK q : q = turn[t] OBVIOUS
<1>2. q \in Turn /\ q.pc = "upsert" /\ WindowInv(q) /\ CompactInv(q) BY <1>1, MemoryFacts
<1>3. /\ r \in Turn /\ r.pc = "reply" /\ r.window = q.window /\ r.upto = q.upto
      /\ r.covers = q.covers
  BY <1>1, <1>2 DEF Turn
<1>4. WindowInv(r) BY <1>2, <1>3, Zenon DEF WindowInv
<1>5. ~ gap => r.covers \cup r.window = 1 .. r.upto BY <1>2, <1>3 DEF CompactInv
<1>6. CompactInv(r) BY <1>3, <1>5 DEF CompactInv
<1> QED BY <1>3, <1>4, <1>6

LEMMA UpsertFailsStep ==
  ASSUME MemoryTypeOK, MemoryInv, NEW t \in Turns, UpsertFails(t)
  PROVE  MemoryTypeOK' /\ MemoryInv'
<1>1. PICK r : r = [turn[t] EXCEPT !.pc = "reply"] OBVIOUS
<1>2. r \in Turn /\ WindowInv(r) /\ CompactInv(r) BY <1>1, Summarized DEF UpsertFails
<1>3. Becomes(t, r) BY <1>1 DEF UpsertFails
<1>4. messages' = messages /\ summary' = summary /\ gap' = gap BY DEF UpsertFails
<1>5. WindowInv(r)' /\ CompactInv(r)' BY <1>2, <1>4, MemoryFacts, TurnKept
<1> QED BY <1>2, <1>3, <1>4, <1>5, MemoryFacts, TurnSteps

LEMMA UpsertStep ==
  ASSUME MemoryTypeOK, MemoryInv, NEW t \in Turns, Upsert(t)
  PROVE  MemoryTypeOK' /\ MemoryInv'
<1>1. PICK r : r = [turn[t] EXCEPT !.pc = "reply"] OBVIOUS
<1>2. r \in Turn /\ WindowInv(r) /\ CompactInv(r) BY <1>1, Summarized DEF Upsert
<1>3. Becomes(t, r) BY <1>1 DEF Upsert
<1>4. messages' = messages /\ gap' = gap BY DEF Upsert
<1>5. WindowInv(r)' /\ CompactInv(r)' BY <1>2, <1>4, MemoryFacts, TurnKept
<1>6. PICK q : q = turn[t] OBVIOUS
<1>7. q \in Turn /\ q.pc = "upsert" /\ WindowInv(q) /\ CompactInv(q)
  BY <1>6, MemoryFacts DEF Upsert
<1>8. summary' = [upto |-> Max(q.compact), covers |-> q.covers] BY <1>6 DEF Upsert
<1>9. PICK n : n = Len(messages) OBVIOUS
<1>10. /\ q.upto \in Nat /\ q.upto <= n /\ n \in Nat /\ n <= MaxMessages
       /\ MaxMessages \in Nat
  BY <1>7, <1>9, MemoryAssumption, MemoryFacts, SizesOfMessages
  DEF MemoryAssumption, WindowInv, Turn
<1>11. Max(q.compact) \in q.compact
  <2>1. q.compact # {} /\ q.compact \in SUBSET (1 .. q.upto) BY <1>7 DEF CompactInv
  <2>2. IsFiniteSet(q.compact) /\ q.compact \in SUBSET Nat BY <1>10, <2>1, SeqsFinite
  <2> QED BY <2>1, <2>2, GreatestNumber
<1>12. Max(q.compact) \in 1 .. q.upto BY <1>7, <1>11 DEF CompactInv
<1>13. Max(q.compact) \in 0 .. MaxMessages /\ Max(q.compact) <= n BY <1>10, <1>12
<1>14. summary' \in MemorySummary BY <1>7, <1>8, <1>13 DEF MemorySummary, Turn
<1>15. summary'.upto <= Len(messages') BY <1>4, <1>8, <1>9, <1>13
<1>16. ~ gap' => summary'.covers = 1 .. summary'.upto
  BY <1>4, <1>7, <1>8 DEF CompactInv
<1> QED BY <1>2, <1>3, <1>4, <1>5, <1>14, <1>15, <1>16, MemoryFacts, TurnSteps

\* What a turn reads of a thread of n messages whose summary it knows up to u,
\* when the newest fetched message it does not know of is f: the candidates,
\* what fits the window and what is left to compact.
LEMMA CandidatesKept ==
  ASSUME MemoryTypeOK, NEW u \in Nat, u <= Len(messages), FetchLimit \in Nat,
         NEW C, C = {s \in Recent : s > u}
  PROVE  /\ C \in SUBSET (1 .. Len(messages))
         /\ Len(messages) - FetchLimit <= u => C = (u + 1) .. Len(messages)
<1>1. PICK n : n = Len(messages) OBVIOUS
<1>2. n \in Nat BY <1>1, SizesOfMessages
<1>3. DOMAIN messages = 1 .. n BY <1>1 DEF MemoryTypeOK
<1>4. C = {s \in 1 .. n : s > n - FetchLimit /\ s > u} BY <1>1, <1>3 DEF Recent
<1>5. ASSUME n - FetchLimit <= u PROVE C = (u + 1) .. n BY <1>2, <1>4, <1>5
<1> QED BY <1>1, <1>4, <1>5

\* The split of the candidates: the window is within the budget or one message,
\* and what is left to compact ends where the window begins.
LEMMA SplitByBudget ==
  ASSUME MemoryTypeOK, NEW C \in SUBSET (1 .. Len(messages)), C # {},
         NEW W, W = Window(C)
  PROVE  /\ W \in SUBSET C
         /\ Cardinality(W) > 1 => TokensOf(W) <= WindowBudget
         /\ \A u \in Nat : C = (u + 1) .. Len(messages) /\ C \ W # {} =>
              C \ W = (u + 1) .. Max(C \ W)
<1>1. PICK m \in C : /\ W = {v \in C : v >= m}
                     /\ \A v \in C : v <= Max(C)
                     /\ Max(C) \in C
                     /\ m # Max(C) => TokensOf(W) <= WindowBudget
  BY WindowIsSuffix
<1>2. PICK n, h : n = Len(messages) /\ h = Max(C) OBVIOUS
<1>3. n \in Nat BY <1>2, SizesOfMessages
<1>4. C \in SUBSET Nat /\ m \in Nat /\ h \in Nat
  <2>1. C \in SUBSET Nat BY <1>2, <1>3, SeqsFinite
  <2>2. h \in C BY <1>1, <1>2
  <2> QED BY <2>1, <2>2
<1>5. ASSUME Cardinality(W) > 1 PROVE m # Max(C)
  <2>1. SUFFICES ASSUME m = h PROVE FALSE BY <1>2
  <2>2. \A v \in C : v <= h BY <1>1, <1>2
  <2>3. \A v \in C : v \in Nat BY <1>4
  <2>4. \A v \in C : v >= m <=> v = m BY <1>4, <2>1, <2>2, <2>3
  <2>5. W = {m} BY <1>1, <2>4
  <2>6. Cardinality(W) = 1 BY <2>5, FS_Singleton
  <2> QED BY <1>5, <2>6
<1>6. ASSUME NEW u \in Nat, C = (u + 1) .. n, C \ W # {}
      PROVE  C \ W = (u + 1) .. Max(C \ W)
  <2>1. C \ W = (u + 1) .. (m - 1)
    <3>1. C \ W = {v \in C : ~ (v >= m)} BY <1>1
    <3>2. m \in (u + 1) .. n BY <1>6
    <3> QED BY <1>3, <1>4, <1>6, <3>1, <3>2
  <2>2. PICK K, g : K = C \ W /\ g = Max(C \ W) OBVIOUS
  <2>3. K \in SUBSET (1 .. n) /\ K # {} BY <1>2, <1>6, <2>2
  <2>4. IsFiniteSet(K) /\ K \in SUBSET Nat BY <1>3, <2>3, SeqsFinite
  <2>5. g \in K /\ \A v \in K : v <= g BY <2>2, <2>3, <2>4, GreatestNumber
  <2>6. m - 1 \in K BY <1>4, <2>1, <2>2, <2>3
  <2>7. g = m - 1
    <3>1. g \in (u + 1) .. (m - 1) BY <2>1, <2>2, <2>5
    <3>2. m - 1 <= g BY <2>5, <2>6
    <3> QED BY <1>4, <3>1, <3>2
  <2> QED BY <2>1, <2>2, <2>7
<1>7. W \in SUBSET C BY <1>1
<1> QED BY <1>1, <1>2, <1>5, <1>6, <1>7

LEMMA ReadRecentStep ==
  ASSUME MemoryTypeOK, MemoryInv, NEW t \in Turns, ReadRecent(t)
  PROVE  MemoryTypeOK' /\ MemoryInv'
<1>1. PICK q, n : q = turn[t] /\ n = Len(messages) OBVIOUS
<1>2. PICK u, e : u = q.existing.upto /\ e = q.existing.covers OBVIOUS
<1>3. PICK C : C = {s \in Recent : s > u} OBVIOUS
<1>4. PICK W : W = IF C = {} THEN {} ELSE Window(C) OBVIOUS
<1>5. PICK K : K = C \ W OBVIOUS
<1>6. PICK r : r = [q EXCEPT !.pc = IF K = {} THEN "reply" ELSE "compact",
                             !.window = W, !.compact = K, !.upto = n, !.covers = e]
  OBVIOUS
<1>7. Becomes(t, r) /\ gap' = (gap \/ n - FetchLimit > u)
  <2>1. PICK L : L = {s \in Recent : s > turn[t].existing.upto} OBVIOUS
  <2>2. L = C BY <1>1, <1>2, <1>3, <2>1
  <2>3. LET window == IF L = {} THEN {} ELSE Window(L)
            compact == L \ window
        IN  /\ Becomes(t, [turn[t] EXCEPT
                 !.pc = IF compact = {} THEN "reply" ELSE "compact",
                 !.window = window, !.compact = compact,
                 !.upto = Len(messages), !.covers = turn[t].existing.covers])
            /\ gap' = (gap \/ Len(messages) - FetchLimit > turn[t].existing.upto)
    BY <2>1, Zenon DEF ReadRecent
  <2>4. LET compact == C \ W
        IN  /\ Becomes(t, [turn[t] EXCEPT
                 !.pc = IF compact = {} THEN "reply" ELSE "compact",
                 !.window = W, !.compact = compact,
                 !.upto = Len(messages), !.covers = turn[t].existing.covers])
            /\ gap' = (gap \/ Len(messages) - FetchLimit > turn[t].existing.upto)
    BY <1>4, <2>2, <2>3, Zenon
  <2> QED BY <1>1, <1>2, <1>5, <1>6, <2>4, Zenon
<1>8. messages' = messages /\ summary' = summary BY DEF ReadRecent
<1>9. /\ q \in Turn /\ q.pc = "recent" /\ CompactInv(q) /\ gap \in BOOLEAN
      /\ u \in Nat /\ e \in SUBSET Seqs
  BY <1>1, <1>2, MemoryFacts DEF ReadRecent, Turn, MemorySummary
<1>10. u <= n /\ (~ gap => e = 1 .. u) BY <1>1, <1>2, <1>9 DEF CompactInv
<1>11. /\ n \in Nat /\ n <= MaxMessages /\ MaxMessages \in Nat
       /\ FetchLimit \in Nat
  BY <1>1, MemoryFacts, SizesOfMessages, MemoryAssumption DEF MemoryAssumption
<1>12. /\ C \in SUBSET (1 .. n)
       /\ n - FetchLimit <= u => C = (u + 1) .. n
  BY <1>1, <1>3, <1>9, <1>10, <1>11, CandidatesKept
<1>13. /\ W \in SUBSET C
       /\ Cardinality(W) > 1 => TokensOf(W) <= WindowBudget
       /\ C = (u + 1) .. n /\ K # {} => K = (u + 1) .. Max(K)
  <2>1. CASE C = {}
    <3>1. W = {} /\ K = {} BY <1>4, <1>5, <2>1
    <3>2. Cardinality(W) = 0 BY <3>1, FS_EmptySet
    <3> QED BY <3>1, <3>2
  <2>2. CASE C # {}
    <3>1. W = Window(C) BY <1>4, <2>2
    <3>2. C \in SUBSET (1 .. Len(messages)) BY <1>1, <1>12
    <3>3. /\ W \in SUBSET C
          /\ Cardinality(W) > 1 => TokensOf(W) <= WindowBudget
          /\ \A v \in Nat : C = (v + 1) .. Len(messages) /\ C \ W # {} =>
               C \ W = (v + 1) .. Max(C \ W)
      <4>1. W \in SUBSET C BY <2>2, <3>1, <3>2, SplitByBudget
      <4>2. Cardinality(W) > 1 => TokensOf(W) <= WindowBudget
        BY <2>2, <3>1, <3>2, SplitByBudget
      <4>3. \A v \in Nat : C = (v + 1) .. Len(messages) /\ C \ W # {} =>
               C \ W = (v + 1) .. Max(C \ W)
        BY <2>2, <3>1, <3>2, SplitByBudget
      <4> QED BY <4>1, <4>2, <4>3
    <3> QED BY <1>1, <1>5, <1>9, <3>3, Zenon
  <2> QED BY <2>1, <2>2
<1>14. C \in SUBSET Seqs /\ K \in SUBSET C /\ C = K \cup W
  <2>1. 1 .. n \in SUBSET Seqs BY <1>11 DEF Seqs
  <2> QED BY <1>5, <1>12, <1>13, <2>1, Zenon
<1>15. r \in Turn
  <2>1. n \in 0 .. MaxMessages /\ W \in SUBSET Seqs /\ K \in SUBSET Seqs
    BY <1>11, <1>13, <1>14
  <2> QED BY <1>6, <1>9, <2>1 DEF Turn
<1>16. /\ r.pc = (IF K = {} THEN "reply" ELSE "compact")
       /\ r.window = W /\ r.compact = K /\ r.upto = n /\ r.covers = e
  BY <1>6, <1>9 DEF Turn
<1>17. n = Len(messages') BY <1>1, <1>8
<1>18. WindowInv(r)'
  <2>1. TokensOf(W)' = TokensOf(W)
    BY <1>1, <1>8, <1>12, <1>13, TokensKept
  <2> QED BY <1>11, <1>12, <1>13, <1>16, <1>17, <2>1 DEF WindowInv
<1>19. CompactInv(r)'
  <2>1. K # {} => r.compact # {} /\ r.compact \subseteq 1 .. r.upto
    BY <1>12, <1>14, <1>16
  <2>2. ASSUME ~ gap'
        PROVE  /\ e \cup K \cup W = 1 .. n
               /\ K # {} => e \cup K = 1 .. Max(K)
    <3>1. ~ gap /\ ~ (n - FetchLimit > u) BY <1>7, <1>9, <2>2
    <3>2. n - FetchLimit <= u BY <1>9, <1>11, <3>1
    <3>3. e = 1 .. u /\ C = (u + 1) .. n BY <1>10, <1>12, <3>1, <3>2
    <3>4. e \cup C = 1 .. n BY <1>9, <1>10, <1>11, <3>3
    <3>5. ASSUME K # {} PROVE e \cup K = 1 .. Max(K)
      <4>1. PICK g : g = Max(K) OBVIOUS
      <4>2. K = (u + 1) .. g BY <1>13, <3>3, <3>5, <4>1
      <4>3. PICK v \in K : TRUE BY <3>5
      <4>4. v \in (u + 1) .. n /\ v \in (u + 1) .. g BY <1>14, <3>3, <4>2
      <4>5. IsFiniteSet(K) /\ K \in SUBSET Nat BY <1>11, <1>12, <1>14, SeqsFinite
      <4>6. g \in Nat BY <3>5, <4>1, <4>5, GreatestNumber
      <4>7. u + 1 <= g BY <1>9, <4>4, <4>6
      <4>8. (1 .. u) \cup ((u + 1) .. g) = 1 .. g BY <1>9, <4>6, <4>7
      <4> QED BY <3>3, <4>1, <4>2, <4>8, Zenon
    <3> QED BY <1>14, <3>4, <3>5
  <2>3. ~ gap' /\ K = {} => r.covers \cup r.window = 1 .. r.upto BY <1>16, <2>2
  <2>4. ~ gap' /\ K # {} => /\ r.covers \cup r.compact = 1 .. Max(r.compact)
                            /\ r.covers \cup r.compact \cup r.window = 1 .. r.upto
    BY <1>16, <2>2
  <2> QED BY <1>16, <2>1, <2>3, <2>4 DEF CompactInv
<1>20. gap' \in BOOLEAN /\ (gap => gap') BY <1>7, <1>9
<1>21. /\ summary' \in MemorySummary /\ summary'.upto <= Len(messages')
       /\ ~ gap' => summary'.covers = 1 .. summary'.upto
       /\ Len(messages') <= MaxMessages
  BY <1>1, <1>8, <1>11, <1>20, MemoryFacts
<1> QED BY <1>7, <1>8, <1>15, <1>18, <1>19, <1>20, <1>21, TurnSteps

-----------------------------------------------------------------------------
(* Memory: the theorems.                                                   *)

LEMMA MemoryInvInit == MemoryInit => MemoryInv
<1> SUFFICES ASSUME MemoryInit PROVE MemoryInv OBVIOUS
<1>1. Len(messages) = 0 /\ gap = FALSE BY DEF MemoryInit
<1>2. summary.upto = 0 /\ summary.covers = {} BY DEF MemoryInit, NoSummary
<1>3. \A t \in Turns : turn[t].pc = "idle" BY DEF MemoryInit, IdleTurn
<1>4. \A t \in Turns : WindowInv(turn[t]) /\ CompactInv(turn[t])
  BY <1>3 DEF WindowInv, CompactInv
<1>5. MaxMessages \in Nat BY MemoryAssumption DEF MemoryAssumption
<1> QED BY <1>1, <1>2, <1>4, <1>5 DEF MemoryInv

LEMMA MemoryStutters ==
  ASSUME MemoryTypeOK, MemoryInv, UNCHANGED memoryVars
  PROVE  MemoryTypeOK' /\ MemoryInv'
BY DEF MemoryTypeOK, MemoryInv, WindowInv, CompactInv, TokensOf, memoryVars

\* The summary and the window of every turn keep the shape that the splits,
\* the compactions and the upserts of the overlapping turns rely on.
LEMMA MemoryInvariant == MemorySpec => [](MemoryTypeOK /\ MemoryInv)
<1>1. MemoryInit => MemoryTypeOK /\ MemoryInv BY MemoryTypeInit, MemoryInvInit
<1>2. MemoryTypeOK /\ MemoryInv /\ [MemoryNext]_memoryVars
      => (MemoryTypeOK /\ MemoryInv)'
  <2> SUFFICES ASSUME MemoryTypeOK, MemoryInv, [MemoryNext]_memoryVars
               PROVE  MemoryTypeOK' /\ MemoryInv'
    OBVIOUS
  <2>1. CASE UNCHANGED memoryVars BY <2>1, MemoryStutters
  <2>2. ASSUME NEW t \in Turns,
               \/ PersistMessage(t) \/ ReadSummary(t) \/ ReadRecent(t) \/ Summarize(t)
               \/ SummarizeFails(t) \/ Upsert(t) \/ UpsertFails(t) \/ Reply(t)
        PROVE  MemoryTypeOK' /\ MemoryInv'
    BY <2>2, PersistMessageStep, ReadSummaryStep, ReadRecentStep, SummarizeStep,
       SummarizeFailsStep, UpsertStep, UpsertFailsStep, ReplyStep
  <2> QED BY <2>1, <2>2 DEF MemoryNext
<1> QED BY <1>1, <1>2, PTL DEF MemorySpec

\* Nothing said in a thread is forgotten: the stored summary covers exactly the
\* messages up to its upto_seq, and a turn sees every message there was, however
\* many turns overlap and whichever compactions and upserts fail, as long as no
\* backlog outgrows the fetch limit.
THEOREM MemoryStaysWhole == MemorySpec => []MemoryWhole
<1>1. MemoryTypeOK /\ MemoryInv => MemoryWhole
  <2> SUFFICES ASSUME MemoryTypeOK, MemoryInv PROVE MemoryWhole OBVIOUS
  <2>1. ~ gap => summary.covers = 1 .. summary.upto BY DEF MemoryInv
  <2>2. ASSUME NEW t \in Turns, turn[t].pc = "reply"
        PROVE  /\ ~ gap /\ ~ turn[t].failed =>
                    turn[t].covers \cup turn[t].window = 1 .. turn[t].upto
               /\ Cardinality(turn[t].window) > 1 =>
                    TokensOf(turn[t].window) <= WindowBudget
    <3>1. WindowInv(turn[t]) /\ CompactInv(turn[t]) BY DEF MemoryInv
    <3> QED BY <2>2, <3>1, Zenon DEF WindowInv, CompactInv
  <2> QED BY <2>1, <2>2 DEF MemoryWhole
<1> QED BY <1>1, MemoryInvariant, PTL

-----------------------------------------------------------------------------
(* Listings: sorted rows.                                                  *)

TotalOrder(R, S) ==
  /\ \A x \in S : <<x, x>> \notin R
  /\ \A x, y \in S : x # y => <<x, y>> \in R \/ <<y, x>> \in R
  /\ \A x, y, z \in S : <<x, y>> \in R /\ <<y, z>> \in R => <<x, z>> \in R

Ordered(q, R) == \A i, k \in DOMAIN q : i < k => <<q[i], q[k]>> \in R

LEMMA LastInOrder ==
  ASSUME NEW S, IsFiniteSet(S), S # {}, NEW R, TotalOrder(R, S)
  PROVE  \E x \in S : \A y \in S \ {x} : <<y, x>> \in R
<1> DEFINE LastOf(s) == {x \in s : \A y \in s \ {x} : <<y, x>> \in R}
           P == {s \in SUBSET S : s # {} /\ LastOf(s) = {}}
<1>1. ASSUME P # {} PROVE FALSE
  <2>1. P \in SUBSET (SUBSET S) OBVIOUS
  <2>2. PICK s \in P : \A x \in s : s \ {x} \notin P
    <3> HIDE DEF P
    <3> QED BY <1>1, <2>1, MinimalSet
  <2>3. s \in SUBSET S /\ s # {} /\ LastOf(s) = {} OBVIOUS
  <2>4. PICK x \in s : TRUE BY <2>3
  <2>5. s \ {x} = {} \/ LastOf(s \ {x}) # {} BY <2>2, <2>3, <2>4
  <2>6. CASE s \ {x} = {}
    <3>1. x \in LastOf(s) BY <2>4, <2>6
    <3> QED BY <2>3, <3>1
  <2>7. CASE LastOf(s \ {x}) # {}
    <3>1. PICK y \in s \ {x} : \A z \in (s \ {x}) \ {y} : <<z, y>> \in R BY <2>7
    <3>2. x \in S /\ y \in S /\ x # y /\ s \subseteq S BY <2>3, <2>4, <3>1
    <3>3. CASE <<x, y>> \in R
      <4>1. y \in LastOf(s) BY <3>1, <3>3
      <4> QED BY <2>3, <4>1
    <3>4. CASE <<y, x>> \in R
      <4>1. \A z \in s \ {x} : <<z, x>> \in R
        BY <3>1, <3>2, <3>4, Zenon DEF TotalOrder
      <4>2. x \in LastOf(s) BY <2>4, <4>1
      <4> QED BY <2>3, <4>2
    <3> QED BY <3>2, <3>3, <3>4 DEF TotalOrder
  <2> QED BY <2>5, <2>6, <2>7
<1>2. LastOf(S) # {} BY <1>1
<1> QED BY <1>2

LEMMA SortedExists ==
  ASSUME NEW S, IsFiniteSet(S), NEW R, TotalOrder(R, S)
  PROVE  \E q \in [1 .. Cardinality(S) -> S] : Ordered(q, R)
<1> DEFINE P == {s \in SUBSET S : ~ \E q \in [1 .. Cardinality(s) -> s] : Ordered(q, R)}
<1>1. SUFFICES ASSUME P # {} PROVE FALSE OBVIOUS
<1>2. PICK s \in P : \A x \in s : s \ {x} \notin P
  <2>1. P \in SUBSET (SUBSET S) OBVIOUS
  <2> HIDE DEF P
  <2> QED BY <1>1, <2>1, MinimalSet
<1>3. s \in SUBSET S /\ ~ \E q \in [1 .. Cardinality(s) -> s] : Ordered(q, R) OBVIOUS
<1>4. s # {}
  <2>1. SUFFICES ASSUME s = {} PROVE FALSE OBVIOUS
  <2>2. 1 .. Cardinality(s) = {} BY <2>1, FS_EmptySet
  <2>3. PICK q : q = [i \in {} |-> 0] OBVIOUS
  <2>4. q \in [1 .. Cardinality(s) -> s] /\ Ordered(q, R) BY <2>2, <2>3 DEF Ordered
  <2> QED BY <1>3, <2>4
<1>5. IsFiniteSet(s) /\ TotalOrder(R, s) BY <1>3, FS_Subset DEF TotalOrder
<1>6. PICK x \in s : \A y \in s \ {x} : <<y, x>> \in R BY <1>4, <1>5, LastInOrder
<1>7. PICK r, n : r = s \ {x} /\ n = Cardinality(s) OBVIOUS
<1>8. Cardinality(r) = n - 1 /\ n \in Nat /\ n > 0
  BY <1>4, <1>5, <1>6, <1>7, FS_RemoveElement, FS_CardinalityType, FS_EmptySet
<1>9. PICK q \in [1 .. Cardinality(r) -> r] : Ordered(q, R) BY <1>2, <1>3, <1>7
<1>10. PICK f : f = [i \in 1 .. n |-> IF i = n THEN x ELSE q[i]] OBVIOUS
<1>11. \A i \in 1 .. n : i = n \/ i \in 1 .. (n - 1) BY <1>8
<1>12. f \in [1 .. n -> s] BY <1>7, <1>8, <1>9, <1>10, <1>11
<1>13. Ordered(f, R)
  <2>1. SUFFICES ASSUME NEW i \in 1 .. n, NEW k \in 1 .. n, i < k
                 PROVE  <<f[i], f[k]>> \in R
    BY <1>10 DEF Ordered
  <2>2. i \in 1 .. (n - 1) /\ i # n /\ f[i] = q[i] BY <1>8, <1>10, <2>1
  <2>3. CASE k = n
    <3>1. q[i] \in s \ {x} BY <1>7, <1>8, <1>9, <2>2
    <3> QED BY <1>6, <1>10, <2>2, <2>3, <3>1
  <2>4. CASE k # n
    <3>1. k \in 1 .. (n - 1) /\ f[k] = q[k] BY <1>8, <1>10, <2>1, <2>4
    <3> QED BY <1>8, <1>9, <2>1, <2>2, <3>1 DEF Ordered
  <2> QED BY <2>3, <2>4
<1> QED BY <1>3, <1>7, <1>12, <1>13

\* created_at DESC, id DESC: a total order of the threads.
LEMMA NewerOrders ==
  ASSUME ListingsTypeOK, NEW R, R = {p \in Threads \X Threads : Newer(p[1], p[2])}
  PROVE  /\ TotalOrder(R, Threads)
         /\ \A t, u \in Threads : <<t, u>> \in R <=> Newer(t, u)
<1>1. PICK at : at = [t \in Threads |-> thread[t].createdAt] OBVIOUS
<1>2. \A t \in Threads : t \in Nat /\ at[t] = thread[t].createdAt /\ at[t] \in Nat
  BY <1>1, ListingsAssumption DEF ListingsAssumption, ListingsTypeOK, Thread
<1>3. \A t, u \in Threads : <<t, u>> \in R <=> Newer(t, u) OBVIOUS
<1>4. \A t, u \in Threads : Newer(t, u) <=> at[t] > at[u] \/ (at[t] = at[u] /\ t > u)
  BY <1>2 DEF Newer
<1>5. \A x \in Threads : <<x, x>> \notin R BY <1>2, <1>3, <1>4
<1>6. \A x, y \in Threads : x # y => <<x, y>> \in R \/ <<y, x>> \in R
  BY <1>2, <1>3, <1>4
<1>7. \A x, y, z \in Threads : <<x, y>> \in R /\ <<y, z>> \in R => <<x, z>> \in R
  <2> TAKE x \in Threads, y \in Threads, z \in Threads
  <2>1. PICK a, b, c : a = at[x] /\ b = at[y] /\ c = at[z] OBVIOUS
  <2>2. a \in Nat /\ b \in Nat /\ c \in Nat /\ x \in Nat /\ y \in Nat /\ z \in Nat
    BY <1>2, <2>1
  <2> QED BY <1>3, <1>4, <2>1, <2>2
<1> QED BY <1>3, <1>5, <1>6, <1>7 DEF TotalOrder

\* The n threads of S, newest first.
Sorted(q, n, S) ==
  /\ q \in [1 .. n -> S]
  /\ \A i, k \in 1 .. n : i < k => Newer(q[i], q[k])
  /\ \A t \in S : \E i \in 1 .. n : t = q[i]

LEMMA NewestFirstSorts ==
  ASSUME ListingsTypeOK, NEW S \in SUBSET Threads, NEW q, q = NewestFirst(S)
  PROVE  \E n \in Nat : Sorted(q, n, S)
<1>1. PICK R : R = {p \in Threads \X Threads : Newer(p[1], p[2])} OBVIOUS
<1>2. TotalOrder(R, Threads) /\ \A t, u \in Threads : <<t, u>> \in R <=> Newer(t, u)
  BY <1>1, NewerOrders
<1>3. IsFiniteSet(S) BY ListingsAssumption, FS_Subset DEF ListingsAssumption
<1>4. TotalOrder(R, S) BY <1>2 DEF TotalOrder
<1>5. PICK n : n = Cardinality(S) OBVIOUS
<1>6. n \in Nat BY <1>3, <1>5, FS_CardinalityType
<1>7. PICK f \in [1 .. n -> S] : Ordered(f, R) BY <1>3, <1>4, <1>5, SortedExists
<1>8. \A i, k \in DOMAIN f : i < k => Newer(f[i], f[k]) BY <1>2, <1>7 DEF Ordered
<1>9. q \in [1 .. n -> S] /\ \A i, k \in DOMAIN q : i < k => Newer(q[i], q[k])
  BY <1>5, <1>7, <1>8, Zenon DEF NewestFirst
<1>10. \A i, k \in 1 .. n : i # k => q[i] # q[k]
  <2> TAKE i \in 1 .. n, k \in 1 .. n
  <2>1. HAVE i # k
  <2>2. q[i] \in Threads /\ q[k] \in Threads BY <1>9
  <2>3. Newer(q[i], q[k]) \/ Newer(q[k], q[i])
    <3>1. i < k \/ k < i BY <1>6, <2>1
    <3> QED BY <1>9, <3>1
  <2>4. <<q[i], q[k]>> \in R \/ <<q[k], q[i]>> \in R BY <1>2, <2>2, <2>3
  <2> QED BY <1>2, <2>2, <2>4 DEF TotalOrder
<1>11. \A t \in S : \E i \in 1 .. n : t = q[i]
  <2>1. q \in Injection(1 .. n, S) BY <1>9, <1>10 DEF Injection, IsInjective
  <2>2. Cardinality(1 .. n) = n BY <1>6, FS_Interval
  <2>3. q \in Surjection(1 .. n, S) BY <1>3, <1>5, <2>1, <2>2, FS_Injection
  <2> QED BY <2>3 DEF Surjection
<1>12. \A i, k \in 1 .. n : i < k => Newer(q[i], q[k]) BY <1>9
<1> QED BY <1>6, <1>9, <1>11, <1>12 DEF Sorted

-----------------------------------------------------------------------------
(* Listings: a page of threads.                                            *)

\* The first m elements of s, which are in T.
FirstOf(z, s, m, T) ==
  z \in Seq(T) /\ Len(z) = m /\ \A i \in 1 .. m : z[i] = s[i]

LEMMA FirstRows ==
  ASSUME NEW T, NEW s, NEW m \in Nat, \A i \in 1 .. m : s[i] \in T,
         NEW z, z = SubSeq(s, 1, m)
  PROVE  FirstOf(z, s, m, T)
<1>1. PICK k : k = 1 /\ z = SubSeq(s, k, m) OBVIOUS
<1>2. k \in Int /\ m \in Int BY <1>1
<1>3. \A i \in k .. m : s[i] \in T BY <1>1
<1>4. /\ z \in Seq(T)
      /\ Len(z) = (IF k <= m THEN m - k + 1 ELSE 0)
      /\ \A i \in 1 .. m - k + 1 : z[i] = s[k + i - 1]
  <2>1. z \in Seq(T) BY <1>1, <1>2, <1>3, SubSeqProperties
  <2>2. Len(z) = (IF k <= m THEN m - k + 1 ELSE 0)
    BY <1>1, <1>2, <1>3, SubSeqProperties
  <2>3. \A i \in 1 .. m - k + 1 : z[i] = s[k + i - 1]
    BY <1>1, <1>2, <1>3, SubSeqProperties
  <2> QED BY <2>1, <2>2, <2>3
<1>5. Len(z) = m BY <1>1, <1>4
<1>6. \A i \in 1 .. m : z[i] = s[i]
  <2> TAKE i \in 1 .. m
  <2>1. i \in 1 .. m - k + 1 /\ k + i - 1 = i BY <1>1
  <2> QED BY <1>4, <2>1
<1> QED BY <1>4, <1>5, <1>6 DEF FirstOf

\* What PageLimit rows and a look at one more make of n sorted rows.
LEMMA PageOfRows ==
  ASSUME NEW n \in Nat, NEW T, NEW q \in [1 .. n -> T],
         NEW rows, rows = SubSeq(q, 1, IF Len(q) < PageLimit + 1 THEN Len(q) ELSE PageLimit + 1),
         NEW p, p = Page(rows), NEW l, l = Len(p)
  PROVE  /\ FirstOf(p, q, l, T)
         /\ l = (IF n < PageLimit THEN n ELSE PageLimit)
         /\ HasMore(rows) <=> n > PageLimit
<1>1. PageLimit \in Nat \ {0} BY ListingsAssumption DEF ListingsAssumption
<1>2. Len(q) = n /\ q \in Seq(T) OBVIOUS
<1>3. PICK m : m = (IF n < PageLimit + 1 THEN n ELSE PageLimit + 1) OBVIOUS
<1>4. m \in Nat /\ m <= n BY <1>1, <1>3
<1>5. rows = SubSeq(q, 1, m) BY <1>2, <1>3
<1>6. /\ rows \in Seq(T) /\ Len(rows) = m
      /\ \A i \in 1 .. m : rows[i] = q[i]
  <2>1. \A i \in 1 .. m : q[i] \in T BY <1>4
  <2>2. FirstOf(rows, q, m, T) BY <1>4, <1>5, <2>1, FirstRows
  <2> QED BY <2>2 DEF FirstOf
<1>7. PICK h : h = PageSize(rows) OBVIOUS
<1>8. h = (IF n < PageLimit THEN n ELSE PageLimit) /\ h \in Nat /\ h <= m
  BY <1>1, <1>3, <1>6, <1>7 DEF PageSize
<1>9. p = SubSeq(rows, 1, h) BY <1>7 DEF Page
<1>10. /\ p \in Seq(T) /\ Len(p) = h
       /\ \A i \in 1 .. h : p[i] = rows[i]
  <2>1. \A i \in 1 .. h : rows[i] \in T BY <1>4, <1>6, <1>8
  <2>2. FirstOf(p, rows, h, T) BY <1>8, <1>9, <2>1, FirstRows
  <2> QED BY <2>2 DEF FirstOf
<1>11. HasMore(rows) <=> n > PageLimit BY <1>1, <1>3, <1>6 DEF HasMore
<1>12. \A i \in 1 .. h : rows[i] = q[i] BY <1>4, <1>6, <1>8
<1>13. h = l BY <1>10
<1>14. FirstOf(p, q, l, T) BY <1>10, <1>12, <1>13 DEF FirstOf
<1> QED BY <1>8, <1>11, <1>13, <1>14

\* A page has the newest threads below the cursor; what is below the cursor and
\* not on it is below its last row, and is there only if there is a next page.
OnPage(t, p) == \E i \in 1 .. Len(p) : t = p[i]
BelowPage(t, p, rows) == HasMore(rows) /\ Newer(p[Len(p)], t)

LEMMA PageOfThreads ==
  ASSUME ListingsTypeOK, NEW cursor, NEW S, S = {t \in Live : BelowCursor(t, cursor)},
         NEW rows, rows = ListByWorkspace(cursor), NEW p, p = Page(rows)
  PROVE  /\ p \in Seq(Threads)
         /\ \A i \in 1 .. Len(p) : p[i] \in S
         /\ \A i, k \in 1 .. Len(p) : i < k => Newer(p[i], p[k])
         /\ HasMore(rows) => Len(p) > 0
         /\ \A t \in S : OnPage(t, p) \/ BelowPage(t, p, rows)
<1>1. S \in SUBSET Threads BY DEF Live
<1>2. PICK q : q = NewestFirst(S) OBVIOUS
<1>a. PICK n \in Nat : Sorted(q, n, S) BY <1>1, <1>2, NewestFirstSorts
<1>3. /\ q \in [1 .. n -> S]
      /\ \A i, k \in 1 .. n : i < k => Newer(q[i], q[k])
      /\ \A t \in S : \E i \in 1 .. n : t = q[i]
  BY <1>a DEF Sorted
<1>4. rows = SubSeq(q, 1, IF Len(q) < PageLimit + 1 THEN Len(q) ELSE PageLimit + 1)
  BY <1>2, Zenon DEF ListByWorkspace
<1>5. PICK l : l = Len(p) OBVIOUS
<1>6. /\ p \in Seq(S) /\ l = (IF n < PageLimit THEN n ELSE PageLimit)
      /\ \A i \in 1 .. l : p[i] = q[i]
      /\ HasMore(rows) <=> n > PageLimit
  <2>1. PICK m, f : m = n /\ f = q OBVIOUS
  <2>2. m \in Nat /\ f \in [1 .. m -> S] BY <1>3, <2>1
  <2>3. rows = SubSeq(f, 1, IF Len(f) < PageLimit + 1 THEN Len(f) ELSE PageLimit + 1)
    BY <1>4, <2>1
  <2>4. FirstOf(p, f, l, S) BY <1>5, <2>2, <2>3, PageOfRows
  <2>5. l = (IF m < PageLimit THEN m ELSE PageLimit) BY <1>5, <2>2, <2>3, PageOfRows
  <2>6. HasMore(rows) <=> m > PageLimit BY <1>5, <2>2, <2>3, PageOfRows
  <2> QED BY <2>1, <2>4, <2>5, <2>6 DEF FirstOf
<1>7. PageLimit \in Nat \ {0} BY ListingsAssumption DEF ListingsAssumption
<1>8. l \in Nat /\ l <= n BY <1>6, <1>7
<1>9. \A i \in 1 .. l : p[i] \in S BY <1>3, <1>6, <1>8
<1>10. p \in Seq(Threads) BY <1>1, <1>6
<1>11. \A i, k \in 1 .. l : i < k => Newer(p[i], p[k])
  <2> TAKE i \in 1 .. l, k \in 1 .. l
  <2>1. HAVE i < k
  <2>2. i \in 1 .. n /\ k \in 1 .. n BY <1>8
  <2> QED BY <1>3, <1>6, <2>1, <2>2
<1>12. HasMore(rows) => l > 0 BY <1>6, <1>7
<1>13. ASSUME NEW t \in S, \A i \in 1 .. l : t # p[i]
       PROVE  HasMore(rows) /\ Newer(p[l], t)
  <2>1. PICK k \in 1 .. n : t = q[k] BY <1>3
  <2>2. k \notin 1 .. l BY <1>6, <1>13, <2>1
  <2>3. l < k /\ l < n BY <1>8, <2>2
  <2>4. n > PageLimit /\ l = PageLimit /\ l \in 1 .. n BY <1>6, <1>7, <2>3
  <2>5. l \in 1 .. l BY <1>7, <2>4
  <2> QED BY <1>3, <1>6, <2>1, <2>3, <2>4, <2>5
<1>14. \A t \in S : (\E i \in 1 .. l : t = p[i]) \/ (HasMore(rows) /\ Newer(p[l], t))
  <2> TAKE t \in S
  <2>1. CASE \E i \in 1 .. l : t = p[i] BY <2>1, Zenon
  <2>2. CASE \A i \in 1 .. l : t # p[i] BY <1>13, <2>2
  <2> QED BY <2>1, <2>2, Zenon
<1>15. \A t \in S : OnPage(t, p) \/ BelowPage(t, p, rows)
  BY <1>5, <1>14, Zenon DEF OnPage, BelowPage
<1> QED BY <1>5, <1>9, <1>10, <1>11, <1>12, <1>15, Zenon

-----------------------------------------------------------------------------
(* Listings: the steps of the threads.                                     *)

\* A row that a client has seen or could have seen keeps its place in the order
\* when threads are created, renamed and deleted.
LEMMA WalkKept ==
  ASSUME ListingsTypeOK, NEW w \in ThreadWalk, ThreadWalkInv(w),
         NEW h \in SUBSET w.there, NEW v, v = [w EXCEPT !.there = h], h \subseteq Live',
         \A u \in Threads : thread[u].state \in {"live", "deleted"} =>
           /\ thread'[u].state \in {"live", "deleted"}
           /\ thread'[u].createdAt = thread[u].createdAt
  PROVE  v \in ThreadWalk /\ ThreadWalkInv(v)'
<1> DEFINE Seen == {u \in Threads : thread[u].state \in {"live", "deleted"}}
<1>1. /\ v \in ThreadWalk /\ v.pc = w.pc /\ v.seen = w.seen /\ v.cursor = w.cursor
      /\ v.there = h
  BY DEF ThreadWalk
<1>2. PICK q, n : q = w.seen /\ n = Len(q) OBVIOUS
<1>3. q \in Seq(Threads) /\ n \in Nat /\ \A i \in 1 .. n : q[i] \in Threads
  BY <1>2 DEF ThreadWalk
<1>4. \A i \in 1 .. n : q[i] \in Seen BY <1>2, <1>3 DEF ThreadWalkInv
<1>5. \A u \in Seen : /\ thread'[u].state \in {"live", "deleted"}
                      /\ thread'[u].createdAt = thread[u].createdAt
  OBVIOUS
<1>6. \A t, u \in Seen : Newer(t, u)' <=> Newer(t, u) BY <1>5 DEF Newer
<1>7. \A t \in Seen : BelowCursor(t, w.cursor)' <=> BelowCursor(t, w.cursor)
  BY <1>5 DEF BelowCursor
<1>8. \A t \in h : t \in Seen BY DEF ThreadWalkInv, Live
<1>9. \A i \in 1 .. Len(v.seen) : thread'[v.seen[i]].state \in {"live", "deleted"}
  BY <1>1, <1>2, <1>4, <1>5
<1>10. \A i, k \in 1 .. Len(v.seen) : i < k => Newer(v.seen[i], v.seen[k])'
  <2> SUFFICES ASSUME NEW i \in 1 .. n, NEW k \in 1 .. n, i < k
               PROVE  Newer(q[i], q[k])'
    BY <1>1, <1>2
  <2>1. Newer(q[i], q[k]) BY <1>2 DEF ThreadWalkInv
  <2>2. PICK t, u : t = q[i] /\ u = q[k] OBVIOUS
  <2>3. Newer(t, u)' BY <1>4, <1>6, <2>1, <2>2
  <2> QED BY <2>2, <2>3
<1>11. ASSUME w.pc = "next"
       PROVE  /\ v.seen # <<>> /\ v.cursor = EncodeCreatedAtCursor(Last(v.seen))'
              /\ \A t \in v.there : t \in Range(v.seen) \/ BelowCursor(t, v.cursor)'
  <2>1. w.seen # <<>> /\ w.cursor = EncodeCreatedAtCursor(Last(w.seen))
    BY <1>11 DEF ThreadWalkInv
  <2>2. PICK z : z = Last(q) OBVIOUS
  <2>3. z \in Seen
    <3>1. q # <<>> /\ z = q[n] BY <1>2, <2>1, <2>2 DEF Last
    <3>2. n \in 1 .. n BY <1>2, <1>3, <3>1
    <3> QED BY <1>4, <3>1, <3>2
  <2>4. EncodeCreatedAtCursor(z)' = EncodeCreatedAtCursor(z)
    BY <1>5, <2>3 DEF EncodeCreatedAtCursor
  <2>5. \A t \in w.there : t \in Range(w.seen) \/ BelowCursor(t, w.cursor)
    BY <1>11 DEF ThreadWalkInv
  <2>6. \A t \in h : t \in Range(v.seen) \/ BelowCursor(t, v.cursor)'
    <3> TAKE t \in h
    <3>1. CASE t \in Range(w.seen) BY <1>1, <3>1
    <3>2. CASE BelowCursor(t, w.cursor) BY <1>1, <1>7, <1>8, <3>2
    <3> QED BY <2>5, <3>1, <3>2
  <2> QED BY <1>1, <1>2, <2>1, <2>2, <2>4, <2>6
<1>12. /\ v.pc = "idle" => v.seen = <<>> /\ v.cursor = <<>> /\ v.there = {}
       /\ v.pc = "end" => v.there \subseteq Range(v.seen)
  BY <1>1 DEF ThreadWalkInv
<1> QED BY <1>1, <1>9, <1>10, <1>11, <1>12 DEF ThreadWalkInv

\* The threads and the client that reads them, after a step.
ThreadsStand == thread' \in [Threads -> Thread] /\ threadWalk' \in ThreadWalk
                /\ ThreadWalkInv(threadWalk)'

LEMMA ThreadChanged ==
  ASSUME ListingsTypeOK, ThreadWalkInv(threadWalk), NEW t \in Threads,
         NEW r \in Thread, thread' = [thread EXCEPT ![t] = r],
         thread[t].state \in {"live", "deleted"} =>
           r.state \in {"live", "deleted"} /\ r.createdAt = thread[t].createdAt,
         \/ r.state = "live" /\ threadWalk' = threadWalk
         \/ t \notin Live /\ threadWalk' = threadWalk
         \/ threadWalk' = [threadWalk EXCEPT !.there = threadWalk.there \ {t}]
  PROVE  ThreadsStand
<1>1. thread' \in [Threads -> Thread] BY DEF ListingsTypeOK
<1>2. \A u \in Threads : u # t => thread'[u] = thread[u] BY DEF ListingsTypeOK
<1>3. thread'[t] = r BY DEF ListingsTypeOK
<1>4. PICK w : w = threadWalk OBVIOUS
<1>5. w \in ThreadWalk /\ ThreadWalkInv(w) BY <1>4 DEF ListingsTypeOK
<1>6. \A u \in Threads : thread[u].state \in {"live", "deleted"} =>
        /\ thread'[u].state \in {"live", "deleted"}
        /\ thread'[u].createdAt = thread[u].createdAt
  BY <1>2, <1>3
<1>7. w.there \subseteq Live BY <1>5 DEF ThreadWalkInv
<1>8. PICK v : v = threadWalk' OBVIOUS
<1>9. CASE threadWalk' = threadWalk /\ (r.state = "live" \/ t \notin Live)
  <2>1. w.there \subseteq Live' BY <1>2, <1>3, <1>7, <1>9 DEF Live
  <2>2. v = [w EXCEPT !.there = w.there] BY <1>4, <1>5, <1>8, <1>9 DEF ThreadWalk
  <2>3. v \in ThreadWalk /\ ThreadWalkInv(v)' BY <1>5, <1>6, <2>1, <2>2, WalkKept
  <2> QED BY <1>1, <1>8, <2>3 DEF ThreadsStand
<1>10. CASE threadWalk' = [threadWalk EXCEPT !.there = threadWalk.there \ {t}]
  <2>1. PICK h : h = w.there \ {t} OBVIOUS
  <2>2. h \subseteq Live' BY <1>2, <1>7, <2>1 DEF Live
  <2>3. v = [w EXCEPT !.there = h] BY <1>4, <1>8, <1>10, <2>1
  <2>4. v \in ThreadWalk /\ ThreadWalkInv(v)' BY <1>5, <1>6, <2>1, <2>2, <2>3, WalkKept
  <2> QED BY <1>1, <1>8, <2>4 DEF ThreadsStand
<1> QED BY <1>9, <1>10

LEMMA ThreadRowsStand ==
  ASSUME ListingsTypeOK, ThreadWalkInv(threadWalk), NEW t \in Threads,
         PostThread(t) \/ UpdateThread(t) \/ DeleteThread(t)
  PROVE  ThreadsStand
<1>1. PICK o : o = thread[t] OBVIOUS
<1>2. o \in Thread /\ time \in 0 .. MaxTime BY <1>1 DEF ListingsTypeOK
<1>3. CASE CreateThread(t)
  <2>1. PICK r : r = [o EXCEPT !.state = "inserting", !.createdAt = time] OBVIOUS
  <2>2. r \in Thread BY <1>2, <2>1 DEF Thread
  <2>3. thread' = [thread EXCEPT ![t] = r]
    BY <1>1, <1>3, <2>1 DEF CreateThread, InsertThread, ListingsTypeOK
  <2>4. o.state = "none" /\ threadWalk' = threadWalk BY <1>1, <1>3 DEF CreateThread
  <2> QED BY <1>1, <2>2, <2>3, <2>4, ThreadChanged DEF Live
<1>4. CASE CommitThread(t)
  <2>1. PICK r : r = [o EXCEPT !.state = "live"] OBVIOUS
  <2>2. r \in Thread /\ r.state = "live" /\ r.createdAt = o.createdAt
    BY <1>2, <2>1 DEF Thread
  <2>3. thread' = [thread EXCEPT ![t] = r] /\ threadWalk' = threadWalk
    BY <1>1, <1>4, <2>1 DEF CommitThread
  <2> QED BY <1>1, <2>2, <2>3, ThreadChanged
<1>5. CASE UpdateThread(t)
  <2>1. PICK r : r = [o EXCEPT !.renamed = TRUE] OBVIOUS
  <2>2. o.state = "live" BY <1>1, <1>5 DEF UpdateThread, Live
  <2>3. r \in Thread /\ r.state = "live" /\ r.createdAt = o.createdAt
    BY <1>2, <2>1, <2>2 DEF Thread
  <2>4. thread' = [thread EXCEPT ![t] = r] /\ threadWalk' = threadWalk
    BY <1>1, <1>5, <2>1 DEF UpdateThread, UpdateTitle
  <2> QED BY <1>1, <2>3, <2>4, ThreadChanged
<1>6. CASE DeleteThread(t)
  <2>1. PICK r : r = [o EXCEPT !.state = "deleted"] OBVIOUS
  <2>2. r \in Thread /\ r.state = "deleted" /\ r.createdAt = o.createdAt
    BY <1>2, <2>1 DEF Thread
  <2>3. /\ thread' = [thread EXCEPT ![t] = r]
        /\ threadWalk' = [threadWalk EXCEPT !.there = threadWalk.there \ {t}]
    BY <1>1, <1>6, <2>1 DEF DeleteThread, SoftDelete
  <2> QED BY <1>1, <2>2, <2>3, ThreadChanged
<1> QED BY <1>3, <1>4, <1>5, <1>6 DEF PostThread

LEMMA NewerTransitive ==
  ASSUME ListingsTypeOK, NEW x \in Threads, NEW y \in Threads, NEW z \in Threads,
         Newer(x, y), Newer(y, z)
  PROVE  Newer(x, z)
<1>1. PICK R : R = {p \in Threads \X Threads : Newer(p[1], p[2])} OBVIOUS
<1>2. TotalOrder(R, Threads) /\ \A t, u \in Threads : <<t, u>> \in R <=> Newer(t, u)
  BY <1>1, NewerOrders
<1>3. <<x, y>> \in R /\ <<y, z>> \in R BY <1>2
<1>4. <<x, z>> \in R BY <1>2, <1>3 DEF TotalOrder
<1> QED BY <1>2, <1>4

\* Below the cursor of a thread is what it is newer than.
LEMMA CursorOfThread ==
  ASSUME ListingsTypeOK, NEW z \in Threads, NEW t \in Threads
  PROVE  /\ EncodeCreatedAtCursor(z) \in Seq(Nat)
         /\ BelowCursor(t, EncodeCreatedAtCursor(z)) <=> Newer(z, t)
<1>1. PICK a, b : a = thread[z].createdAt /\ b = thread[t].createdAt OBVIOUS
<1>2. a \in Nat /\ b \in Nat /\ z \in Nat /\ t \in Nat
  BY <1>1, ListingsAssumption DEF ListingsAssumption, ListingsTypeOK, Thread
<1>3. PICK c : c = EncodeCreatedAtCursor(z) OBVIOUS
<1>4. c = <<a, z>> BY <1>1, <1>3 DEF EncodeCreatedAtCursor
<1>5. c \in Seq(Nat) /\ c # <<>> /\ c[1] = a /\ c[2] = z BY <1>2, <1>4
<1>6. BelowCursor(t, c) <=> b < a \/ (b = a /\ t < z)
  BY <1>1, <1>5 DEF BelowCursor
<1>7. Newer(z, t) <=> a > b \/ (a = b /\ z > t) BY <1>1 DEF Newer
<1> QED BY <1>2, <1>3, <1>5, <1>6, <1>7

LEMMA ListThreadsStands ==
  ASSUME ListingsTypeOK, ThreadWalkInv(threadWalk), ListThreads
  PROVE  ThreadsStand
<1>1. PICK w, rows : w = threadWalk /\ rows = ListByWorkspace(w.cursor) OBVIOUS
<1>2. w \in ThreadWalk /\ ThreadWalkInv(w) BY <1>1 DEF ListingsTypeOK
<1>3. PICK S, p : S = {t \in Live : BelowCursor(t, w.cursor)} /\ p = Page(rows) OBVIOUS
<1>4. PICK q, n, l : q = w.seen /\ n = Len(q) /\ l = Len(p) OBVIOUS
<1>5. PICK x, c, h : /\ x = IF HasMore(rows) THEN "next" ELSE "end"
                     /\ c = IF HasMore(rows) THEN EncodeCreatedAtCursor(Last(p)) ELSE <<>>
                     /\ h = IF w.pc = "idle" THEN Live ELSE w.there
  OBVIOUS
<1>6. PICK d : d = q \o p OBVIOUS
<1>7. PICK v : v = [w EXCEPT !.pc = x, !.cursor = c, !.seen = d, !.there = h] OBVIOUS
<1>8. threadWalk' = v /\ thread' = thread /\ w.pc \in {"idle", "next"}
  <2>1. threadWalk' = [[w EXCEPT
            !.pc = IF HasMore(rows) THEN "next" ELSE "end",
            !.cursor = IF HasMore(rows) THEN EncodeCreatedAtCursor(Last(Page(rows))) ELSE <<>>,
            !.seen = w.seen \o Page(rows)]
          EXCEPT !.there = IF w.pc = "idle" THEN Live ELSE w.there]
    <3>1. PICK u : u = [w EXCEPT
              !.pc = IF HasMore(rows) THEN "next" ELSE "end",
              !.cursor = IF HasMore(rows) THEN EncodeCreatedAtCursor(Last(Page(rows))) ELSE <<>>,
              !.seen = w.seen \o Page(rows)]
      OBVIOUS
    <3>2. NextThreads(rows) = u BY <1>1, <3>1, Zenon DEF NextThreads
    <3>3. u \in [pc : {u.pc}, cursor : {u.cursor}, seen : {u.seen}, there : {w.there}]
      BY <1>2, <3>1 DEF ThreadWalk
    <3>4. threadWalk' = [u EXCEPT !.there = IF w.pc = "idle" THEN Live ELSE u.there]
      BY <1>1, <3>2, Zenon DEF ListThreads
    <3>5. u.there = w.there BY <3>3
    <3> QED BY <3>1, <3>4, <3>5, Zenon
  <2>2. threadWalk' = [[w EXCEPT !.pc = x, !.cursor = c, !.seen = d] EXCEPT !.there = h]
    BY <1>3, <1>4, <1>5, <1>6, <2>1, Zenon
  <2>3. threadWalk' = v BY <1>2, <1>7, <2>2 DEF ThreadWalk
  <2> QED BY <1>1, <2>3 DEF ListThreads
<1>9. /\ p \in Seq(Threads)
      /\ \A i \in 1 .. l : p[i] \in S
      /\ \A i, k \in 1 .. l : i < k => Newer(p[i], p[k])
      /\ HasMore(rows) => l > 0
      /\ \A t \in S : (\E i \in 1 .. l : t = p[i]) \/ (HasMore(rows) /\ Newer(p[l], t))
  <2>1. p \in Seq(Threads) BY <1>1, <1>3, PageOfThreads
  <2>2. \A i \in 1 .. l : p[i] \in S BY <1>1, <1>3, <1>4, PageOfThreads
  <2>3. \A i, k \in 1 .. l : i < k => Newer(p[i], p[k])
    BY <1>1, <1>3, <1>4, PageOfThreads
  <2>4. HasMore(rows) => l > 0 BY <1>1, <1>3, <1>4, PageOfThreads
  <2>5. \A t \in S : (\E i \in 1 .. l : t = p[i]) \/ (HasMore(rows) /\ Newer(p[l], t))
    <3>1. \A t \in S : OnPage(t, p) \/ BelowPage(t, p, rows)
      BY <1>1, <1>3, PageOfThreads
    <3> QED BY <1>4, <3>1, Zenon DEF OnPage, BelowPage
  <2> QED BY <2>1, <2>2, <2>3, <2>4, <2>5, Zenon
<1>10. q \in Seq(Threads) /\ n \in Nat /\ l \in Nat BY <1>2, <1>4, <1>9 DEF ThreadWalk
<1>11. /\ d \in Seq(Threads) /\ Len(d) = n + l
       /\ \A i \in 1 .. n + l : d[i] = IF i <= n THEN q[i] ELSE p[i - n]
  BY <1>4, <1>6, <1>9, <1>10, ConcatProperties
<1>12. S \in SUBSET Live /\ Live \in SUBSET Threads BY <1>3 DEF Live
<1>13. HasMore(rows) => Last(p) = p[l] /\ p[l] \in Threads
  <2> SUFFICES ASSUME HasMore(rows) PROVE Last(p) = p[l] /\ p[l] \in Threads OBVIOUS
  <2>1. l > 0 BY <1>9
  <2>2. Last(p) = p[l] BY <1>4 DEF Last
  <2>3. l \in 1 .. l BY <1>10, <2>1
  <2> QED BY <1>9, <1>12, <2>2, <2>3
<1>14. c \in Seq(Nat)
  <2>1. CASE HasMore(rows) BY <1>5, <1>13, <2>1, CursorOfThread
  <2>2. CASE ~ HasMore(rows) BY <1>5, <2>2
  <2> QED BY <2>1, <2>2
<1>15. x \in {"next", "end"} /\ h \in SUBSET Live
  BY <1>2, <1>5 DEF ThreadWalkInv
<1>16. /\ v \in ThreadWalk /\ v.pc = x /\ v.cursor = c /\ v.seen = d /\ v.there = h
  BY <1>2, <1>7, <1>11, <1>12, <1>14, <1>15 DEF ThreadWalk
\* What was seen is newer than what is read now.
<1>17. ASSUME NEW i \in 1 .. n, NEW t \in S PROVE Newer(q[i], t)
  <2>1. w.pc = "next" /\ n \in 1 .. n
    <3>1. n > 0 BY <1>10
    <3>2. w.pc # "idle" BY <1>2, <1>4, <3>1 DEF ThreadWalkInv
    <3> QED BY <1>8, <1>10, <1>1, <3>1, <3>2
  <2>2. w.cursor = EncodeCreatedAtCursor(q[n])
    <3>1. w.cursor = EncodeCreatedAtCursor(Last(w.seen)) BY <1>2, <2>1 DEF ThreadWalkInv
    <3>2. Last(w.seen) = q[n] BY <1>4 DEF Last
    <3> QED BY <3>1, <3>2
  <2>3. q[n] \in Threads /\ q[i] \in Threads /\ t \in Threads BY <1>4, <1>10, <1>12, <2>1
  <2>4. Newer(q[n], t)
    <3>1. PICK z : z = q[n] OBVIOUS
    <3>2. BelowCursor(t, EncodeCreatedAtCursor(z)) BY <1>3, <2>2, <3>1
    <3> QED BY <2>3, <3>1, <3>2, CursorOfThread
  <2>5. CASE i = n BY <2>4, <2>5
  <2>6. CASE i # n
    <3>1. i < n BY <1>10, <2>6
    <3>2. Newer(q[i], q[n]) BY <1>2, <1>4, <2>1, <3>1 DEF ThreadWalkInv
    <3> QED BY <2>3, <2>4, <3>2, NewerTransitive
  <2> QED BY <2>5, <2>6
<1>18. \A i \in 1 .. n + l : thread[d[i]].state \in {"live", "deleted"}
  <2> TAKE i \in 1 .. n + l
  <2>1. CASE i <= n
    <3>1. i \in 1 .. n /\ d[i] = q[i] BY <1>10, <1>11, <2>1
    <3> QED BY <1>2, <1>4, <3>1 DEF ThreadWalkInv
  <2>2. CASE ~ (i <= n)
    <3>1. i - n \in 1 .. l /\ d[i] = p[i - n] BY <1>10, <1>11, <2>2
    <3>2. d[i] \in Live BY <1>9, <1>12, <3>1
    <3> QED BY <3>2 DEF Live
  <2> QED BY <2>1, <2>2
<1>19. \A i, k \in 1 .. n + l : i < k => Newer(d[i], d[k])
  <2> TAKE i \in 1 .. n + l, k \in 1 .. n + l
  <2>1. HAVE i < k
  <2>2. CASE k <= n
    <3>1. i \in 1 .. n /\ k \in 1 .. n /\ d[i] = q[i] /\ d[k] = q[k]
      BY <1>10, <1>11, <2>1, <2>2
    <3> QED BY <1>2, <1>4, <2>1, <3>1 DEF ThreadWalkInv
  <2>3. CASE i <= n /\ ~ (k <= n)
    <3>1. i \in 1 .. n /\ d[i] = q[i] /\ k - n \in 1 .. l /\ d[k] = p[k - n]
      BY <1>10, <1>11, <2>3
    <3>2. p[k - n] \in S BY <1>9, <3>1
    <3> QED BY <1>17, <3>1, <3>2
  <2>4. CASE ~ (i <= n)
    <3>1. PICK a, b : a = i - n /\ b = k - n OBVIOUS
    <3>2. /\ a \in 1 .. l /\ d[i] = p[a] /\ b \in 1 .. l /\ d[k] = p[b] /\ a < b
      BY <1>10, <1>11, <2>1, <2>4, <3>1
    <3> QED BY <1>9, <3>2
  <2> QED BY <1>10, <2>1, <2>2, <2>3, <2>4
\* What there was is seen, or is below the cursor.
<1>20. ASSUME NEW t \in h PROVE t \in Range(d) \/ (HasMore(rows) /\ Newer(p[l], t))
  <2>1. t \in Range(q) \/ t \in S
    <3>1. CASE w.pc = "idle"
      <4>1. w.cursor = <<>> /\ t \in Live BY <1>2, <1>5, <3>1 DEF ThreadWalkInv
      <4> QED BY <1>3, <4>1 DEF BelowCursor
    <3>2. CASE w.pc = "next"
      <4>1. t \in w.there /\ t \in Live BY <1>5, <1>15, <3>2
      <4>2. t \in Range(q) \/ BelowCursor(t, w.cursor)
        BY <1>2, <1>4, <3>2, <4>1 DEF ThreadWalkInv
      <4> QED BY <1>3, <4>1, <4>2
    <3> QED BY <1>1, <1>8, <3>1, <3>2
  <2>2. CASE t \in Range(q)
    <3>1. PICK i \in 1 .. n : t = q[i] BY <1>4, <1>10, <2>2 DEF Range
    <3>2. i \in 1 .. n + l /\ t = d[i] BY <1>10, <1>11, <3>1
    <3>3. t \in Range(d) BY <1>11, <3>2 DEF Range
    <3> QED BY <3>3
  <2>3. CASE \E i \in 1 .. l : t = p[i]
    <3>1. PICK i \in 1 .. l : t = p[i] BY <2>3
    <3>2. PICK k : k = n + i OBVIOUS
    <3>3. k \in 1 .. n + l /\ ~ (k <= n) /\ k - n = i BY <1>10, <3>2
    <3>4. t = d[k] BY <1>11, <3>1, <3>3
    <3>5. t \in Range(d) BY <1>11, <3>3, <3>4 DEF Range
    <3> QED BY <3>5
  <2> QED BY <1>9, <2>1, <2>2, <2>3
<1>21. ASSUME x = "next"
       PROVE  /\ d # <<>> /\ c = EncodeCreatedAtCursor(Last(d))
              /\ \A t \in h : t \in Range(d) \/ BelowCursor(t, c)
  <2>1. HasMore(rows) BY <1>5, <1>21
  <2>2. PICK z : z = p[l] OBVIOUS
  <2>3. z = Last(p) /\ z \in Threads /\ l > 0 BY <1>9, <1>13, <2>1, <2>2
  <2>4. d # <<>> /\ Last(d) = z
    <3>1. PICK k : k = n + l OBVIOUS
    <3>2. k \in 1 .. n + l /\ ~ (k <= n) /\ k - n = l BY <1>10, <2>3, <3>1
    <3>3. d[k] = z BY <1>11, <2>2, <3>2
    <3>4. Last(d) = z BY <1>11, <3>1, <3>3 DEF Last
    <3>5. Len(d) # 0 BY <1>10, <1>11, <2>3
    <3> QED BY <3>4, <3>5
  <2>5. c = EncodeCreatedAtCursor(z) BY <1>5, <2>1, <2>3
  <2>6. \A t \in h : t \in Range(d) \/ BelowCursor(t, c)
    <3> TAKE t \in h
    <3>1. t \in Range(d) \/ Newer(z, t) BY <1>20, <2>2
    <3>2. t \in Threads BY <1>12, <1>15
    <3> QED BY <2>3, <2>5, <3>1, <3>2, CursorOfThread
  <2> QED BY <2>4, <2>5, <2>6
<1>22. x = "end" => h \subseteq Range(d)
  <2> SUFFICES ASSUME x = "end", NEW t \in h PROVE t \in Range(d) OBVIOUS
  <2>1. ~ HasMore(rows) BY <1>5
  <2> QED BY <1>20, <2>1
<1>23. x # "idle" BY <1>5
<1>24. ThreadWalkInv(v)
  BY <1>11, <1>15, <1>16, <1>18, <1>19, <1>21, <1>22, <1>23 DEF ThreadWalkInv
<1>25. ThreadWalkInv(v)'
  BY <1>8, <1>24 DEF ThreadWalkInv, Newer, Live, BelowCursor, EncodeCreatedAtCursor
<1> QED BY <1>8, <1>16, <1>25 DEF ThreadsStand, ListingsTypeOK

-----------------------------------------------------------------------------
(* Listings: the steps of the messages.                                    *)

\* The messages below the cursor, newest first, counted down from "from".
LEMMA PageOfMessages ==
  ASSUME ListingsTypeOK, NEW cursor, NEW from \in Nat,
         from = (IF cursor = <<>> THEN Len(roles) ELSE cursor[1] - 1),
         NEW rows, rows = ListByThread(cursor), NEW p, p = Page(rows), NEW l, l = Len(p)
  PROVE  /\ p \in Seq(Nat) /\ l = (IF from < PageLimit THEN from ELSE PageLimit)
         /\ \A i \in 1 .. l : p[i] = from - i + 1
         /\ HasMore(rows) <=> from > PageLimit
<1>1. PageLimit \in Nat \ {0} BY ListingsAssumption DEF ListingsAssumption
<1>2. PICK m : m = (IF from < PageLimit + 1 THEN from ELSE PageLimit + 1) OBVIOUS
<1>3. m \in Nat /\ m <= from BY <1>1, <1>2
<1>4. rows = [i \in 1 .. m |-> from - i + 1] BY <1>2, Zenon DEF ListByThread
<1>5. Len(rows) = m /\ \A i \in 1 .. m : rows[i] = from - i + 1 /\ rows[i] \in Nat
  BY <1>3, <1>4
<1>6. PICK h : h = PageSize(rows) OBVIOUS
<1>7. h = (IF from < PageLimit THEN from ELSE PageLimit) /\ h \in Nat /\ h <= m
  BY <1>1, <1>2, <1>5, <1>6 DEF PageSize
<1>8. p = SubSeq(rows, 1, h) BY <1>6 DEF Page
<1>9. \A i \in 1 .. h : rows[i] \in Nat BY <1>3, <1>5, <1>7
<1>10. FirstOf(p, rows, h, Nat) BY <1>7, <1>8, <1>9, FirstRows
<1>11. p \in Seq(Nat) /\ l = h /\ \A i \in 1 .. h : p[i] = rows[i]
  BY <1>10 DEF FirstOf
<1>12. \A i \in 1 .. h : rows[i] = from - i + 1 BY <1>3, <1>5, <1>7
<1>13. HasMore(rows) <=> from > PageLimit BY <1>1, <1>2, <1>5 DEF HasMore
<1> QED BY <1>7, <1>11, <1>12, <1>13

LEMMA ListMessagesStands ==
  ASSUME ListingsTypeOK, MessageWalkInv(messageWalk), ListMessages
  PROVE  messageWalk' \in MessageWalk /\ MessageWalkInv(messageWalk')
<1>1. PICK w, rows : w = messageWalk /\ rows = ListByThread(w.cursor) OBVIOUS
<1>2. w \in MessageWalk /\ MessageWalkInv(w) BY <1>1 DEF ListingsTypeOK
<1>3. PICK p, q : p = Page(rows) /\ q = w.seen OBVIOUS
<1>4. PICK n, l : n = Len(q) /\ l = Len(p) OBVIOUS
<1>5. PICK from : from = (IF w.cursor = <<>> THEN Len(roles) ELSE w.cursor[1] - 1) OBVIOUS
<1>6. PICK x, c, d : /\ x = IF HasMore(rows) THEN "next" ELSE "end"
                     /\ c = IF HasMore(rows) THEN <<Last(p)>> ELSE <<>>
                     /\ d = q \o p
  OBVIOUS
<1>7. PICK v : v = [pc |-> x, cursor |-> c, seen |-> d] OBVIOUS
<1>8. messageWalk' = v /\ w.pc \in {"idle", "next"}
  <2>1. messageWalk' = NextMessages(rows) BY <1>1 DEF ListMessages
  <2>2. messageWalk' = v BY <1>1, <1>3, <1>6, <1>7, <2>1, Zenon DEF NextMessages
  <2> QED BY <1>1, <2>2 DEF ListMessages
<1>9. q \in Seq(Nat) /\ n \in Nat BY <1>2, <1>3, <1>4 DEF MessageWalk
\* What has been seen ends above "from".
<1>10. /\ from \in Nat
       /\ n > 0 => w.pc = "next" /\ from = q[n] - 1
  <2>1. CASE w.pc = "idle"
    <3>1. q = <<>> /\ w.cursor = <<>> BY <1>2, <1>3, <2>1 DEF MessageWalkInv
    <3>2. from = Len(roles) BY <1>5, <3>1
    <3> QED BY <1>4, <3>1, <3>2 DEF ListingsTypeOK
  <2>2. CASE w.pc = "next"
    <3>1. q # <<>> /\ w.cursor = <<Last(q)>> /\ Last(q) > 0
      BY <1>2, <1>3, <2>2 DEF MessageWalkInv
    <3>2. Last(q) = q[n] BY <1>4 DEF Last
    <3>3. n \in 1 .. n BY <1>4, <1>9, <3>1
    <3>4. q[n] \in Nat BY <1>4, <1>9, <3>3
    <3>5. w.cursor # <<>> /\ w.cursor[1] = q[n] BY <3>1, <3>2
    <3>6. from = q[n] - 1 BY <1>5, <3>5
    <3> QED BY <2>2, <3>1, <3>2, <3>4, <3>6
  <2> QED BY <1>8, <2>1, <2>2
<1>11. PageLimit \in Nat \ {0} BY ListingsAssumption DEF ListingsAssumption
<1>12. /\ p \in Seq(Nat) /\ l = (IF from < PageLimit THEN from ELSE PageLimit)
       /\ \A i \in 1 .. l : p[i] = from - i + 1
       /\ HasMore(rows) <=> from > PageLimit
  <2>1. p \in Seq(Nat) BY <1>1, <1>3, <1>5, <1>10, PageOfMessages
  <2>2. l = (IF from < PageLimit THEN from ELSE PageLimit)
    BY <1>1, <1>3, <1>4, <1>5, <1>10, PageOfMessages
  <2>3. \A i \in 1 .. l : p[i] = from - i + 1
    BY <1>1, <1>3, <1>4, <1>5, <1>10, PageOfMessages
  <2>4. HasMore(rows) <=> from > PageLimit
    BY <1>1, <1>3, <1>4, <1>5, <1>10, PageOfMessages
  <2> QED BY <2>1, <2>2, <2>3, <2>4
<1>13. l \in Nat /\ l <= from BY <1>10, <1>11, <1>12
<1>14. /\ d \in Seq(Nat) /\ Len(d) = n + l
       /\ \A i \in 1 .. n + l : d[i] = IF i <= n THEN q[i] ELSE p[i - n]
  <2>1. p \in Seq(Nat) /\ q \in Seq(Nat) BY <1>9, <1>12
  <2>2. d = q \o p BY <1>6
  <2> QED BY <1>4, <2>1, <2>2, ConcatProperties
<1>15. PICK top : top = (IF n = 0 THEN from ELSE q[1]) OBVIOUS
<1>16. \A i \in 1 .. n : q[i] \in Nat /\ q[i] = top - i + 1
  BY <1>2, <1>3, <1>4, <1>9, <1>15 DEF MessageWalkInv
<1>17. top \in Nat /\ from = top - n
  <2>1. CASE n = 0 BY <1>10, <1>15, <2>1
  <2>2. CASE n # 0
    <3>1. 1 \in 1 .. n /\ n \in 1 .. n BY <1>9, <2>2
    <3>2. q[1] \in Nat /\ q[n] = top - n + 1 BY <1>16, <3>1
    <3>3. top \in Nat BY <1>15, <2>2, <3>2
    <3> QED BY <1>9, <1>10, <2>2, <3>2, <3>3
  <2> QED BY <2>1, <2>2
<1>18. \A i \in 1 .. n + l : d[i] = top - i + 1
  <2> TAKE i \in 1 .. n + l
  <2>1. CASE i <= n
    <3>1. i \in 1 .. n BY <1>9, <2>1
    <3> QED BY <1>14, <1>16, <2>1, <3>1
  <2>2. CASE ~ (i <= n)
    <3>1. PICK k : k = i - n OBVIOUS
    <3>2. k \in 1 .. l /\ d[i] = p[k] BY <1>9, <1>13, <1>14, <2>2, <3>1
    <3>3. p[k] = from - k + 1 BY <1>12, <3>2
    <3> QED BY <1>9, <1>10, <1>17, <3>1, <3>2, <3>3
  <2> QED BY <2>1, <2>2
<1>19. ASSUME n + l > 0 PROVE Last(d) = from - l + 1 /\ d # <<>> /\ d[1] = top
  <2>1. PICK k : k = n + l OBVIOUS
  <2>2. k \in 1 .. n + l /\ 1 \in 1 .. n + l BY <1>9, <1>13, <1>19, <2>1
  <2>3. d[k] = top - k + 1 /\ d[1] = top - 1 + 1 BY <1>18, <2>2
  <2>4. Last(d) = d[k] BY <1>14, <2>1 DEF Last
  <2>5. Len(d) # 0 BY <1>9, <1>13, <1>14, <1>19
  <2> QED BY <1>9, <1>13, <1>17, <2>1, <2>3, <2>4, <2>5
<1>20. \A i \in 1 .. Len(d) : d[i] = d[1] - i + 1
  <2> TAKE i \in 1 .. Len(d)
  <2>1. i \in 1 .. n + l /\ n + l > 0 BY <1>9, <1>13, <1>14
  <2> QED BY <1>18, <1>19, <2>1
<1>21. ASSUME HasMore(rows) PROVE c = <<Last(d)>> /\ Last(d) \in Nat /\ Last(d) > 0 /\ d # <<>>
  <2>1. from > PageLimit /\ l = PageLimit BY <1>11, <1>12, <1>21, <1>10
  <2>2. l > 0 /\ n + l > 0 /\ l \in 1 .. l BY <1>9, <1>11, <2>1
  <2>3. Last(p) = from - l + 1 BY <1>4, <1>12, <2>2 DEF Last
  <2>4. Last(d) = Last(p) /\ d # <<>> BY <1>19, <2>2, <2>3
  <2>5. c = <<Last(p)>> BY <1>6, <1>21
  <2> QED BY <1>10, <1>13, <2>3, <2>4, <2>5
<1>22. ASSUME ~ HasMore(rows), d # <<>> PROVE Last(d) = 1
  <2>1. l = from BY <1>10, <1>11, <1>12, <1>22
  <2>2. n + l > 0
    <3>1. Len(d) # 0 BY <1>14, <1>22
    <3> QED BY <1>9, <1>13, <1>14, <3>1
  <2> QED BY <1>13, <1>19, <2>1, <2>2
<1>23. v.pc = x /\ v.cursor = c /\ v.seen = d BY <1>7
<1>24. c \in Seq(Nat)
  <2>1. CASE HasMore(rows)
    <3>1. PICK z : z = Last(d) OBVIOUS
    <3>2. z \in Nat /\ c = <<z>> BY <1>21, <2>1, <3>1
    <3> QED BY <3>2
  <2>2. CASE ~ HasMore(rows) BY <1>6, <2>2
  <2> QED BY <2>1, <2>2
<1>25. x \in {"next", "end"} /\ (x = "next" <=> HasMore(rows)) BY <1>6
<1>26. v \in MessageWalk BY <1>7, <1>14, <1>24, <1>25 DEF MessageWalk
<1>27. MessageWalkInv(v) BY <1>20, <1>21, <1>22, <1>23, <1>25 DEF MessageWalkInv
<1> QED BY <1>8, <1>26, <1>27

-----------------------------------------------------------------------------
(* Listings: the theorems.                                                 *)

LEMMA ListingsStart == ListingsInit => ListingsTypeOK /\ ListingsInv
<1> SUFFICES ASSUME ListingsInit PROVE ListingsTypeOK /\ ListingsInv OBVIOUS
<1>1. MaxTime \in Nat BY ListingsAssumption DEF ListingsAssumption
<1>2. NoThreadWalk \in ThreadWalk BY DEF NoThreadWalk, ThreadWalk
<1>3. NoMessageWalk \in MessageWalk BY DEF NoMessageWalk, MessageWalk
<1>4. thread \in [Threads -> Thread] BY <1>1 DEF ListingsInit, Thread
<1>5. ListingsTypeOK
  BY <1>1, <1>2, <1>3, <1>4 DEF ListingsInit, ListingsTypeOK, Feedbacks, Ratings
<1>6. /\ NoThreadWalk.pc = "idle" /\ NoThreadWalk.seen = <<>>
      /\ NoThreadWalk.cursor = <<>> /\ NoThreadWalk.there = {} /\ Len(NoThreadWalk.seen) = 0
  BY DEF NoThreadWalk
<1>7. ThreadWalkInv(NoThreadWalk) BY <1>6 DEF ThreadWalkInv
<1>8. MessageWalkInv(NoMessageWalk) BY DEF MessageWalkInv, NoMessageWalk
<1> QED BY <1>5, <1>7, <1>8 DEF ListingsInit, ListingsInv

LEMMA ListingsStep ==
  ASSUME ListingsTypeOK, ListingsInv, [ListingsNext]_<<threadVars, messageVars>>
  PROVE  ListingsTypeOK' /\ ListingsInv'
<1>1. ThreadWalkInv(threadWalk) /\ MessageWalkInv(messageWalk) BY DEF ListingsInv
<1>2. ASSUME UNCHANGED threadVars
      PROVE  time' \in 0 .. MaxTime /\ ThreadsStand
  BY <1>1, <1>2 DEF threadVars, ListingsTypeOK, ThreadsStand, ThreadWalkInv, Newer, Live,
                    BelowCursor, EncodeCreatedAtCursor
<1>3. ASSUME ThreadsNext PROVE time' \in 0 .. MaxTime /\ ThreadsStand
  <2>1. ASSUME NEW t \in Threads, PostThread(t) \/ UpdateThread(t) \/ DeleteThread(t)
        PROVE  time' \in 0 .. MaxTime /\ ThreadsStand
    <3>1. time' = time
      BY <2>1 DEF PostThread, CreateThread, CommitThread, UpdateThread, DeleteThread
    <3> QED BY <1>1, <2>1, <3>1, ThreadRowsStand DEF ListingsTypeOK
  <2>2. CASE TimePasses
    <3>1. time' \in 0 .. MaxTime
      BY <2>2, ListingsAssumption DEF TimePasses, ListingsTypeOK, ListingsAssumption
    <3>2. thread' = thread /\ threadWalk' = threadWalk BY <2>2 DEF TimePasses
    <3>3. ThreadsStand
      BY <1>1, <3>2 DEF ListingsTypeOK, ThreadsStand, ThreadWalkInv, Newer, Live,
                        BelowCursor, EncodeCreatedAtCursor
    <3> QED BY <3>1, <3>3
  <2>3. CASE ListThreads
    <3>1. time' = time BY <2>3 DEF ListThreads
    <3> QED BY <1>1, <2>3, <3>1, ListThreadsStands DEF ListingsTypeOK
  <2> QED BY <1>3, <2>1, <2>2, <2>3 DEF ThreadsNext
<1>4. ASSUME UNCHANGED messageVars
      PROVE  /\ roles' \in Seq({"user", "assistant"}) /\ feedback' \in Feedbacks
             /\ messageWalk' \in MessageWalk /\ MessageWalkInv(messageWalk')
  BY <1>1, <1>4 DEF messageVars, ListingsTypeOK
<1>5. ASSUME MessagesNext
      PROVE  /\ roles' \in Seq({"user", "assistant"}) /\ feedback' \in Feedbacks
             /\ messageWalk' \in MessageWalk /\ MessageWalkInv(messageWalk')
  <2>1. ASSUME NEW role \in {"user", "assistant"}, StoreMessage(role)
        PROVE  /\ roles' \in Seq({"user", "assistant"}) /\ feedback' = feedback
               /\ messageWalk' = messageWalk
    BY <2>1 DEF StoreMessage, ListingsTypeOK
  <2>2. ASSUME NEW m \in DOMAIN roles, NEW rating \in {"up", "down"},
               SubmitFeedback(m, rating)
        PROVE  roles' = roles /\ feedback' \in Feedbacks /\ messageWalk' = messageWalk
    BY <2>2 DEF SubmitFeedback, UpsertFeedback, Feedbacks, Ratings, ListingsTypeOK
  <2>3. CASE ListMessages
    <3>1. roles' = roles /\ feedback' = feedback BY <2>3 DEF ListMessages
    <3> QED BY <1>1, <2>3, <3>1, ListMessagesStands DEF ListingsTypeOK
  <2>4. CASE \E role \in {"user", "assistant"} : StoreMessage(role)
    BY <1>1, <2>1, <2>4 DEF ListingsTypeOK
  <2>5. CASE \E m \in DOMAIN roles, rating \in {"up", "down"} : SubmitFeedback(m, rating)
    BY <1>1, <2>2, <2>5 DEF ListingsTypeOK
  <2> QED BY <1>5, <2>3, <2>4, <2>5 DEF MessagesNext
<1>6. \/ ThreadsNext /\ UNCHANGED messageVars
      \/ MessagesNext /\ UNCHANGED threadVars
      \/ UNCHANGED threadVars /\ UNCHANGED messageVars
  BY DEF ListingsNext
<1>7. ThreadsStand /\ time' \in 0 .. MaxTime BY <1>2, <1>3, <1>6
<1>8. /\ roles' \in Seq({"user", "assistant"}) /\ feedback' \in Feedbacks
      /\ messageWalk' \in MessageWalk /\ MessageWalkInv(messageWalk')
  BY <1>4, <1>5, <1>6
<1> QED BY <1>7, <1>8 DEF ThreadsStand, ListingsTypeOK, ListingsInv

LEMMA ListingsInvariant == ListingsSpec => [](ListingsTypeOK /\ ListingsInv)
<1>1. ListingsTypeOK /\ ListingsInv /\ [ListingsNext]_<<threadVars, messageVars>>
        => (ListingsTypeOK /\ ListingsInv)'
  BY ListingsStep
<1> QED BY <1>1, ListingsStart, PTL DEF ListingsSpec

\* A client that reads a list page by page sees every thread that was there all
\* the time and every message there was at its first page, once and in order,
\* for any number of threads and messages and any size of a page.
THEOREM PagesStayWhole == ListingsSpec => []PagesWhole
<1>1. ListingsTypeOK /\ ListingsInv => PagesWhole
  <2> SUFFICES ASSUME ListingsTypeOK, ListingsInv PROVE PagesWhole OBVIOUS
  <2>1. PICK w, m : w = threadWalk /\ m = messageWalk OBVIOUS
  <2>2. w \in ThreadWalk /\ ThreadWalkInv(w) /\ m \in MessageWalk /\ MessageWalkInv(m)
    BY <2>1 DEF ListingsTypeOK, ListingsInv
  <2>3. PICK q, n : q = w.seen /\ n = Len(q) OBVIOUS
  <2>4. /\ DOMAIN q = 1 .. n /\ n \in Nat
        /\ \A i \in 1 .. n : q[i] \in Threads
        /\ \A i, k \in 1 .. n : i < k => Newer(q[i], q[k])
    <3>1. DOMAIN q = 1 .. n /\ n \in Nat /\ \A i \in 1 .. n : q[i] \in Threads
      BY <2>2, <2>3 DEF ThreadWalk
    <3>2. \A i, k \in 1 .. n : i < k => Newer(q[i], q[k])
      BY <2>2, <2>3 DEF ThreadWalkInv
    <3> QED BY <3>1, <3>2
  <2>5. IsInjective(q)
    <3>1. PICK R : R = {p \in Threads \X Threads : Newer(p[1], p[2])} OBVIOUS
    <3>2. TotalOrder(R, Threads) /\ \A t, u \in Threads : <<t, u>> \in R <=> Newer(t, u)
      BY <3>1, NewerOrders
    <3>3. ASSUME NEW i \in 1 .. n, NEW k \in 1 .. n, i < k PROVE q[i] # q[k]
      <4>1. Newer(q[i], q[k]) BY <2>4, <3>3
      <4>2. <<q[i], q[k]>> \in R BY <2>4, <3>2, <4>1
      <4> QED BY <2>4, <3>2, <4>2 DEF TotalOrder
    <3>4. \A i, k \in 1 .. n : q[i] = q[k] => i = k
      <4> TAKE i \in 1 .. n, k \in 1 .. n
      <4>1. i < k \/ k < i \/ i = k BY <2>4
      <4> QED BY <3>3, <4>1
    <3> QED BY <2>4, <3>4 DEF IsInjective
  <2>6. w.pc = "end" => w.there \subseteq Range(q) BY <2>2, <2>3 DEF ThreadWalkInv
  <2>7. ASSUME m.pc = "end", m.seen # <<>>
        PROVE  m.seen = Reverse([s \in 1 .. m.seen[1] |-> s])
    <3>1. PICK d, l : d = m.seen /\ l = Len(d) OBVIOUS
    <3>2. d \in Seq(Nat) /\ l \in Nat /\ d # <<>> BY <2>2, <2>7, <3>1 DEF MessageWalk
    <3>3. \A i \in 1 .. l : d[i] = d[1] - i + 1 BY <2>2, <3>1 DEF MessageWalkInv
    <3>4. d[l] = 1 BY <2>2, <2>7, <3>1 DEF MessageWalkInv, Last
    <3>5. l > 0 /\ 1 \in 1 .. l /\ l \in 1 .. l BY <3>1, <3>2
    <3>6. d[1] \in Nat BY <3>1, <3>2, <3>5
    <3>7. d[1] = l BY <3>2, <3>3, <3>4, <3>5, <3>6
    <3>8. PICK up : up = [s \in 1 .. l |-> s] OBVIOUS
    <3>9. Len(up) = l /\ \A i \in 1 .. l : up[i] = i BY <3>2, <3>8
    <3>10. Reverse(up) = [i \in 1 .. l |-> up[l - i + 1]]
      BY <3>9, Zenon DEF Reverse
    <3>11. \A i \in 1 .. l : l - i + 1 \in 1 .. l BY <3>2
    <3>12. \A i \in 1 .. l : d[i] = up[l - i + 1] BY <3>3, <3>7, <3>9, <3>11
    <3>13. d = [i \in 1 .. l |-> d[i]] BY <3>1, <3>2
    <3>14. d = [i \in 1 .. l |-> up[l - i + 1]] BY <3>12, <3>13
    <3> QED BY <3>1, <3>7, <3>8, <3>10, <3>14
  <2> QED BY <2>1, <2>3, <2>4, <2>5, <2>6, <2>7, Zenon DEF PagesWhole
<1> QED BY <1>1, ListingsInvariant, PTL

-----------------------------------------------------------------------------
(* Folds.                                                                  *)

\* h is the result of folding seq with F, for each set of positions, and f
\* for each number of first positions.
Folds(F, base, seq, h, f) ==
  /\ \A s \in SUBSET (DOMAIN seq) :
       h[s] = IF s = {} THEN base ELSE F[<<h[s \ {Max(s)}], seq[Max(s)]>>]
  /\ f[0] = base
  /\ \A k \in DOMAIN seq : f[k] = F[<<f[k - 1], seq[k]>>]
  /\ f[Len(seq)] = h[DOMAIN seq]

LEMMA GreatestOfInitial ==
  ASSUME NEW n \in Nat, NEW s \in SUBSET (1 .. n), n \in s
  PROVE  Max(s) = n
<1>1. \A y \in s : n >= y OBVIOUS
<1>2. \A x \in s : (\A y \in s : x >= y) => x = n OBVIOUS
<1> QED BY <1>1, <1>2 DEF Max

LEMMA FoldExists ==
  ASSUME NEW A, NEW B, NEW F \in [A \X B -> A], NEW base \in A, NEW seq \in Seq(B)
  PROVE  \E h \in [SUBSET (DOMAIN seq) -> A], f \in [0 .. Len(seq) -> A] :
           Folds(F, base, seq, h, f)
<1> DEFINE Good(n, h) ==
             /\ h \in [SUBSET (1 .. n) -> A]
             /\ \A s \in SUBSET (1 .. n) :
                  h[s] = IF s = {} THEN base ELSE F[<<h[s \ {Max(s)}], seq[Max(s)]>>]
           T == {n \in 0 .. Len(seq) : ~ \E h : Good(n, h)}
<1>1. Len(seq) \in Nat /\ DOMAIN seq = 1 .. Len(seq) /\ \A i \in 1 .. Len(seq) : seq[i] \in B
  BY LenProperties
<1>2. ASSUME T # {} PROVE FALSE
  <2>1. PICK n \in T : \A k \in T : n <= k
    <3>1. T \in SUBSET Nat BY <1>1
    <3> HIDE DEF T
    <3> QED BY <1>2, <3>1, LeastNumber
  <2>2. n # 0
    <3>1. Good(0, [s \in SUBSET (1 .. 0) |-> base]) OBVIOUS
    <3> QED BY <2>1, <3>1
  <2>3. n \in 1 .. Len(seq) /\ n - 1 \in 0 .. Len(seq) /\ n - 1 \notin T
    <3>1. n \in 0 .. Len(seq) OBVIOUS
    <3>2. n - 1 \notin T
      <4> HIDE DEF T
      <4>1. ~ (n <= n - 1) BY <1>1, <3>1
      <4> QED BY <2>1, <4>1
    <3> HIDE DEF T
    <3> QED BY <1>1, <2>2, <3>1, <3>2
  <2>4. PICK g : Good(n - 1, g) BY <2>3
  <2>5. PICK h : h = [s \in SUBSET (1 .. n) |->
                        IF n \in s THEN F[<<g[s \ {n}], seq[n]>>] ELSE g[s]]
    OBVIOUS
  <2>6. \A s \in SUBSET (1 .. n) : s \ {n} \in SUBSET (1 .. n - 1) BY <2>3
  <2>7. ASSUME NEW s \in SUBSET (1 .. n)
        PROVE  /\ h[s] \in A
               /\ h[s] = IF s = {} THEN base ELSE F[<<h[s \ {Max(s)}], seq[Max(s)]>>]
    <3>1. PICK r : r = s \ {n} OBVIOUS
    <3>2. r \in SUBSET (1 .. n - 1) /\ r \in SUBSET (1 .. n) BY <2>6, <3>1
    <3>3. g[r] \in A BY <2>4, <3>2
    <3>4. CASE n \in s
      <4>1. Max(s) = n /\ s # {} BY <2>3, <3>4, GreatestOfInitial
      <4>2. h[r] = g[r] BY <2>5, <3>1, <3>2
      <4>3. h[s] = F[<<g[r], seq[n]>>] BY <2>5, <3>1, <3>4
      <4>4. seq[n] \in B BY <1>1, <2>3
      <4> QED BY <3>1, <3>3, <4>1, <4>2, <4>3, <4>4
    <3>5. CASE n \notin s
      <4>1. s \in SUBSET (1 .. n - 1) BY <3>1, <3>2, <3>5
      <4>2. h[s] = g[s] BY <2>5, <3>5
      <4>3. g[s] = IF s = {} THEN base ELSE F[<<g[s \ {Max(s)}], seq[Max(s)]>>]
        BY <2>4, <4>1
      <4>4. s \ {Max(s)} \in SUBSET (1 .. n) /\ n \notin s \ {Max(s)} BY <3>5
      <4>5. h[s \ {Max(s)}] = g[s \ {Max(s)}] BY <2>5, <4>4
      <4>6. g[s] \in A BY <2>4, <4>1
      <4> QED BY <4>2, <4>3, <4>5, <4>6
    <3> QED BY <3>4, <3>5
  <2>8. h \in [SUBSET (1 .. n) -> A] BY <2>5, <2>7
  <2>9. Good(n, h) BY <2>7, <2>8
  <2> QED BY <2>1, <2>9
<1>3. Len(seq) \in 0 .. Len(seq) BY <1>1
<1>4. PICK h : Good(Len(seq), h) BY <1>2, <1>3
<1>5. PICK f : f = [k \in 0 .. Len(seq) |-> h[1 .. k]] OBVIOUS
<1>6. \A k \in 0 .. Len(seq) : 1 .. k \in SUBSET (1 .. Len(seq)) BY <1>1
<1>7. f \in [0 .. Len(seq) -> A] BY <1>4, <1>5, <1>6
<1>8. f[0] = base
  <2>1. 1 .. 0 = {} OBVIOUS
  <2> QED BY <1>1, <1>4, <1>5, <1>6, <2>1
<1>9. ASSUME NEW k \in 1 .. Len(seq) PROVE f[k] = F[<<f[k - 1], seq[k]>>]
  <2>1. k \in Nat /\ k - 1 \in 0 .. Len(seq) /\ k \in 0 .. Len(seq) BY <1>1
  <2>2. Max(1 .. k) = k BY <2>1, GreatestOfInitial
  <2>3. 1 .. k # {} /\ (1 .. k) \ {k} = 1 .. (k - 1)
    <3>1. k \in 1 .. k BY <1>1
    <3>2. \A i : i \in (1 .. k) \ {k} <=> i \in 1 .. (k - 1) BY <2>1
    <3> QED BY <3>1, <3>2
  <2>4. h[1 .. k] = F[<<h[1 .. (k - 1)], seq[k]>>] BY <1>4, <1>6, <2>1, <2>2, <2>3
  <2> QED BY <1>5, <2>1, <2>4
<1>10. f[Len(seq)] = h[1 .. Len(seq)] BY <1>1, <1>5
<1> QED BY <1>1, <1>4, <1>7, <1>8, <1>9, <1>10 DEF Folds

LEMMA DomainFinite ==
  ASSUME NEW B, NEW seq \in Seq(B)
  PROVE  IsFiniteSet(DOMAIN seq)
BY LenProperties, FS_Interval

\* A set of positions and the one before its last.
LEMMA LastOff ==
  ASSUME NEW B, NEW seq \in Seq(B), NEW s \in SUBSET (DOMAIN seq), s # {}
  PROVE  /\ Max(s) \in s /\ s \ {Max(s)} \in SUBSET (DOMAIN seq)
         /\ seq[Max(s)] \in B
<1>1. DOMAIN seq \subseteq Nat /\ \A i \in DOMAIN seq : seq[i] \in B BY LenProperties
<1>2. IsFiniteSet(s) BY DomainFinite, FS_Subset
<1>3. Max(s) \in s BY <1>1, <1>2, GreatestNumber
<1> QED BY <1>1, <1>3

LEMMA TokensFold ==
  ASSUME NEW s \in Seq(Item)
  PROVE  \E f \in [0 .. Len(s) -> Nat] :
           /\ f[0] = 0 /\ \A k \in DOMAIN s : f[k] = f[k - 1] + s[k].tokens
           /\ Tokens(s) = f[Len(s)]
<1>1. PICK F : F = [p \in Nat \X Item |-> p[1] + p[2].tokens] OBVIOUS
<1>2. F \in [Nat \X Item -> Nat] BY <1>1 DEF Item
<1>3. PICK h \in [SUBSET (DOMAIN s) -> Nat], f \in [0 .. Len(s) -> Nat] :
             Folds(F, 0, s, h, f)
  BY <1>2, FoldExists, Zenon
<1> DEFINE body(g) == [x \in SUBSET (DOMAIN s) |->
                         IF x = {} THEN 0 ELSE g[x \ {Max(x)}] + s[Max(x)].tokens]
           iter == CHOOSE g : g = body(g)
<1>4. ASSUME NEW x \in SUBSET (DOMAIN s), x # {}
      PROVE  h[x] = h[x \ {Max(x)}] + s[Max(x)].tokens
  <2>1. h[x] = F[<<h[x \ {Max(x)}], s[Max(x)]>>] BY <1>3, <1>4 DEF Folds
  <2>2. h[x \ {Max(x)}] \in Nat /\ s[Max(x)] \in Item BY <1>4, LastOff
  <2> QED BY <1>1, <2>1, <2>2
<1>5. h = body(h) BY <1>3, <1>4 DEF Folds
<1>6. iter = body(iter) BY <1>5
<1>7. Tokens(s) = iter[DOMAIN s] BY DEF Tokens, FoldLeft, MapThenFoldSet
<1>8. PICK g : g = iter OBVIOUS
<1>9. g = body(g) BY <1>6, <1>8
<1> HIDE DEF iter
<1> DEFINE P == {x \in SUBSET (DOMAIN s) : g[x] # h[x]}
<1>10. ASSUME P # {} PROVE FALSE
  <2>1. PICK x \in P : \A y \in x : x \ {y} \notin P
    <3>1. P \in SUBSET (SUBSET (DOMAIN s)) OBVIOUS
    <3> HIDE DEF P
    <3> QED BY <1>10, <3>1, DomainFinite, MinimalSet
  <2>2. x # {} BY <1>9, <1>5, <2>1
  <2>3. Max(x) \in x /\ x \ {Max(x)} \in SUBSET (DOMAIN s) BY <2>2, LastOff
  <2>4. g[x \ {Max(x)}] = h[x \ {Max(x)}] BY <2>1, <2>3
  <2>5. g[x] = g[x \ {Max(x)}] + s[Max(x)].tokens BY <1>9, <2>2
  <2> QED BY <1>4, <2>2, <2>4, <2>5
<1>11. Tokens(s) = h[DOMAIN s] BY <1>7, <1>8, <1>10
<1>12. ASSUME NEW k \in DOMAIN s PROVE f[k] = f[k - 1] + s[k].tokens
  <2>1. f[k] = F[<<f[k - 1], s[k]>>] BY <1>3 DEF Folds
  <2>2. k \in 1 .. Len(s) /\ Len(s) \in Nat /\ s[k] \in Item BY LenProperties
  <2>3. f[k - 1] \in Nat BY <2>2
  <2> QED BY <1>1, <2>1, <2>2, <2>3
<1> QED BY <1>3, <1>11, <1>12 DEF Folds

-----------------------------------------------------------------------------
(* Chunking: the tokens of a piece.                                        *)

\* P has the tokens of the first items, for each number of them.
Prefix(items, P) ==
  /\ P \in [0 .. Len(items) -> Nat]
  /\ P[0] = 0 /\ \A k \in 1 .. Len(items) : P[k] = P[k - 1] + items[k].tokens

LEMMA TokensTyped ==
  ASSUME NEW items \in Seq(Item)
  PROVE  Len(items) \in Nat /\ \A i \in 1 .. Len(items) : items[i].tokens \in Nat
<1>1. \A i \in 1 .. Len(items) : items[i] \in Item BY ElementOfSeq
<1>2. \A x \in Item : x.tokens \in Nat BY DEF Item
<1> QED BY <1>1, <1>2, LenProperties

LEMMA PrefixExists ==
  ASSUME NEW items \in Seq(Item)
  PROVE  \E P : Prefix(items, P)
BY TokensFold, LenProperties DEF Prefix

LEMMA PrefixGrows ==
  ASSUME NEW items \in Seq(Item), NEW P, Prefix(items, P),
         NEW k \in 0 .. Len(items), NEW m \in 0 .. Len(items), k <= m
  PROVE  P[k] <= P[m]
<1>1. Len(items) \in Nat /\ \A i \in 1 .. Len(items) : items[i].tokens \in Nat
  BY TokensTyped
<1> DEFINE T == {j \in 0 .. Len(items) : k <= j /\ P[j] < P[k]}
<1>2. ASSUME T # {} PROVE FALSE
  <2>1. PICK j \in T : \A i \in T : j <= i
    <3>1. T \in SUBSET Nat BY <1>1
    <3> HIDE DEF T
    <3> QED BY <1>2, <3>1, LeastNumber
  <2>2. j \in 0 .. Len(items) /\ k <= j /\ P[j] < P[k] BY <2>1
  <2>3. P[j] \in Nat /\ P[k] \in Nat BY <2>2 DEF Prefix
  <2>4. j # k BY <2>2, <2>3
  <2>5. j \in 1 .. Len(items) /\ j - 1 \in 0 .. Len(items) /\ k <= j - 1
    BY <1>1, <2>2, <2>4
  <2>6. P[j] = P[j - 1] + items[j].tokens BY <2>5 DEF Prefix
  <2>7. P[j - 1] \in Nat /\ items[j].tokens \in Nat BY <1>1, <2>5 DEF Prefix
  <2>8. P[j - 1] < P[k] BY <2>2, <2>3, <2>6, <2>7
  <2>9. j - 1 \in T BY <2>5, <2>8
  <2>10. j <= j - 1
    <3> HIDE DEF T
    <3> QED BY <2>1, <2>9
  <2> QED BY <1>1, <2>2, <2>10
<1>3. P[k] \in Nat /\ P[m] \in Nat BY DEF Prefix
<1> QED BY <1>2, <1>3

\* The items from a to b.
LEMMA PieceFacts ==
  ASSUME NEW items \in Seq(Item), NEW a \in 1 .. Len(items) + 1,
         NEW b \in a - 1 .. Len(items)
  PROVE  /\ SubSeq(items, a, b) \in Seq(Item)
         /\ Len(SubSeq(items, a, b)) = b - a + 1
         /\ DOMAIN SubSeq(items, a, b) = 1 .. b - a + 1
         /\ \A i \in 1 .. b - a + 1 : SubSeq(items, a, b)[i] = items[a + i - 1]
<1>1. Len(items) \in Nat /\ \A i \in 1 .. Len(items) : items[i] \in Item
  BY LenProperties
<1>2. a \in Int /\ b \in Int /\ \A i \in a .. b : items[i] \in Item BY <1>1
<1>3. /\ SubSeq(items, a, b) \in Seq(Item)
      /\ Len(SubSeq(items, a, b)) = IF a <= b THEN b - a + 1 ELSE 0
      /\ \A i \in 1 .. b - a + 1 : SubSeq(items, a, b)[i] = items[a + i - 1]
  BY <1>2, SubSeqProperties
<1>4. Len(SubSeq(items, a, b)) = b - a + 1 BY <1>1, <1>3
<1> QED BY <1>3, <1>4, LenProperties

LEMMA TokensOfPiece ==
  ASSUME NEW items \in Seq(Item), NEW P, Prefix(items, P),
         NEW a \in 1 .. Len(items) + 1, NEW b \in a - 1 .. Len(items)
  PROVE  Tokens(SubSeq(items, a, b)) = P[b] - P[a - 1]
<1>1. PICK s : s = SubSeq(items, a, b) OBVIOUS
<1>2. /\ s \in Seq(Item) /\ Len(s) = b - a + 1 /\ DOMAIN s = 1 .. b - a + 1
      /\ \A i \in 1 .. b - a + 1 : s[i] = items[a + i - 1]
  BY <1>1, PieceFacts
<1>3. PICK f \in [0 .. Len(s) -> Nat] :
        /\ f[0] = 0 /\ \A k \in DOMAIN s : f[k] = f[k - 1] + s[k].tokens
        /\ Tokens(s) = f[Len(s)]
  BY <1>2, TokensFold
<1>4. Len(items) \in Nat /\ \A i \in 1 .. Len(items) : items[i].tokens \in Nat
  BY TokensTyped
<1>5. a \in Nat /\ b \in Nat /\ a - 1 \in 0 .. Len(items) /\ Len(s) \in Nat
  BY <1>2, <1>4
<1>6. \A i \in 0 .. Len(s) : a - 1 + i \in 0 .. Len(items) BY <1>2, <1>4, <1>5
<1>7. \A i \in 0 .. Len(s) : P[a - 1 + i] \in Nat BY <1>6 DEF Prefix
<1> DEFINE T == {i \in 0 .. Len(s) : f[i] # P[a - 1 + i] - P[a - 1]}
<1>8. ASSUME T # {} PROVE FALSE
  <2>1. PICK j \in T : \A i \in T : j <= i
    <3>1. T \in SUBSET Nat BY <1>5
    <3> HIDE DEF T
    <3> QED BY <1>8, <3>1, LeastNumber
  <2>2. j \in 0 .. Len(s) /\ f[j] # P[a - 1 + j] - P[a - 1] BY <2>1
  <2>3. P[a - 1] \in Nat BY <1>5 DEF Prefix
  <2>4. j # 0
    <3>1. a - 1 + 0 = a - 1 BY <1>5
    <3> QED BY <1>3, <2>2, <2>3, <3>1
  <2>5. j \in 1 .. Len(s) /\ j - 1 \in 0 .. Len(s) BY <1>5, <2>2, <2>4
  <2>6. j - 1 \notin T
    <3> HIDE DEF T
    <3>1. ~ (j <= j - 1) BY <2>5
    <3> QED BY <2>1, <3>1
  <2>7. f[j - 1] = P[a - 1 + (j - 1)] - P[a - 1] BY <2>5, <2>6
  <2>8. f[j] = f[j - 1] + s[j].tokens BY <1>2, <1>3, <2>5
  <2>9. PICK k : k = a - 1 + j OBVIOUS
  <2>10. k \in 1 .. Len(items) /\ k - 1 = a - 1 + (j - 1) /\ k = a + j - 1
    BY <1>2, <1>4, <1>5, <2>5, <2>9
  <2>11. P[k] = P[k - 1] + items[k].tokens BY <2>10 DEF Prefix
  <2>12. s[j] = items[k] BY <1>2, <2>5, <2>10
  <2>13. P[k] \in Nat /\ P[k - 1] \in Nat /\ items[k].tokens \in Nat
    BY <1>4, <1>7, <2>5, <2>9, <2>10
  <2>14. f[j - 1] = P[k - 1] - P[a - 1] BY <2>7, <2>10
  <2>15. f[j] = (P[k - 1] - P[a - 1]) + items[k].tokens BY <2>8, <2>12, <2>14
  <2>16. f[j] = P[k] - P[a - 1]
    <3>1. PICK x, y, z : x = P[k - 1] /\ y = P[a - 1] /\ z = items[k].tokens OBVIOUS
    <3>2. x \in Nat /\ y \in Nat /\ z \in Nat BY <2>3, <2>13, <3>1
    <3>3. (x - y) + z = (x + z) - y BY <3>2
    <3> QED BY <2>11, <2>15, <3>1, <3>3
  <2> QED BY <2>2, <2>9, <2>16
<1>9. Len(s) \in 0 .. Len(s) /\ a - 1 + Len(s) = b BY <1>2, <1>5
<1>10. f[Len(s)] = P[a - 1 + Len(s)] - P[a - 1] BY <1>8, <1>9
<1> QED BY <1>1, <1>3, <1>9, <1>10

\* The overlap is the end of the buffer, all of it at most.
LEMMA OverlapTailFacts ==
  ASSUME NEW items \in Seq(Item), NEW n \in 1 .. Len(items), NEW a \in 1 .. n
  PROVE  \E b \in a .. n + 1 : OverlapTail(SubSeq(items, a, n)) = SubSeq(items, b, n)
<1>1. PICK s : s = SubSeq(items, a, n) OBVIOUS
<1>2. Len(items) \in Nat BY LenProperties
<1>3. a \in 1 .. Len(items) + 1 /\ n \in a - 1 .. Len(items) BY <1>2
<1>4. s \in Seq(Item) /\ Len(s) = n - a + 1 BY <1>1, <1>3, PieceFacts
<1> DEFINE Suffix(m) == SubSeq(s, Len(s) - m + 1, Len(s))
           enough == {m \in 0 .. Len(s) : 8 * Tokens(Suffix(m)) >= Tokens(s)}
<1>5. Len(s) \in enough
  <2>1. Suffix(Len(s)) = s
    <3>1. Len(s) - Len(s) + 1 = 1 BY <1>4, <1>2
    <3> QED BY <1>4, <3>1, SubSeqFull
  <2>2. Tokens(s) \in Nat
    <3>1. Len(s) \in 0 .. Len(s) BY <1>2, <1>4
    <3>2. PICK f \in [0 .. Len(s) -> Nat] : Tokens(s) = f[Len(s)] BY <1>4, TokensFold
    <3> QED BY <3>1, <3>2
  <2>3. 8 * Tokens(s) >= Tokens(s) BY <2>2
  <2>4. Len(s) \in 0 .. Len(s) BY <1>2, <1>4
  <2> QED BY <2>1, <2>3, <2>4
<1>6. PICK m : m = CHOOSE j \in enough : \A k \in enough : j <= k OBVIOUS
<1>7. m \in enough
  <2>1. enough \in SUBSET Nat BY <1>2, <1>4
  <2> HIDE DEF enough
  <2>2. \E k \in enough : \A j \in enough : k <= j BY <1>5, <2>1, LeastNumber
  <2> QED BY <1>6, <2>2
<1>8. OverlapTail(s) = Suffix(m) BY <1>6 DEF OverlapTail
<1>9. m \in 0 .. Len(s) BY <1>7
<1>10. PICK b : b = n - m + 1 OBVIOUS
<1>11. b \in a .. n + 1 BY <1>2, <1>3, <1>4, <1>9, <1>10
<1> HIDE DEF enough
<1>12. Suffix(m) = SubSeq(items, b, n)
  <2>1. PICK c, d : c = Len(s) - m + 1 /\ d = Len(s) OBVIOUS
  <2>2. c \in 1 .. Len(s) + 1 /\ d \in c - 1 .. Len(s) BY <1>2, <1>4, <1>9, <2>1
  <2>3. b \in 1 .. Len(items) + 1 /\ n \in b - 1 .. Len(items) BY <1>2, <1>3, <1>11
  <2>4. /\ SubSeq(s, c, d) \in Seq(Item) /\ Len(SubSeq(s, c, d)) = d - c + 1
        /\ \A i \in 1 .. d - c + 1 : SubSeq(s, c, d)[i] = s[c + i - 1]
    BY <1>4, <2>2, PieceFacts
  <2>5. /\ SubSeq(items, b, n) \in Seq(Item) /\ Len(SubSeq(items, b, n)) = n - b + 1
        /\ \A i \in 1 .. n - b + 1 : SubSeq(items, b, n)[i] = items[b + i - 1]
    BY <2>3, PieceFacts
  <2>6. d - c + 1 = n - b + 1 /\ n - b + 1 \in Nat
    BY <1>2, <1>3, <1>4, <1>9, <1>10, <2>1
  <2>7. ASSUME NEW i \in 1 .. n - b + 1
        PROVE  SubSeq(s, c, d)[i] = SubSeq(items, b, n)[i]
    <3>1. c + i - 1 \in 1 .. n - a + 1 /\ a + (c + i - 1) - 1 = b + i - 1
      BY <1>2, <1>3, <1>4, <1>9, <1>10, <2>1, <2>6
    <3>2. s[c + i - 1] = items[a + (c + i - 1) - 1] BY <1>1, <1>3, <3>1, PieceFacts
    <3> QED BY <2>4, <2>5, <2>6, <3>1, <3>2
  <2>8. SubSeq(s, c, d) = SubSeq(items, b, n) BY <2>4, <2>5, <2>6, <2>7, SeqEqual
  <2> QED BY <2>1, <2>8
<1> QED BY <1>1, <1>8, <1>11, <1>12

-----------------------------------------------------------------------------
(* Chunking: packing.                                                      *)

\* A chunk, as Chunk makes it.
Draft == [items : Seq(Item), path : Seq(Nat), pages : SUBSET Nat, tokens : Nat]

PackState == [buffer : Seq(Item), chunks : Seq(Draft)]

LEMMA PackStateTyped ==
  /\ \A acc \in PackState : acc.buffer \in Seq(Item) /\ acc.chunks \in Seq(Draft)
  /\ \A b \in Seq(Item), c \in Seq(Draft) : [buffer |-> b, chunks |-> c] \in PackState
BY DEF PackState

LEMMA ChunkTyped ==
  ASSUME NEW s \in Seq(Item), s # <<>>
  PROVE  Chunk(s) \in Draft /\ Chunk(s).items = s /\ Chunk(s).path = s[Len(s)].path
<1>1. Len(s) \in 1 .. Len(s) /\ DOMAIN s = 1 .. Len(s) BY LenProperties, EmptySeq
<1>2. \A i \in 1 .. Len(s) : s[i] \in Item BY ElementOfSeq
<1>3. \A x \in Item : x.path \in Seq(Nat) /\ x.page \in Nat BY DEF Item
<1>4. Last(s).path \in Seq(Nat) /\ Last(s) = s[Len(s)] BY <1>1, <1>2, <1>3 DEF Last
<1>5. Pages(s) \in SUBSET Nat BY <1>1, <1>2, <1>3 DEF Pages
<1>6. Tokens(s) \in Nat
  <2>1. PICK f \in [0 .. Len(s) -> Nat] : Tokens(s) = f[Len(s)] BY TokensFold
  <2>2. Len(s) \in 0 .. Len(s) BY <1>1
  <2> QED BY <2>1, <2>2
<1> QED BY <1>4, <1>5, <1>6 DEF Chunk, Draft

LEMMA FlushTyped ==
  ASSUME NEW b \in Seq(Item), NEW c \in Seq(Draft)
  PROVE  Flush(b, c) \in Seq(Draft)
BY ChunkTyped, AppendProperties DEF Flush

LEMMA OverlapTailTyped ==
  ASSUME NEW b \in Seq(Item), b # <<>>
  PROVE  OverlapTail(b) \in Seq(Item)
<1>1. Len(b) \in Nat /\ Len(b) # 0 /\ SubSeq(b, 1, Len(b)) = b
  BY EmptySeq, LenProperties, SubSeqFull
<1>2. Len(b) \in 1 .. Len(b) /\ 1 \in 1 .. Len(b) BY <1>1
<1>3. PICK c \in 1 .. Len(b) + 1 : OverlapTail(b) = SubSeq(b, c, Len(b))
  BY <1>1, <1>2, OverlapTailFacts
<1>4. Len(b) \in c - 1 .. Len(b) BY <1>1
<1> QED BY <1>3, <1>4, PieceFacts

\* The four ways through one turn of the loop.
LEMMA PackCases ==
  ASSUME NEW acc \in PackState, NEW item \in Item
  PROVE  \E b1 \in Seq(Item), c1 \in Seq(Draft), b2 \in Seq(Item), c2 \in Seq(Draft) :
           /\ \/ b1 = <<>> /\ item.opens /\ c1 = Flush(acc.buffer, acc.chunks)
              \/ b1 = acc.buffer /\ c1 = acc.chunks /\ (item.opens => b1 = <<>>)
           /\ \/ /\ b1 # <<>> /\ b2 = Append(OverlapTail(b1), item) /\ c2 = Flush(b1, c1)
              \/ /\ b2 = Append(b1, item) /\ c2 = c1
                 /\ b1 = <<>> \/ Tokens(b1) + item.tokens <= HardMaxTokens
           /\ Pack(acc, item) \in PackState
           /\ \/ /\ item.table
                 /\ Pack(acc, item) =
                      [buffer |-> <<>>,
                       chunks |-> Append(Flush(acc.buffer, acc.chunks), Chunk(<<item>>))]
              \/ /\ ~ item.table
                 /\ \/ Pack(acc, item) = [buffer |-> OverlapTail(b2),
                                          chunks |-> Flush(b2, c2)]
                    \/ Pack(acc, item) = [buffer |-> b2, chunks |-> c2]
<1> DEFINE closes == item.opens /\ acc.buffer # <<>>
           b1 == IF closes THEN <<>> ELSE acc.buffer
           c1 == IF closes THEN Flush(acc.buffer, acc.chunks) ELSE acc.chunks
           full == b1 # <<>> /\ Tokens(b1) + item.tokens > HardMaxTokens
           b2 == Append(IF full THEN OverlapTail(b1) ELSE b1, item)
           c2 == IF full THEN Flush(b1, c1) ELSE c1
<1>1. acc.buffer \in Seq(Item) /\ acc.chunks \in Seq(Draft) BY PackStateTyped
<1>2. b1 \in Seq(Item) /\ c1 \in Seq(Draft) BY <1>1, FlushTyped, EmptySeq
<1>3. (IF full THEN OverlapTail(b1) ELSE b1) \in Seq(Item) /\ c2 \in Seq(Draft)
  BY <1>2, FlushTyped, OverlapTailTyped
<1>4. b2 \in Seq(Item) /\ b2 # <<>> BY <1>3, AppendProperties
<1>5. OverlapTail(b2) \in Seq(Item) /\ Flush(b2, c2) \in Seq(Draft)
  BY <1>3, <1>4, FlushTyped, OverlapTailTyped
<1>6. Append(Flush(acc.buffer, acc.chunks), Chunk(<<item>>)) \in Seq(Draft)
  <2>1. <<item>> \in Seq(Item) /\ <<item>> # <<>> OBVIOUS
  <2> QED BY <1>1, <2>1, FlushTyped, ChunkTyped, AppendProperties
<1>7. Pack(acc, item) =
        IF item.table
          THEN [buffer |-> <<>>,
                chunks |-> Append(Flush(acc.buffer, acc.chunks), Chunk(<<item>>))]
          ELSE IF Tokens(b2) >= TargetTokens
            THEN [buffer |-> OverlapTail(b2), chunks |-> Flush(b2, c2)]
            ELSE [buffer |-> b2, chunks |-> c2]
  BY DEF Pack
<1>8. <<>> \in Seq(Item) BY EmptySeq
<1>9. Pack(acc, item) \in PackState
  BY <1>3, <1>4, <1>5, <1>6, <1>7, <1>8, PackStateTyped
<1>10. \/ b1 = <<>> /\ item.opens /\ c1 = Flush(acc.buffer, acc.chunks)
       \/ b1 = acc.buffer /\ c1 = acc.chunks /\ (item.opens => b1 = <<>>)
  OBVIOUS
<1>11. full \/ b1 = <<>> \/ Tokens(b1) + item.tokens <= HardMaxTokens
  <2>1. Tokens(b1) \in Nat
    <3>1. PICK f \in [0 .. Len(b1) -> Nat] : Tokens(b1) = f[Len(b1)] BY <1>2, TokensFold
    <3>2. Len(b1) \in 0 .. Len(b1) BY <1>2, LenProperties
    <3> QED BY <3>1, <3>2
  <2>2. item.tokens \in Nat /\ HardMaxTokens \in Nat
    BY ChunkingAssumption DEF Item, ChunkingAssumption
  <2> QED BY <2>1, <2>2
<1>12. \/ /\ b1 # <<>> /\ b2 = Append(OverlapTail(b1), item) /\ c2 = Flush(b1, c1)
       \/ /\ b2 = Append(b1, item) /\ c2 = c1
          /\ b1 = <<>> \/ Tokens(b1) + item.tokens <= HardMaxTokens
  BY <1>11
<1>13. \/ /\ item.table
          /\ Pack(acc, item) =
               [buffer |-> <<>>,
                chunks |-> Append(Flush(acc.buffer, acc.chunks), Chunk(<<item>>))]
       \/ /\ ~ item.table
          /\ \/ Pack(acc, item) = [buffer |-> OverlapTail(b2), chunks |-> Flush(b2, c2)]
             \/ Pack(acc, item) = [buffer |-> b2, chunks |-> c2]
  BY <1>7
<1> HIDE DEF b1, c1, b2, c2
<1> QED BY <1>2, <1>3, <1>4, <1>9, <1>10, <1>12, <1>13

LEMMA PackFold ==
  ASSUME NEW items \in Seq(Item)
  PROVE  \E f \in [0 .. Len(items) -> PackState] :
           /\ f[0] = [buffer |-> <<>>, chunks |-> <<>>]
           /\ \A k \in DOMAIN items : f[k] = Pack(f[k - 1], items[k])
           /\ FoldLeft(Pack, [buffer |-> <<>>, chunks |-> <<>>], items) = f[Len(items)]
<1>1. PICK base : base = [buffer |-> <<>>, chunks |-> <<>>] OBVIOUS
<1>2. base \in PackState BY <1>1, PackStateTyped, EmptySeq
<1>3. PICK F : F = [p \in PackState \X Item |-> Pack(p[1], p[2])] OBVIOUS
<1>4. \A acc \in PackState, x \in Item : Pack(acc, x) \in PackState BY PackCases
<1>5. F \in [PackState \X Item -> PackState] BY <1>3, <1>4
<1>6. PICK h \in [SUBSET (DOMAIN items) -> PackState], f \in [0 .. Len(items) -> PackState] :
             Folds(F, base, items, h, f)
  BY <1>2, <1>5, FoldExists, Zenon
<1> DEFINE body(g) == [x \in SUBSET (DOMAIN items) |->
                         IF x = {} THEN base ELSE Pack(g[x \ {Max(x)}], items[Max(x)])]
           iter == CHOOSE g : g = body(g)
<1>7. ASSUME NEW x \in SUBSET (DOMAIN items), x # {}
      PROVE  h[x] = Pack(h[x \ {Max(x)}], items[Max(x)])
  <2>1. h[x] = F[<<h[x \ {Max(x)}], items[Max(x)]>>] BY <1>6, <1>7 DEF Folds
  <2>2. h[x \ {Max(x)}] \in PackState /\ items[Max(x)] \in Item BY <1>7, LastOff
  <2> QED BY <1>3, <2>1, <2>2
<1>8. h = body(h) BY <1>6, <1>7 DEF Folds
<1>9. iter = body(iter) BY <1>8
<1>10. FoldLeft(Pack, base, items) = iter[DOMAIN items] BY DEF FoldLeft, MapThenFoldSet
<1>11. PICK g : g = iter OBVIOUS
<1>12. g = body(g) BY <1>9, <1>11
<1> HIDE DEF iter
<1> DEFINE T == {x \in SUBSET (DOMAIN items) : g[x] # h[x]}
<1>13. ASSUME T # {} PROVE FALSE
  <2>1. PICK x \in T : \A y \in x : x \ {y} \notin T
    <3>1. T \in SUBSET (SUBSET (DOMAIN items)) OBVIOUS
    <3> HIDE DEF T
    <3> QED BY <1>13, <3>1, DomainFinite, MinimalSet
  <2>2. x # {} BY <1>8, <1>12, <2>1
  <2>3. Max(x) \in x /\ x \ {Max(x)} \in SUBSET (DOMAIN items) BY <2>2, LastOff
  <2>4. g[x \ {Max(x)}] = h[x \ {Max(x)}] BY <2>1, <2>3
  <2>5. g[x] = Pack(g[x \ {Max(x)}], items[Max(x)]) BY <1>12, <2>2
  <2> QED BY <1>7, <2>2, <2>4, <2>5
<1>14. FoldLeft(Pack, base, items) = h[DOMAIN items] BY <1>10, <1>11, <1>13
<1>15. ASSUME NEW k \in DOMAIN items PROVE f[k] = Pack(f[k - 1], items[k])
  <2>1. f[k] = F[<<f[k - 1], items[k]>>] BY <1>6 DEF Folds
  <2>2. k \in 1 .. Len(items) /\ Len(items) \in Nat /\ items[k] \in Item BY LenProperties
  <2>3. f[k - 1] \in PackState BY <2>2
  <2> QED BY <1>3, <2>1, <2>2, <2>3
<1> QED BY <1>1, <1>6, <1>14, <1>15 DEF Folds

\* After n items, e of which are in the chunks, the chunks are pieces of the
\* items, from lo to hi, and the buffer is the items from a on.
Spans(items, P, n, e, a, chunks, lo, hi) ==
  /\ e \in 0 .. n /\ a \in 1 .. e + 1
  /\ e = IF chunks = <<>> THEN 0 ELSE hi[Len(chunks)]
  /\ chunks # <<>> => lo[Len(chunks)] <= a
  /\ \A c \in DOMAIN chunks :
       /\ lo[c] <= hi[c] /\ chunks[c] = Chunk(SubSeq(items, lo[c], hi[c]))
       /\ c = 1 => lo[c] = 1
       /\ c > 1 => lo[c - 1] <= lo[c] /\ lo[c] <= hi[c - 1] + 1 /\ hi[c - 1] <= hi[c]
       /\ \A i \in lo[c] .. hi[c] : /\ items[i].opens => i = lo[c]
                                    /\ items[i].table => lo[c] = hi[c]
       /\ \A k \in lo[c] .. hi[c] - 1 :
            c = 1 \/ k > hi[c - 1] => P[hi[c]] - P[k - 1] <= HardMaxTokens
  /\ \A i \in a .. n : (items[i].opens => i = a) /\ ~ items[i].table
  /\ \A k \in a .. n - 1 : k > e => P[n] - P[k - 1] <= HardMaxTokens

PackedTo(items, P, n, e, a, chunks) ==
  \E lo, hi \in [DOMAIN chunks -> 1 .. n] : Spans(items, P, n, e, a, chunks, lo, hi)

\* One more chunk, from x to y.
LEMMA OneMoreSpan ==
  ASSUME NEW items \in Seq(Item), NEW P, NEW chunks \in Seq(Draft),
         NEW n \in 0 .. Len(items), NEW e, NEW a, NEW lo \in [DOMAIN chunks -> 1 .. n],
         NEW hi \in [DOMAIN chunks -> 1 .. n], Spans(items, P, n, e, a, chunks, lo, hi),
         NEW m \in n .. Len(items), NEW x \in 1 .. m, NEW y \in x .. m,
         NEW draft \in Draft, draft = Chunk(SubSeq(items, x, y)),
         a <= x, x <= e + 1, e <= y,
         \A i \in x .. y : (items[i].opens => i = x) /\ (items[i].table => x = y),
         \A k \in x .. y - 1 : k > e => P[y] - P[k - 1] <= HardMaxTokens,
         NEW b \in x .. y + 1,
         \A i \in b .. m : (items[i].opens => i = b) /\ ~ items[i].table,
         y = m
  PROVE  PackedTo(items, P, m, y, b, Append(chunks, draft))
<1>1. PICK c1 : c1 = Append(chunks, draft) OBVIOUS
<1>2. PICK z : z = Len(chunks) OBVIOUS
<1>3. /\ z \in Nat /\ DOMAIN chunks = 1 .. z /\ c1 \in Seq(Draft) /\ c1 # <<>>
      /\ Len(c1) = z + 1 /\ DOMAIN c1 = 1 .. z + 1
      /\ \A c \in 1 .. z : c1[c] = chunks[c]
      /\ c1[z + 1] = draft
  BY <1>1, <1>2, LenProperties, AppendProperties
<1>4. n \in Nat /\ m \in Nat /\ x \in Nat /\ y \in Nat /\ n <= m /\ e \in Nat /\ a \in Nat
  BY LenProperties DEF Spans
<1>5. PICK lo1, hi1 : /\ lo1 = [c \in 1 .. z + 1 |-> IF c = z + 1 THEN x ELSE lo[c]]
                      /\ hi1 = [c \in 1 .. z + 1 |-> IF c = z + 1 THEN y ELSE hi[c]]
  OBVIOUS
<1>6. \A c \in 1 .. z : lo[c] \in 1 .. n /\ hi[c] \in 1 .. n BY <1>3
<1>7. lo1 \in [DOMAIN c1 -> 1 .. m] /\ hi1 \in [DOMAIN c1 -> 1 .. m]
  <2>1. ASSUME NEW c \in 1 .. z + 1 PROVE lo1[c] \in 1 .. m /\ hi1[c] \in 1 .. m
    <3>1. c = z + 1 \/ c \in 1 .. z BY <1>3
    <3>2. CASE c = z + 1 BY <1>4, <1>5, <3>2
    <3>3. CASE c \in 1 .. z
      <4>1. c # z + 1 BY <1>3, <3>3
      <4>2. lo1[c] = lo[c] /\ hi1[c] = hi[c] BY <1>5, <4>1
      <4> QED BY <1>4, <1>6, <3>3, <4>2
    <3> QED BY <3>1, <3>2, <3>3
  <2> QED BY <1>3, <1>5, <2>1
<1>8. lo1[z + 1] = x /\ hi1[z + 1] = y BY <1>3, <1>5
<1>9. \A c \in 1 .. z : lo1[c] = lo[c] /\ hi1[c] = hi[c] BY <1>3, <1>5
<1>10. z > 0 => /\ z \in 1 .. z /\ hi[z] = e /\ lo[z] <= a
                /\ z + 1 - 1 = z
  <2>1. HAVE z > 0
  <2>2. chunks # <<>> BY <1>2, <2>1, EmptySeq
  <2> QED BY <1>2, <1>3, <2>1, <2>2 DEF Spans
<1>11. z = 0 => e = 0
  <2>1. HAVE z = 0
  <2>2. chunks = <<>> BY <1>2, <2>1, EmptySeq
  <2> QED BY <2>2 DEF Spans
<1>12. y \in 0 .. m /\ b \in 1 .. y + 1 BY <1>4
<1>13. y = IF c1 = <<>> THEN 0 ELSE hi1[Len(c1)] BY <1>3, <1>8
<1>14. c1 # <<>> => lo1[Len(c1)] <= b BY <1>3, <1>4, <1>8
<1>15. ASSUME NEW c \in DOMAIN c1
       PROVE  /\ lo1[c] <= hi1[c] /\ c1[c] = Chunk(SubSeq(items, lo1[c], hi1[c]))
              /\ c = 1 => lo1[c] = 1
              /\ c > 1 => /\ lo1[c - 1] <= lo1[c] /\ lo1[c] <= hi1[c - 1] + 1
                          /\ hi1[c - 1] <= hi1[c]
              /\ \A i \in lo1[c] .. hi1[c] : /\ items[i].opens => i = lo1[c]
                                             /\ items[i].table => lo1[c] = hi1[c]
              /\ \A k \in lo1[c] .. hi1[c] - 1 :
                   c = 1 \/ k > hi1[c - 1] => P[hi1[c]] - P[k - 1] <= HardMaxTokens
  <2>1. CASE c = z + 1
    <3>1. z = 0 => x = 1 BY <1>4, <1>11
    <3>2. z > 0 => hi1[c - 1] = e /\ lo1[c - 1] <= a /\ lo1[c - 1] \in Nat
      <4>1. HAVE z > 0
      <4>2. c - 1 = z BY <1>3, <2>1
      <4> QED BY <1>6, <1>9, <1>10, <4>1, <4>2
    <3>3. c > 1 <=> z > 0 BY <1>3, <2>1
    <3>4. c1[c] = Chunk(SubSeq(items, lo1[c], hi1[c])) BY <1>3, <1>8, <2>1
    <3>5. lo1[c] = x /\ hi1[c] = y BY <1>8, <2>1
    <3>6. c > 1 => /\ lo1[c - 1] <= lo1[c] /\ lo1[c] <= hi1[c - 1] + 1
                   /\ hi1[c - 1] <= hi1[c]
      BY <1>4, <3>2, <3>3, <3>5
    <3>7. \A k \in x .. y - 1 :
            c = 1 \/ k > hi1[c - 1] => P[y] - P[k - 1] <= HardMaxTokens
      <4> TAKE k \in x .. y - 1
      <4>1. c = 1 \/ k > hi1[c - 1] => k > e
        <5>1. CASE z = 0 BY <1>4, <1>11, <5>1
        <5>2. CASE z > 0 BY <1>3, <2>1, <3>2, <5>2
        <5> QED BY <1>3, <5>1, <5>2
      <4> QED BY <4>1
    <3>8. c = 1 => lo1[c] = 1 BY <1>3, <2>1, <3>1, <3>5
    <3>9. lo1[c] <= hi1[c] BY <1>4, <3>5
    <3> QED BY <3>4, <3>5, <3>6, <3>7, <3>8, <3>9
  <2>2. CASE c # z + 1
    <3>1. c \in 1 .. z /\ c \in DOMAIN chunks BY <1>3, <2>2
    <3>2. lo1[c] = lo[c] /\ hi1[c] = hi[c] /\ c1[c] = chunks[c] BY <1>3, <1>9, <3>1
    <3>3. c > 1 => lo1[c - 1] = lo[c - 1] /\ hi1[c - 1] = hi[c - 1]
      <4>1. HAVE c > 1
      <4>2. c - 1 \in 1 .. z BY <1>3, <3>1, <4>1
      <4> QED BY <1>9, <4>2
    <3>4. c = 1 \/ c > 1 BY <1>3, <3>1
    <3>5. /\ lo[c] <= hi[c] /\ chunks[c] = Chunk(SubSeq(items, lo[c], hi[c]))
          /\ c = 1 => lo[c] = 1
          /\ c > 1 => lo[c - 1] <= lo[c] /\ lo[c] <= hi[c - 1] + 1 /\ hi[c - 1] <= hi[c]
          /\ \A i \in lo[c] .. hi[c] : /\ items[i].opens => i = lo[c]
                                       /\ items[i].table => lo[c] = hi[c]
          /\ \A k \in lo[c] .. hi[c] - 1 :
               c = 1 \/ k > hi[c - 1] => P[hi[c]] - P[k - 1] <= HardMaxTokens
      BY <3>1 DEF Spans
    <3> QED BY <3>2, <3>3, <3>4, <3>5
  <2> QED BY <2>1, <2>2
<1>16. \A k \in b .. m - 1 : k > y => P[m] - P[k - 1] <= HardMaxTokens BY <1>4
<1>17. Spans(items, P, m, y, b, c1, lo1, hi1)
  BY <1>12, <1>13, <1>14, <1>15, <1>16 DEF Spans
<1> QED BY <1>1, <1>7, <1>17 DEF PackedTo

LEMMA Flushed ==
  ASSUME NEW items \in Seq(Item), NEW P, NEW chunks \in Seq(Draft),
         NEW n \in 0 .. Len(items), NEW e, NEW a, PackedTo(items, P, n, e, a, chunks),
         a <= n, NEW b \in a .. n + 1
  PROVE  PackedTo(items, P, n, n, b, Append(chunks, Chunk(SubSeq(items, a, n))))
<1>1. PICK lo \in [DOMAIN chunks -> 1 .. n], hi \in [DOMAIN chunks -> 1 .. n] :
             Spans(items, P, n, e, a, chunks, lo, hi)
  BY DEF PackedTo
<1>2. e \in 0 .. n /\ a \in 1 .. e + 1 /\ Len(items) \in Nat
  BY <1>1, LenProperties DEF Spans
<1>3. /\ n \in n .. Len(items) /\ a \in 1 .. n /\ n \in a .. n /\ a <= a /\ a <= e + 1
      /\ e <= n /\ n \in a - 1 .. Len(items) /\ a \in 1 .. Len(items) + 1
  BY <1>2
<1>4. SubSeq(items, a, n) \in Seq(Item) /\ SubSeq(items, a, n) # <<>>
  <2>1. Len(SubSeq(items, a, n)) = n - a + 1 /\ SubSeq(items, a, n) \in Seq(Item)
    BY <1>3, PieceFacts
  <2>2. n - a + 1 # 0 BY <1>3
  <2> QED BY <2>1, <2>2, EmptySeq
<1>5. Chunk(SubSeq(items, a, n)) \in Draft BY <1>4, ChunkTyped
<1>6. /\ \A i \in a .. n : (items[i].opens => i = a) /\ ~ items[i].table
      /\ \A k \in a .. n - 1 : k > e => P[n] - P[k - 1] <= HardMaxTokens
  BY <1>1 DEF Spans
<1>7. \A i \in b .. n : (items[i].opens => i = b) /\ ~ items[i].table
  BY <1>3, <1>6
<1> QED BY <1>1, <1>3, <1>5, <1>6, <1>7, OneMoreSpan

LEMMA Added ==
  ASSUME NEW items \in Seq(Item), NEW P, Prefix(items, P), NEW chunks \in Seq(Draft),
         NEW n \in 0 .. Len(items) - 1, NEW e, NEW a, PackedTo(items, P, n, e, a, chunks),
         ~ items[n + 1].table, items[n + 1].opens => a = n + 1,
         e = n \/ P[n + 1] - P[a - 1] <= HardMaxTokens
  PROVE  PackedTo(items, P, n + 1, e, a, chunks)
<1>1. PICK lo \in [DOMAIN chunks -> 1 .. n], hi \in [DOMAIN chunks -> 1 .. n] :
             Spans(items, P, n, e, a, chunks, lo, hi)
  BY DEF PackedTo
<1>2. e \in 0 .. n /\ a \in 1 .. e + 1 /\ Len(items) \in Nat
  BY <1>1, LenProperties DEF Spans
<1>3. e \in 0 .. n + 1 BY <1>2
<1>4. \A i \in a .. n + 1 : (items[i].opens => i = a) /\ ~ items[i].table
  <2> TAKE i \in a .. n + 1
  <2>1. i = n + 1 \/ i \in a .. n BY <1>2
  <2> QED BY <1>1, <1>2, <2>1 DEF Spans
<1>5. \A k \in a .. (n + 1) - 1 : k > e => P[n + 1] - P[k - 1] <= HardMaxTokens
  <2> TAKE k \in a .. (n + 1) - 1
  <2>1. HAVE k > e
  <2>2. k \in Nat /\ n \in Nat /\ k <= n /\ e # n BY <1>2, <2>1
  <2>3. P[n + 1] - P[a - 1] <= HardMaxTokens BY <2>2
  <2>4. a - 1 \in 0 .. Len(items) /\ k - 1 \in 0 .. Len(items) /\ a - 1 <= k - 1
    BY <1>2, <2>2
  <2>5. P[a - 1] <= P[k - 1] BY <2>4, PrefixGrows
  <2>6. n + 1 \in 0 .. Len(items) BY <1>2
  <2>7. P[a - 1] \in Nat /\ P[k - 1] \in Nat /\ P[n + 1] \in Nat
    BY <2>4, <2>6 DEF Prefix
  <2>8. HardMaxTokens \in Nat BY ChunkingAssumption DEF ChunkingAssumption
  <2> QED BY <2>3, <2>5, <2>7, <2>8
<1>6. lo \in [DOMAIN chunks -> 1 .. n + 1] /\ hi \in [DOMAIN chunks -> 1 .. n + 1]
  <2>1. 1 .. n \subseteq 1 .. n + 1 BY <1>2
  <2> QED BY <2>1
<1>7. Spans(items, P, n + 1, e, a, chunks, lo, hi)
  BY <1>1, <1>2, <1>3, <1>4, <1>5 DEF Spans
<1> QED BY <1>6, <1>7 DEF PackedTo

LEMMA Tabled ==
  ASSUME NEW items \in Seq(Item), NEW P, NEW chunks \in Seq(Draft),
         NEW n \in 0 .. Len(items) - 1, PackedTo(items, P, n, n, n + 1, chunks)
  PROVE  PackedTo(items, P, n + 1, n + 1, n + 2,
                  Append(chunks, Chunk(<<items[n + 1]>>)))
<1>1. PICK lo \in [DOMAIN chunks -> 1 .. n], hi \in [DOMAIN chunks -> 1 .. n] :
             Spans(items, P, n, n, n + 1, chunks, lo, hi)
  BY DEF PackedTo
<1>2. Len(items) \in Nat BY LenProperties
<1>3. /\ n \in 0 .. Len(items) /\ n + 1 \in n .. Len(items) /\ n + 1 \in 1 .. n + 1
      /\ n + 1 \in n + 1 .. n + 1 /\ n + 2 \in n + 1 .. n + 1 + 1
      /\ n + 1 \in 1 .. Len(items) /\ n \in Nat
      /\ n + 1 <= n + 1 /\ n <= n + 1 /\ n + 1 - (n + 1) + 1 = 1
  BY <1>2
<1>4. PICK s : s = SubSeq(items, n + 1, n + 1) OBVIOUS
<1>5. s = <<items[n + 1]>>
  <2>1. n + 1 \in 1 .. Len(items) + 1 /\ n + 1 \in (n + 1) - 1 .. Len(items)
    BY <1>2, <1>3
  <2>2. /\ s \in Seq(Item) /\ Len(s) = 1
        /\ \A i \in 1 .. 1 : s[i] = items[n + 1 + i - 1]
    BY <1>3, <1>4, <2>1, PieceFacts
  <2>3. s[1] = items[n + 1]
    <3>1. 1 \in 1 .. 1 /\ n + 1 + 1 - 1 = n + 1 BY <1>3
    <3> QED BY <2>2, <3>1
  <2>4. items[n + 1] \in Item BY <1>3, ElementOfSeq
  <2> QED BY <2>2, <2>3, <2>4
<1>6. Chunk(s) \in Draft
  <2>1. items[n + 1] \in Item BY <1>3, ElementOfSeq
  <2>2. s \in Seq(Item) /\ s # <<>> BY <1>5, <2>1
  <2> QED BY <2>2, ChunkTyped
<1>7. /\ \A i \in n + 1 .. n + 1 : (items[i].opens => i = n + 1)
                                 /\ (items[i].table => n + 1 = n + 1)
      /\ \A k \in n + 1 .. (n + 1) - 1 :
           k > n => P[n + 1] - P[k - 1] <= HardMaxTokens
      /\ \A i \in n + 2 .. n + 1 : (items[i].opens => i = n + 2) /\ ~ items[i].table
  BY <1>3
<1>8. PICK x, draft, b : x = n + 1 /\ draft = Chunk(s) /\ b = n + 2 OBVIOUS
<1>9. PackedTo(items, P, x, x, b, Append(chunks, draft))
  <2>1. /\ x \in n .. Len(items) /\ x \in 1 .. x /\ x \in x .. x /\ b \in x .. x + 1
        /\ draft \in Draft /\ draft = Chunk(SubSeq(items, x, x))
        /\ n + 1 <= x /\ x <= n + 1 /\ n <= x
    BY <1>3, <1>4, <1>6, <1>8
  <2>2. /\ \A i \in x .. x : (items[i].opens => i = x) /\ (items[i].table => x = x)
        /\ \A k \in x .. x - 1 : k > n => P[x] - P[k - 1] <= HardMaxTokens
        /\ \A i \in b .. x : (items[i].opens => i = b) /\ ~ items[i].table
    BY <1>7, <1>8
  <2> QED BY <1>1, <1>3, <2>1, <2>2, OneMoreSpan
<1> QED BY <1>5, <1>8, <1>9

LEMMA PieceGrows ==
  ASSUME NEW items \in Seq(Item), NEW n \in 0 .. Len(items) - 1, NEW a \in 1 .. n + 1
  PROVE  Append(SubSeq(items, a, n), items[n + 1]) = SubSeq(items, a, n + 1)
<1>1. Len(items) \in Nat BY LenProperties
<1>2. /\ a \in 1 .. Len(items) + 1 /\ n \in a - 1 .. Len(items)
      /\ n + 1 \in a - 1 .. Len(items) /\ n + 1 \in 1 .. Len(items)
  BY <1>1
<1>3. PICK s, m, t : s = SubSeq(items, a, n) /\ m = n - a + 1 /\ t = SubSeq(items, a, n + 1)
  OBVIOUS
<1>4. /\ s \in Seq(Item) /\ Len(s) = m /\ \A i \in 1 .. m : s[i] = items[a + i - 1]
      /\ m \in Nat
  BY <1>1, <1>2, <1>3, PieceFacts
<1>5. /\ t \in Seq(Item) /\ Len(t) = m + 1
      /\ \A i \in 1 .. m + 1 : t[i] = items[a + i - 1]
  <2>1. n + 1 - a + 1 = m + 1 BY <1>1, <1>3
  <2> QED BY <1>2, <1>3, <2>1, PieceFacts
<1>6. PICK x : x = items[n + 1] OBVIOUS
<1>7. x \in Item BY <1>2, <1>6, ElementOfSeq
<1>8. /\ Append(s, x) \in Seq(Item) /\ Len(Append(s, x)) = m + 1
      /\ \A i \in 1 .. m : Append(s, x)[i] = s[i]
      /\ Append(s, x)[m + 1] = x
  BY <1>4, <1>7, AppendProperties
<1>9. ASSUME NEW i \in 1 .. m + 1 PROVE Append(s, x)[i] = t[i]
  <2>1. CASE i = m + 1
    <3>1. a + i - 1 = n + 1 BY <1>1, <1>3, <2>1
    <3> QED BY <1>5, <1>6, <1>8, <2>1, <3>1
  <2>2. CASE i # m + 1
    <3>1. i \in 1 .. m BY <1>4, <2>2
    <3> QED BY <1>4, <1>5, <1>8, <3>1
  <2> QED BY <2>1, <2>2
<1>10. Append(s, x) = t BY <1>5, <1>8, <1>9, SeqEqual
<1> QED BY <1>3, <1>6, <1>10

\* The state of the loop after n items.
Packed(items, P, n, e, a, acc) ==
  /\ acc \in PackState
  /\ acc.buffer = SubSeq(items, a, n) /\ PackedTo(items, P, n, e, a, acc.chunks)

\* Where the buffer starts.
Bounds(items, n, e, a) ==
  /\ n \in Nat /\ Len(items) \in Nat /\ e \in 0 .. n /\ a \in 1 .. e + 1
  /\ a \in 1 .. Len(items) + 1 /\ n \in a - 1 .. Len(items)
  /\ SubSeq(items, a, n) \in Seq(Item)
  /\ SubSeq(items, a, n) = <<>> <=> a = n + 1

LEMMA BoundsOfPacked ==
  ASSUME NEW items \in Seq(Item), NEW P, NEW chunks, NEW n \in 0 .. Len(items), NEW e, NEW a,
         PackedTo(items, P, n, e, a, chunks)
  PROVE  Bounds(items, n, e, a)
<1>1. Len(items) \in Nat /\ n \in Nat BY LenProperties
<1>2. e \in 0 .. n /\ a \in 1 .. e + 1 BY DEF PackedTo, Spans
<1>3. a \in 1 .. Len(items) + 1 /\ n \in a - 1 .. Len(items) BY <1>1, <1>2
<1>4. SubSeq(items, a, n) \in Seq(Item) /\ Len(SubSeq(items, a, n)) = n - a + 1
  BY <1>3, PieceFacts
<1>5. n - a + 1 = 0 <=> a = n + 1 BY <1>1, <1>2
<1> QED BY <1>1, <1>2, <1>3, <1>4, <1>5, EmptySeq DEF Bounds

LEMMA FlushPacked ==
  ASSUME NEW items \in Seq(Item), NEW P, NEW chunks \in Seq(Draft),
         NEW n \in 0 .. Len(items), NEW e, NEW a, PackedTo(items, P, n, e, a, chunks)
  PROVE  PackedTo(items, P, n, n, n + 1, Flush(SubSeq(items, a, n), chunks))
<1>0. Bounds(items, n, e, a) BY BoundsOfPacked
<1>1. /\ n \in Nat /\ e \in 0 .. n /\ a \in 1 .. e + 1
      /\ SubSeq(items, a, n) = <<>> <=> a = n + 1
  BY <1>0, Zenon DEF Bounds
<1>2. CASE a = n + 1
  <2>1. e = n BY <1>1, <1>2
  <2>2. Flush(SubSeq(items, a, n), chunks) = chunks BY <1>1, <1>2 DEF Flush
  <2> QED BY <1>2, <2>1, <2>2
<1>3. CASE a # n + 1
  <2>1. a <= n /\ n + 1 \in a .. n + 1 BY <1>1, <1>3
  <2>2. Flush(SubSeq(items, a, n), chunks) = Append(chunks, Chunk(SubSeq(items, a, n)))
    BY <1>1, <1>3 DEF Flush
  <2> QED BY <2>1, <2>2, Flushed
<1> QED BY <1>2, <1>3

\* A full buffer leaves a chunk and the overlap.
LEMMA OverlapPacked ==
  ASSUME NEW items \in Seq(Item), NEW P, NEW chunks \in Seq(Draft),
         NEW n \in 0 .. Len(items), NEW e, NEW a, PackedTo(items, P, n, e, a, chunks),
         SubSeq(items, a, n) # <<>>
  PROVE  \E b \in 1 .. n + 1 :
           /\ OverlapTail(SubSeq(items, a, n)) = SubSeq(items, b, n)
           /\ PackedTo(items, P, n, n, b, Flush(SubSeq(items, a, n), chunks))
<1>0. Bounds(items, n, e, a) BY BoundsOfPacked
<1>t. /\ n \in Nat /\ Len(items) \in Nat /\ e \in 0 .. n /\ a \in 1 .. e + 1
      /\ SubSeq(items, a, n) = <<>> <=> a = n + 1
  BY <1>0, Zenon DEF Bounds
<1>1. /\ n \in Nat /\ Len(items) \in Nat /\ e \in 0 .. n /\ a \in 1 .. e + 1
      /\ a # n + 1
  BY <1>t, Zenon
<1>2. a <= n /\ a \in 1 .. n /\ n \in 1 .. Len(items) BY <1>1
<1>3. PICK b \in a .. n + 1 : OverlapTail(SubSeq(items, a, n)) = SubSeq(items, b, n)
  BY <1>2, OverlapTailFacts
<1>4. Flush(SubSeq(items, a, n), chunks) = Append(chunks, Chunk(SubSeq(items, a, n)))
  BY DEF Flush
<1>5. b \in 1 .. n + 1 BY <1>1, <1>2
<1> QED BY <1>2, <1>3, <1>4, <1>5, Flushed

LEMMA PackStep ==
  ASSUME NEW items \in Seq(Item), NEW P, Prefix(items, P), NEW acc,
         NEW n \in 0 .. Len(items) - 1, NEW e, NEW a, Packed(items, P, n, e, a, acc)
  PROVE  \E e1, a1 : Packed(items, P, n + 1, e1, a1, Pack(acc, items[n + 1]))
<1>1. /\ acc \in PackState /\ acc.buffer = SubSeq(items, a, n)
      /\ PackedTo(items, P, n, e, a, acc.chunks)
      /\ acc.buffer \in Seq(Item) /\ acc.chunks \in Seq(Draft)
  BY PackStateTyped DEF Packed
<1>2. /\ Len(items) \in Nat /\ n \in Nat /\ n \in 0 .. Len(items)
      /\ n + 1 \in 1 .. Len(items) /\ n + 1 \in 0 .. Len(items)
  BY LenProperties
<1>3. PICK x : x = items[n + 1] OBVIOUS
<1>4. x \in Item BY <1>2, <1>3, ElementOfSeq
<1>5. PICK b1 \in Seq(Item), c1 \in Seq(Draft), b2 \in Seq(Item), c2 \in Seq(Draft) :
        /\ \/ b1 = <<>> /\ x.opens /\ c1 = Flush(acc.buffer, acc.chunks)
           \/ b1 = acc.buffer /\ c1 = acc.chunks /\ (x.opens => b1 = <<>>)
        /\ \/ /\ b1 # <<>> /\ b2 = Append(OverlapTail(b1), x) /\ c2 = Flush(b1, c1)
           \/ /\ b2 = Append(b1, x) /\ c2 = c1
              /\ b1 = <<>> \/ Tokens(b1) + x.tokens <= HardMaxTokens
        /\ Pack(acc, x) \in PackState
        /\ \/ /\ x.table
              /\ Pack(acc, x) =
                   [buffer |-> <<>>,
                    chunks |-> Append(Flush(acc.buffer, acc.chunks), Chunk(<<x>>))]
           \/ /\ ~ x.table
              /\ \/ Pack(acc, x) = [buffer |-> OverlapTail(b2), chunks |-> Flush(b2, c2)]
                 \/ Pack(acc, x) = [buffer |-> b2, chunks |-> c2]
  BY <1>1, <1>4, PackCases
<1>6. PackedTo(items, P, n, n, n + 1, Flush(acc.buffer, acc.chunks))
  BY <1>1, <1>2, FlushPacked
<1>7. \A k \in 0 .. Len(items) : SubSeq(items, k + 1, k) = <<>>
  <2> TAKE k \in 0 .. Len(items)
  <2>1. k + 1 \in 1 .. Len(items) + 1 /\ k \in (k + 1) - 1 .. Len(items) /\ k - (k + 1) + 1 = 0
    BY <1>2
  <2> QED BY <2>1, PieceFacts, EmptySeq
<1>8. CASE x.table
  <2>1. PICK c : c = Append(Flush(acc.buffer, acc.chunks), Chunk(<<x>>)) OBVIOUS
  <2>2. Flush(acc.buffer, acc.chunks) \in Seq(Draft) BY <1>1, FlushTyped
  <2>3. PackedTo(items, P, n + 1, n + 1, n + 2, c) BY <1>3, <1>6, <2>1, <2>2, Tabled
  <2>4. Pack(acc, x) = [buffer |-> <<>>, chunks |-> c] BY <1>5, <1>8, <2>1
  <2>5. SubSeq(items, n + 2, n + 1) = <<>>
    <3>1. (n + 1) + 1 = n + 2 BY <1>2
    <3> QED BY <1>2, <1>7, <3>1
  <2>6. Packed(items, P, n + 1, n + 1, n + 2, Pack(acc, x))
    BY <1>5, <2>3, <2>4, <2>5 DEF Packed
  <2> QED BY <1>3, <2>6
<1>9. CASE ~ x.table
  <2>1. PICK e1, a1 : /\ b1 = SubSeq(items, a1, n) /\ PackedTo(items, P, n, e1, a1, c1)
                      /\ x.opens => a1 = n + 1
    <3>1. CASE b1 = <<>> /\ x.opens /\ c1 = Flush(acc.buffer, acc.chunks)
      BY <1>2, <1>6, <1>7, <3>1
    <3>2. CASE b1 = acc.buffer /\ c1 = acc.chunks /\ (x.opens => b1 = <<>>)
      <4>1. b1 = SubSeq(items, a, n) /\ PackedTo(items, P, n, e, a, c1) BY <1>1, <3>2
      <4>2. b1 = <<>> <=> a = n + 1 BY <1>2, <4>1, BoundsOfPacked DEF Bounds
      <4>3. x.opens => a = n + 1 BY <3>2, <4>2
      <4> QED BY <4>1, <4>3
    <3> QED BY <1>5, <3>1, <3>2
  <2>2. /\ e1 \in 0 .. n /\ a1 \in 1 .. e1 + 1
        /\ b1 = <<>> <=> a1 = n + 1
        /\ a1 \in 1 .. Len(items) + 1 /\ n \in a1 - 1 .. Len(items)
    <3>1. n \in 0 .. Len(items) /\ PackedTo(items, P, n, e1, a1, c1) BY <1>2, <2>1
    <3>2. Bounds(items, n, e1, a1) BY <3>1, BoundsOfPacked
    <3> QED BY <2>1, <3>2 DEF Bounds
  <2>3. PICK e2, a2 : /\ b2 = SubSeq(items, a2, n + 1)
                      /\ PackedTo(items, P, n + 1, e2, a2, c2)
    <3>1. CASE b1 # <<>> /\ b2 = Append(OverlapTail(b1), x) /\ c2 = Flush(b1, c1)
      <4>1. PICK b \in 1 .. n + 1 : /\ OverlapTail(b1) = SubSeq(items, b, n)
                                    /\ PackedTo(items, P, n, n, b, c2)
        BY <1>2, <2>1, <3>1, OverlapPacked
      <4>2. ~ x.opens BY <2>1, <2>2, <3>1
      <4>3. PackedTo(items, P, n + 1, n, b, c2) BY <1>3, <1>9, <4>1, <4>2, Added
      <4>4. b2 = SubSeq(items, b, n + 1) BY <1>3, <3>1, <4>1, PieceGrows
      <4> QED BY <4>3, <4>4
    <3>2. CASE /\ b2 = Append(b1, x) /\ c2 = c1
               /\ b1 = <<>> \/ Tokens(b1) + x.tokens <= HardMaxTokens
      <4>1. e1 = n \/ P[n + 1] - P[a1 - 1] <= HardMaxTokens
        <5>1. CASE b1 = <<>> BY <1>2, <2>2, <5>1
        <5>2. CASE Tokens(b1) + x.tokens <= HardMaxTokens
          <6>1. Tokens(b1) = P[n] - P[a1 - 1] BY <2>1, <2>2, TokensOfPiece
          <6>2. P[n + 1] = P[n] + x.tokens
            <7>1. (n + 1) - 1 = n BY <1>2
            <7> QED BY <1>2, <1>3, <7>1 DEF Prefix
          <6>3. a1 - 1 \in 0 .. Len(items) BY <1>2, <2>2
          <6>4. P[n] \in Nat /\ P[n + 1] \in Nat /\ P[a1 - 1] \in Nat /\ x.tokens \in Nat
                /\ HardMaxTokens \in Nat
            BY <1>2, <1>4, <6>3, ChunkingAssumption DEF Prefix, Item, ChunkingAssumption
          <6> QED BY <5>2, <6>1, <6>2, <6>4
        <5> QED BY <3>2, <5>1, <5>2
      <4>2. PackedTo(items, P, n + 1, e1, a1, c2)
        BY <1>3, <1>9, <2>1, <3>2, <4>1, Added
      <4>3. a1 \in 1 .. n + 1 BY <1>2, <2>2
      <4>4. b2 = SubSeq(items, a1, n + 1) BY <1>3, <2>1, <3>2, <4>3, PieceGrows
      <4> QED BY <4>2, <4>4
    <3> QED BY <1>5, <3>1, <3>2
  <2>4. b2 # <<>>
    <3>1. b2 = Append(OverlapTail(b1), x) \/ b2 = Append(b1, x) BY <1>5
    <3>2. b1 # <<>> => OverlapTail(b1) \in Seq(Item) BY OverlapTailTyped
    <3>3. (b2 = Append(OverlapTail(b1), x) /\ b1 # <<>>) \/ b2 = Append(b1, x) BY <1>5
    <3> QED BY <1>4, <3>2, <3>3, AppendProperties
  <2>5. CASE Pack(acc, x) = [buffer |-> OverlapTail(b2), chunks |-> Flush(b2, c2)]
    <3>1. PICK b \in 1 .. n + 2 : /\ OverlapTail(b2) = SubSeq(items, b, n + 1)
                                  /\ PackedTo(items, P, n + 1, n + 1, b, Flush(b2, c2))
      <4>1. (n + 1) + 1 = n + 2 BY <1>2
      <4> QED BY <1>2, <2>3, <2>4, <4>1, OverlapPacked
    <3>2. Pack(acc, x).buffer = OverlapTail(b2) /\ Pack(acc, x).chunks = Flush(b2, c2)
      BY <2>5
    <3>3. Packed(items, P, n + 1, n + 1, b, Pack(acc, x))
      BY <1>5, <3>1, <3>2 DEF Packed
    <3> QED BY <1>3, <3>3
  <2>6. CASE Pack(acc, x) = [buffer |-> b2, chunks |-> c2]
    <3>1. Pack(acc, x).buffer = b2 /\ Pack(acc, x).chunks = c2 BY <2>6
    <3>2. Packed(items, P, n + 1, e2, a2, Pack(acc, x)) BY <1>5, <2>3, <3>1 DEF Packed
    <3> QED BY <1>3, <3>2
  <2> QED BY <1>5, <1>9, <2>5, <2>6
<1> QED BY <1>8, <1>9

\* What chunk_document makes of the items: all of them, in pieces.
LEMMA PackAll ==
  ASSUME NEW items \in Seq(Item), NEW packed, NEW chunks,
         packed = FoldLeft(Pack, [buffer |-> <<>>, chunks |-> <<>>], items),
         chunks = Flush(packed.buffer, packed.chunks)
  PROVE  /\ chunks \in Seq(Draft)
         /\ \E P : /\ Prefix(items, P)
                   /\ PackedTo(items, P, Len(items), Len(items), Len(items) + 1, chunks)
<1>1. PICK f \in [0 .. Len(items) -> PackState] :
           /\ f[0] = [buffer |-> <<>>, chunks |-> <<>>]
           /\ \A k \in DOMAIN items : f[k] = Pack(f[k - 1], items[k])
           /\ packed = f[Len(items)]
  BY PackFold
<1>2. PICK P : Prefix(items, P) BY PrefixExists
<1>3. Len(items) \in Nat /\ DOMAIN items = 1 .. Len(items) BY LenProperties
<1> DEFINE T == {k \in 0 .. Len(items) : ~ \E e, a : Packed(items, P, k, e, a, f[k])}
<1>4. Packed(items, P, 0, 0, 1, f[0])
  <2>1. <<>> \in Seq(Draft) /\ DOMAIN <<>> = {} BY EmptySeq
  <2>2. SubSeq(items, 1, 0) = <<>>
    <3>1. 1 \in 1 .. Len(items) + 1 /\ 0 \in 1 - 1 .. Len(items) /\ 0 - 1 + 1 = 0 BY <1>3
    <3> QED BY <3>1, PieceFacts, EmptySeq
  <2>3. PackedTo(items, P, 0, 0, 1, <<>>)
    <3>1. PICK g : g \in [DOMAIN <<>> -> 1 .. 0]
      <4>1. [c \in DOMAIN <<>> |-> 0] \in [DOMAIN <<>> -> 1 .. 0] BY <2>1
      <4> QED BY <4>1
    <3>2. Spans(items, P, 0, 0, 1, <<>>, g, g) BY <2>1 DEF Spans
    <3> QED BY <3>1, <3>2 DEF PackedTo
  <2>4. 0 \in 0 .. Len(items) BY <1>3
  <2> QED BY <1>1, <2>2, <2>3, <2>4 DEF Packed
<1>5. ASSUME T # {} PROVE FALSE
  <2>1. PICK k \in T : \A i \in T : k <= i
    <3>1. T \in SUBSET Nat BY <1>3
    <3> HIDE DEF T
    <3> QED BY <1>5, <3>1, LeastNumber
  <2>2. k \in 0 .. Len(items) /\ k # 0 BY <1>4, <2>1
  <2>3. k \in 1 .. Len(items) /\ k - 1 \in 0 .. Len(items) - 1 /\ k - 1 \in 0 .. Len(items)
        /\ (k - 1) + 1 = k
    BY <1>3, <2>2
  <2>4. k - 1 \notin T
    <3> HIDE DEF T
    <3>1. ~ (k <= k - 1) BY <2>3
    <3> QED BY <2>1, <3>1
  <2>5. PICK e, a : Packed(items, P, k - 1, e, a, f[k - 1]) BY <2>3, <2>4
  <2>6. \E e1, a1 : Packed(items, P, k, e1, a1, Pack(f[k - 1], items[k]))
    BY <1>2, <2>3, <2>5, PackStep
  <2> QED BY <1>1, <1>3, <2>1, <2>3, <2>6
<1>6. Len(items) \in 0 .. Len(items) BY <1>3
<1>7. PICK e, a : Packed(items, P, Len(items), e, a, packed) BY <1>1, <1>5, <1>6
<1>8. /\ packed.buffer = SubSeq(items, a, Len(items)) /\ packed.chunks \in Seq(Draft)
      /\ packed.buffer \in Seq(Item)
      /\ PackedTo(items, P, Len(items), e, a, packed.chunks)
  BY <1>7, PackStateTyped DEF Packed
<1>9. PackedTo(items, P, Len(items), Len(items), Len(items) + 1, chunks)
  BY <1>6, <1>8, FlushPacked
<1>10. chunks \in Seq(Draft) BY <1>8, FlushTyped
<1> QED BY <1>2, <1>9, <1>10

-----------------------------------------------------------------------------
(* Chunking: flattening.                                                   *)

LEMMA NodeFacts ==
  ASSUME NEW nodes \in Seq(DocumentNode)
  PROVE  /\ Len(nodes) \in Nat /\ DOMAIN nodes = 1 .. Len(nodes)
         /\ \A i \in 1 .. Len(nodes) :
              /\ nodes[i].sentences \in Seq(Nat) /\ nodes[i].sentences # <<>>
              /\ nodes[i].level \in Nat /\ nodes[i].page \in Nat
              /\ nodes[i].kind = "table" => Len(nodes[i].sentences) = 1
<1>1. \A i \in 1 .. Len(nodes) : nodes[i] \in DocumentNode BY ElementOfSeq
<1>2. \A node \in DocumentNode :
        /\ node.sentences \in Seq(Nat) /\ node.sentences # <<>>
        /\ node.level \in Nat /\ node.page \in Nat
        /\ node.kind = "table" => Len(node.sentences) = 1
  <2> TAKE node \in DocumentNode
  <2>1. /\ node.sentences \in Seq(Nat) /\ node.level \in 0 .. 6 /\ node.page \in Nat
        /\ node.sentences # <<>>
        /\ node.kind = "table" => Len(node.sentences) = 1
    BY DEF DocumentNode
  <2> QED BY <2>1
<1> QED BY <1>1, <1>2, LenProperties

\* The headings a node that is none is under are those of the node before.
LEMMA PathKept ==
  ASSUME NEW nodes \in Seq(DocumentNode), NEW n \in 0 .. Len(nodes) - 1,
         nodes[n + 1].kind # "heading"
  PROVE  Under(nodes, n + 1) = Under(nodes, n)
<1>1. Len(nodes) \in Nat BY NodeFacts
<1>2. {h \in 1 .. n + 1 : nodes[h].kind = "heading"} = {h \in 1 .. n : nodes[h].kind = "heading"}
  <2>1. \A h \in 1 .. n + 1 : h = n + 1 \/ h \in 1 .. n BY <1>1
  <2>2. \A h \in 1 .. n : h \in 1 .. n + 1 BY <1>1
  <2> QED BY <2>1, <2>2
<1> QED BY <1>2 DEF Under

\* Those of a heading are those of the node before it that are of a higher
\* rank, and itself.
LEMMA PathOpened ==
  ASSUME NEW nodes \in Seq(DocumentNode), NEW n \in 0 .. Len(nodes) - 1,
         nodes[n + 1].kind = "heading"
  PROVE  Under(nodes, n + 1) =
           {h \in Under(nodes, n) : nodes[h].level < nodes[n + 1].level} \cup {n + 1}
<1>1. Len(nodes) \in Nat BY NodeFacts
<1> DEFINE H(k) == {h \in 1 .. k : nodes[h].kind = "heading"}
<1>2. H(n + 1) = H(n) \cup {n + 1}
  <2>1. \A h : h \in 1 .. n + 1 <=> h = n + 1 \/ h \in 1 .. n BY <1>1
  <2> QED BY <2>1
<1>3. \A h \in H(n) : h < n + 1 /\ ~ (n + 1 < h) BY <1>1
<1>4. ~ (n + 1 < n + 1) BY <1>1
<1>5. \A k : Under(nodes, k) =
               {h \in H(k) : \A g \in H(k) : h < g => nodes[h].level < nodes[g].level}
  BY DEF Under
<1> HIDE DEF H
<1>6. \A h : h \in Under(nodes, n + 1) <=>
               /\ h \in H(n) \cup {n + 1}
               /\ \A g \in H(n) \cup {n + 1} : h < g => nodes[h].level < nodes[g].level
  BY <1>2, <1>5
<1>7. \A h : h \in Under(nodes, n) <=>
               h \in H(n) /\ \A g \in H(n) : h < g => nodes[h].level < nodes[g].level
  BY <1>5
<1> QED BY <1>3, <1>4, <1>6, <1>7

LEMMA PushFacts ==
  ASSUME NEW nodes \in Seq(DocumentNode), NEW stack \in Seq(DOMAIN nodes),
         NEW i \in DOMAIN nodes
  PROVE  \E top \in 0 .. Len(stack) :
           /\ PushHeading(stack, nodes, i) = Append(SubSeq(stack, 1, top), i)
           /\ top = 0 \/ nodes[stack[top]].level < nodes[i].level
           /\ \A m \in (top + 1) .. Len(stack) :
                ~ (m = 0 \/ nodes[stack[m]].level < nodes[i].level)
<1> DEFINE Stays(n) == n = 0 \/ nodes[stack[n]].level < nodes[i].level
           T == {n \in 0 .. Len(stack) : Stays(n)}
           Top(n) == n \in 0 .. Len(stack) /\ Stays(n)
                     /\ \A m \in (n + 1) .. Len(stack) : ~ Stays(m)
<1>1. Len(stack) \in Nat BY LenProperties
<1>2. \E n : Top(n)
  <2>1. 0 \in T BY <1>1
  <2>2. T \in SUBSET Nat /\ IsFiniteSet(T)
    <3>1. T \in SUBSET (0 .. Len(stack)) OBVIOUS
    <3>2. IsFiniteSet(0 .. Len(stack)) BY <1>1, FS_Interval
    <3> QED BY <1>1, <3>1, <3>2, FS_Subset
  <2>3. Max(T) \in T /\ \A m \in T : Max(T) >= m
    <3> HIDE DEF T
    <3> QED BY <2>1, <2>2, GreatestNumber
  <2>4. PICK n : n = Max(T) OBVIOUS
  <2>5. n \in 0 .. Len(stack) /\ Stays(n) /\ \A m \in T : n >= m BY <2>3, <2>4
  <2>6. ASSUME NEW m \in (n + 1) .. Len(stack) PROVE ~ Stays(m)
    <3>1. m \in 0 .. Len(stack) /\ ~ (n >= m) BY <1>1, <2>5
    <3> QED BY <2>5, <3>1
  <2> QED BY <2>5, <2>6
<1>3. PICK top : top = CHOOSE n \in 0 .. Len(stack) :
                          Stays(n) /\ \A m \in (n + 1) .. Len(stack) : ~ Stays(m)
  OBVIOUS
<1>4. Top(top) BY <1>2, <1>3
<1>5. PushHeading(stack, nodes, i) = Append(SubSeq(stack, 1, top), i)
  BY <1>3 DEF PushHeading
<1> QED BY <1>4, <1>5

LEMMA PushTyped ==
  ASSUME NEW nodes \in Seq(DocumentNode), NEW stack \in Seq(DOMAIN nodes),
         NEW i \in DOMAIN nodes
  PROVE  PushHeading(stack, nodes, i) \in Seq(DOMAIN nodes)
<1>1. PICK top \in 0 .. Len(stack) :
             PushHeading(stack, nodes, i) = Append(SubSeq(stack, 1, top), i)
  BY PushFacts
<1>2. Len(stack) \in Nat /\ \A k \in 1 .. Len(stack) : stack[k] \in DOMAIN nodes
  BY LenProperties
<1>3. top \in Int /\ \A k \in 1 .. top : stack[k] \in DOMAIN nodes BY <1>2
<1>4. SubSeq(stack, 1, top) \in Seq(DOMAIN nodes) BY <1>3, SubSeqProperties
<1> QED BY <1>1, <1>4, AppendProperties

LEMMA PathPushed ==
  ASSUME NEW nodes \in Seq(DocumentNode), NEW stack \in Seq(DOMAIN nodes),
         NEW n \in 0 .. Len(nodes) - 1, nodes[n + 1].kind = "heading",
         IsPathOf(stack, nodes, n)
  PROVE  IsPathOf(PushHeading(stack, nodes, n + 1), nodes, n + 1)
<1>1. /\ Len(nodes) \in Nat /\ n \in Nat /\ n + 1 \in DOMAIN nodes
      /\ \A h \in 1 .. Len(nodes) : nodes[h].level \in Nat
  <2>1. Len(nodes) \in Nat /\ DOMAIN nodes = 1 .. Len(nodes) BY NodeFacts
  <2>2. \A h \in 1 .. Len(nodes) : nodes[h].level \in Nat BY NodeFacts
  <2>3. n \in Nat /\ n + 1 \in DOMAIN nodes BY <2>1
  <2> QED BY <2>1, <2>2, <2>3
<1>2. PICK L, i : L = nodes[i].level /\ i = n + 1 OBVIOUS
<1>3. PICK top \in 0 .. Len(stack) :
        /\ PushHeading(stack, nodes, i) = Append(SubSeq(stack, 1, top), i)
        /\ top = 0 \/ nodes[stack[top]].level < L
        /\ \A m \in (top + 1) .. Len(stack) : ~ (m = 0 \/ nodes[stack[m]].level < L)
  BY <1>1, <1>2, PushFacts
<1>4. /\ Len(stack) \in Nat /\ DOMAIN stack = 1 .. Len(stack)
      /\ \A k \in 1 .. Len(stack) : stack[k] \in 1 .. Len(nodes)
  BY LenProperties
<1>5. /\ \A a, b \in 1 .. Len(stack) : a < b => stack[a] < stack[b]
      /\ {stack[k] : k \in 1 .. Len(stack)} = Under(nodes, n)
  BY <1>4 DEF IsPathOf, Range
<1>6. \A h \in Under(nodes, n) : /\ h \in 1 .. n
                                 /\ \A g \in Under(nodes, n) : h < g => nodes[h].level < nodes[g].level
  BY DEF Under
<1>7. ASSUME NEW m \in 1 .. Len(stack)
      PROVE  m <= top <=> nodes[stack[m]].level < L
  <2>1. CASE m > top
    <3>1. m \in (top + 1) .. Len(stack) /\ ~ (m <= top) BY <1>4, <2>1
    <3> QED BY <1>3, <3>1
  <2>2. CASE m = top
    <3>1. top # 0 /\ m <= top BY <1>4, <2>2
    <3> QED BY <1>3, <2>2, <3>1
  <2>3. CASE m < top
    <3>1. top \in 1 .. Len(stack) /\ top # 0 /\ m <= top BY <1>4, <2>3
    <3>2. stack[m] < stack[top] BY <1>5, <2>3, <3>1
    <3>3. nodes[stack[m]].level < nodes[stack[top]].level BY <1>5, <1>6, <3>1, <3>2
    <3>4. PICK x, y : x = nodes[stack[m]].level /\ y = nodes[stack[top]].level OBVIOUS
    <3>5. x \in Nat /\ y \in Nat /\ L \in Nat BY <1>1, <1>2, <1>4, <3>1, <3>4
    <3>6. x < y /\ y < L BY <1>3, <3>1, <3>3, <3>4
    <3> QED BY <3>1, <3>4, <3>5, <3>6
  <2> QED BY <1>4, <2>1, <2>2, <2>3
<1>8. PICK s : s = SubSeq(stack, 1, top) OBVIOUS
<1>9. s \in Seq(1 .. Len(nodes)) /\ Len(s) = top /\ \A k \in 1 .. top : s[k] = stack[k]
  <2>1. top \in Int /\ \A k \in 1 .. top : stack[k] \in 1 .. Len(nodes) BY <1>4
  <2>2. /\ s \in Seq(1 .. Len(nodes)) /\ Len(s) = IF 1 <= top THEN top - 1 + 1 ELSE 0
        /\ \A k \in 1 .. top - 1 + 1 : s[k] = stack[1 + k - 1]
    BY <1>8, <2>1, SubSeqProperties
  <2>3. Len(s) = top BY <1>4, <2>2
  <2>4. ASSUME NEW k \in 1 .. top PROVE s[k] = stack[k]
    <3>1. k \in 1 .. top - 1 + 1 /\ 1 + k - 1 = k BY <1>4
    <3> QED BY <2>2, <3>1
  <2> QED BY <2>2, <2>3, <2>4
<1>10. PICK t : t = Append(s, i) OBVIOUS
<1>11. /\ DOMAIN t = 1 .. top + 1 /\ t[top + 1] = i
       /\ \A k \in 1 .. top : t[k] = stack[k]
  <2>1. i \in 1 .. Len(nodes) BY <1>1, <1>2
  <2>2. t \in Seq(1 .. Len(nodes)) /\ Len(t) = top + 1
    BY <1>9, <1>10, <2>1, AppendProperties
  <2> QED BY <1>9, <1>10, <2>1, <2>2, AppendProperties, LenProperties
<1>12. Range(t) = Under(nodes, i)
  <2>1. Under(nodes, i) = {h \in Under(nodes, n) : nodes[h].level < L} \cup {i}
    BY <1>2, PathOpened
  <2>2. \A h : (\E k \in 1 .. top : h = stack[k]) <=>
               h \in Under(nodes, n) /\ nodes[h].level < L
    <3> TAKE h
    <3>1. ASSUME NEW k \in 1 .. top, h = stack[k]
          PROVE  h \in Under(nodes, n) /\ nodes[h].level < L
      <4>1. k \in 1 .. Len(stack) /\ k <= top BY <1>4
      <4> QED BY <1>5, <1>7, <3>1, <4>1
    <3>2. ASSUME h \in Under(nodes, n), nodes[h].level < L
          PROVE  \E k \in 1 .. top : h = stack[k]
      <4>1. PICK k \in 1 .. Len(stack) : h = stack[k] BY <1>5, <3>2
      <4>2. k <= top BY <1>7, <3>2, <4>1
      <4>3. k \in 1 .. top BY <1>4, <4>2
      <4> QED BY <4>1, <4>3
    <3> QED BY <3>1, <3>2
  <2>3. \A k : k \in 1 .. top + 1 <=> k \in 1 .. top \/ k = top + 1 BY <1>4
  <2>4. \A h : h \in Range(t) <=> \E k \in 1 .. top + 1 : h = t[k]
    BY <1>11 DEF Range
  <2>5. \A h : h \in Range(t) <=> (\E k \in 1 .. top : h = stack[k]) \/ h = i
    BY <1>11, <2>3, <2>4
  <2> QED BY <2>1, <2>2, <2>5
<1>13. ASSUME NEW a \in DOMAIN t, NEW b \in DOMAIN t, a < b PROVE t[a] < t[b]
  <2>1. a \in 1 .. top /\ a \in 1 .. Len(stack) BY <1>4, <1>11, <1>13
  <2>2. CASE b = top + 1
    <3>1. stack[a] \in Under(nodes, n) BY <1>5, <2>1
    <3>2. stack[a] \in 1 .. n BY <1>6, <3>1
    <3> QED BY <1>1, <1>2, <1>11, <2>1, <2>2, <3>2
  <2>3. CASE b # top + 1
    <3>1. b \in 1 .. top /\ b \in 1 .. Len(stack) BY <1>4, <1>11, <2>3
    <3> QED BY <1>5, <1>11, <1>13, <2>1, <3>1
  <2> QED BY <2>2, <2>3
<1>14. IsPathOf(t, nodes, i) BY <1>12, <1>13 DEF IsPathOf
<1> QED BY <1>2, <1>3, <1>8, <1>10, <1>14

\* The items of a node: one for each of its sentences, in their order.
LEMMA ItemsOfFacts ==
  ASSUME NEW nodes \in Seq(DocumentNode), NEW i \in DOMAIN nodes,
         NEW stack \in Seq(DOMAIN nodes)
  PROVE  /\ ItemsOf(nodes, i, stack) \in Seq(Item)
         /\ DOMAIN ItemsOf(nodes, i, stack) = DOMAIN nodes[i].sentences
         /\ Len(ItemsOf(nodes, i, stack)) = Len(nodes[i].sentences)
         /\ Len(nodes[i].sentences) \in Nat \ {0}
         /\ DOMAIN nodes[i].sentences = 1 .. Len(nodes[i].sentences)
         /\ \A k \in DOMAIN nodes[i].sentences :
              LET item == ItemsOf(nodes, i, stack)[k]
              IN  /\ item.table = (nodes[i].kind = "table") /\ item.node = i
                  /\ item.at = k /\ item.path = stack
<1>1. PICK s : s = nodes[i].sentences OBVIOUS
<1>2. /\ s \in Seq(Nat) /\ s # <<>> /\ nodes[i].page \in Nat
      /\ DOMAIN nodes = 1 .. Len(nodes)
  BY <1>1, NodeFacts
<1>3. /\ Len(s) \in Nat \ {0} /\ DOMAIN s = 1 .. Len(s)
      /\ \A k \in DOMAIN s : s[k] \in Nat /\ k \in Nat
  BY <1>2, EmptySeq, LenProperties
<1>4. stack \in Seq(Nat)
  <2>1. DOMAIN nodes \subseteq Nat BY <1>2
  <2> QED BY <2>1, SeqMonotonic
<1>5. PICK g : g = ItemsOf(nodes, i, stack) OBVIOUS
<1>6. g = [k \in DOMAIN s |->
             [table |-> nodes[i].kind = "table", node |-> i, at |-> k,
              tokens |-> s[k], page |-> nodes[i].page, path |-> stack,
              opens |-> nodes[i].kind = "heading" /\ nodes[i].level = 1]]
  BY <1>1, <1>5 DEF ItemsOf
<1>7. \A k \in DOMAIN s : g[k] \in Item
  <2> TAKE k \in DOMAIN s
  <2>1. k \in Nat /\ s[k] \in Nat /\ i \in Nat BY <1>2, <1>3
  <2> QED BY <1>2, <1>4, <1>6, <2>1 DEF Item
<1>8. g \in [1 .. Len(s) -> Item] BY <1>3, <1>6, <1>7
<1>9. g \in Seq(Item) BY <1>3, <1>8, IsASeq
<1>10. Len(g) = Len(s) BY <1>3, <1>8, <1>9, LenProperties
<1>11. \A k \in DOMAIN s : /\ g[k].table = (nodes[i].kind = "table") /\ g[k].node = i
                           /\ g[k].at = k /\ g[k].path = stack
  BY <1>6
<1> QED BY <1>1, <1>3, <1>5, <1>6, <1>9, <1>10, <1>11

FlatState(nodes) == [stack : Seq(DOMAIN nodes), items : Seq(Item)]

LEMMA FlatStateTyped ==
  ASSUME NEW nodes
  PROVE  /\ \A acc \in FlatState(nodes) : /\ acc.stack \in Seq(DOMAIN nodes)
                                          /\ acc.items \in Seq(Item)
         /\ \A s \in Seq(DOMAIN nodes), t \in Seq(Item) :
              [stack |-> s, items |-> t] \in FlatState(nodes)
BY DEF FlatState

LEMMA FrontFacts ==
  ASSUME NEW items \in Seq(Item), items # <<>>
  PROVE  /\ Front(items) \in Seq(Item) /\ Len(Front(items)) = Len(items) - 1
         /\ \A k \in 1 .. Len(items) - 1 : Front(items)[k] = items[k]
<1>1. Len(items) \in Nat \ {0} BY EmptySeq, LenProperties
<1>2. PICK n : n = Len(items) - 1 OBVIOUS
<1>3. 1 \in 1 .. Len(items) + 1 /\ n \in 1 - 1 .. Len(items) /\ n - 1 + 1 = n
  BY <1>1, <1>2
<1>4. Front(items) = SubSeq(items, 1, n) BY <1>2 DEF Front
<1>5. \A k \in 1 .. n : SubSeq(items, 1, n)[k] = items[k]
  <2> TAKE k \in 1 .. n
  <2>1. k \in 1 .. n - 1 + 1 /\ 1 + k - 1 = k BY <1>1, <1>2
  <2>2. SubSeq(items, 1, n)[k] = items[1 + k - 1] BY <1>3, <2>1, PieceFacts
  <2> QED BY <2>1, <2>2
<1> QED BY <1>2, <1>3, <1>4, <1>5, PieceFacts

\* AddNode by its cases.
AddsNode(nodes, acc, i, items, stack, kept) ==
  /\ \/ nodes[i].kind = "heading" /\ stack = PushHeading(acc.stack, nodes, i)
     \/ nodes[i].kind # "heading" /\ stack = acc.stack
  /\ \/ /\ nodes[i].kind = "table" /\ items # <<>>
        /\ items[Len(items)].table /\ kept = Front(items)
     \/ /\ kept = items
        /\ ~ (nodes[i].kind = "table" /\ items # <<>> /\ items[Len(items)].table)
  /\ AddNode(nodes, acc, i) = [stack |-> stack, items |-> kept \o ItemsOf(nodes, i, stack)]
  /\ AddNode(nodes, acc, i) \in FlatState(nodes)

LEMMA AddCases ==
  ASSUME NEW nodes \in Seq(DocumentNode), NEW acc \in FlatState(nodes), NEW i \in DOMAIN nodes
  PROVE  \E stack \in Seq(DOMAIN nodes), kept \in Seq(Item) :
           AddsNode(nodes, acc, i, acc.items, stack, kept)
<1>1. acc.stack \in Seq(DOMAIN nodes) /\ acc.items \in Seq(Item) BY FlatStateTyped
<1> DEFINE stack == IF nodes[i].kind = "heading" THEN PushHeading(acc.stack, nodes, i)
                    ELSE acc.stack
           replaces == nodes[i].kind = "table" /\ acc.items # <<>> /\ Last(acc.items).table
           kept == IF replaces THEN Front(acc.items) ELSE acc.items
<1>2. stack \in Seq(DOMAIN nodes) BY <1>1, PushTyped
<1>3. kept \in Seq(Item) BY <1>1, FrontFacts
<1>4. AddNode(nodes, acc, i) = [stack |-> stack, items |-> kept \o ItemsOf(nodes, i, stack)]
  BY DEF AddNode
<1>5. Last(acc.items) = acc.items[Len(acc.items)] BY DEF Last
<1>6. /\ \/ nodes[i].kind = "heading" /\ stack = PushHeading(acc.stack, nodes, i)
         \/ nodes[i].kind # "heading" /\ stack = acc.stack
      /\ \/ /\ nodes[i].kind = "table" /\ acc.items # <<>>
            /\ acc.items[Len(acc.items)].table /\ kept = Front(acc.items)
         \/ /\ kept = acc.items
            /\ ~ (/\ nodes[i].kind = "table" /\ acc.items # <<>>
                  /\ acc.items[Len(acc.items)].table)
  BY <1>5
<1> HIDE DEF stack, kept
<1>7. kept \o ItemsOf(nodes, i, stack) \in Seq(Item)
  BY <1>2, <1>3, ItemsOfFacts, ConcatProperties
<1>8. AddNode(nodes, acc, i) \in FlatState(nodes) BY <1>2, <1>4, <1>7, FlatStateTyped
<1>9. AddsNode(nodes, acc, i, acc.items, stack, kept) BY <1>4, <1>6, <1>8 DEF AddsNode
<1> QED BY <1>2, <1>3, <1>9

LEMMA FlattenFold ==
  ASSUME NEW nodes \in Seq(DocumentNode)
  PROVE  \E f \in [0 .. Len(nodes) -> FlatState(nodes)] :
           /\ f[0] = [stack |-> <<>>, items |-> <<>>]
           /\ \A k \in 1 .. Len(nodes) : f[k] = AddNode(nodes, f[k - 1], k)
           /\ Flatten(nodes) = f[Len(nodes)].items
<1>1. PICK base, seq, A : /\ base = [stack |-> <<>>, items |-> <<>>]
                          /\ seq = [i \in DOMAIN nodes |-> i] /\ A = FlatState(nodes)
  OBVIOUS
<1>2. Len(nodes) \in Nat /\ DOMAIN nodes = 1 .. Len(nodes) BY NodeFacts
<1>3. /\ seq \in Seq(DOMAIN nodes) /\ Len(seq) = Len(nodes)
      /\ DOMAIN seq = DOMAIN nodes /\ \A k \in DOMAIN nodes : seq[k] = k
  <2>1. seq \in [1 .. Len(nodes) -> DOMAIN nodes] BY <1>1, <1>2
  <2>2. seq \in Seq(DOMAIN nodes) BY <1>2, <2>1, IsASeq
  <2>3. DOMAIN seq = 1 .. Len(nodes) /\ DOMAIN seq = 1 .. Len(seq) /\ Len(seq) \in Nat
    BY <2>1, <2>2, LenProperties
  <2>4. Len(seq) = Len(nodes) BY <1>2, <2>2, <2>3, LenProperties
  <2> QED BY <1>1, <1>2, <2>2, <2>3, <2>4
<1>4. base \in A BY <1>1, FlatStateTyped, EmptySeq
<1>5. PICK F : F = [p \in A \X DOMAIN nodes |-> AddNode(nodes, p[1], p[2])] OBVIOUS
<1>6. \A acc \in A, i \in DOMAIN nodes : AddNode(nodes, acc, i) \in A
  BY <1>1, AddCases DEF AddsNode
<1>7. F \in [A \X DOMAIN nodes -> A] BY <1>5, <1>6
<1>8. PICK h \in [SUBSET (DOMAIN seq) -> A], f \in [0 .. Len(seq) -> A] :
             Folds(F, base, seq, h, f)
  BY <1>3, <1>4, <1>7, FoldExists, Zenon
<1> DEFINE body(g) == [x \in SUBSET (DOMAIN seq) |->
                         IF x = {} THEN base ELSE AddNode(nodes, g[x \ {Max(x)}], seq[Max(x)])]
           iter == CHOOSE g : g = body(g)
<1>9. ASSUME NEW x \in SUBSET (DOMAIN seq), x # {}
      PROVE  h[x] = AddNode(nodes, h[x \ {Max(x)}], seq[Max(x)])
  <2>1. h[x] = F[<<h[x \ {Max(x)}], seq[Max(x)]>>] BY <1>8, <1>9 DEF Folds
  <2>2. h[x \ {Max(x)}] \in A /\ seq[Max(x)] \in DOMAIN nodes BY <1>3, <1>9, LastOff
  <2> QED BY <1>5, <2>1, <2>2
<1>10. h = body(h) BY <1>8, <1>9 DEF Folds
<1>11. iter = body(iter) BY <1>10
<1>12. Flatten(nodes) = iter[DOMAIN seq].items
  BY <1>1 DEF Flatten, FoldLeft, MapThenFoldSet
<1>13. PICK g : g = iter OBVIOUS
<1>14. g = body(g) BY <1>11, <1>13
<1> HIDE DEF iter
<1> DEFINE T == {x \in SUBSET (DOMAIN seq) : g[x] # h[x]}
<1>15. ASSUME T # {} PROVE FALSE
  <2>1. PICK x \in T : \A y \in x : x \ {y} \notin T
    <3>1. T \in SUBSET (SUBSET (DOMAIN seq)) OBVIOUS
    <3> HIDE DEF T
    <3> QED BY <1>3, <1>15, <3>1, DomainFinite, MinimalSet
  <2>2. x # {} BY <1>10, <1>14, <2>1
  <2>3. Max(x) \in x /\ x \ {Max(x)} \in SUBSET (DOMAIN seq) BY <1>3, <2>2, LastOff
  <2>4. g[x \ {Max(x)}] = h[x \ {Max(x)}] BY <2>1, <2>3
  <2>5. g[x] = AddNode(nodes, g[x \ {Max(x)}], seq[Max(x)]) BY <1>14, <2>2
  <2> QED BY <1>9, <2>2, <2>4, <2>5
<1>16. Flatten(nodes) = h[DOMAIN seq].items BY <1>12, <1>13, <1>15
<1>17. ASSUME NEW k \in 1 .. Len(nodes) PROVE f[k] = AddNode(nodes, f[k - 1], k)
  <2>1. f[k] = F[<<f[k - 1], seq[k]>>] BY <1>2, <1>3, <1>8 DEF Folds
  <2>2. seq[k] = k /\ k \in DOMAIN nodes BY <1>2, <1>3
  <2>3. k - 1 \in 0 .. Len(seq) BY <1>2, <1>3
  <2>4. PICK g0 : g0 = f[k - 1] OBVIOUS
  <2>5. g0 \in A BY <1>8, <2>3, <2>4
  <2>6. F[<<g0, k>>] = AddNode(nodes, g0, k) BY <1>5, <2>2, <2>5
  <2>7. f[k] = F[<<g0, k>>] BY <2>1, <2>2, <2>4
  <2>8. f[k] = AddNode(nodes, g0, k) BY <2>6, <2>7
  <2> QED BY <2>4, <2>8, Zenon
<1>18. f \in [0 .. Len(nodes) -> FlatState(nodes)] BY <1>1, <1>3, <1>8
<1>19. /\ f[0] = [stack |-> <<>>, items |-> <<>>]
       /\ Flatten(nodes) = f[Len(nodes)].items
  BY <1>1, <1>3, <1>8, <1>16 DEF Folds
<1> QED BY <1>17, <1>18, <1>19

\* Two tables on end, of which the first is dropped.
Tables(nodes, i) == nodes[i].kind = "table" /\ nodes[i + 1].kind = "table"

\* What is left of the first n nodes.
ExpectedTo(nodes, n) ==
  UNION {{<<i, k>> : k \in DOMAIN nodes[i].sentences} :
           i \in {i \in 1 .. n : ~ (i < n /\ Tables(nodes, i))}}

\* Items of the first n nodes, in their order.
Laid(nodes, n, items) ==
  /\ items \in Seq(Item)
  /\ \A i \in DOMAIN items : /\ items[i].node \in 1 .. n
                             /\ items[i].table <=> nodes[items[i].node].kind = "table"
                             /\ IsPathOf(items[i].path, nodes, items[i].node)
  /\ \A i, k \in DOMAIN items : i < k => Before(Place(items[i]), Place(items[k]))

\* The state of the loop after n nodes.
Flat(nodes, n, acc) ==
  /\ acc \in FlatState(nodes)
  /\ IsPathOf(acc.stack, nodes, n)
  /\ Laid(nodes, n, acc.items) /\ Places(acc.items) = ExpectedTo(nodes, n)
  /\ n > 0 => acc.items # <<>> /\ acc.items[Len(acc.items)].node = n

LEMMA ExpectedToFacts ==
  ASSUME NEW nodes, NEW n, NEW p
  PROVE  p \in ExpectedTo(nodes, n) <=>
           \E i \in 1 .. n : \E k \in DOMAIN nodes[i].sentences :
             p = <<i, k>> /\ ~ (i < n /\ Tables(nodes, i))
<1>1. ASSUME p \in ExpectedTo(nodes, n)
      PROVE  \E i \in 1 .. n : \E k \in DOMAIN nodes[i].sentences :
               p = <<i, k>> /\ ~ (i < n /\ Tables(nodes, i))
  BY <1>1 DEF ExpectedTo
<1>2. ASSUME NEW i \in 1 .. n, NEW k \in DOMAIN nodes[i].sentences,
             p = <<i, k>>, ~ (i < n /\ Tables(nodes, i))
      PROVE  p \in ExpectedTo(nodes, n)
  BY <1>2 DEF ExpectedTo
<1> QED BY <1>1, <1>2

LEMMA ExpectedGrows ==
  ASSUME NEW nodes, NEW n \in Nat, NEW p
  PROVE  p \in ExpectedTo(nodes, n + 1) <=>
           \/ p \in ExpectedTo(nodes, n) /\ ~ (n > 0 /\ p[1] = n /\ Tables(nodes, n))
           \/ \E k \in DOMAIN nodes[n + 1].sentences : p = <<n + 1, k>>
<1>1. ASSUME NEW i \in 1 .. n + 1, NEW k \in DOMAIN nodes[i].sentences,
             p = <<i, k>>, ~ (i < n + 1 /\ Tables(nodes, i)), i # n + 1
      PROVE  p \in ExpectedTo(nodes, n) /\ ~ (n > 0 /\ p[1] = n /\ Tables(nodes, n))
  <2>1. i \in 1 .. n /\ i < n + 1 BY <1>1
  <2>2. ~ Tables(nodes, i) BY <1>1, <2>1
  <2>3. p \in ExpectedTo(nodes, n) BY <1>1, <2>1, <2>2, ExpectedToFacts
  <2>4. p[1] = i BY <1>1
  <2> QED BY <2>2, <2>3, <2>4
<1>2. ASSUME NEW i \in 1 .. n, NEW k \in DOMAIN nodes[i].sentences,
             p = <<i, k>>, ~ (i < n /\ Tables(nodes, i)),
             ~ (n > 0 /\ p[1] = n /\ Tables(nodes, n))
      PROVE  p \in ExpectedTo(nodes, n + 1)
  <2>1. i \in 1 .. n + 1 /\ (i < n \/ i = n) /\ p[1] = i /\ n > 0 BY <1>2
  <2>2. ~ Tables(nodes, i) BY <1>2, <2>1
  <2> QED BY <1>2, <2>1, <2>2, ExpectedToFacts
<1>3. ASSUME NEW k \in DOMAIN nodes[n + 1].sentences, p = <<n + 1, k>>
      PROVE  p \in ExpectedTo(nodes, n + 1)
  <2>1. n + 1 \in 1 .. n + 1 /\ ~ (n + 1 < n + 1) OBVIOUS
  <2> QED BY <1>3, <2>1, ExpectedToFacts
<1> QED BY <1>1, <1>2, <1>3, ExpectedToFacts

LEMMA PlacesFacts ==
  ASSUME NEW items \in Seq(Item)
  PROVE  /\ \A p : p \in Places(items) <=>
              \E i \in 1 .. Len(items) : p = <<items[i].node, items[i].at>>
         /\ Len(items) \in Nat /\ DOMAIN items = 1 .. Len(items)
         /\ \A i \in 1 .. Len(items) : /\ items[i].node \in Nat /\ items[i].at \in Nat
                                       /\ Place(items[i])[1] = items[i].node
                                       /\ Place(items[i])[2] = items[i].at
<1>1. Len(items) \in Nat /\ DOMAIN items = 1 .. Len(items) BY LenProperties
<1>2. \A i \in 1 .. Len(items) : items[i] \in Item BY ElementOfSeq
<1>3. \A x \in Item : x.node \in Nat /\ x.at \in Nat BY DEF Item
<1>4. \A x : Place(x) = <<x.node, x.at>> BY DEF Place
<1>5. \A x : Place(x)[1] = x.node /\ Place(x)[2] = x.at BY <1>4
<1>6. \A p : p \in Places(items) <=> \E i \in 1 .. Len(items) : p = Place(items[i])
  BY <1>1 DEF Places
<1> QED BY <1>1, <1>2, <1>3, <1>4, <1>5, <1>6

\* The first of two tables is the last of the items, and goes alone.
LEMMA TableDropped ==
  ASSUME NEW nodes \in Seq(DocumentNode), NEW n \in 1 .. Len(nodes) - 1, NEW acc,
         Flat(nodes, n, acc), nodes[n].kind = "table"
  PROVE  /\ Laid(nodes, n, Front(acc.items))
         /\ \A p : p \in Places(Front(acc.items)) <=>
                     p \in ExpectedTo(nodes, n) /\ p[1] # n
<1>1. PICK items, m : items = acc.items /\ m = Len(items) OBVIOUS
<1>2. /\ items \in Seq(Item) /\ items # <<>> /\ items[m].node = n /\ n \in Nat
      /\ Laid(nodes, n, items) /\ Places(items) = ExpectedTo(nodes, n)
  BY <1>1 DEF Flat, Laid
<1>3. /\ m \in Nat \ {0} /\ DOMAIN items = 1 .. m
      /\ \A i \in 1 .. m : /\ items[i].node \in 1 .. n
                           /\ items[i].table <=> nodes[items[i].node].kind = "table"
                           /\ IsPathOf(items[i].path, nodes, items[i].node)
      /\ \A i, k \in 1 .. m : i < k => Before(Place(items[i]), Place(items[k]))
  BY <1>1, <1>2, EmptySeq, LenProperties DEF Laid
<1>4. PICK t : t = Front(items) OBVIOUS
<1>5. t \in Seq(Item) /\ Len(t) = m - 1 /\ DOMAIN t = 1 .. m - 1
      /\ \A k \in 1 .. m - 1 : t[k] = items[k]
  BY <1>1, <1>2, <1>4, FrontFacts, LenProperties
<1>6. \A k \in 1 .. m - 1 : k \in 1 .. m BY <1>3
<1>7. Laid(nodes, n, t) BY <1>3, <1>5, <1>6 DEF Laid
<1>8. nodes[n].sentences \in Seq(Nat) /\ Len(nodes[n].sentences) = 1
      /\ DOMAIN nodes[n].sentences = 1 .. 1
  <2>1. n \in 1 .. Len(nodes) BY NodeFacts
  <2>2. nodes[n].sentences \in Seq(Nat) /\ Len(nodes[n].sentences) = 1 BY <2>1, NodeFacts
  <2> QED BY <2>2, LenProperties
<1>9. ASSUME NEW i \in 1 .. m, items[i].node = n PROVE items[i].at = 1
  <2>1. <<items[i].node, items[i].at>> \in Places(items) BY <1>1, <1>2, PlacesFacts
  <2>2. PICK j \in 1 .. n : \E k \in DOMAIN nodes[j].sentences :
             <<items[i].node, items[i].at>> = <<j, k>>
    BY <1>2, <2>1, ExpectedToFacts
  <2>3. PICK k \in DOMAIN nodes[j].sentences : j = n /\ items[i].at = k BY <1>9, <2>2
  <2>4. k \in 1 .. 1 BY <1>8, <2>2, <2>3
  <2> QED BY <2>3, <2>4
<1>10. m \in 1 .. m BY <1>3
<1>11. ASSUME NEW i \in 1 .. m, items[i].node = n PROVE i = m
  <2>1. items[i].at = 1 /\ items[m].at = 1 BY <1>2, <1>9, <1>10, <1>11
  <2>2. ASSUME i < m PROVE FALSE
    <3>1. Before(Place(items[i]), Place(items[m])) BY <1>3, <1>10, <2>2
    <3>2. /\ Place(items[i])[1] = n /\ Place(items[m])[1] = n
          /\ Place(items[i])[2] = 1 /\ Place(items[m])[2] = 1
      BY <1>1, <1>2, <1>10, <1>11, <2>1, PlacesFacts
    <3> QED BY <1>2, <3>1, <3>2 DEF Before
  <2> QED BY <1>3, <2>2
<1>12. ASSUME NEW p
       PROVE  p \in Places(t) <=> p \in ExpectedTo(nodes, n) /\ p[1] # n
  <2>1. p \in Places(t) <=> \E i \in 1 .. m - 1 : p = <<t[i].node, t[i].at>>
    BY <1>5, PlacesFacts
  <2>2. p \in Places(items) <=> \E i \in 1 .. m : p = <<items[i].node, items[i].at>>
    <3>1. p \in Places(items) <=>
            \E i \in 1 .. Len(items) : p = <<items[i].node, items[i].at>>
      BY <1>2, PlacesFacts, Zenon
    <3> QED BY <1>1, <3>1, Zenon
  <2>3. \A i \in 1 .. m : i \in 1 .. m - 1 <=> items[i].node # n
    <3> TAKE i \in 1 .. m
    <3>1. i \in 1 .. m - 1 <=> i # m BY <1>3
    <3> QED BY <1>2, <1>11, <3>1
  <2>4. ASSUME NEW i \in 1 .. m - 1, p = <<t[i].node, t[i].at>>
        PROVE  p \in Places(items) /\ p[1] # n
    <3>1. i \in 1 .. m /\ t[i] = items[i] BY <1>5, <1>6
    <3>2. p = <<items[i].node, items[i].at>> BY <2>4, <3>1
    <3> QED BY <2>2, <2>3, <3>1, <3>2
  <2>5. ASSUME p \in Places(items), p[1] # n
        PROVE  \E i \in 1 .. m - 1 : p = <<t[i].node, t[i].at>>
    <3>1. PICK i \in 1 .. m : p = <<items[i].node, items[i].at>> BY <2>2, <2>5
    <3>2. i \in 1 .. m - 1 BY <2>3, <2>5, <3>1
    <3>3. p = <<t[i].node, t[i].at>> BY <1>5, <3>1, <3>2
    <3> QED BY <3>2, <3>3
  <2> QED BY <1>2, <2>1, <2>4, <2>5
<1> QED BY <1>1, <1>4, <1>7, <1>12

\* The items of the next node follow those that are kept.
Grown(nodes, m, kept, all) ==
  /\ Laid(nodes, m, all) /\ all # <<>> /\ all[Len(all)].node = m
  /\ \A p : p \in Places(all) <=>
       p \in Places(kept) \/ \E k \in DOMAIN nodes[m].sentences : p = <<m, k>>

LEMMA LaidGrows ==
  ASSUME NEW nodes \in Seq(DocumentNode), NEW n \in 0 .. Len(nodes) - 1, NEW kept,
         Laid(nodes, n, kept), NEW stack \in Seq(DOMAIN nodes),
         IsPathOf(stack, nodes, n + 1), NEW all,
         all = kept \o ItemsOf(nodes, n + 1, stack)
  PROVE  Grown(nodes, n + 1, kept, all)
<1>1. Len(nodes) \in Nat /\ n \in Nat /\ n + 1 \in DOMAIN nodes BY NodeFacts
<1>2. PICK t, j, m, s : /\ t = ItemsOf(nodes, n + 1, stack) /\ j = Len(kept)
                        /\ s = nodes[n + 1].sentences /\ m = Len(s)
  OBVIOUS
<1>3. /\ t \in Seq(Item) /\ Len(t) = m /\ m \in Nat \ {0} /\ DOMAIN s = 1 .. m
      /\ \A k \in 1 .. m : /\ t[k].table = (nodes[n + 1].kind = "table")
                           /\ t[k].node = n + 1 /\ t[k].at = k /\ t[k].path = stack
  BY <1>1, <1>2, ItemsOfFacts
<1>4. /\ kept \in Seq(Item) /\ j \in Nat
      /\ \A i \in 1 .. j : /\ kept[i].node \in 1 .. n
                           /\ kept[i].table <=> nodes[kept[i].node].kind = "table"
                           /\ IsPathOf(kept[i].path, nodes, kept[i].node)
      /\ \A i, k \in 1 .. j : i < k => Before(Place(kept[i]), Place(kept[k]))
  BY <1>2, LenProperties DEF Laid
<1>5. /\ all \in Seq(Item) /\ Len(all) = j + m /\ DOMAIN all = 1 .. j + m
      /\ \A i \in 1 .. j + m : all[i] = IF i <= j THEN kept[i] ELSE t[i - j]
  <2>1. all = kept \o t /\ Len(kept) = j BY <1>2
  <2>2. /\ all \in Seq(Item) /\ Len(all) = Len(kept) + Len(t)
        /\ \A i \in 1 .. Len(kept) + Len(t) :
             all[i] = IF i <= Len(kept) THEN kept[i] ELSE t[i - Len(kept)]
    <3>1. kept \in Seq(Item) /\ t \in Seq(Item) /\ all = kept \o t BY <1>3, <1>4, <2>1
    <3> HIDE <2>1
    <3> QED BY <3>1, ConcatProperties
  <2>3. /\ Len(all) = j + m
        /\ \A i \in 1 .. j + m : all[i] = IF i <= j THEN kept[i] ELSE t[i - j]
    BY <1>3, <2>1, <2>2
  <2> QED BY <2>2, <2>3, LenProperties
<1>6. \A i \in 1 .. j : i \in 1 .. j + m /\ all[i] = kept[i]
  <2> TAKE i \in 1 .. j
  <2>1. i \in 1 .. j + m /\ i <= j BY <1>3, <1>4
  <2> QED BY <1>5, <2>1
<1>7. ASSUME NEW i \in 1 .. j + m, ~ (i \in 1 .. j)
      PROVE  i - j \in 1 .. m /\ all[i] = t[i - j]
  <2>1. i - j \in 1 .. m /\ ~ (i <= j) BY <1>3, <1>4, <1>7
  <2> QED BY <1>5, <2>1
<1>8. ASSUME NEW i \in DOMAIN all
      PROVE  /\ all[i].node \in 1 .. n + 1
             /\ all[i].table <=> nodes[all[i].node].kind = "table"
             /\ IsPathOf(all[i].path, nodes, all[i].node)
  <2>1. CASE i \in 1 .. j
    <3>1. all[i] = kept[i] /\ kept[i].node \in 1 .. n + 1 BY <1>1, <1>4, <1>6, <2>1
    <3> QED BY <1>4, <2>1, <3>1
  <2>2. CASE ~ (i \in 1 .. j)
    <3>1. i - j \in 1 .. m /\ all[i] = t[i - j] BY <1>5, <1>7, <2>2
    <3>2. n + 1 \in 1 .. n + 1 BY <1>1
    <3> QED BY <1>3, <3>1, <3>2
  <2> QED BY <2>1, <2>2
<1>9. ASSUME NEW i \in DOMAIN all, NEW k \in DOMAIN all, i < k
      PROVE  Before(Place(all[i]), Place(all[k]))
  <2>1. i \in 1 .. j + m /\ k \in 1 .. j + m BY <1>5
  <2>2. /\ Place(all[i])[1] = all[i].node /\ Place(all[k])[1] = all[k].node
        /\ Place(all[i])[2] = all[i].at /\ Place(all[k])[2] = all[k].at
    BY <1>5, <2>1, PlacesFacts
  <2>3. CASE k \in 1 .. j
    <3>1. i \in 1 .. j BY <1>4, <1>9, <2>1, <2>3
    <3> QED BY <1>4, <1>6, <1>9, <2>3, <3>1
  <2>4. CASE ~ (k \in 1 .. j) /\ i \in 1 .. j
    <3>1. k - j \in 1 .. m /\ all[k] = t[k - j] BY <1>7, <2>1, <2>4
    <3>2. all[k].node = n + 1 BY <1>3, <3>1
    <3>3. all[i].node \in 1 .. n BY <1>4, <1>6, <2>4
    <3> QED BY <1>1, <2>2, <3>2, <3>3 DEF Before
  <2>5. CASE ~ (k \in 1 .. j) /\ ~ (i \in 1 .. j)
    <3>1. k - j \in 1 .. m /\ all[k] = t[k - j] BY <1>7, <2>1, <2>5
    <3>2. i - j \in 1 .. m /\ all[i] = t[i - j] BY <1>7, <2>1, <2>5
    <3>3. all[k].node = n + 1 /\ all[k].at = k - j BY <1>3, <3>1
    <3>4. all[i].node = n + 1 /\ all[i].at = i - j BY <1>3, <3>2
    <3>5. i - j < k - j BY <1>3, <1>4, <1>9, <2>1
    <3> QED BY <1>1, <2>2, <3>3, <3>4, <3>5 DEF Before
  <2> QED BY <2>3, <2>4, <2>5
<1>10. Laid(nodes, n + 1, all) BY <1>5, <1>8, <1>9 DEF Laid
<1>11. all # <<>> /\ all[Len(all)].node = n + 1
  <2>1. j + m \in 1 .. j + m /\ ~ (j + m \in 1 .. j) /\ j + m # 0 BY <1>3, <1>4
  <2>2. all[j + m] = t[(j + m) - j] BY <1>7, <2>1
  <2>3. (j + m) - j = m /\ m \in 1 .. m BY <1>3, <1>4
  <2>4. all[j + m].node = n + 1
    <3>1. all[j + m] = t[m] /\ t[m].node = n + 1 BY <1>3, <2>2, <2>3
    <3> QED BY <3>1
  <2> QED BY <1>5, <2>1, <2>4, EmptySeq
<1>12. ASSUME NEW p
       PROVE  p \in Places(all) <=> p \in Places(kept) \/ \E k \in DOMAIN s : p = <<n + 1, k>>
  <2>1. p \in Places(all) <=> \E i \in 1 .. j + m : p = <<all[i].node, all[i].at>>
    <3>1. PICK u : u = all OBVIOUS
    <3>2. u \in Seq(Item) /\ Len(u) = j + m BY <1>5, <3>1
    <3>3. p \in Places(u) <=> \E i \in 1 .. j + m : p = <<u[i].node, u[i].at>>
      BY <3>2, PlacesFacts
    <3> QED BY <3>1, <3>3
  <2>2. p \in Places(kept) <=> \E i \in 1 .. j : p = <<kept[i].node, kept[i].at>>
    BY <1>2, <1>4, PlacesFacts
  <2>3. ASSUME NEW i \in 1 .. j + m, p = <<all[i].node, all[i].at>>
        PROVE  p \in Places(kept) \/ \E k \in DOMAIN s : p = <<n + 1, k>>
    <3>1. CASE i \in 1 .. j BY <1>6, <2>2, <2>3, <3>1
    <3>2. CASE ~ (i \in 1 .. j)
      <4>1. i - j \in 1 .. m /\ all[i] = t[i - j] BY <1>7, <3>2
      <4>2. all[i].node = n + 1 /\ all[i].at = i - j BY <1>3, <4>1
      <4> QED BY <1>3, <2>3, <4>1, <4>2
    <3> QED BY <3>1, <3>2
  <2>4. ASSUME NEW i \in 1 .. j, p = <<kept[i].node, kept[i].at>>
        PROVE  p \in Places(all)
    <3>1. i \in 1 .. j + m /\ p = <<all[i].node, all[i].at>> BY <1>6, <2>4
    <3> QED BY <2>1, <3>1
  <2>5. ASSUME NEW k \in DOMAIN s, p = <<n + 1, k>> PROVE p \in Places(all)
    <3>1. PICK i : i = j + k OBVIOUS
    <3>2. i \in 1 .. j + m /\ ~ (i \in 1 .. j) /\ i - j = k BY <1>3, <1>4, <3>1
    <3>3. all[i] = t[k]
      <4>1. all[i] = t[i - j] BY <1>7, <3>2
      <4> QED BY <3>2, <4>1
    <3>4. t[k].node = n + 1 /\ t[k].at = k BY <1>3
    <3>5. p = <<all[i].node, all[i].at>> BY <2>5, <3>3, <3>4, Zenon
    <3> QED BY <2>1, <3>2, <3>5
  <2> QED BY <2>1, <2>2, <2>3, <2>4, <2>5
<1> QED BY <1>2, <1>10, <1>11, <1>12 DEF Grown

LEMMA FlatStep ==
  ASSUME NEW nodes \in Seq(DocumentNode), NEW n \in 0 .. Len(nodes) - 1, NEW acc,
         Flat(nodes, n, acc)
  PROVE  Flat(nodes, n + 1, AddNode(nodes, acc, n + 1))
<1>1. /\ Len(nodes) \in Nat /\ n \in Nat /\ n + 1 \in DOMAIN nodes /\ n + 1 > 0
      /\ n > 0 => n \in 1 .. Len(nodes) - 1
  BY NodeFacts
<1>2. PICK i, items : i = n + 1 /\ items = acc.items OBVIOUS
<1>3. /\ acc \in FlatState(nodes) /\ acc.stack \in Seq(DOMAIN nodes)
      /\ IsPathOf(acc.stack, nodes, n)
      /\ Laid(nodes, n, items) /\ Places(items) = ExpectedTo(nodes, n)
      /\ n > 0 => items # <<>> /\ items[Len(items)].node = n
      /\ items \in Seq(Item)
  BY <1>2, FlatStateTyped DEF Flat
<1>4. PICK stack \in Seq(DOMAIN nodes), kept \in Seq(Item) :
        AddsNode(nodes, acc, i, items, stack, kept)
  <2>1. acc \in FlatState(nodes) /\ i \in DOMAIN nodes BY <1>1, <1>2, <1>3
  <2> QED BY <1>2, <2>1, AddCases
<1>5. IsPathOf(stack, nodes, i)
  <2>1. CASE nodes[i].kind = "heading"
    <3>1. stack = PushHeading(acc.stack, nodes, i) BY <1>4, <2>1 DEF AddsNode
    <3> QED BY <1>2, <1>3, <2>1, <3>1, PathPushed
  <2>2. CASE nodes[i].kind # "heading"
    <3>1. Under(nodes, i) = Under(nodes, n) BY <1>2, <2>2, PathKept
    <3>2. stack = acc.stack BY <1>4, <2>2 DEF AddsNode
    <3> QED BY <1>3, <3>1, <3>2 DEF IsPathOf
  <2> QED BY <2>1, <2>2
<1>6. items # <<>> => /\ Len(items) \in DOMAIN items /\ n > 0
                      /\ items[Len(items)].table <=> nodes[n].kind = "table"
  <2>1. HAVE items # <<>>
  <2>2. Len(items) \in DOMAIN items BY <1>3, <2>1, EmptySeq, LenProperties
  <2>3. items[Len(items)].node \in 1 .. n BY <1>3, <2>2 DEF Laid
  <2>4. n > 0 BY <1>1, <2>3
  <2> QED BY <1>3, <2>2, <2>4 DEF Laid
<1>7. /\ Laid(nodes, n, kept)
      /\ \A p : p \in Places(kept) <=>
           p \in ExpectedTo(nodes, n) /\ ~ (n > 0 /\ p[1] = n /\ Tables(nodes, n))
  <2>1. CASE n > 0 /\ Tables(nodes, n)
    <3>1. nodes[n].kind = "table" /\ nodes[i].kind = "table" BY <1>2, <2>1 DEF Tables
    <3>2. items # <<>> /\ items[Len(items)].table BY <1>3, <1>6, <2>1, <3>1
    <3>3. kept = Front(items) BY <1>4, <3>1, <3>2 DEF AddsNode
    <3> QED BY <1>1, <1>2, <2>1, <3>1, <3>3, TableDropped
  <2>2. CASE ~ (n > 0 /\ Tables(nodes, n))
    <3>1. ~ (nodes[i].kind = "table" /\ items # <<>> /\ items[Len(items)].table)
      BY <1>2, <1>6, <2>2 DEF Tables
    <3>2. kept = items BY <1>4, <3>1 DEF AddsNode
    <3> QED BY <1>3, <2>2, <3>2
  <2> QED BY <2>1, <2>2
<1>8. PICK all : all = kept \o ItemsOf(nodes, i, stack) OBVIOUS
<1>9. /\ Laid(nodes, i, all) /\ all # <<>> /\ all[Len(all)].node = i
      /\ \A p : p \in Places(all) <=>
           p \in Places(kept) \/ \E k \in DOMAIN nodes[i].sentences : p = <<i, k>>
  <2>1. /\ all = kept \o ItemsOf(nodes, n + 1, stack)
        /\ IsPathOf(stack, nodes, n + 1) /\ Laid(nodes, n, kept)
    BY <1>2, <1>5, <1>7, <1>8
  <2>2. Grown(nodes, n + 1, kept, all) BY <2>1, LaidGrows
  <2>3. Grown(nodes, i, kept, all) BY <1>2, <2>2
  <2> QED BY <2>3 DEF Grown
<1>10. Places(all) = ExpectedTo(nodes, i)
  <2>1. \A p : p \in Places(all) <=> p \in ExpectedTo(nodes, i)
    <3> TAKE p
    <3>1. p \in ExpectedTo(nodes, n + 1) <=>
            \/ p \in ExpectedTo(nodes, n) /\ ~ (n > 0 /\ p[1] = n /\ Tables(nodes, n))
            \/ \E k \in DOMAIN nodes[n + 1].sentences : p = <<n + 1, k>>
      BY <1>1, ExpectedGrows
    <3> QED BY <1>2, <1>7, <1>9, <3>1
  <2>2. Places(all) \subseteq ExpectedTo(nodes, i) /\ ExpectedTo(nodes, i) \subseteq Places(all)
    BY <2>1
  <2> QED BY <2>2
<1>11. AddNode(nodes, acc, i).stack = stack /\ AddNode(nodes, acc, i).items = all
  BY <1>4, <1>8 DEF AddsNode
<1>12. AddNode(nodes, acc, i) \in FlatState(nodes) BY <1>4 DEF AddsNode
<1> QED BY <1>2, <1>5, <1>9, <1>10, <1>11, <1>12 DEF Flat

\* Flattening keeps the text, in its order, and knows the headings it is
\* under.
LEMMA FlattenFacts ==
  ASSUME NEW nodes \in Seq(DocumentNode)
  PROVE  /\ Laid(nodes, Len(nodes), Flatten(nodes))
         /\ Places(Flatten(nodes)) = Expected(nodes)
<1>1. PICK f \in [0 .. Len(nodes) -> FlatState(nodes)] :
        /\ f[0] = [stack |-> <<>>, items |-> <<>>]
        /\ \A k \in 1 .. Len(nodes) : f[k] = AddNode(nodes, f[k - 1], k)
        /\ Flatten(nodes) = f[Len(nodes)].items
  BY FlattenFold
<1>2. Len(nodes) \in Nat /\ DOMAIN nodes = 1 .. Len(nodes) BY NodeFacts
<1>3. Flat(nodes, 0, f[0])
  <2>1. /\ <<>> \in Seq(Item) /\ <<>> \in Seq(DOMAIN nodes) /\ DOMAIN <<>> = {}
        /\ f[0].stack = <<>> /\ f[0].items = <<>> /\ 0 \in 0 .. Len(nodes) /\ 1 .. 0 = {}
    BY <1>1, <1>2, EmptySeq
  <2>2. Under(nodes, 0) = {} BY <2>1 DEF Under
  <2>3. IsPathOf(<<>>, nodes, 0) BY <2>1, <2>2 DEF IsPathOf, Range
  <2>4. Laid(nodes, 0, <<>>) BY <2>1 DEF Laid
  <2>5. Places(<<>>) = {} BY <2>1 DEF Places
  <2>6. ExpectedTo(nodes, 0) = {} BY <2>1, ExpectedToFacts
  <2>7. PICK a : a = f[0] OBVIOUS
  <2>8. a.stack = <<>> /\ a.items = <<>> /\ a \in FlatState(nodes)
    BY <1>1, <2>1, <2>7
  <2>9. Flat(nodes, 0, a) BY <2>3, <2>4, <2>5, <2>6, <2>8 DEF Flat
  <2> QED BY <2>7, <2>9
<1> DEFINE T == {k \in 0 .. Len(nodes) : ~ Flat(nodes, k, f[k])}
<1>4. ASSUME T # {} PROVE FALSE
  <2>1. PICK k \in T : \A i \in T : k <= i
    <3>1. T \in SUBSET Nat BY <1>2
    <3> HIDE DEF T
    <3> QED BY <1>4, <3>1, LeastNumber
  <2>2. k \in 0 .. Len(nodes) /\ k # 0 BY <1>3, <2>1
  <2>3. k \in 1 .. Len(nodes) /\ k - 1 \in 0 .. Len(nodes) - 1 /\ k - 1 \in 0 .. Len(nodes)
        /\ (k - 1) + 1 = k
    BY <1>2, <2>2
  <2>4. k - 1 \notin T
    <3> HIDE DEF T
    <3>1. ~ (k <= k - 1) BY <2>3
    <3> QED BY <2>1, <3>1
  <2>5. Flat(nodes, k - 1, f[k - 1]) BY <2>3, <2>4
  <2>6. Flat(nodes, k, AddNode(nodes, f[k - 1], k)) BY <2>3, <2>5, FlatStep
  <2> QED BY <1>1, <2>1, <2>3, <2>6
<1>5. Len(nodes) \in 0 .. Len(nodes) BY <1>2
<1>6. Flat(nodes, Len(nodes), f[Len(nodes)]) BY <1>4, <1>5
<1>7. ExpectedTo(nodes, Len(nodes)) = Expected(nodes)
  <2>1. {i \in 1 .. Len(nodes) : ~ (i < Len(nodes) /\ Tables(nodes, i))} =
          {i \in DOMAIN nodes :
             ~ (/\ nodes[i].kind = "table"
                /\ i < Len(nodes) /\ nodes[i + 1].kind = "table")}
    BY <1>2 DEF Tables
  <2> QED BY <2>1 DEF ExpectedTo, Expected
<1> QED BY <1>1, <1>6, <1>7 DEF Flat

-----------------------------------------------------------------------------
(* Chunking: the whole document.                                           *)

LEMMA PieceOfPiece ==
  ASSUME NEW items \in Seq(Item), NEW x \in 1 .. Len(items), NEW y \in x .. Len(items),
         NEW k \in 1 .. y - x + 1, NEW s, s = SubSeq(items, x, y)
  PROVE  SubSeq(s, k, Len(s)) = SubSeq(items, x + k - 1, y)
<1>1. Len(items) \in Nat BY LenProperties
<1>2. /\ x \in 1 .. Len(items) + 1 /\ y \in x - 1 .. Len(items) BY <1>1
<1>3. PICK m : m = Len(s) OBVIOUS
<1>4. /\ s \in Seq(Item) /\ m = y - x + 1
      /\ \A i \in 1 .. y - x + 1 : s[i] = items[x + i - 1]
  BY <1>2, <1>3, PieceFacts
<1>5. PICK j : j = x + k - 1 OBVIOUS
<1>6. j \in 1 .. Len(items) + 1 /\ y \in j - 1 .. Len(items) BY <1>1, <1>5
<1>7. k \in 1 .. Len(s) + 1 /\ m \in k - 1 .. Len(s) BY <1>1, <1>3, <1>4
<1>8. /\ SubSeq(items, j, y) \in Seq(Item) /\ Len(SubSeq(items, j, y)) = y - j + 1
      /\ \A i \in 1 .. y - j + 1 : SubSeq(items, j, y)[i] = items[j + i - 1]
  BY <1>6, PieceFacts
<1>9. /\ SubSeq(s, k, m) \in Seq(Item) /\ Len(SubSeq(s, k, m)) = m - k + 1
      /\ \A i \in 1 .. m - k + 1 : SubSeq(s, k, m)[i] = s[k + i - 1]
  BY <1>4, <1>7, PieceFacts
<1>10. m - k + 1 = y - j + 1 BY <1>1, <1>4, <1>5
<1>11. ASSUME NEW i \in 1 .. y - j + 1 PROVE SubSeq(s, k, m)[i] = SubSeq(items, j, y)[i]
  <2>1. k + i - 1 \in 1 .. y - x + 1 /\ x + (k + i - 1) - 1 = j + i - 1 BY <1>1, <1>5
  <2>2. s[k + i - 1] = items[x + (k + i - 1) - 1] BY <1>4, <2>1
  <2> QED BY <1>8, <1>9, <1>10, <2>1, <2>2
<1>12. SubSeq(s, k, m) = SubSeq(items, j, y) BY <1>8, <1>9, <1>10, <1>11, SeqEqual
<1> QED BY <1>3, <1>5, <1>12

\* The pieces leave nothing out.
LEMMA SpansCover ==
  ASSUME NEW items \in Seq(Item), NEW P, NEW chunks \in Seq(Draft),
         NEW lo \in [DOMAIN chunks -> 1 .. Len(items)],
         NEW hi \in [DOMAIN chunks -> 1 .. Len(items)],
         Spans(items, P, Len(items), Len(items), Len(items) + 1, chunks, lo, hi),
         NEW i \in 1 .. Len(items)
  PROVE  \E c \in DOMAIN chunks : i \in lo[c] .. hi[c]
<1>1. Len(items) \in Nat /\ Len(chunks) \in Nat /\ DOMAIN chunks = 1 .. Len(chunks)
  BY LenProperties
<1>2. chunks # <<>> /\ hi[Len(chunks)] = Len(items) BY <1>1 DEF Spans
<1>3. Len(chunks) \in 1 .. Len(chunks) BY <1>1, <1>2, EmptySeq
<1> DEFINE T == {c \in 1 .. Len(chunks) : i <= hi[c]}
<1>4. Len(chunks) \in T BY <1>2, <1>3
<1>5. PICK c \in T : \A d \in T : c <= d
  <2>1. T \in SUBSET Nat BY <1>1
  <2> HIDE DEF T
  <2> QED BY <1>4, <2>1, LeastNumber
<1>6. c \in DOMAIN chunks /\ i <= hi[c] /\ c \in 1 .. Len(chunks) BY <1>1, <1>5
<1>7. lo[c] \in 1 .. Len(items) /\ hi[c] \in 1 .. Len(items) BY <1>6
<1>8. CASE c = 1
  <2>1. lo[c] = 1 BY <1>6, <1>8 DEF Spans
  <2> QED BY <1>1, <1>6, <1>7, <2>1
<1>9. CASE c # 1
  <2>1. c - 1 \in 1 .. Len(chunks) /\ ~ (c <= c - 1) /\ c > 1 BY <1>1, <1>6, <1>9
  <2>2. c - 1 \notin T
    <3> HIDE DEF T
    <3> QED BY <1>5, <2>1
  <2>3. ~ (i <= hi[c - 1]) BY <2>1, <2>2
  <2>4. lo[c] <= hi[c - 1] + 1 BY <1>6, <2>1 DEF Spans
  <2>5. hi[c - 1] \in 1 .. Len(items) BY <1>1, <2>1
  <2> QED BY <1>1, <1>6, <1>7, <2>3, <2>4, <2>5
<1> QED BY <1>8, <1>9

\* The draft of the items from x to y.
Piece(items, x, y, draft, s) ==
  /\ x \in 1 .. Len(items) /\ y \in x .. Len(items)
  /\ s = SubSeq(items, x, y) /\ s \in Seq(Item)
  /\ Len(s) = y - x + 1 /\ DOMAIN s = 1 .. y - x + 1
  /\ \A k \in 1 .. y - x + 1 : s[k] = items[x + k - 1] /\ x + k - 1 \in x .. y
  /\ Last(s) = items[y] /\ draft.path = items[y].path
  /\ Places(s) = {Place(items[i]) : i \in x .. y}

LEMMA SpanFacts ==
  ASSUME NEW items \in Seq(Item), NEW P, NEW chunks \in Seq(Draft),
         NEW lo \in [DOMAIN chunks -> 1 .. Len(items)],
         NEW hi \in [DOMAIN chunks -> 1 .. Len(items)],
         Spans(items, P, Len(items), Len(items), Len(items) + 1, chunks, lo, hi),
         NEW c \in DOMAIN chunks, NEW s, s = chunks[c].items
  PROVE  Piece(items, lo[c], hi[c], chunks[c], s)
<1>1. PICK x, y : x = lo[c] /\ y = hi[c] OBVIOUS
<1>2. /\ Len(items) \in Nat /\ x \in 1 .. Len(items) /\ y \in 1 .. Len(items)
      /\ x <= y /\ chunks[c] = Chunk(SubSeq(items, x, y))
  BY <1>1, LenProperties DEF Spans
<1>3. /\ y \in x .. Len(items) /\ x \in 1 .. Len(items) + 1 /\ y \in x - 1 .. Len(items)
      /\ y - x + 1 \in 1 .. y - x + 1 /\ y - x + 1 # 0 /\ x + (y - x + 1) - 1 = y
  BY <1>2
<1>4. PICK t : t = SubSeq(items, x, y) OBVIOUS
<1>5. /\ t \in Seq(Item) /\ Len(t) = y - x + 1 /\ DOMAIN t = 1 .. y - x + 1
      /\ \A k \in 1 .. y - x + 1 : t[k] = items[x + k - 1]
  BY <1>3, <1>4, PieceFacts
<1>6. t # <<>> BY <1>3, <1>5, EmptySeq
<1>7. chunks[c].items = t /\ chunks[c].path = t[Len(t)].path
  BY <1>2, <1>4, <1>5, <1>6, ChunkTyped
<1>8. s = t BY <1>7
<1>9. t[Len(t)] = items[y] /\ Last(s) = items[y] BY <1>3, <1>5, <1>8 DEF Last
<1>10. \A k \in 1 .. y - x + 1 : x + k - 1 \in x .. y BY <1>2
<1>11. \A i \in x .. y : i - x + 1 \in 1 .. y - x + 1 /\ x + (i - x + 1) - 1 = i BY <1>2
<1>12. \A i \in x .. y : t[i - x + 1] = items[i] BY <1>5, <1>11
<1>13. Places(t) = {Place(items[i]) : i \in x .. y}
  <2>1. \A p : p \in Places(t) <=> \E k \in 1 .. y - x + 1 : p = Place(t[k])
    BY <1>5 DEF Places
  <2>2. \A p : (\E k \in 1 .. y - x + 1 : p = Place(t[k])) <=>
               \E i \in x .. y : p = Place(items[i])
    BY <1>5, <1>10, <1>11, <1>12
  <2>3. \A p : p \in Places(t) <=> p \in {Place(items[i]) : i \in x .. y}
    BY <2>1, <2>2
  <2>4. Places(t) \subseteq {Place(items[i]) : i \in x .. y}
        /\ {Place(items[i]) : i \in x .. y} \subseteq Places(t)
    BY <2>3, Zenon
  <2> QED BY <2>4
<1>14. Piece(items, x, y, chunks[c], s)
  BY <1>2, <1>3, <1>4, <1>5, <1>7, <1>8, <1>9, <1>10, <1>13 DEF Piece
<1> QED BY <1>1, <1>14

\* The places of flattened items are ordered as the items are.
LEMMA PlacesOrdered ==
  ASSUME NEW nodes, NEW n, NEW items, Laid(nodes, n, items),
         NEW i \in 1 .. Len(items), NEW k \in 1 .. Len(items)
  PROVE  /\ Before(Place(items[i]), Place(items[k])) <=> i < k
         /\ Place(items[i]) = Place(items[k]) => i = k
<1>1. /\ items \in Seq(Item) /\ Len(items) \in Nat /\ DOMAIN items = 1 .. Len(items)
  BY LenProperties DEF Laid
<1>2. /\ Place(items[i])[1] \in Nat /\ Place(items[i])[2] \in Nat
      /\ Place(items[k])[1] \in Nat /\ Place(items[k])[2] \in Nat
  BY <1>1, PlacesFacts
<1>3. /\ i < k => Before(Place(items[i]), Place(items[k]))
      /\ k < i => Before(Place(items[k]), Place(items[i]))
  BY <1>1 DEF Laid
<1>4. \A a, b : a[1] \in Nat /\ a[2] \in Nat /\ b[1] \in Nat /\ b[2] \in Nat =>
                  ~ (Before(a, b) /\ Before(b, a)) /\ ~ Before(a, a)
  BY DEF Before
<1>5. i < k \/ k < i \/ i = k BY <1>1
<1>6. ~ (i < k /\ k < i) /\ ~ (i < i) BY <1>1
<1> QED BY <1>2, <1>3, <1>4, <1>5, <1>6

LEMMA DocumentGivenBack ==
  ASSUME NEW nodes \in Seq(DocumentNode)
  PROVE  GivesBack(nodes, ChunkDocument(nodes))
<1>1. PICK items : items = Flatten(nodes) OBVIOUS
<1>2. Laid(nodes, Len(nodes), items) /\ Places(items) = Expected(nodes)
  BY <1>1, FlattenFacts
<1>3. items \in Seq(Item) /\ Len(items) \in Nat /\ DOMAIN items = 1 .. Len(items)
  BY <1>2, LenProperties DEF Laid
<1>4. PICK packed, chunks :
        /\ packed = FoldLeft(Pack, [buffer |-> <<>>, chunks |-> <<>>], items)
        /\ chunks = Flush(packed.buffer, packed.chunks)
  OBVIOUS
<1>5. ChunkDocument(nodes) = chunks BY <1>1, <1>4 DEF ChunkDocument
<1>6. chunks \in Seq(Draft) BY <1>3, <1>4, PackAll
<1>7. PICK P : /\ Prefix(items, P)
               /\ PackedTo(items, P, Len(items), Len(items), Len(items) + 1, chunks)
  BY <1>3, <1>4, PackAll
<1>8. PICK lo \in [DOMAIN chunks -> 1 .. Len(items)], hi \in [DOMAIN chunks -> 1 .. Len(items)] :
             Spans(items, P, Len(items), Len(items), Len(items) + 1, chunks, lo, hi)
  BY <1>7 DEF PackedTo
<1> DEFINE all == Expected(nodes)
           Pl(i) == Place(items[i])
<1>9. \A p : p \in all <=> \E i \in 1 .. Len(items) : p = Pl(i)
  BY <1>2, <1>3 DEF Places
<1>10. \A i, k \in 1 .. Len(items) : (Before(Pl(i), Pl(k)) <=> i < k) /\ (Pl(i) = Pl(k) => i = k)
  BY <1>2, PlacesOrdered
<1> HIDE DEF all, Pl
<1>11. \A c \in DOMAIN chunks :
         /\ lo[c] \in 1 .. Len(items) /\ hi[c] \in lo[c] .. Len(items)
         /\ \A i \in lo[c] .. hi[c] : i \in 1 .. Len(items)
         /\ Places(chunks[c].items) = {Pl(i) : i \in lo[c] .. hi[c]}
  <2> TAKE c \in DOMAIN chunks
  <2>0. PICK s : s = chunks[c].items OBVIOUS
  <2>1. /\ lo[c] \in 1 .. Len(items) /\ hi[c] \in lo[c] .. Len(items)
        /\ Places(s) = {Place(items[i]) : i \in lo[c] .. hi[c]}
    <3>1. Piece(items, lo[c], hi[c], chunks[c], s) BY <1>3, <1>6, <1>8, <2>0, SpanFacts
    <3> QED BY <3>1 DEF Piece
  <2> QED BY <1>3, <2>0, <2>1 DEF Pl
<1>12. UNION {Places(chunks[c].items) : c \in DOMAIN chunks} = all
  <2>1. ASSUME NEW c \in DOMAIN chunks, NEW p \in Places(chunks[c].items) PROVE p \in all
    <3>1. PICK i \in lo[c] .. hi[c] : p = Pl(i) BY <1>11, <2>1
    <3>2. i \in 1 .. Len(items) BY <1>11, <3>1
    <3> QED BY <1>9, <3>1, <3>2
  <2>2. ASSUME NEW p \in all PROVE \E c \in DOMAIN chunks : p \in Places(chunks[c].items)
    <3>1. PICK i \in 1 .. Len(items) : p = Pl(i) BY <1>9
    <3>2. PICK c \in DOMAIN chunks : i \in lo[c] .. hi[c]
      BY <1>3, <1>6, <1>8, SpansCover
    <3> QED BY <1>11, <3>1, <3>2
  <2> QED BY <2>1, <2>2
<1>13. ASSUME NEW c \in DOMAIN chunks, NEW s, s = chunks[c].items
       PROVE  /\ \A i, k \in DOMAIN s : i < k => Before(Place(s[i]), Place(s[k]))
              /\ \A p, q \in Places(s), r \in all :
                   Before(p, r) /\ Before(r, q) => r \in Places(s)
              /\ \A i \in DOMAIN s : /\ s[i].opens => i = 1
                                     /\ s[i].table => Len(s) = 1
              /\ IsPathOf(chunks[c].path, nodes, Last(s).node)
  <2>1. PICK x, y : x = lo[c] /\ y = hi[c] OBVIOUS
  <2>2. /\ x \in 1 .. Len(items) /\ y \in x .. Len(items) /\ s \in Seq(Item)
        /\ Len(s) = y - x + 1 /\ DOMAIN s = 1 .. y - x + 1
        /\ \A k \in 1 .. y - x + 1 : s[k] = items[x + k - 1] /\ x + k - 1 \in x .. y
        /\ Last(s) = items[y] /\ chunks[c].path = items[y].path
    <3>1. Piece(items, lo[c], hi[c], chunks[c], s) BY <1>3, <1>6, <1>8, <1>13, SpanFacts
    <3>2. Piece(items, x, y, chunks[c], s) BY <2>1, <3>1
    <3> QED BY <3>2 DEF Piece
  <2>3. /\ \A i \in x .. y : i \in 1 .. Len(items)
        /\ Places(s) = {Pl(i) : i \in x .. y}
    BY <1>11, <1>13, <2>1
  <2>4. ASSUME NEW i \in DOMAIN s, NEW k \in DOMAIN s, i < k
        PROVE  Before(Place(s[i]), Place(s[k]))
    <3>1. PICK j, l : j = x + i - 1 /\ l = x + k - 1 OBVIOUS
    <3>2. s[i] = items[j] /\ s[k] = items[l] /\ j \in x .. y /\ l \in x .. y
      BY <2>2, <3>1
    <3>3. j < l BY <1>3, <2>2, <2>4, <3>1
    <3>4. Before(Pl(j), Pl(l)) BY <1>10, <2>3, <3>2, <3>3
    <3> QED BY <3>2, <3>4 DEF Pl
  <2>5. ASSUME NEW p \in Places(s), NEW q \in Places(s), NEW r \in all,
               Before(p, r), Before(r, q)
        PROVE  r \in Places(s)
    <3>1. PICK i \in x .. y : p = Pl(i) BY <2>3
    <3>2. PICK k \in x .. y : q = Pl(k) BY <2>3
    <3>3. PICK j \in 1 .. Len(items) : r = Pl(j) BY <1>9
    <3>4. i < j /\ j < k BY <1>10, <2>3, <2>5, <3>1, <3>2, <3>3
    <3>5. j \in x .. y BY <1>3, <2>2, <3>4
    <3> QED BY <2>3, <3>3, <3>5
  <2>6. ASSUME NEW i \in DOMAIN s
        PROVE  (s[i].opens => i = 1) /\ (s[i].table => Len(s) = 1)
    <3>1. PICK j : j = x + i - 1 OBVIOUS
    <3>2. s[i] = items[j] /\ j \in x .. y BY <2>2, <3>1
    <3>3. (items[j].opens => j = x) /\ (items[j].table => x = y)
      BY <1>8, <2>1, <3>2 DEF Spans
    <3>4. (j = x => i = 1) /\ (x = y => Len(s) = 1) BY <1>3, <2>2, <3>1
    <3> QED BY <3>2, <3>3, <3>4
  <2>7. IsPathOf(items[y].path, nodes, items[y].node)
    <3>1. y \in DOMAIN items BY <1>3, <2>2
    <3> QED BY <1>2, <3>1 DEF Laid
  <2> QED BY <2>2, <2>4, <2>5, <2>6, <2>7
<1>14. ASSUME NEW c \in DOMAIN chunks, c > 1
       PROVE  /\ c - 1 \in DOMAIN chunks
              /\ lo[c - 1] <= lo[c] /\ lo[c] <= hi[c - 1] + 1 /\ hi[c - 1] <= hi[c]
  <2>1. DOMAIN chunks = 1 .. Len(chunks) /\ Len(chunks) \in Nat BY <1>6, LenProperties
  <2>2. c - 1 \in DOMAIN chunks BY <1>14, <2>1
  <2> QED BY <1>8, <1>14, <2>2 DEF Spans
<1>15. ASSUME NEW c \in DOMAIN chunks, c > 1
       PROVE  ~ Before(Place(Last(chunks[c].items)), Place(Last(chunks[c - 1].items)))
  <2>1. Last(chunks[c].items) = items[hi[c]] /\ Last(chunks[c - 1].items) = items[hi[c - 1]]
    <3>1. PICK d, s, t : d = c - 1 /\ s = chunks[c].items /\ t = chunks[d].items OBVIOUS
    <3>2. d \in DOMAIN chunks BY <1>14, <1>15, <3>1
    <3>3. Piece(items, lo[c], hi[c], chunks[c], s) BY <1>3, <1>6, <1>8, <3>1, SpanFacts
    <3>4. Piece(items, lo[d], hi[d], chunks[d], t)
      BY <1>3, <1>6, <1>8, <3>1, <3>2, SpanFacts
    <3> QED BY <3>1, <3>3, <3>4 DEF Piece
  <2>2. hi[c] \in 1 .. Len(items) /\ hi[c - 1] \in 1 .. Len(items)
    BY <1>14, <1>15
  <2>3. ~ (hi[c] < hi[c - 1]) BY <1>3, <1>14, <1>15, <2>2
  <2>4. ~ Before(Pl(hi[c]), Pl(hi[c - 1])) BY <1>10, <2>2, <2>3
  <2> QED BY <2>1, <2>4 DEF Pl
<1>16. ASSUME NEW c \in DOMAIN chunks, NEW s, s = chunks[c].items,
              NEW k \in 1 .. Len(s) - 1,
              c = 1 \/ Place(s[k]) \notin Places(chunks[c - 1].items)
       PROVE  Tokens(SubSeq(s, k, Len(s))) <= HardMaxTokens
  <2>1. PICK x, y : x = lo[c] /\ y = hi[c] OBVIOUS
  <2>2. /\ x \in 1 .. Len(items) /\ y \in x .. Len(items) /\ s = SubSeq(items, x, y)
        /\ Len(s) = y - x + 1
        /\ \A i \in 1 .. y - x + 1 : s[i] = items[x + i - 1]
    <3>1. Piece(items, lo[c], hi[c], chunks[c], s) BY <1>3, <1>6, <1>8, <1>16, SpanFacts
    <3>2. Piece(items, x, y, chunks[c], s) BY <2>1, <3>1
    <3> QED BY <3>2 DEF Piece
  <2>3. PICK j : j = x + k - 1 OBVIOUS
  <2>4. k \in 1 .. y - x + 1 /\ j \in x .. y - 1 /\ j \in 1 .. Len(items) + 1
        /\ y \in j - 1 .. Len(items) /\ j \in 1 .. Len(items)
    BY <1>3, <2>2, <2>3
  <2>5. SubSeq(s, k, Len(s)) = SubSeq(items, j, y) BY <1>3, <2>2, <2>3, <2>4, PieceOfPiece
  <2>6. Tokens(SubSeq(items, j, y)) = P[y] - P[j - 1] BY <1>3, <1>7, <2>4, TokensOfPiece
  <2>7. c = 1 \/ j > hi[c - 1]
    <3>1. SUFFICES ASSUME c # 1, ~ (j > hi[c - 1]) PROVE FALSE OBVIOUS
    <3>2. c > 1
      <4>1. DOMAIN chunks = 1 .. Len(chunks) /\ Len(chunks) \in Nat
        BY <1>6, LenProperties
      <4> QED BY <3>1, <4>1
    <3>3. c - 1 \in DOMAIN chunks /\ lo[c - 1] <= x BY <1>14, <2>1, <3>2
    <3>4. lo[c - 1] \in 1 .. Len(items) /\ hi[c - 1] \in 1 .. Len(items) BY <3>3
    <3>5. j \in lo[c - 1] .. hi[c - 1]
      <4>1. PICK u, v : u = lo[c - 1] /\ v = hi[c - 1] OBVIOUS
      <4>2. /\ u \in Nat /\ v \in Nat /\ j \in Nat /\ x \in Nat /\ x <= j /\ u <= x
            /\ ~ (j > v)
        BY <1>3, <2>2, <2>4, <3>1, <3>3, <3>4, <4>1
      <4> QED BY <4>1, <4>2
    <3>6. Pl(j) \in Places(chunks[c - 1].items) BY <1>11, <3>3, <3>5
    <3>7. Place(s[k]) = Pl(j) BY <2>2, <2>3, <2>4 DEF Pl
    <3> QED BY <1>16, <3>1, <3>6, <3>7
  <2>8. P[y] - P[j - 1] <= HardMaxTokens
    <3>1. c \in DOMAIN chunks /\ j \in lo[c] .. hi[c] - 1 BY <2>1, <2>4
    <3> QED BY <1>8, <2>1, <2>7, <3>1 DEF Spans
  <2> QED BY <2>5, <2>6, <2>8
<1>17. OverlapOnly(chunks) BY <1>16 DEF OverlapOnly
<1> QED BY <1>5, <1>12, <1>13, <1>15, <1>17 DEF GivesBack, all

\* Sequences put one after the other.
LEMMA FlattenTyped ==
  ASSUME NEW B, NEW seqs \in Seq(Seq(B))
  PROVE  FlattenSeq(seqs) \in Seq(B)
<1>1. /\ Len(seqs) \in Nat /\ DOMAIN seqs = 1 .. Len(seqs)
      /\ \A i \in 1 .. Len(seqs) : seqs[i] \in Seq(B)
  BY LenProperties, ElementOfSeq
<1>2. CASE Len(seqs) = 0
  <2>1. seqs = <<>> BY <1>2, EmptySeq
  <2> QED BY <1>2, <2>1, EmptySeq DEF FlattenSeq
<1>3. CASE Len(seqs) # 0
  <2>1. PICK F : F = [p \in Seq(B) \X Seq(B) |-> p[1] \o p[2]] OBVIOUS
  <2>2. F \in [Seq(B) \X Seq(B) -> Seq(B)] BY <2>1, ConcatProperties
  <2>3. <<>> \in Seq(B) BY EmptySeq
  <2>4. PICK h \in [SUBSET (DOMAIN seqs) -> Seq(B)], f \in [0 .. Len(seqs) -> Seq(B)] :
               Folds(F, <<>>, seqs, h, f)
    BY <2>2, <2>3, FoldExists, Zenon
  <2>5. ASSUME NEW i \in 1 .. Len(seqs)
        PROVE  f[i] = IF i = 1 THEN seqs[i] ELSE f[i - 1] \o seqs[i]
    <3>1. f[i] = F[<<f[i - 1], seqs[i]>>] BY <1>1, <2>4 DEF Folds
    <3>2. i - 1 \in 0 .. Len(seqs) BY <1>1
    <3>3. PICK a, b : a = f[i - 1] /\ b = seqs[i] OBVIOUS
    <3>4. a \in Seq(B) /\ b \in Seq(B) BY <1>1, <2>4, <3>2, <3>3
    <3>5. F[<<a, b>>] = a \o b BY <2>1, <3>4
    <3>6. i = 1 => a = <<>> BY <2>4, <3>3 DEF Folds
    <3>7. i = 1 => a \o b = b BY <3>4, <3>6, ConcatEmptySeq
    <3> QED BY <3>1, <3>3, <3>5, <3>7
  <2> DEFINE body(g) == [i \in 1 .. Len(seqs) |->
                           IF i = 1 THEN seqs[i] ELSE g[i - 1] \o seqs[i]]
             flat == CHOOSE g : g = body(g)
  <2>6. PICK k : k = [i \in 1 .. Len(seqs) |-> f[i]] OBVIOUS
  <2>7. k = body(k)
    <3>1. \A i \in 1 .. Len(seqs) : i # 1 => k[i - 1] = f[i - 1] BY <1>1, <2>6
    <3> QED BY <2>5, <2>6, <3>1
  <2>8. flat = body(flat) BY <2>7
  <2>9. FlattenSeq(seqs) = flat[Len(seqs)] BY <1>3 DEF FlattenSeq
  <2>10. PICK g : g = flat OBVIOUS
  <2>11. g = body(g) BY <2>8, <2>10
  <2> HIDE DEF flat
  <2>12. PICK T : T = {i \in 1 .. Len(seqs) : g[i] # f[i]} OBVIOUS
  <2>13. ASSUME T # {} PROVE FALSE
    <3>1. PICK i \in T : \A j \in T : i <= j
      <4>1. T \in SUBSET Nat BY <1>1, <2>12
      <4> QED BY <2>13, <4>1, LeastNumber
    <3>2. i \in 1 .. Len(seqs) /\ g[i] # f[i] BY <2>12, <3>1
    <3>3. i # 1 => g[i - 1] = f[i - 1]
      <4>1. SUFFICES ASSUME i # 1 PROVE g[i - 1] = f[i - 1] OBVIOUS
      <4>2. i - 1 \in 1 .. Len(seqs) /\ ~ (i <= i - 1) BY <1>1, <3>2, <4>1
      <4> QED BY <2>12, <3>1, <4>2
    <3>4. g[i] = IF i = 1 THEN seqs[i] ELSE g[i - 1] \o seqs[i] BY <2>11, <3>2
    <3> QED BY <2>5, <3>2, <3>3, <3>4
  <2>14. Len(seqs) \in 1 .. Len(seqs) BY <1>1, <1>3
  <2>15. g[Len(seqs)] = f[Len(seqs)] BY <2>12, <2>13, <2>14
  <2> QED BY <1>1, <2>4, <2>9, <2>10, <2>15
<1> QED BY <1>2, <1>3

-----------------------------------------------------------------------------
(* Chunking: the parsers.                                                  *)

\* Whatever kind of text Meet stays within, Joined stays within.
LEMMA JoinedTyped ==
  ASSUME NEW A, <<>> \in A, \A s, t \in A : Meet(s, t) \in A, NEW texts \in Seq(A)
  PROVE  Joined(texts) \in A
<1>1. PICK F : F = [p \in A \X A |-> Meet(p[1], p[2])] OBVIOUS
<1>2. F \in [A \X A -> A] BY <1>1
<1>3. PICK h \in [SUBSET (DOMAIN texts) -> A], f \in [0 .. Len(texts) -> A] :
             Folds(F, <<>>, texts, h, f)
  BY <1>2, FoldExists, Zenon
<1> DEFINE body(g) == [x \in SUBSET (DOMAIN texts) |->
                         IF x = {} THEN <<>> ELSE Meet(g[x \ {Max(x)}], texts[Max(x)])]
           iter == CHOOSE g : g = body(g)
<1>4. ASSUME NEW x \in SUBSET (DOMAIN texts), x # {}
      PROVE  h[x] = Meet(h[x \ {Max(x)}], texts[Max(x)])
  <2>1. h[x] = F[<<h[x \ {Max(x)}], texts[Max(x)]>>] BY <1>3, <1>4 DEF Folds
  <2>2. PICK a, b : a = h[x \ {Max(x)}] /\ b = texts[Max(x)] OBVIOUS
  <2>3. a \in A /\ b \in A BY <1>3, <1>4, <2>2, LastOff
  <2>4. F[<<a, b>>] = Meet(a, b) BY <1>1, <2>3
  <2> QED BY <2>1, <2>2, <2>4
<1>5. h = body(h)
  <2>1. h[{}] = <<>> BY <1>3 DEF Folds
  <2> QED BY <1>3, <1>4, <2>1
<1>6. iter = body(iter) BY <1>5
<1>7. Joined(texts) = iter[DOMAIN texts] BY DEF Joined, FoldLeft, MapThenFoldSet
<1>8. PICK g : g = iter OBVIOUS
<1>9. g = body(g) BY <1>6, <1>8
<1> HIDE DEF iter
<1> DEFINE P == {x \in SUBSET (DOMAIN texts) : g[x] # h[x]}
<1>10. ASSUME P # {} PROVE FALSE
  <2>1. PICK x \in P : \A y \in x : x \ {y} \notin P
    <3>1. P \in SUBSET (SUBSET (DOMAIN texts)) OBVIOUS
    <3> HIDE DEF P
    <3> QED BY <1>10, <3>1, DomainFinite, MinimalSet
  <2>2. x # {} BY <1>9, <1>5, <2>1
  <2>3. Max(x) \in x /\ x \ {Max(x)} \in SUBSET (DOMAIN texts) BY <2>2, LastOff
  <2>4. g[x \ {Max(x)}] = h[x \ {Max(x)}] BY <2>1, <2>3
  <2>5. g[x] = Meet(g[x \ {Max(x)}], texts[Max(x)]) BY <1>9, <2>2
  <2>6. h[x] = Meet(h[x \ {Max(x)}], texts[Max(x)]) BY <1>4, <2>2
  <2>7. g[x] = h[x] BY <2>4, <2>5, <2>6, Zenon
  <2> QED BY <2>1, <2>7
<1> QED BY <1>3, <1>7, <1>8, <1>10

LEMMA MeetTyped ==
  ASSUME NEW s \in Seq(Nat), NEW t \in Seq(Nat)
  PROVE  /\ Meet(s, t) \in Seq(Nat)
         /\ Len(s) <= 1 /\ Len(t) <= 1 => Len(Meet(s, t)) <= 1
<1>1. CASE s = <<>> BY <1>1 DEF Meet
<1>2. CASE t = <<>> BY <1>2 DEF Meet
<1>3. CASE s # <<>> /\ t # <<>>
  <2>1. Len(s) \in Nat \ {0} /\ Len(t) \in Nat \ {0} BY <1>3, EmptySeq
  <2>2. PICK n : n = Last(s) + Head(t) OBVIOUS
  <2>3. n \in Nat
    <3>1. Len(s) \in 1 .. Len(s) BY <2>1
    <3>2. Last(s) \in Nat BY <3>1, ElementOfSeq DEF Last
    <3>3. Head(t) \in Nat BY <1>3, HeadTailProperties
    <3> QED BY <2>2, <3>2, <3>3
  <2>4. PICK a : a = Front(s) OBVIOUS
  <2>5. a \in Seq(Nat) /\ Len(a) = Len(s) - 1
    <3>1. PICK m : m = Len(s) - 1 OBVIOUS
    <3>2. 1 \in 1 .. Len(s) + 1 /\ m \in 1 - 1 .. Len(s) /\ m - 1 + 1 = m BY <2>1, <3>1
    <3>3. a = SubSeq(s, 1, m) BY <2>4, <3>1 DEF Front
    <3> QED BY <3>1, <3>2, <3>3, SubSeqProperties
  <2>6. Tail(t) \in Seq(Nat) /\ Len(Tail(t)) = Len(t) - 1 BY <1>3, HeadTailProperties
  <2>7. <<n>> \in Seq(Nat) /\ Len(<<n>>) = 1 BY <2>3
  <2>8. a \o <<n>> \in Seq(Nat) /\ Len(a \o <<n>>) = Len(s)
    BY <2>1, <2>5, <2>7, ConcatProperties
  <2>9. PICK b, c : b = a \o <<n>> /\ c = Tail(t) OBVIOUS
  <2>10. b \o c \in Seq(Nat) /\ Len(b \o c) = Len(s) + (Len(t) - 1)
    <3>1. b \in Seq(Nat) /\ Len(b) = Len(s) BY <2>8, <2>9
    <3>2. c \in Seq(Nat) /\ Len(c) = Len(t) - 1 BY <2>6, <2>9
    <3>3. b \o c \in Seq(Nat) /\ Len(b \o c) = Len(b) + Len(c)
      BY <3>1, <3>2, ConcatProperties
    <3> QED BY <3>1, <3>2, <3>3
  <2>11. Meet(s, t) = b \o c BY <1>3, <2>2, <2>4, <2>9 DEF Meet
  <2> QED BY <2>1, <2>10, <2>11
<1> QED BY <1>1, <1>2, <1>3

\* A sequence of texts, one for each element.
LEMMA TextsTyped ==
  ASSUME NEW n \in Nat, NEW A, NEW texts,
         DOMAIN texts = 1 .. n, texts = [i \in 1 .. n |-> texts[i]],
         \A i \in 1 .. n : texts[i] \in A
  PROVE  texts \in Seq(A)
<1>1. texts \in [1 .. n -> A] OBVIOUS
<1> QED BY <1>1, IsASeq

LEMMA JoinedIsText ==
  ASSUME NEW texts \in Seq(Seq(Nat))
  PROVE  Joined(texts) \in Seq(Nat)
<1>1. <<>> \in Seq(Nat) BY EmptySeq
<1>2. \A s, t \in Seq(Nat) : Meet(s, t) \in Seq(Nat) BY MeetTyped
<1> QED BY <1>1, <1>2, JoinedTyped

LEMMA OneSentenceTyped ==
  ASSUME NEW text \in Seq(Nat)
  PROVE  /\ OneSentence(text) \in Seq(Nat)
         /\ OneSentence(text) # <<>> => Len(OneSentence(text)) = 1
<1>1. PICK A : A = {s \in Seq(Nat) : Len(s) <= 1} OBVIOUS
<1>2. <<>> \in A BY <1>1, EmptySeq
<1>3. \A s, t \in A : Meet(s, t) \in A BY <1>1, MeetTyped
<1>4. Len(text) \in Nat /\ DOMAIN text = 1 .. Len(text) BY LenProperties
<1>5. PICK texts : texts = [k \in 1 .. Len(text) |-> <<text[k]>>] OBVIOUS
<1>6. \A k \in 1 .. Len(text) : texts[k] \in A
  <2> SUFFICES ASSUME NEW k \in 1 .. Len(text) PROVE texts[k] \in A OBVIOUS
  <2>1. PICK x \in Nat : x = text[k] BY ElementOfSeq
  <2>2. <<x>> \in Seq(Nat) /\ Len(<<x>>) = 1 OBVIOUS
  <2> QED BY <1>1, <1>5, <2>1, <2>2
<1>7. texts \in Seq(A) BY <1>4, <1>5, <1>6, TextsTyped
<1>8. Joined(texts) \in A BY <1>2, <1>3, <1>7, JoinedTyped
<1>9. OneSentence(text) = Joined(texts) BY <1>4, <1>5 DEF OneSentence
<1>10. PICK one : one = OneSentence(text) OBVIOUS
<1>11. one \in Seq(Nat) /\ Len(one) <= 1 BY <1>1, <1>8, <1>9, <1>10
<1>12. one # <<>> => Len(one) = 1
  <2>1. PICK n : n = Len(one) OBVIOUS
  <2>2. one # <<>> => n \in Nat \ {0} BY <1>11, <2>1, EmptySeq
  <2>3. n <= 1 BY <1>11, <2>1
  <2>4. one # <<>> => n = 1 BY <2>2, <2>3
  <2> QED BY <2>1, <2>4
<1> QED BY <1>10, <1>11, <1>12

LEMMA SourceFacts ==
  ASSUME NEW source \in Seq(Element)
  PROVE  /\ Len(source) \in Nat /\ DOMAIN source = 1 .. Len(source)
         /\ \A i \in 1 .. Len(source) :
              /\ source[i].sentences \in Seq(Nat) /\ source[i].page \in Nat
              /\ source[i].level \in 0 .. 9
<1>1. \A i \in 1 .. Len(source) : source[i] \in Element BY ElementOfSeq
<1>2. \A e \in Element : e.sentences \in Seq(Nat) /\ e.page \in Nat /\ e.level \in 0 .. 9
  BY DEF Element
<1> QED BY <1>1, <1>2, LenProperties

\* The text of any choice of elements, of one with those in it, and of a table.
LEMMA TextTyped ==
  ASSUME NEW source \in Seq(Element)
  PROVE  /\ \A S : TextOf(source, S) \in Seq(Nat)
         /\ \A i : GetText(source, i) \in Seq(Nat)
         /\ \A i : DocxTableText(source, i) \in Seq(Nat)
         /\ \A i : HtmlTableText(source, i) \in Seq(Nat)
<1>1. /\ Len(source) \in Nat /\ DOMAIN source = 1 .. Len(source)
      /\ \A i \in 1 .. Len(source) : source[i].sentences \in Seq(Nat)
  BY SourceFacts
<1>2. <<>> \in Seq(Nat) BY EmptySeq
<1>3. ASSUME NEW S PROVE TextOf(source, S) \in Seq(Nat)
  <2>1. PICK texts : texts = [j \in 1 .. Len(source) |->
                                IF j \in S THEN source[j].sentences ELSE <<>>]
    OBVIOUS
  <2>2. \A j \in 1 .. Len(source) : texts[j] \in Seq(Nat) BY <1>1, <1>2, <2>1
  <2>3. texts \in Seq(Seq(Nat)) BY <1>1, <2>1, <2>2, TextsTyped
  <2>4. TextOf(source, S) = Joined(texts) BY <1>1, <2>1 DEF TextOf
  <2> QED BY <2>3, <2>4, JoinedIsText
<1>4. \A i : GetText(source, i) \in Seq(Nat) BY <1>3 DEF GetText
<1>5. \A i : DocxTableText(source, i) \in Seq(Nat) BY <1>3 DEF DocxTableText
<1>6. ASSUME NEW r PROVE CellTexts(source, r) \in Seq(Nat)
  <2>1. PICK texts : texts = [c \in 1 .. Len(source) |->
                                IF c \in Inside(source, r) /\ source[c].kind = "cell"
                                  THEN GetText(source, c) ELSE <<>>]
    OBVIOUS
  <2>2. \A c \in 1 .. Len(source) : texts[c] \in Seq(Nat) BY <1>2, <1>4, <2>1
  <2>3. texts \in Seq(Seq(Nat)) BY <1>1, <2>1, <2>2, TextsTyped
  <2>4. CellTexts(source, r) = Joined(texts) BY <1>1, <2>1 DEF CellTexts
  <2> QED BY <2>3, <2>4, JoinedIsText
<1>7. ASSUME NEW t PROVE HtmlTableText(source, t) \in Seq(Nat)
  <2>1. PICK texts : texts = [r \in 1 .. Len(source) |->
                                IF r \in Inside(source, t) /\ source[r].kind = "row"
                                  THEN CellTexts(source, r) ELSE <<>>]
    OBVIOUS
  <2>2. \A r \in 1 .. Len(source) : texts[r] \in Seq(Nat) BY <1>2, <1>6, <2>1
  <2>3. texts \in Seq(Seq(Nat)) BY <1>1, <2>1, <2>2, TextsTyped
  <2>4. HtmlTableText(source, t) = Joined(texts) BY <1>1, <2>1 DEF HtmlTableText
  <2> QED BY <2>3, <2>4, JoinedIsText
<1> QED BY <1>3, <1>4, <1>5, <1>7

LEMMA NodeTyped ==
  ASSUME NEW kind \in {"heading", "paragraph", "table"}, NEW level \in 0 .. 6,
         NEW page \in Nat, NEW sentences \in Seq(Nat),
         kind = "table" /\ sentences # <<>> => Len(sentences) = 1
  PROVE  Node(kind, level, page, sentences) \in Seq(DocumentNode)
<1>1. CASE sentences = <<>> BY <1>1, EmptySeq DEF Node
<1>2. CASE sentences # <<>>
  <2>1. PICK n : n = [kind |-> kind, level |-> level, page |-> page, sentences |-> sentences]
    OBVIOUS
  <2>2. n \in DocumentNode BY <1>2, <2>1 DEF DocumentNode
  <2>3. <<n>> \in Seq(DocumentNode) BY <2>2
  <2> QED BY <1>2, <2>1, <2>3 DEF Node
<1> QED BY <1>1, <1>2

\* The level an empty heading may leave to a later paragraph is one of a heading.
LEMMA PendingLevel ==
  ASSUME NEW source \in Seq(Element), NEW i \in 1 .. Len(source), Pending(source, i) # {}
  PROVE  source[Max(Pending(source, i))].level \in 0 .. 6
<1>1. Len(source) \in Nat BY SourceFacts
<1>2. PICK P : P = Pending(source, i) OBVIOUS
<1>3. P \subseteq 1 .. i /\ \A h \in P : IsHeading(source[h]) BY <1>2 DEF Pending
<1>4. IsFiniteSet(P) /\ P \in SUBSET Nat
  <2>1. i \in Nat BY <1>1
  <2>2. IsFiniteSet(1 .. i) BY <2>1, FS_Interval
  <2>3. IsFiniteSet(P) BY <1>3, <2>2, FS_Subset
  <2>4. 1 .. i \subseteq Nat BY <2>1
  <2> QED BY <1>3, <2>3, <2>4
<1>5. Max(P) \in P BY <1>2, <1>4, GreatestNumber
<1> QED BY <1>2, <1>3, <1>5 DEF IsHeading

\* Every parser makes nodes.
LEMMA ParsedNodeTyped ==
  ASSUME NEW source \in Seq(Element), NEW i \in 1 .. Len(source),
         NEW type \in {"pdf", "text", "markdown", "docx", "html"}
  PROVE  ParsedNode(type, source, i) \in Seq(DocumentNode)
<1>1. PICK own \in Seq(Nat), page \in Nat, level \in 0 .. 9 :
             /\ own = source[i].sentences /\ page = source[i].page
             /\ level = source[i].level
  BY SourceFacts
<1>2. 0 \in 0 .. 6 /\ 0 \in Nat OBVIOUS
<1>3. <<>> \in Seq(DocumentNode) BY EmptySeq
<1>4. GetText(source, i) \in Seq(Nat) BY TextTyped
<1>5. PdfNode(source, i) \in Seq(DocumentNode) BY <1>1, <1>2, NodeTyped DEF PdfNode
<1>6. TextNode(source, i) \in Seq(DocumentNode) BY <1>1, <1>2, NodeTyped DEF TextNode
<1>7. MarkdownNode(source, i) \in Seq(DocumentNode)
  <2>1. PICK text : text = InlineText(source, i) OBVIOUS
  <2>2. text \in Seq(Nat) BY <1>1, <1>4, <2>1 DEF InlineText
  <2>3. Node("paragraph", 0, 0, text) \in Seq(DocumentNode) BY <1>2, <2>2, NodeTyped
  <2>4. ASSUME Pending(source, i) # {}
        PROVE  Node("heading", source[Max(Pending(source, i))].level, 0, OneSentence(text))
                 \in Seq(DocumentNode)
    <3>1. PICK l \in 0 .. 6 : l = source[Max(Pending(source, i))].level
      BY <2>4, PendingLevel
    <3>2. OneSentence(text) \in Seq(Nat) BY <2>2, OneSentenceTyped
    <3>3. Node("heading", l, 0, OneSentence(text)) \in Seq(DocumentNode)
      BY <1>2, <3>2, NodeTyped
    <3> QED BY <3>1, <3>3
  <2> QED BY <1>3, <2>1, <2>3, <2>4 DEF MarkdownNode
<1>8. DocxNode(source, i) \in Seq(DocumentNode)
  <2>1. DocxLevel(level) \in 0 .. 6 BY DEF DocxLevel
  <2>2. OneSentence(own) \in Seq(Nat) BY OneSentenceTyped
  <2>3. Node("heading", DocxLevel(level), 0, OneSentence(own)) \in Seq(DocumentNode)
    BY <1>2, <2>1, <2>2, NodeTyped
  <2>4. Node("paragraph", 0, 0, own) \in Seq(DocumentNode) BY <1>2, NodeTyped
  <2>5. Node("table", 0, 0, OneSentence(DocxTableText(source, i))) \in Seq(DocumentNode)
    BY <1>2, TextTyped, OneSentenceTyped, NodeTyped
  <2> QED BY <1>1, <1>3, <2>3, <2>4, <2>5 DEF DocxNode
<1>9. HtmlNode(source, i) \in Seq(DocumentNode)
  <2>1. Node("table", 0, 0, OneSentence(HtmlTableText(source, i))) \in Seq(DocumentNode)
    BY <1>2, TextTyped, OneSentenceTyped, NodeTyped
  <2>2. Node("paragraph", 0, 0, GetText(source, i)) \in Seq(DocumentNode)
    BY <1>2, <1>4, NodeTyped
  <2>3. ASSUME IsHeading(source[i])
        PROVE  Node("heading", source[i].level, 0, OneSentence(GetText(source, i)))
                 \in Seq(DocumentNode)
    <3>1. level \in 0 .. 6 BY <1>1, <2>3 DEF IsHeading
    <3>2. OneSentence(GetText(source, i)) \in Seq(Nat) BY <1>4, OneSentenceTyped
    <3>3. Node("heading", level, 0, OneSentence(GetText(source, i))) \in Seq(DocumentNode)
      BY <1>2, <3>1, <3>2, NodeTyped
    <3> QED BY <1>1, <3>3
  <2> QED BY <1>3, <2>1, <2>2, <2>3 DEF HtmlNode
<1> QED BY <1>5, <1>6, <1>7, <1>8, <1>9 DEF ParsedNode

LEMMA ParseTyped ==
  ASSUME NEW source \in Seq(Element),
         NEW type \in {"pdf", "text", "markdown", "docx", "html"}
  PROVE  Parse(type, source) \in Seq(DocumentNode)
<1>1. Len(source) \in Nat /\ DOMAIN source = 1 .. Len(source) BY SourceFacts
<1>2. PICK made : made = [i \in 1 .. Len(source) |-> ParsedNode(type, source, i)] OBVIOUS
<1>3. \A i \in 1 .. Len(source) : made[i] \in Seq(DocumentNode) BY <1>2, ParsedNodeTyped
<1>4. made \in Seq(Seq(DocumentNode)) BY <1>1, <1>2, <1>3, TextsTyped
<1>5. FlattenSeq(made) \in Seq(DocumentNode) BY <1>4, FlattenTyped
<1> QED BY <1>1, <1>2, <1>5 DEF Parse

LEMMA TypesDetected ==
  ASSUME NEW e \in Evidence
  PROVE  DetectDocumentType(e) \in {"pdf", "text", "markdown", "docx", "html", "unsupported"}
<1>1. /\ e.magic \in {"pdf", "docx", "other", "none"} /\ e.utf8 \in BOOLEAN
      /\ e.signature \in BOOLEAN /\ e.markup \in BOOLEAN
      /\ e.declared \in {"html", "markdown", "text", "other"}
  BY DEF Evidence
<1>2. CASE e.magic \in {"pdf", "docx"} BY <1>2 DEF DetectDocumentType
<1>3. CASE e.magic = "other" BY <1>3 DEF DetectDocumentType
<1>4. CASE e.magic = "none" BY <1>1, <1>4 DEF DetectDocumentType
<1> QED BY <1>1, <1>2, <1>3, <1>4

LEMMA NothingGivenBack == GivesBack(<<>>, <<>>)
<1>1. DOMAIN <<>> = {} BY EmptySeq
<1>2. Expected(<<>>) = {} BY <1>1 DEF Expected
<1> QED BY <1>1, <1>2 DEF GivesBack, OverlapOnly

\* Whatever nodes the parser of its type makes of a document (it may drop text):
\* all of their text but the first of two tables on end is in the chunks that
\* are indexed, in its order, a chunk has no gap, starts at a top-level heading
\* if it has one, is a single table if it has one, cites the headings its end is
\* under, and is over the hard maximum by its overlap alone.
THEOREM ChunksStayWhole == ChunkingSpec => []ChunksWhole
<1>1. ChunkingInit => ChunksWhole
  BY NothingGivenBack DEF ChunkingInit, ChunksWhole, NoDocument
<1>2. ChunksWhole /\ [ChunkingNext]_document => ChunksWhole'
  <2> SUFFICES ASSUME ChunksWhole, [ChunkingNext]_document PROVE ChunksWhole'
    OBVIOUS
  <2>1. ASSUME NEW content \in Contents, Process(content) PROVE ChunksWhole'
    <3>1. content.evidence \in Evidence /\ content.source \in Seq(Element)
      BY ChunkingAssumption DEF ChunkingAssumption
    <3>2. PICK type, nodes :
            /\ type = DetectDocumentType(content.evidence)
            /\ nodes = IF type = "unsupported" THEN <<>> ELSE Parse(type, content.source)
            /\ document' = IF nodes = <<>>
                             THEN [NoDocument EXCEPT !.type = "unsupported"]
                             ELSE [type |-> type, source |-> content.source, nodes |-> nodes,
                                   chunks |-> ChunkDocument(nodes)]
      BY <2>1 DEF Process
    <3>3. CASE nodes = <<>>
      <4>1. document'.nodes = <<>> /\ document'.chunks = <<>>
        BY <3>2, <3>3 DEF NoDocument
      <4> QED BY <4>1, NothingGivenBack DEF ChunksWhole
    <3>4. CASE nodes # <<>>
      <4>1. type \in {"pdf", "text", "markdown", "docx", "html"}
        BY <3>1, <3>2, <3>4, TypesDetected
      <4>2. nodes \in Seq(DocumentNode) BY <3>1, <3>2, <4>1, ParseTyped
      <4>3. document'.nodes = nodes /\ document'.chunks = ChunkDocument(nodes)
        BY <3>2, <3>4
      <4> QED BY <4>2, <4>3, DocumentGivenBack DEF ChunksWhole
    <3> QED BY <3>3, <3>4
  <2>2. ASSUME Finish PROVE ChunksWhole'
    BY <2>2, NothingGivenBack DEF Finish, ChunksWhole, NoDocument
  <2>3. CASE UNCHANGED document BY <2>3 DEF ChunksWhole
  <2> QED BY <2>1, <2>2, <2>3 DEF ChunkingNext
<1> QED BY <1>1, <1>2, PTL DEF ChunkingSpec

-----------------------------------------------------------------------------
(* HybridSearch: the scores.                                               *)

\* Sums are ordered as their weights are.
LEMMA SumOrdered ==
  ASSUME NEW S, IsFiniteSet(S), NEW v, NEW w,
         \A x \in S : v[x] \in Nat /\ w[x] \in Nat /\ v[x] <= w[x]
  PROVE  /\ SumFunctionOnSet(v, S) <= SumFunctionOnSet(w, S)
         /\ (\E x \in S : v[x] < w[x]) => SumFunctionOnSet(v, S) < SumFunctionOnSet(w, S)
<1>1. PICK f : Adds(v, S, f) /\ \A r \in SUBSET S : SumFunctionOnSet(v, r) = f[r]
  BY SumTable
<1>2. PICK g : Adds(w, S, g) /\ \A r \in SUBSET S : SumFunctionOnSet(w, r) = g[r]
  BY SumTable
<1>3. \A s \in SUBSET S : f[s] \in Nat /\ g[s] \in Nat BY <1>1, <1>2 DEF Adds
<1>4. \A s \in SUBSET S : \A x \in s :
        f[s] = v[x] + f[s \ {x}] /\ g[s] = w[x] + g[s \ {x}]
  BY <1>1, <1>2 DEF Adds
<1> DEFINE P == {s \in SUBSET S : ~ (f[s] <= g[s])}
<1>5. ASSUME P # {} PROVE FALSE
  <2>1. P \in SUBSET (SUBSET S) OBVIOUS
  <2>2. PICK s \in P : \A x \in s : s \ {x} \notin P
    <3> HIDE DEF P
    <3> QED BY <1>5, <2>1, MinimalSet
  <2>3. s \in SUBSET S /\ ~ (f[s] <= g[s]) BY <2>2
  <2>4. CASE s = {} BY <1>1, <1>2, <2>3, <2>4 DEF Adds
  <2>5. CASE s # {}
    <3>1. PICK x \in s : TRUE BY <2>5
    <3>2. s \ {x} \in SUBSET S /\ f[s \ {x}] <= g[s \ {x}] BY <2>2, <2>3
    <3>3. f[s] = v[x] + f[s \ {x}] /\ g[s] = w[x] + g[s \ {x}] BY <1>4, <2>3
    <3>4. v[x] \in Nat /\ w[x] \in Nat /\ v[x] <= w[x] BY <2>3
    <3>5. f[s \ {x}] \in Nat /\ g[s \ {x}] \in Nat BY <1>3, <3>2
    <3> QED BY <2>3, <3>2, <3>3, <3>4, <3>5
  <2> QED BY <2>4, <2>5
<1>6. \A s \in SUBSET S : f[s] <= g[s] BY <1>5
<1>7. S \in SUBSET S OBVIOUS
<1>8. ASSUME NEW x \in S, v[x] < w[x] PROVE f[S] < g[S]
  <2>1. f[S] = v[x] + f[S \ {x}] /\ g[S] = w[x] + g[S \ {x}] BY <1>4, <1>7
  <2>2. f[S \ {x}] \in Nat /\ g[S \ {x}] \in Nat /\ f[S \ {x}] <= g[S \ {x}]
    BY <1>3, <1>6
  <2>3. v[x] \in Nat /\ w[x] \in Nat OBVIOUS
  <2> QED BY <1>8, <2>1, <2>2, <2>3
<1> QED BY <1>1, <1>2, <1>6, <1>7, <1>8

LEMMA ScaleTyped == Scale \in Nat
<1>1. PICK seq : seq = [r \in 1 .. LegLimit |-> r] OBVIOUS
<1>2. LegLimit \in Nat /\ RrfConstant \in Nat
  BY SearchAssumption DEF SearchAssumption
<1>3. seq \in Seq(Nat) /\ DOMAIN seq = 1 .. LegLimit BY <1>1, <1>2
<1>4. PICK F : F = [p \in Nat \X Nat |-> p[1] * (RrfConstant + p[2])] OBVIOUS
<1>5. F \in [Nat \X Nat -> Nat]
  <2>1. \A a, b \in Nat : a * (RrfConstant + b) \in Nat BY <1>2
  <2> QED BY <1>4, <2>1
<1>6. PICK h \in [SUBSET (DOMAIN seq) -> Nat], f \in [0 .. Len(seq) -> Nat] :
             Folds(F, 1, seq, h, f)
  <2>1. 1 \in Nat OBVIOUS
  <2> QED BY <1>3, <1>5, <2>1, FoldExists, Zenon
<1> DEFINE body(g) == [x \in SUBSET (DOMAIN seq) |->
                         IF x = {} THEN 1
                         ELSE g[x \ {Max(x)}] * (RrfConstant + seq[Max(x)])]
           iter == CHOOSE g : g = body(g)
<1>7. ASSUME NEW x \in SUBSET (DOMAIN seq), x # {}
      PROVE  h[x] = h[x \ {Max(x)}] * (RrfConstant + seq[Max(x)])
  <2>1. h[x] = F[<<h[x \ {Max(x)}], seq[Max(x)]>>] BY <1>6, <1>7 DEF Folds
  <2>2. h[x \ {Max(x)}] \in Nat /\ seq[Max(x)] \in Nat BY <1>3, <1>7, LastOff
  <2>3. PICK a, b : a = h[x \ {Max(x)}] /\ b = seq[Max(x)] OBVIOUS
  <2>4. F[<<a, b>>] = a * (RrfConstant + b) BY <1>4, <2>2, <2>3
  <2> QED BY <2>1, <2>3, <2>4
<1>8. h = body(h) BY <1>6, <1>7 DEF Folds
<1>9. iter = body(iter) BY <1>8
<1>10. Scale = iter[DOMAIN seq] BY <1>1 DEF Scale, FoldLeft, MapThenFoldSet
<1>11. PICK g : g = iter OBVIOUS
<1>12. g = body(g) BY <1>9, <1>11
<1> HIDE DEF iter
<1> DEFINE P == {x \in SUBSET (DOMAIN seq) : g[x] # h[x]}
<1>13. ASSUME P # {} PROVE FALSE
  <2>1. PICK x \in P : \A y \in x : x \ {y} \notin P
    <3>1. P \in SUBSET (SUBSET (DOMAIN seq)) OBVIOUS
    <3> HIDE DEF P
    <3> QED BY <1>3, <1>13, <3>1, DomainFinite, MinimalSet
  <2>2. x # {} BY <1>12, <1>8, <2>1
  <2>3. Max(x) \in x /\ x \ {Max(x)} \in SUBSET (DOMAIN seq) BY <1>3, <2>2, LastOff
  <2>4. g[x \ {Max(x)}] = h[x \ {Max(x)}] BY <2>1, <2>3
  <2>5. g[x] = g[x \ {Max(x)}] * (RrfConstant + seq[Max(x)]) BY <1>12, <2>2
  <2>6. h[x] = h[x \ {Max(x)}] * (RrfConstant + seq[Max(x)]) BY <1>7, <2>2
  <2>7. g[x] = h[x] BY <2>4, <2>5, <2>6, Zenon
  <2> QED BY <2>1, <2>7
<1> QED BY <1>6, <1>10, <1>11, <1>13

\* A quotient does not grow with the divisor.
LEMMA QuotientShrinks ==
  ASSUME NEW x \in Nat, NEW a \in Nat \ {0}, NEW b \in Nat \ {0}, a <= b
  PROVE  x \div a \in Nat /\ x \div b \in Nat /\ x \div b <= x \div a
OBVIOUS

LEMMA WeightFacts ==
  ASSUME NEW r \in 1 .. LegLimit
  PROVE  Weight(r) \in Nat /\ Weight(LegLimit) \in Nat /\ Weight(LegLimit) <= Weight(r)
<1>1. LegLimit \in Nat \ {0} /\ RrfConstant \in Nat \ {0}
  BY SearchAssumption DEF SearchAssumption
<1>2. PICK a, b : a = RrfConstant + r /\ b = RrfConstant + LegLimit OBVIOUS
<1>3. a \in Nat \ {0} /\ b \in Nat \ {0} /\ a <= b BY <1>1, <1>2
<1>4. Weight(r) = Scale \div a /\ Weight(LegLimit) = Scale \div b BY <1>2 DEF Weight
<1> QED BY <1>3, <1>4, ScaleTyped, QuotientShrinks, Zenon

\* The lists of the legs.
Ranked(lists) ==
  lists \in Seq(Seq(Docs)) /\ \A i \in DOMAIN lists : Len(lists[i]) <= LegLimit

LEMMA RankedFacts ==
  ASSUME NEW lists, Ranked(lists)
  PROVE  /\ Len(lists) \in Nat /\ DOMAIN lists = 1 .. Len(lists)
         /\ IsFiniteSet(DOMAIN lists)
         /\ \A i \in DOMAIN lists :
              /\ lists[i] \in Seq(Docs) /\ Len(lists[i]) \in Nat
              /\ DOMAIN lists[i] = 1 .. Len(lists[i])
              /\ DOMAIN lists[i] \subseteq 1 .. LegLimit
              /\ \A r \in DOMAIN lists[i] : lists[i][r] \in Docs
<1>1. Len(lists) \in Nat /\ DOMAIN lists = 1 .. Len(lists)
      /\ \A i \in DOMAIN lists : lists[i] \in Seq(Docs)
  BY LenProperties DEF Ranked
<1>2. IsFiniteSet(DOMAIN lists) BY <1>1, FS_Interval
<1>3. ASSUME NEW i \in DOMAIN lists
      PROVE  /\ lists[i] \in Seq(Docs) /\ Len(lists[i]) \in Nat
             /\ DOMAIN lists[i] = 1 .. Len(lists[i])
             /\ DOMAIN lists[i] \subseteq 1 .. LegLimit
             /\ \A r \in DOMAIN lists[i] : lists[i][r] \in Docs
  <2>1. PICK l : l = lists[i] OBVIOUS
  <2>2. l \in Seq(Docs) /\ Len(l) <= LegLimit BY <1>1, <2>1 DEF Ranked
  <2>3. Len(l) \in Nat /\ DOMAIN l = 1 .. Len(l) /\ \A r \in DOMAIN l : l[r] \in Docs
    BY <2>2, LenProperties
  <2>4. LegLimit \in Nat BY SearchAssumption DEF SearchAssumption
  <2>5. DOMAIN l \subseteq 1 .. LegLimit BY <2>2, <2>3, <2>4
  <2> QED BY <2>1, <2>2, <2>3, <2>5
<1> QED BY <1>1, <1>2, <1>3

LEMMA FoundFinite ==
  ASSUME NEW lists, Ranked(lists)
  PROVE  IsFiniteSet(Found(lists)) /\ Found(lists) \subseteq Docs
<1>1. PICK S : S = {Range(lists[i]) : i \in DOMAIN lists} OBVIOUS
<1>2. IsFiniteSet(S)
  <2>1. PICK f : f = [i \in DOMAIN lists |-> Range(lists[i])] OBVIOUS
  <2>2. f \in Surjection(DOMAIN lists, S) BY <1>1, <2>1 DEF Surjection
  <2> QED BY <2>2, RankedFacts, FS_Surjection
<1>3. ASSUME NEW i \in DOMAIN lists
      PROVE  IsFiniteSet(Range(lists[i])) /\ Range(lists[i]) \subseteq Docs
  <2>1. PICK l : l = lists[i] OBVIOUS
  <2>2. Len(l) \in Nat /\ DOMAIN l = 1 .. Len(l) /\ l \in Seq(Docs)
        /\ \A r \in DOMAIN l : l[r] \in Docs
    BY <2>1, RankedFacts
  <2>3. Range(l) = {l[r] : r \in DOMAIN l} BY DEF Range
  <2>4. l \in Surjection(DOMAIN l, Range(l))
    <3>1. l \in [DOMAIN l -> Range(l)] BY <2>2, <2>3
    <3> QED BY <2>3, <3>1 DEF Surjection
  <2>5. IsFiniteSet(DOMAIN l) BY <2>2, FS_Interval
  <2>6. IsFiniteSet(Range(l)) BY <2>4, <2>5, FS_Surjection
  <2> QED BY <2>1, <2>2, <2>3, <2>6
<1>4. \A s \in S : IsFiniteSet(s) /\ s \subseteq Docs BY <1>1, <1>3
<1>5. Found(lists) = UNION S BY <1>1 DEF Found
<1>6. IsFiniteSet(UNION S) BY <1>2, <1>4, FS_UNION
<1> QED BY <1>4, <1>5, <1>6

LEMMA LegScoreFacts ==
  ASSUME NEW lists, Ranked(lists), NEW i \in DOMAIN lists, NEW d
  PROVE  /\ LegScore(lists[i], d) \in Nat
         /\ d \in Range(lists[i]) => Weight(LegLimit) <= LegScore(lists[i], d)
<1>1. PICK l : l = lists[i] OBVIOUS
<1>2. DOMAIN l \subseteq 1 .. LegLimit BY <1>1, RankedFacts
<1>3. CASE \E r \in DOMAIN l : l[r] = d
  <2>1. PICK r : r = CHOOSE k \in DOMAIN l : l[k] = d OBVIOUS
  <2>2. r \in 1 .. LegLimit BY <1>2, <1>3, <2>1
  <2>3. LegScore(l, d) = Weight(r) BY <1>3, <2>1 DEF LegScore
  <2> QED BY <1>1, <2>2, <2>3, WeightFacts
<1>4. CASE ~ \E r \in DOMAIN l : l[r] = d
  <2>1. LegScore(l, d) = 0 BY <1>4 DEF LegScore
  <2>2. d \notin Range(l) BY <1>4 DEF Range
  <2> QED BY <1>1, <2>1, <2>2
<1> QED BY <1>3, <1>4

LEMMA RrfScoreFacts ==
  ASSUME NEW lists, Ranked(lists)
  PROVE  /\ \A d : RrfScore(lists, d) \in Nat
         /\ \A d \in Found(lists) : Weight(LegLimit) <= RrfScore(lists, d)
<1>1. PICK S : S = DOMAIN lists OBVIOUS
<1>2. IsFiniteSet(S) BY <1>1, RankedFacts
<1>3. ASSUME NEW d
      PROVE  /\ RrfScore(lists, d) \in Nat
             /\ d \in Found(lists) => Weight(LegLimit) <= RrfScore(lists, d)
  <2>1. PICK w : w = [i \in DOMAIN lists |-> LegScore(lists[i], d)] OBVIOUS
  <2>2. \A i \in S : w[i] \in Nat BY <1>1, <2>1, LegScoreFacts
  <2>3. DOMAIN w = S BY <1>1, <2>1
  <2>4. RrfScore(lists, d) = SumFunctionOnSet(w, S)
    BY <2>1, <2>3 DEF RrfScore, SumFunction
  <2>5. PICK f : Adds(w, S, f) /\ \A r \in SUBSET S : SumFunctionOnSet(w, r) = f[r]
    BY <1>2, <2>2, SumTable
  <2>6. S \in SUBSET S OBVIOUS
  <2>7. f[S] \in Nat /\ RrfScore(lists, d) = f[S] BY <2>4, <2>5, <2>6 DEF Adds
  <2>8. ASSUME d \in Found(lists) PROVE Weight(LegLimit) <= f[S]
    <3>1. PICK i \in S : d \in Range(lists[i]) BY <1>1, <2>8 DEF Found
    <3>2. Weight(LegLimit) <= w[i] BY <1>1, <2>1, <3>1, LegScoreFacts
    <3>3. f[S] = w[i] + f[S \ {i}] BY <2>5, <2>6 DEF Adds
    <3>4. f[S \ {i}] \in Nat BY <2>5 DEF Adds
    <3>5. LegLimit \in 1 .. LegLimit BY SearchAssumption DEF SearchAssumption
    <3>6. Weight(LegLimit) \in Nat /\ w[i] \in Nat BY <2>2, <3>5, WeightFacts
    <3> QED BY <3>2, <3>3, <3>4, <3>6
  <2> QED BY <2>7, <2>8
<1> QED BY <1>3

\* The one whose score is the higher is not dominated by the other.
LEMMA DominatedScore ==
  ASSUME NEW lists, Ranked(lists), NEW a, NEW b,
         Dominates(lists, a, b), RrfScore(lists, b) >= RrfScore(lists, a)
  PROVE  Dominates(lists, b, a)
<1>1. PICK S, v, w : /\ S = DOMAIN lists
                     /\ v = [i \in DOMAIN lists |-> LegScore(lists[i], b)]
                     /\ w = [i \in DOMAIN lists |-> LegScore(lists[i], a)]
  OBVIOUS
<1>2. IsFiniteSet(S) BY <1>1, RankedFacts
<1>3. \A i \in S : v[i] \in Nat /\ w[i] \in Nat BY <1>1, LegScoreFacts
<1>4. \A i \in S : v[i] <= w[i] BY <1>1, <1>3 DEF Dominates
<1>5. /\ RrfScore(lists, b) = SumFunctionOnSet(v, S)
      /\ RrfScore(lists, a) = SumFunctionOnSet(w, S)
  <2>1. DOMAIN v = S /\ DOMAIN w = S BY <1>1
  <2> QED BY <1>1, <2>1 DEF RrfScore, SumFunction
<1>6. (\E i \in S : v[i] < w[i]) => SumFunctionOnSet(v, S) < SumFunctionOnSet(w, S)
  BY <1>2, <1>3, <1>4, SumOrdered
<1>7. RrfScore(lists, a) \in Nat /\ RrfScore(lists, b) \in Nat BY RrfScoreFacts
<1>8. \A i \in S : ~ (v[i] < w[i]) BY <1>5, <1>6, <1>7
<1> QED BY <1>1, <1>3, <1>8 DEF Dominates

-----------------------------------------------------------------------------
(* HybridSearch: the fused list.                                           *)

\* f and r: the first leg that has a chunk, and its rank there.
Seen(lists, f, r) ==
  /\ \A d \in Found(lists) :
       f[d] \in Nat /\ r[d] \in Nat /\ f[d] \in DOMAIN lists /\ d = lists[f[d]][r[d]]
  /\ \A a, b \in Found(lists) :
       SeenBefore(lists, a, b) <=> f[a] < f[b] \/ (f[a] = f[b] /\ r[a] < r[b])

LEMMA SeenExists ==
  ASSUME NEW lists, Ranked(lists)
  PROVE  \E f, r : Seen(lists, f, r)
<1> DEFINE First(d) == CHOOSE i \in DOMAIN lists :
                         /\ d \in Range(lists[i])
                         /\ \A k \in 1 .. i - 1 : d \notin Range(lists[k])
           Rank(d) == CHOOSE r \in DOMAIN lists[First(d)] : lists[First(d)][r] = d
<1>1. Len(lists) \in Nat /\ DOMAIN lists = 1 .. Len(lists) BY RankedFacts
<1>2. ASSUME NEW d \in Found(lists)
      PROVE  /\ First(d) \in Nat /\ First(d) \in DOMAIN lists
             /\ Rank(d) \in Nat /\ d = lists[First(d)][Rank(d)]
  <2>1. PICK T : T = {i \in DOMAIN lists : d \in Range(lists[i])} OBVIOUS
  <2>2. T \in SUBSET Nat /\ T # {} BY <1>1, <2>1 DEF Found
  <2>3. PICK n \in T : \A k \in T : n <= k BY <2>2, LeastNumber
  <2>4. n \in DOMAIN lists /\ d \in Range(lists[n]) BY <2>1, <2>3
  <2>5. \A k \in 1 .. n - 1 : d \notin Range(lists[k])
    <3> TAKE k \in 1 .. n - 1
    <3>1. k \in DOMAIN lists /\ ~ (n <= k) BY <1>1, <2>4
    <3> QED BY <2>1, <2>3, <3>1
  <2>6. PICK i : i = First(d) OBVIOUS
  <2>7. i \in DOMAIN lists /\ d \in Range(lists[i]) BY <2>4, <2>5, <2>6
  <2>8. \E r \in DOMAIN lists[i] : lists[i][r] = d BY <2>7 DEF Range
  <2>9. PICK r : r = CHOOSE k \in DOMAIN lists[i] : lists[i][k] = d OBVIOUS
  <2>10. r \in DOMAIN lists[i] /\ lists[i][r] = d BY <2>8, <2>9
  <2>11. r \in Nat
    <3>1. DOMAIN lists[i] = 1 .. Len(lists[i]) BY <2>7, RankedFacts
    <3> QED BY <2>10, <3>1
  <2>12. Rank(d) = r BY <2>6, <2>9
  <2>13. First(d) = i BY <2>6
  <2>14. i \in Nat BY <1>1, <2>7
  <2> HIDE DEF First, Rank
  <2> QED BY <2>7, <2>10, <2>11, <2>12, <2>13, <2>14
<1>3. \A a, b : SeenBefore(lists, a, b) <=>
        First(a) < First(b) \/ (First(a) = First(b) /\ Rank(a) < Rank(b))
  BY Zenon DEF SeenBefore
<1> HIDE DEF First, Rank
<1>4. PICK f, r : /\ f = [d \in Found(lists) |-> First(d)]
                  /\ r = [d \in Found(lists) |-> Rank(d)]
  OBVIOUS
<1>5. \A d \in Found(lists) : f[d] = First(d) /\ r[d] = Rank(d) BY <1>4
<1>6. Seen(lists, f, r) BY <1>2, <1>3, <1>5 DEF Seen
<1> QED BY <1>6

\* The order of <<a, b, c>> and <<u, v, w>>: the first component decreases.
Lex(a, b, c, u, v, w) == a > u \/ (a = u /\ (b < v \/ (b = v /\ c < w)))

LEMMA LexOrders ==
  ASSUME NEW a \in Int, NEW b \in Int, NEW c \in Int,
         NEW u \in Int, NEW v \in Int, NEW w \in Int
  PROVE  /\ ~ Lex(a, b, c, a, b, c)
         /\ a # u \/ b # v \/ c # w => Lex(a, b, c, u, v, w) \/ Lex(u, v, w, a, b, c)
BY DEF Lex

LEMMA LexTransitive ==
  ASSUME NEW a \in Int, NEW b \in Int, NEW c \in Int,
         NEW u \in Int, NEW v \in Int, NEW w \in Int,
         NEW i \in Int, NEW k \in Int, NEW m \in Int,
         Lex(a, b, c, u, v, w), Lex(u, v, w, i, k, m)
  PROVE  Lex(a, b, c, i, k, m)
BY DEF Lex

\* By score, and among equal scores by the first sight: a total order.
LEMMA HigherOrders ==
  ASSUME NEW lists, Ranked(lists), NEW S, S = Found(lists),
         NEW R, R = {p \in S \X S : Higher(lists, p[1], p[2])}
  PROVE  /\ TotalOrder(R, S)
         /\ \A a, b \in S : <<a, b>> \in R <=> Higher(lists, a, b)
<1>1. PICK s : s = [d \in S |-> RrfScore(lists, d)] OBVIOUS
<1>2. PICK f, r : Seen(lists, f, r) BY SeenExists
<1>3. \A d \in S : /\ s[d] \in Int /\ f[d] \in Int /\ r[d] \in Int
                   /\ d = lists[f[d]][r[d]]
  <2>1. \A d \in S : s[d] \in Nat BY <1>1, RrfScoreFacts
  <2> QED BY <1>2, <2>1 DEF Seen
<1>4. \A a, b \in S : <<a, b>> \in R <=> Higher(lists, a, b) OBVIOUS
<1>5. \A a, b \in S : Higher(lists, a, b) <=> Lex(s[a], f[a], r[a], s[b], f[b], r[b])
  BY <1>1, <1>2 DEF Higher, Seen, Lex
<1>6. \A x, y \in S : <<x, y>> \in R <=> Lex(s[x], f[x], r[x], s[y], f[y], r[y])
  BY <1>4, <1>5, Zenon
<1>7. \A x \in S : <<x, x>> \notin R BY <1>3, <1>6, LexOrders
<1>8. \A x, y \in S : x # y => <<x, y>> \in R \/ <<y, x>> \in R
  <2> TAKE x \in S, y \in S
  <2>1. HAVE x # y
  <2>2. s[x] # s[y] \/ f[x] # f[y] \/ r[x] # r[y] BY <1>3, <2>1, Zenon
  <2>3. \/ Lex(s[x], f[x], r[x], s[y], f[y], r[y])
        \/ Lex(s[y], f[y], r[y], s[x], f[x], r[x])
    BY <1>3, <2>2, LexOrders, Zenon
  <2> QED BY <1>6, <2>3, Zenon
<1>9. \A x, y, z \in S : <<x, y>> \in R /\ <<y, z>> \in R => <<x, z>> \in R
  <2> TAKE x \in S, y \in S, z \in S
  <2>1. HAVE <<x, y>> \in R /\ <<y, z>> \in R
  <2>2. /\ Lex(s[x], f[x], r[x], s[y], f[y], r[y])
        /\ Lex(s[y], f[y], r[y], s[z], f[z], r[z])
    BY <1>6, <2>1, Zenon
  <2>3. Lex(s[x], f[x], r[x], s[z], f[z], r[z]) BY <1>3, <2>2, LexTransitive, Zenon
  <2> QED BY <1>6, <2>3, Zenon
<1> QED BY <1>4, <1>7, <1>8, <1>9, Zenon DEF TotalOrder

\* q has the n chunks that were found, each once, no score after a lower one.
Ranking(lists, q, n) ==
  /\ n = Cardinality(Found(lists)) /\ q \in [1 .. n -> Found(lists)]
  /\ \A i, k \in 1 .. n : i < k => RrfScore(lists, q[i]) >= RrfScore(lists, q[k])
  /\ \A i, k \in 1 .. n : i # k => q[i] # q[k]
  /\ \A d \in Found(lists) : \E i \in 1 .. n : d = q[i]

LEMMA FusionRanks ==
  ASSUME NEW lists, Ranked(lists), NEW q, q = ReciprocalRankFusion(lists)
  PROVE  \E n \in Nat : Ranking(lists, q, n)
<1>1. PICK S, n : S = Found(lists) /\ n = Cardinality(S) OBVIOUS
<1>2. PICK R : R = {p \in S \X S : Higher(lists, p[1], p[2])} OBVIOUS
<1>3. TotalOrder(R, S) /\ \A a, b \in S : <<a, b>> \in R <=> Higher(lists, a, b)
  BY <1>1, <1>2, HigherOrders
<1>4. IsFiniteSet(S) /\ n \in Nat BY <1>1, FoundFinite, FS_CardinalityType
<1>5. PICK f \in [1 .. n -> S] : Ordered(f, R) BY <1>1, <1>3, <1>4, SortedExists
<1>6. \A i, k \in DOMAIN f : i < k => Higher(lists, f[i], f[k])
  BY <1>3, <1>5 DEF Ordered
<1>7. q \in [1 .. n -> S] /\ \A i, k \in DOMAIN q : i < k => Higher(lists, q[i], q[k])
  BY <1>1, <1>5, <1>6, Zenon DEF ReciprocalRankFusion
<1>8. \A i, k \in 1 .. n : i < k => Higher(lists, q[i], q[k]) BY <1>7
<1>9. \A i, k \in 1 .. n : i < k => RrfScore(lists, q[i]) >= RrfScore(lists, q[k])
  <2> TAKE i \in 1 .. n, k \in 1 .. n
  <2>1. HAVE i < k
  <2>2. PICK a, b : a = RrfScore(lists, q[i]) /\ b = RrfScore(lists, q[k]) OBVIOUS
  <2>3. a \in Nat /\ b \in Nat BY <2>2, RrfScoreFacts
  <2>4. a > b \/ a = b BY <1>8, <2>1, <2>2 DEF Higher
  <2> QED BY <2>2, <2>3, <2>4
<1>10. \A i, k \in 1 .. n : i # k => q[i] # q[k]
  <2> TAKE i \in 1 .. n, k \in 1 .. n
  <2>1. HAVE i # k
  <2>2. q[i] \in S /\ q[k] \in S BY <1>7
  <2>3. Higher(lists, q[i], q[k]) \/ Higher(lists, q[k], q[i])
    <3>1. i < k \/ k < i BY <1>4, <2>1
    <3> QED BY <1>8, <3>1
  <2>4. <<q[i], q[k]>> \in R \/ <<q[k], q[i]>> \in R BY <1>3, <2>2, <2>3
  <2> QED BY <1>3, <2>2, <2>4 DEF TotalOrder
<1>11. \A d \in S : \E i \in 1 .. n : d = q[i]
  <2>1. q \in Injection(1 .. n, S) BY <1>7, <1>10 DEF Injection, IsInjective
  <2>2. Cardinality(1 .. n) = n BY <1>4, FS_Interval
  <2>3. q \in Surjection(1 .. n, S) BY <1>1, <1>4, <2>1, <2>2, FS_Injection
  <2> QED BY <2>3 DEF Surjection
<1>12. Ranking(lists, q, n) BY <1>1, <1>7, <1>9, <1>10, <1>11 DEF Ranking
<1> QED BY <1>4, <1>12

-----------------------------------------------------------------------------
(* HybridSearch: the selection.                                            *)

\* The m candidates: chunks that were found, each once, the best ones first.
Shortlist(lists, c, m) ==
  /\ m \in Nat /\ c \in [1 .. m -> Found(lists)] /\ Len(c) = m
  /\ \A i, k \in 1 .. m : i < k => RrfScore(lists, c[i]) >= RrfScore(lists, c[k])
  /\ \A i, k \in 1 .. m : i # k => c[i] # c[k]

LEMMA DistinctCounted ==
  ASSUME NEW n \in Nat, NEW T, NEW s \in [1 .. n -> T],
         \A i, k \in 1 .. n : i # k => s[i] # s[k]
  PROVE  IsFiniteSet(Range(s)) /\ Cardinality(Range(s)) = n
<1>1. PICK R : R = Range(s) OBVIOUS
<1>2. R = {s[i] : i \in 1 .. n} BY <1>1 DEF Range
<1>3. s \in [1 .. n -> R] BY <1>2
<1>4. s \in Surjection(1 .. n, R) BY <1>2, <1>3 DEF Surjection
<1>5. s \in Injection(1 .. n, R) BY <1>3 DEF Injection, IsInjective
<1>6. IsFiniteSet(1 .. n) /\ Cardinality(1 .. n) = n BY FS_Interval
<1>7. IsFiniteSet(R) /\ Cardinality(R) = n BY <1>4, <1>5, <1>6, FS_Surjection
<1> QED BY <1>1, <1>7

LEMMA MmrScoreTyped ==
  ASSUME NEW lists, Ranked(lists), NEW c, NEW m, Shortlist(lists, c, m), NEW sel,
         NEW i \in 1 .. m
  PROVE  MmrScore(lists, c, sel, c[i]) \in Int
<1>1. PICK hi, lo, x : /\ hi = RrfScore(lists, c[1])
                       /\ lo = RrfScore(lists, Last(c)) /\ x = RrfScore(lists, c[i])
  OBVIOUS
<1>2. hi \in Nat /\ lo \in Nat /\ x \in Nat BY <1>1, RrfScoreFacts
<1>3. PICK y : y = \E k \in DOMAIN sel : <<c[i], sel[k]>> \in Twins OBVIOUS
<1>4. MmrScore(lists, c, sel, c[i]) =
        IF hi = lo THEN (IF y THEN 0 ELSE 1) ELSE x - lo - (IF y THEN hi - lo ELSE 0)
  BY <1>1, <1>3, Zenon DEF MmrScore
<1>5. CASE y BY <1>2, <1>4, <1>5
<1>6. CASE ~ y BY <1>2, <1>4, <1>6
<1> QED BY <1>5, <1>6

\* The positions of the candidates that are not selected.
Left(c, sel) == {i \in DOMAIN c : c[i] \notin Range(sel)}

\* The best of some positions, the first of equals.
BestOf(left, s, i) ==
  i \in left /\ \A k \in left : s[i] > s[k] \/ (s[i] = s[k] /\ i <= k)

LEMMA BestExists ==
  ASSUME NEW lists, Ranked(lists), NEW c, NEW m, Shortlist(lists, c, m), NEW sel,
         NEW left, left = Left(c, sel), left # {},
         NEW s, s = [i \in 1 .. m |-> MmrScore(lists, c, sel, c[i])]
  PROVE  \E i : BestOf(left, s, i)
<1>1. left \subseteq 1 .. m /\ m \in Nat BY DEF Shortlist, Left
<1>2. \A i \in left : s[i] \in Int /\ i \in Int BY <1>1, MmrScoreTyped
<1>3. IsFiniteSet(left) BY <1>1, FS_Interval, FS_Subset
<1>4. PICK R : R = {p \in left \X left : Lex(s[p[2]], p[2], 0, s[p[1]], p[1], 0)}
  OBVIOUS
<1>5. \A x, y \in left : <<x, y>> \in R <=> Lex(s[y], y, 0, s[x], x, 0) BY <1>4
<1>6. 0 \in Int OBVIOUS
<1>7. \A x \in left : <<x, x>> \notin R BY <1>2, <1>5, <1>6, LexOrders, Zenon
<1>8. \A x, y \in left : x # y => <<x, y>> \in R \/ <<y, x>> \in R
  BY <1>2, <1>5, <1>6, LexOrders, Zenon
<1>9. \A x, y, z \in left : <<x, y>> \in R /\ <<y, z>> \in R => <<x, z>> \in R
  <2> TAKE x \in left, y \in left, z \in left
  <2>1. HAVE <<x, y>> \in R /\ <<y, z>> \in R
  <2>2. Lex(s[y], y, 0, s[x], x, 0) /\ Lex(s[z], z, 0, s[y], y, 0)
    BY <1>5, <2>1, Zenon
  <2>3. Lex(s[z], z, 0, s[x], x, 0) BY <1>2, <1>6, <2>2, LexTransitive, Zenon
  <2> QED BY <1>5, <2>3, Zenon
<1>10. TotalOrder(R, left) BY <1>7, <1>8, <1>9, Zenon DEF TotalOrder
<1>11. PICK i \in left : \A k \in left \ {i} : <<k, i>> \in R
  BY <1>3, <1>10, LastInOrder, Zenon
<1>12. ASSUME NEW k \in left PROVE s[i] > s[k] \/ (s[i] = s[k] /\ i <= k)
  <2>1. CASE k = i BY <1>2, <2>1
  <2>2. CASE k # i
    <3>1. Lex(s[i], i, 0, s[k], k, 0) BY <1>5, <1>11, <2>2
    <3>2. s[i] \in Int /\ s[k] \in Int /\ i \in Int /\ k \in Int BY <1>2
    <3> QED BY <3>1, <3>2 DEF Lex
  <2> QED BY <2>1, <2>2
<1> QED BY <1>12 DEF BestOf

\* What a turn of the selection adds.
LEMMA PickFacts ==
  ASSUME NEW lists, Ranked(lists), NEW c, NEW m, Shortlist(lists, c, m), NEW sel,
         NEW v, v = PickBest(lists, c, sel)
  PROVE  IF Left(c, sel) = {} THEN v = sel
         ELSE \E i \in Left(c, sel) :
                /\ v = Append(sel, c[i])
                /\ \A k \in Left(c, sel) :
                     MmrScore(lists, c, sel, c[i]) >= MmrScore(lists, c, sel, c[k])
<1>1. PICK left : left = Left(c, sel) OBVIOUS
<1>2. left \subseteq 1 .. m BY <1>1 DEF Shortlist, Left
<1>3. CASE left = {} BY <1>1, <1>3, Zenon DEF PickBest, Left
<1>4. CASE left # {}
  <2> DEFINE S(j) == MmrScore(lists, c, sel, c[j])
  <2>1. PICK i : i = CHOOSE j \in left :
                       \A k \in left : S(j) > S(k) \/ (S(j) = S(k) /\ j <= k)
    OBVIOUS
  <2>2. v = Append(sel, c[i]) BY <1>1, <1>4, <2>1, Zenon DEF PickBest, Left
  <2>3. \A k \in 1 .. m : S(k) \in Int BY MmrScoreTyped
  <2> HIDE DEF S
  <2>4. PICK s : s = [k \in 1 .. m |-> MmrScore(lists, c, sel, c[k])] OBVIOUS
  <2>5. \A k \in left : s[k] = S(k) BY <1>2, <2>4 DEF S
  <2>6. PICK b : BestOf(left, s, b) BY <1>1, <1>4, <2>4, BestExists, Zenon
  <2>7. \E j \in left : \A k \in left : S(j) > S(k) \/ (S(j) = S(k) /\ j <= k)
    BY <2>5, <2>6 DEF BestOf
  <2>8. i \in left /\ \A k \in left : S(i) > S(k) \/ (S(i) = S(k) /\ i <= k)
    BY <2>1, <2>7, Zenon
  <2>9. \A k \in left : S(i) >= S(k) BY <1>2, <2>3, <2>8
  <2> QED BY <1>1, <1>4, <2>2, <2>8, <2>9, Zenon DEF S
<1> QED BY <1>3, <1>4

\* What k turns have selected.
Picked(lists, c, m, sel, k) ==
  /\ sel \in Seq(Found(lists)) /\ Len(sel) = Least(k, m)
  /\ \A i \in 1 .. Len(sel) : \E j \in 1 .. m : sel[i] = c[j]
  /\ \A i, j \in 1 .. Len(sel) : i # j => sel[i] # sel[j]
  /\ sel # <<>> => \A i \in 1 .. m : RrfScore(lists, sel[1]) >= RrfScore(lists, c[i])

\* The first chunk is one with the best score.
LEMMA FirstPick ==
  ASSUME NEW lists, Ranked(lists), NEW c, NEW m, Shortlist(lists, c, m),
         NEW i \in 1 .. m,
         \A k \in 1 .. m : MmrScore(lists, c, <<>>, c[i]) >= MmrScore(lists, c, <<>>, c[k]),
         NEW k \in 1 .. m
  PROVE  RrfScore(lists, c[i]) >= RrfScore(lists, c[k])
<1>1. PICK s : s = [j \in 1 .. m |-> RrfScore(lists, c[j])] OBVIOUS
<1>2. m \in Nat /\ 1 \in 1 .. m /\ m \in 1 .. m BY DEF Shortlist
<1>3. \A j \in 1 .. m : s[j] \in Nat BY <1>1, RrfScoreFacts
<1>4. \A a, b \in 1 .. m : a < b => s[a] >= s[b] BY <1>1 DEF Shortlist
<1>5. Last(c) = c[m] BY DEF Last, Shortlist
<1>6. ~ \E j \in DOMAIN <<>> : TRUE OBVIOUS
<1>7. ASSUME NEW j \in 1 .. m
      PROVE  MmrScore(lists, c, <<>>, c[j]) = IF s[1] = s[m] THEN 1 ELSE s[j] - s[m]
  <2>1. MmrScore(lists, c, <<>>, c[j]) =
          IF s[1] = s[m] THEN 1 ELSE s[j] - s[m] - 0
    <3>1. ~ \E a \in DOMAIN <<>> : <<c[j], <<>>[a]>> \in Twins OBVIOUS
    <3>2. /\ RrfScore(lists, c[1]) = s[1] /\ RrfScore(lists, Last(c)) = s[m]
          /\ RrfScore(lists, c[j]) = s[j]
      BY <1>1, <1>2, <1>5
    <3> QED BY <3>1, <3>2, Zenon DEF MmrScore
  <2>2. s[j] \in Nat /\ s[m] \in Nat BY <1>2, <1>3
  <2> QED BY <2>1, <2>2
<1>8. s[i] >= s[k]
  <2>1. /\ s[i] \in Nat /\ s[k] \in Nat /\ s[1] \in Nat /\ s[m] \in Nat
    BY <1>2, <1>3
  <2>2. s[1] >= s[i] /\ s[1] >= s[k] /\ s[i] >= s[m] /\ s[k] >= s[m]
    <3>1. \A a, b \in 1 .. m : a <= b => s[a] >= s[b]
      <4> TAKE a \in 1 .. m, b \in 1 .. m
      <4>1. HAVE a <= b
      <4>2. CASE a = b BY <1>3, <4>2
      <4>3. CASE a # b
        <5>1. a < b BY <4>1, <4>3
        <5> QED BY <1>4, <5>1
      <4> QED BY <4>2, <4>3
    <3>2. 1 <= i /\ 1 <= k /\ i <= m /\ k <= m BY <1>2
    <3> QED BY <1>2, <3>1, <3>2
  <2>3. CASE s[1] = s[m] BY <2>1, <2>2, <2>3
  <2>4. CASE s[1] # s[m]
    <3>1. s[i] - s[m] >= s[k] - s[m] BY <1>7, <2>4
    <3> QED BY <2>1, <3>1
  <2> QED BY <2>3, <2>4
<1> QED BY <1>1, <1>8

LEMMA OneMorePicked ==
  ASSUME NEW lists, Ranked(lists), NEW c, NEW m, Shortlist(lists, c, m),
         NEW sel, NEW k \in Nat, Picked(lists, c, m, sel, k),
         NEW v, v = PickBest(lists, c, sel)
  PROVE  Picked(lists, c, m, v, k + 1)
<1>1. PICK F, n, left : F = Found(lists) /\ n = Len(sel) /\ left = Left(c, sel) OBVIOUS
<1>2. /\ m \in Nat /\ c \in [1 .. m -> F] /\ DOMAIN c = 1 .. m
      /\ \A i, j \in 1 .. m : i # j => c[i] # c[j]
  BY <1>1 DEF Shortlist
<1>3. /\ sel \in Seq(F) /\ n = Least(k, m) /\ n \in Nat /\ DOMAIN sel = 1 .. n
      /\ sel \in [1 .. n -> F]
      /\ \A i \in 1 .. n : \E j \in 1 .. m : sel[i] = c[j]
      /\ \A i, j \in 1 .. n : i # j => sel[i] # sel[j]
  BY <1>1, LenProperties DEF Picked
<1>4. PICK A, B : A = Range(sel) /\ B = Range(c) OBVIOUS
<1>5. IsFiniteSet(A) /\ Cardinality(A) = n BY <1>3, <1>4, DistinctCounted
<1>6. IsFiniteSet(B) /\ Cardinality(B) = m BY <1>2, <1>4, DistinctCounted
<1>7. A \subseteq B BY <1>2, <1>3, <1>4 DEF Range
<1>8. left = {} <=> A = B BY <1>1, <1>2, <1>4, <1>7 DEF Left, Range
<1>9. n <= m /\ (n = m <=> left = {}) BY <1>5, <1>6, <1>7, <1>8, FS_Subset
<1>10. CASE left = {}
  <2>1. v = sel BY <1>1, <1>10, PickFacts
  <2>2. Least(k + 1, m) = Least(k, m) BY <1>2, <1>3, <1>9, <1>10 DEF Least
  <2> QED BY <2>1, <2>2 DEF Picked
<1>11. CASE left # {}
  <2>1. PICK i \in left :
          /\ v = Append(sel, c[i])
          /\ \A j \in left : MmrScore(lists, c, sel, c[i]) >= MmrScore(lists, c, sel, c[j])
    BY <1>1, <1>11, PickFacts
  <2>2. i \in 1 .. m /\ c[i] \in F /\ c[i] \notin A BY <1>1, <1>2, <1>4, <2>1 DEF Left
  <2>3. v \in Seq(F) /\ Len(v) = n + 1 /\ v[n + 1] = c[i]
        /\ \A j \in 1 .. n : v[j] = sel[j]
    BY <1>1, <1>3, <2>1, <2>2, AppendProperties
  <2>4. n + 1 = Least(k + 1, m) BY <1>2, <1>3, <1>9, <1>11 DEF Least
  <2>5. \A a \in 1 .. n + 1 : a \in 1 .. n \/ a = n + 1 BY <1>3
  <2>6. \A a \in 1 .. n + 1 : \E j \in 1 .. m : v[a] = c[j] BY <1>3, <2>2, <2>3, <2>5
  <2>7. \A a \in 1 .. n : sel[a] # c[i] BY <1>3, <1>4, <2>2 DEF Range
  <2>8. \A a, b \in 1 .. n + 1 : a # b => v[a] # v[b]
    BY <1>3, <2>3, <2>5, <2>7
  <2>9. \A j \in 1 .. m : RrfScore(lists, v[1]) >= RrfScore(lists, c[j])
    <3>1. CASE n = 0
      <4>1. sel = <<>> BY <1>1, <1>3, <3>1, EmptySeq
      <4>2. left = 1 .. m BY <1>1, <1>2, <4>1 DEF Left, Range
      <4>3. v[1] = c[i] BY <2>3, <3>1
      <4> QED BY <2>1, <2>2, <4>1, <4>2, <4>3, FirstPick
    <3>2. CASE n # 0
      <4>1. sel # <<>> /\ 1 \in 1 .. n BY <1>1, <1>3, <3>2
      <4> QED BY <2>3, <4>1 DEF Picked
    <3> QED BY <3>1, <3>2
  <2> QED BY <1>1, <2>3, <2>4, <2>6, <2>8, <2>9 DEF Picked
<1> QED BY <1>10, <1>11

\* The turns from the first one on.
LEMMA SelectFold ==
  ASSUME NEW lists, Ranked(lists), NEW c, NEW m, Shortlist(lists, c, m)
  PROVE  \E f : /\ f[0] = <<>>
                /\ \A k \in 1 .. TopK : f[k] = PickBest(lists, c, f[k - 1])
                /\ MmrSelect(lists, c) = f[TopK]
<1>1. PICK F, seq : F = Found(lists) /\ seq = [n \in 1 .. TopK |-> n] OBVIOUS
<1>2. TopK \in Nat BY SearchAssumption DEF SearchAssumption
<1>3. seq \in Seq(Nat) /\ DOMAIN seq = 1 .. TopK /\ Len(seq) = TopK BY <1>1, <1>2
<1>4. PICK G : G = [p \in Seq(F) \X Nat |-> PickBest(lists, c, p[1])] OBVIOUS
<1>5. ASSUME NEW sel \in Seq(F) PROVE PickBest(lists, c, sel) \in Seq(F)
  <2>1. c \in [1 .. m -> F] BY <1>1 DEF Shortlist
  <2>2. CASE Left(c, sel) = {}
    <3>1. PickBest(lists, c, sel) = sel BY <2>2, PickFacts
    <3> QED BY <3>1
  <2>3. CASE Left(c, sel) # {}
    <3>1. PICK i \in Left(c, sel) : PickBest(lists, c, sel) = Append(sel, c[i])
      BY <2>3, PickFacts
    <3>2. c[i] \in F BY <2>1 DEF Left
    <3> QED BY <3>1, <3>2, AppendProperties
  <2> QED BY <2>2, <2>3
<1>6. G \in [Seq(F) \X Nat -> Seq(F)] BY <1>4, <1>5
<1>7. <<>> \in Seq(F) OBVIOUS
<1>8. PICK h \in [SUBSET (DOMAIN seq) -> Seq(F)], f \in [0 .. Len(seq) -> Seq(F)] :
             Folds(G, <<>>, seq, h, f)
  BY <1>3, <1>6, <1>7, FoldExists, Zenon
<1> DEFINE body(g) == [x \in SUBSET (DOMAIN seq) |->
                         IF x = {} THEN <<>> ELSE PickBest(lists, c, g[x \ {Max(x)}])]
           iter == CHOOSE g : g = body(g)
<1>9. ASSUME NEW x \in SUBSET (DOMAIN seq), x # {}
      PROVE  h[x] = PickBest(lists, c, h[x \ {Max(x)}])
  <2>1. h[x] = G[<<h[x \ {Max(x)}], seq[Max(x)]>>] BY <1>8, <1>9 DEF Folds
  <2>2. PICK a, b : a = h[x \ {Max(x)}] /\ b = seq[Max(x)] OBVIOUS
  <2>3. a \in Seq(F) /\ b \in Nat BY <1>3, <1>8, <1>9, <2>2, LastOff
  <2>4. G[<<a, b>>] = PickBest(lists, c, a) BY <1>4, <2>3
  <2> QED BY <2>1, <2>2, <2>4
<1>10. h = body(h)
  <2>1. h[{}] = <<>> BY <1>8 DEF Folds
  <2> QED BY <1>8, <1>9, <2>1
<1>11. iter = body(iter) BY <1>10
<1>12. MmrSelect(lists, c) = iter[DOMAIN seq]
  BY <1>1 DEF MmrSelect, FoldLeft, MapThenFoldSet
<1>13. PICK g : g = iter OBVIOUS
<1>14. g = body(g) BY <1>11, <1>13
<1> HIDE DEF iter
<1> DEFINE P == {x \in SUBSET (DOMAIN seq) : g[x] # h[x]}
<1>15. ASSUME P # {} PROVE FALSE
  <2>1. PICK x \in P : \A y \in x : x \ {y} \notin P
    <3>1. P \in SUBSET (SUBSET (DOMAIN seq)) OBVIOUS
    <3> HIDE DEF P
    <3> QED BY <1>3, <1>15, <3>1, DomainFinite, MinimalSet
  <2>2. x # {} BY <1>14, <1>10, <2>1
  <2>3. Max(x) \in x /\ x \ {Max(x)} \in SUBSET (DOMAIN seq) BY <1>3, <2>2, LastOff
  <2>4. g[x \ {Max(x)}] = h[x \ {Max(x)}] BY <2>1, <2>3
  <2>5. g[x] = PickBest(lists, c, g[x \ {Max(x)}]) BY <1>14, <2>2
  <2>6. h[x] = PickBest(lists, c, h[x \ {Max(x)}]) BY <1>9, <2>2
  <2>7. g[x] = h[x] BY <2>4, <2>5, <2>6, Zenon
  <2> QED BY <2>1, <2>7
<1>16. MmrSelect(lists, c) = h[DOMAIN seq] BY <1>12, <1>13, <1>15
<1>17. ASSUME NEW k \in 1 .. TopK PROVE f[k] = PickBest(lists, c, f[k - 1])
  <2>1. f[k] = G[<<f[k - 1], seq[k]>>] BY <1>3, <1>8 DEF Folds
  <2>2. PICK a, b : a = f[k - 1] /\ b = seq[k] OBVIOUS
  <2>3. k - 1 \in 0 .. Len(seq) /\ b \in Nat BY <1>1, <1>2, <1>3, <2>2
  <2>4. a \in Seq(F) BY <1>8, <2>2, <2>3
  <2>5. G[<<a, b>>] = PickBest(lists, c, a) BY <1>4, <2>3, <2>4
  <2> QED BY <2>1, <2>2, <2>5
<1>18. f[0] = <<>> /\ f[TopK] = h[DOMAIN seq] BY <1>3, <1>8 DEF Folds
<1> QED BY <1>16, <1>17, <1>18

LEMMA SelectPicks ==
  ASSUME NEW lists, Ranked(lists), NEW c, NEW m, Shortlist(lists, c, m)
  PROVE  Picked(lists, c, m, MmrSelect(lists, c), TopK)
<1>1. PICK f : /\ f[0] = <<>>
               /\ \A k \in 1 .. TopK : f[k] = PickBest(lists, c, f[k - 1])
               /\ MmrSelect(lists, c) = f[TopK]
  BY SelectFold
<1>2. TopK \in Nat /\ m \in Nat BY SearchAssumption DEF SearchAssumption, Shortlist
<1> DEFINE T == {k \in 0 .. TopK : ~ Picked(lists, c, m, f[k], k)}
<1>3. ASSUME T # {} PROVE FALSE
  <2>1. PICK k \in T : \A j \in T : k <= j
    <3>1. T \in SUBSET Nat BY <1>2
    <3> HIDE DEF T
    <3> QED BY <1>3, <3>1, LeastNumber
  <2>2. k \in 0 .. TopK /\ ~ Picked(lists, c, m, f[k], k) BY <2>1
  <2>3. k # 0
    <3>1. Least(0, m) = 0 BY <1>2 DEF Least
    <3>2. PICK e : e = f[0] OBVIOUS
    <3>3. e = <<>> /\ Len(e) = 0 /\ e \in Seq(Found(lists)) BY <1>1, <3>2
    <3>4. Picked(lists, c, m, e, 0) BY <3>1, <3>3 DEF Picked
    <3> QED BY <2>2, <3>2, <3>4
  <2>4. PICK j : j = k - 1 OBVIOUS
  <2>5. j \in 0 .. TopK /\ j \in Nat /\ k \in 1 .. TopK /\ k = j + 1 /\ ~ (k <= j)
    BY <1>2, <2>2, <2>3, <2>4
  <2>6. j \notin T
    <3> HIDE DEF T
    <3> QED BY <2>1, <2>5
  <2>7. Picked(lists, c, m, f[j], j) BY <2>5, <2>6
  <2>8. f[k] = PickBest(lists, c, f[j]) BY <1>1, <2>4, <2>5
  <2>9. Picked(lists, c, m, f[k], j + 1) BY <2>5, <2>7, <2>8, OneMorePicked, Zenon
  <2> QED BY <2>2, <2>5, <2>9
<1>4. TopK \in 0 .. TopK BY <1>2
<1> QED BY <1>1, <1>3, <1>4

LEMMA CandidatesRank ==
  ASSUME NEW lists, Ranked(lists), NEW q, NEW n \in Nat, Ranking(lists, q, n),
         q = ReciprocalRankFusion(lists), NEW m, m = Least(Pool, n),
         NEW c, c = Candidates(lists)
  PROVE  Shortlist(lists, c, m) /\ \A i \in 1 .. m : c[i] = q[i] /\ i \in 1 .. n
<1>1. PICK F : F = Found(lists) OBVIOUS
<1>2. q \in [1 .. n -> F] /\ Len(q) = n BY <1>1 DEF Ranking
<1>3. Pool \in Nat BY SearchAssumption DEF SearchAssumption
<1>4. m \in Nat /\ m <= n /\ m = IF n < Pool THEN n ELSE Pool BY <1>3 DEF Least
<1>5. c = SubSeq(q, 1, m) BY <1>2, <1>4 DEF Candidates
<1>6. \A i \in 1 .. m : i \in 1 .. n /\ q[i] \in F BY <1>2, <1>4
<1>7. FirstOf(c, q, m, F) BY <1>4, <1>5, <1>6, FirstRows
<1>8. c \in Seq(F) /\ Len(c) = m /\ \A i \in 1 .. m : c[i] = q[i] BY <1>7 DEF FirstOf
<1>9. c \in [1 .. m -> F] BY <1>8, LenProperties
<1>10. \A i, k \in 1 .. m : i < k => RrfScore(lists, c[i]) >= RrfScore(lists, c[k])
  BY <1>6, <1>8 DEF Ranking
<1>11. \A i, k \in 1 .. m : i # k => c[i] # c[k] BY <1>6, <1>8 DEF Ranking
<1> QED BY <1>1, <1>4, <1>6, <1>8, <1>9, <1>10, <1>11 DEF Shortlist

\* What a search returns from the lists of the legs.
Retrieved(lists, chunks) ==
  /\ chunks \in Seq(Found(lists))
  /\ IsInjective(chunks)
  /\ Len(chunks) = Least(TopK, Cardinality(Found(lists)))
  /\ chunks # <<>> <=> Found(lists) # {}
  /\ chunks # <<>> =>
       /\ chunks[1] \in Found(lists)
       /\ \A d \in Found(lists) :
            /\ RrfScore(lists, chunks[1]) >= RrfScore(lists, d)
            /\ Dominates(lists, d, chunks[1]) => Dominates(lists, chunks[1], d)

LEMMA SearchRetrieves ==
  ASSUME NEW lists, Ranked(lists),
         NEW chunks, chunks = MmrSelect(lists, Candidates(lists))
  PROVE  Retrieved(lists, chunks)
<1>1. PICK q : q = ReciprocalRankFusion(lists) OBVIOUS
<1>2. PICK n \in Nat : Ranking(lists, q, n) BY <1>1, FusionRanks
<1>3. PICK m, c : m = Least(Pool, n) /\ c = Candidates(lists) OBVIOUS
<1>4. Shortlist(lists, c, m) /\ \A i \in 1 .. m : c[i] = q[i] /\ i \in 1 .. n
  BY <1>1, <1>2, <1>3, CandidatesRank
<1>5. Picked(lists, c, m, chunks, TopK) BY <1>3, <1>4, SelectPicks
<1>6. PICK F, l : F = Found(lists) /\ l = Len(chunks) OBVIOUS
<1>7. chunks \in Seq(F) /\ l \in Nat /\ DOMAIN chunks = 1 .. l
      /\ \A i \in 1 .. l : chunks[i] \in F
  BY <1>5, <1>6, LenProperties DEF Picked
<1>8. IsInjective(chunks) BY <1>5, <1>6, <1>7 DEF Picked, IsInjective
<1>9. TopK \in Nat /\ TopK > 0 /\ Pool \in Nat /\ TopK <= Pool
  BY SearchAssumption DEF SearchAssumption
<1>10. n = Cardinality(F) /\ IsFiniteSet(F) BY <1>2, <1>6, FoundFinite DEF Ranking
<1>11. l = Least(TopK, n) BY <1>3, <1>5, <1>6, <1>9 DEF Picked, Least
<1>12. chunks # <<>> <=> F # {}
  <2>1. l = 0 <=> n = 0 BY <1>9, <1>11 DEF Least
  <2>2. n = 0 <=> F = {} BY <1>10, FS_EmptySet
  <2>3. l = 0 <=> chunks = <<>> BY <1>6, <1>7, EmptySeq
  <2> QED BY <2>1, <2>2, <2>3
<1>13. ASSUME chunks # <<>>, NEW d \in F
       PROVE  /\ chunks[1] \in F
              /\ RrfScore(lists, chunks[1]) >= RrfScore(lists, d)
              /\ Dominates(lists, d, chunks[1]) => Dominates(lists, chunks[1], d)
  <2>1. n # 0
    <3>1. n = 0 => F = {} BY <1>10, FS_EmptySet
    <3> QED BY <3>1
  <2>2. 1 \in 1 .. l /\ 1 \in 1 .. m BY <1>3, <1>9, <1>11, <2>1 DEF Least
  <2>3. chunks[1] \in F BY <1>7, <2>2
  <2>4. PICK k \in 1 .. n : d = q[k] BY <1>2, <1>6 DEF Ranking
  <2>5. c[1] = q[1] /\ 1 \in 1 .. n BY <1>4, <2>2
  <2>6. PICK x, y, z : /\ x = RrfScore(lists, chunks[1])
                       /\ y = RrfScore(lists, q[1]) /\ z = RrfScore(lists, d)
    OBVIOUS
  <2>7. x \in Nat /\ y \in Nat /\ z \in Nat BY <2>6, RrfScoreFacts
  <2>8. x >= y BY <1>5, <1>13, <2>2, <2>5, <2>6 DEF Picked
  <2>9. y >= z
    <3>1. CASE k = 1 BY <2>4, <2>6, <2>7, <3>1
    <3>2. CASE k # 1
      <4>1. 1 < k BY <3>2
      <4> QED BY <1>2, <2>4, <2>5, <2>6, <4>1 DEF Ranking
    <3> QED BY <3>1, <3>2
  <2>10. x >= z BY <2>7, <2>8, <2>9
  <2>11. RrfScore(lists, chunks[1]) >= RrfScore(lists, d) BY <2>6, <2>10
  <2> QED BY <2>3, <2>11, DominatedScore
<1>14. chunks # <<>> => chunks[1] \in F BY <1>12, <1>13
<1> QED BY <1>6, <1>7, <1>8, <1>10, <1>11, <1>12, <1>13, <1>14 DEF Retrieved

-----------------------------------------------------------------------------
(* HybridSearch: the search.                                               *)

\* What was searchable when a leg looked was so during the search; the lists
\* hold no more than that, and what the search returns is theirs.
SearchInv ==
  /\ SearchTypeOK
  /\ search.pc # "idle" => Searchable \subseteq served
  /\ Ranked(search.lists) /\ Found(search.lists) \subseteq served
  /\ search.pc = "done" =>
       /\ Retrieved(search.lists, search.chunks)
       /\ search.scores = [d \in Docs |-> RrfScore(search.lists, d)]
       /\ search.grounded = Gate(search.chunks, search.scores)

LEMMA NoSearchTyped ==
  NoSearch \in Search /\ Ranked(NoSearch.lists) /\ Found(NoSearch.lists) = {}
<1>1. NoScores \in [Docs -> Nat] BY DEF NoScores
<1>2. NoSearch.lists = <<>> BY DEF NoSearch
<1>3. Ranked(<<>>) /\ Found(<<>>) = {} BY DEF Ranked, Found
<1>4. NoSearch \in Search BY <1>1 DEF NoSearch, Search
<1> QED BY <1>2, <1>3, <1>4

\* A leg ranks documents that are searchable when it looks.
LEMMA LegRanks ==
  ASSUME NEW list \in Rankings(Searchable, LegLimit)
  PROVE  list \in Seq(Docs) /\ Len(list) <= LegLimit /\ Range(list) \subseteq Searchable
<1>1. LegLimit \in Nat BY SearchAssumption DEF SearchAssumption
<1>2. PICK k \in 0 .. LegLimit : list \in [1 .. k -> Searchable] BY DEF Rankings
<1>3. Searchable \subseteq Docs BY DEF Searchable
<1>4. list \in [1 .. k -> Docs] BY <1>2, <1>3
<1>5. Len(list) = k /\ list \in Seq(Docs) BY <1>2, <1>4
<1> QED BY <1>1, <1>2, <1>5 DEF Range

LEMMA RankedMore ==
  ASSUME NEW lists, Ranked(lists), NEW list \in Seq(Docs), Len(list) <= LegLimit,
         NEW v, v = Append(lists, list)
  PROVE  Ranked(v) /\ Found(v) = Found(lists) \cup Range(list)
<1>1. PICK n : n = Len(lists) OBVIOUS
<1>2. n \in Nat /\ DOMAIN lists = 1 .. n /\ lists \in Seq(Seq(Docs))
  BY <1>1, RankedFacts DEF Ranked
<1>3. v \in Seq(Seq(Docs)) /\ Len(v) = n + 1 /\ v[n + 1] = list
      /\ \A i \in 1 .. n : v[i] = lists[i]
  BY <1>1, <1>2, AppendProperties
<1>4. DOMAIN v = 1 .. n + 1 BY <1>3, LenProperties
<1>5. \A i \in 1 .. n + 1 : i \in 1 .. n \/ i = n + 1 BY <1>2
<1>6. \A i \in 1 .. n : i \in 1 .. n + 1 BY <1>2
<1>7. n + 1 \in 1 .. n + 1 BY <1>2
<1>8. \A i \in 1 .. n : Len(lists[i]) <= LegLimit BY <1>2 DEF Ranked
<1>9. \A i \in DOMAIN v : Len(v[i]) <= LegLimit BY <1>3, <1>4, <1>5, <1>8
<1>10. Found(v) = Found(lists) \cup Range(list)
  <2>1. ASSUME NEW d \in Found(v) PROVE d \in Found(lists) \cup Range(list)
    <3>1. PICK i \in 1 .. n + 1 : d \in Range(v[i]) BY <1>4 DEF Found
    <3> QED BY <1>2, <1>3, <1>5, <3>1 DEF Found
  <2>2. ASSUME NEW d \in Found(lists) PROVE d \in Found(v)
    <3>1. PICK i \in 1 .. n : d \in Range(lists[i]) BY <1>2 DEF Found
    <3>2. i \in DOMAIN v /\ d \in Range(v[i]) BY <1>3, <1>4, <1>6, <3>1
    <3> QED BY <3>2 DEF Found
  <2>3. ASSUME NEW d \in Range(list) PROVE d \in Found(v)
    <3>1. n + 1 \in DOMAIN v /\ d \in Range(v[n + 1]) BY <1>3, <1>4, <1>7
    <3> QED BY <3>1 DEF Found
  <2> QED BY <2>1, <2>2, <2>3
<1> QED BY <1>3, <1>9, <1>10 DEF Ranked

LEMMA SearchInvInit == SearchInit => SearchInv
<1> SUFFICES ASSUME SearchInit PROVE SearchInv OBVIOUS
<1>1. search = NoSearch /\ served = {} /\ corpus \in [Docs -> DocStates]
  BY DEF SearchInit, DocStates
<1>2. search.pc = "idle" BY <1>1 DEF NoSearch
<1>3. search \in Search /\ Ranked(search.lists) /\ Found(search.lists) = {}
  BY <1>1, NoSearchTyped
<1> QED BY <1>1, <1>2, <1>3 DEF SearchInv, SearchTypeOK

\* The invariant where nothing is returned yet.
LEMMA SearchGoesOn ==
  ASSUME SearchInv, search' \in Search, search'.pc # "done",
         corpus' = corpus, served' \subseteq Docs,
         search'.pc # "idle" => Searchable \subseteq served',
         Ranked(search'.lists), Found(search'.lists) \subseteq served'
  PROVE  SearchInv'
<1>1. SearchTypeOK' BY DEF SearchInv, SearchTypeOK
<1>2. Searchable' = Searchable BY DEF Searchable
<1> QED BY <1>1, <1>2 DEF SearchInv

LEMMA LegStep ==
  ASSUME SearchInv, search.pc # "idle", NEW list \in Seq(Docs), Len(list) <= LegLimit,
         Range(list) \subseteq Searchable,
         NEW pc \in {"raw", "rewritten", "fuse"},
         search'.lists = <<list>> \/ search'.lists = Append(search.lists, list),
         search' \in Search, search'.pc = pc, UNCHANGED <<corpus, served>>
  PROVE  SearchInv'
<1>1. Searchable \subseteq served /\ Ranked(search.lists) /\ served \subseteq Docs
      /\ Found(search.lists) \subseteq served
  BY DEF SearchInv, SearchTypeOK
<1>2. Ranked(search'.lists) /\ Found(search'.lists) \subseteq served
  <2>1. CASE search'.lists = <<list>>
    <3>1. Ranked(<<list>>) BY DEF Ranked
    <3>2. Found(<<list>>) = Range(list) BY DEF Found
    <3> QED BY <1>1, <2>1, <3>1, <3>2
  <2>2. CASE search'.lists = Append(search.lists, list)
    <3>1. PICK v : v = Append(search.lists, list) OBVIOUS
    <3>2. Ranked(v) /\ Found(v) = Found(search.lists) \cup Range(list)
      BY <1>1, <3>1, RankedMore
    <3> QED BY <1>1, <2>2, <3>1, <3>2
  <2> QED BY <2>1, <2>2
<1> QED BY <1>1, <1>2, SearchGoesOn

LEMMA FuseStep == ASSUME SearchInv, Fuse PROVE SearchInv'
<1>1. PICK lists, chunks, scores :
        /\ lists = search.lists /\ chunks = MmrSelect(lists, Candidates(lists))
        /\ scores = [d \in Docs |-> RrfScore(lists, d)]
  OBVIOUS
<1>2. Ranked(lists) /\ search \in Search /\ search.pc = "fuse"
  BY <1>1 DEF SearchInv, SearchTypeOK, Fuse
<1>3. Retrieved(lists, chunks) BY <1>1, <1>2, SearchRetrieves
<1>4. PICK g : g = Gate(chunks, scores) OBVIOUS
<1>5. search' = [search EXCEPT !.pc = "done", !.chunks = chunks, !.scores = scores,
                               !.grounded = g]
  BY <1>1, <1>4, Zenon DEF Fuse
<1>6. /\ search'.pc = "done" /\ search'.lists = lists /\ search'.chunks = chunks
      /\ search'.scores = scores /\ search'.grounded = g
  BY <1>1, <1>2, <1>5 DEF Search
<1>7. chunks \in Seq(Docs)
  <2>1. Found(lists) \subseteq Docs BY <1>2, FoundFinite
  <2> QED BY <1>3, <2>1 DEF Retrieved
<1>8. scores \in [Docs -> Nat] BY <1>1, <1>2, RrfScoreFacts
<1>9. g \in BOOLEAN BY <1>4 DEF Gate
<1>10. search' \in Search BY <1>2, <1>5, <1>7, <1>8, <1>9 DEF Search
<1>11. UNCHANGED <<corpus, served>> BY DEF Fuse
<1>12. SearchTypeOK' BY <1>10, <1>11 DEF SearchInv, SearchTypeOK
<1>13. (Searchable \subseteq served)'
  BY <1>2, <1>11 DEF SearchInv, Searchable
<1>14. Found(lists) \subseteq served BY <1>1 DEF SearchInv
<1> QED BY <1>1, <1>2, <1>3, <1>4, <1>6, <1>11, <1>12, <1>13, <1>14 DEF SearchInv

LEMMA MakeReadyStep ==
  ASSUME SearchInv, NEW d \in Docs, MakeReady(d) PROVE SearchInv'
<1>1. corpus \in [Docs -> DocStates] /\ search \in Search /\ served \subseteq Docs
  BY DEF SearchInv, SearchTypeOK
<1>2. /\ corpus' = [corpus EXCEPT ![d] = "ready"] /\ search' = search
      /\ served' = IF search.pc = "idle" THEN served ELSE served \cup {d}
  BY DEF MakeReady
<1>3. corpus' \in [Docs -> DocStates] BY <1>1, <1>2 DEF DocStates
<1>4. served \subseteq served' /\ served' \subseteq Docs BY <1>1, <1>2
<1>5. Searchable' \subseteq Searchable \cup {d} BY <1>1, <1>2 DEF Searchable
<1>6. SearchTypeOK' BY <1>1, <1>2, <1>3, <1>4 DEF SearchTypeOK
<1>7. (search.pc # "idle" => Searchable \subseteq served)' BY <1>2, <1>5 DEF SearchInv
<1>8. Found(search.lists) \subseteq served' BY <1>4 DEF SearchInv
<1> QED BY <1>2, <1>6, <1>7, <1>8 DEF SearchInv

LEMMA DeleteStep ==
  ASSUME SearchInv, NEW d \in Docs, Delete(d) PROVE SearchInv'
<1>1. corpus \in [Docs -> DocStates] /\ search \in Search /\ served \subseteq Docs
  BY DEF SearchInv, SearchTypeOK
<1>2. corpus' = [corpus EXCEPT ![d] = "deleted"] /\ search' = search /\ served' = served
  BY DEF Delete
<1>3. corpus' \in [Docs -> DocStates] BY <1>1, <1>2 DEF DocStates
<1>4. Searchable' \subseteq Searchable BY <1>1, <1>2 DEF Searchable
<1>5. SearchTypeOK' BY <1>1, <1>2, <1>3 DEF SearchTypeOK
<1>6. (search.pc # "idle" => Searchable \subseteq served)' BY <1>2, <1>4 DEF SearchInv
<1> QED BY <1>2, <1>5, <1>6 DEF SearchInv

LEMMA SearchInvStep == SearchInv /\ [SearchNext]_searchVars => SearchInv'
<1> SUFFICES ASSUME SearchInv, [SearchNext]_searchVars PROVE SearchInv' OBVIOUS
<1>t. /\ corpus \in [Docs -> DocStates] /\ search \in Search /\ served \subseteq Docs
      /\ Ranked(search.lists) /\ Found(search.lists) \subseteq served
  BY DEF SearchInv, SearchTypeOK
<1>s. Searchable \subseteq Docs BY DEF Searchable
<1>1. ASSUME NEW rewritten \in BOOLEAN, BuildQuery(rewritten) PROVE SearchInv'
  <2>1. /\ search' = [NoSearch EXCEPT !.pc = "vector", !.rewritten = rewritten]
        /\ served' = Searchable /\ corpus' = corpus
    BY <1>1 DEF BuildQuery
  <2>2. search' \in Search /\ search'.pc = "vector" /\ search'.lists = NoSearch.lists
    BY <2>1, NoSearchTyped DEF Search
  <2>3. Ranked(search'.lists) /\ Found(search'.lists) = {} BY <2>2, NoSearchTyped
  <2> QED BY <1>s, <2>1, <2>2, <2>3, SearchGoesOn
<1>2. CASE VectorLeg
  <2>1. PICK list \in Rankings(Searchable, LegLimit) :
          search' = [search EXCEPT !.pc = "raw", !.lists = <<list>>]
    BY <1>2 DEF VectorLeg
  <2>2. list \in Seq(Docs) /\ Len(list) <= LegLimit /\ Range(list) \subseteq Searchable
    BY LegRanks
  <2>3. search' \in Search /\ search'.pc = "raw" /\ search'.lists = <<list>>
    <3>1. PICK lists : lists = <<list>> OBVIOUS
    <3>2. lists \in Seq(Seq(Docs)) BY <2>2, <3>1
    <3>3. search' = [search EXCEPT !.pc = "raw", !.lists = lists] BY <2>1, <3>1
    <3> QED BY <1>t, <3>1, <3>2, <3>3 DEF Search
  <2>4. search.pc # "idle" /\ UNCHANGED <<corpus, served>> BY <1>2 DEF VectorLeg
  <2> QED BY <2>2, <2>3, <2>4, LegStep
<1>3. CASE VectorUnavailable
  <2>1. PICK list : list = <<>> OBVIOUS
  <2>2. list \in Seq(Docs) /\ Len(list) <= LegLimit /\ Range(list) \subseteq Searchable
    <3>1. LegLimit \in Nat BY SearchAssumption DEF SearchAssumption
    <3> QED BY <2>1, <3>1 DEF Range
  <2>3. search' = [search EXCEPT !.pc = "raw", !.degraded = TRUE, !.lists = <<list>>]
    BY <1>3, <2>1 DEF VectorUnavailable
  <2>4. search' \in Search /\ search'.pc = "raw" /\ search'.lists = <<list>>
    <3>1. PICK lists : lists = <<list>> OBVIOUS
    <3>2. lists \in Seq(Seq(Docs)) BY <2>2, <3>1
    <3>3. search' = [search EXCEPT !.pc = "raw", !.degraded = TRUE, !.lists = lists]
      BY <2>3, <3>1
    <3> QED BY <1>t, <3>1, <3>2, <3>3 DEF Search
  <2>5. search.pc # "idle" /\ UNCHANGED <<corpus, served>>
    BY <1>3 DEF VectorUnavailable
  <2> QED BY <2>2, <2>4, <2>5, LegStep
<1>4. CASE LexicalLeg
  <2>1. PICK pc : pc = IF search.pc = "raw" /\ search.rewritten THEN "rewritten" ELSE "fuse"
    OBVIOUS
  <2>2. pc \in {"raw", "rewritten", "fuse"} BY <2>1
  <2>3. PICK list \in Rankings(Searchable, LegLimit) :
          search' = [search EXCEPT !.pc = pc, !.lists = Append(@, list)]
    BY <1>4, <2>1 DEF LexicalLeg
  <2>4. list \in Seq(Docs) /\ Len(list) <= LegLimit /\ Range(list) \subseteq Searchable
    BY LegRanks
  <2>5. PICK lists : lists = Append(search.lists, list) OBVIOUS
  <2>6. lists \in Seq(Seq(Docs)) BY <1>t, <2>4, <2>5, AppendProperties DEF Ranked
  <2>7. search' = [search EXCEPT !.pc = pc, !.lists = lists] BY <2>3, <2>5
  <2>8. search' \in Search /\ search'.pc = pc /\ search'.lists = lists
    BY <1>t, <2>2, <2>6, <2>7 DEF Search
  <2>9. search.pc # "idle" /\ UNCHANGED <<corpus, served>> BY <1>4 DEF LexicalLeg
  <2> QED BY <2>2, <2>4, <2>5, <2>8, <2>9, LegStep
<1>5. CASE Fuse BY <1>5, FuseStep
<1>6. CASE EndSearch
  <2>1. search' = NoSearch /\ served' = {} /\ corpus' = corpus BY <1>6 DEF EndSearch
  <2>2. search'.pc = "idle" BY <2>1 DEF NoSearch
  <2> QED BY <2>1, <2>2, NoSearchTyped, SearchGoesOn
<1>7. ASSUME NEW d \in Docs, MakeReady(d) \/ Delete(d) PROVE SearchInv'
  BY <1>7, MakeReadyStep, DeleteStep
<1>8. CASE UNCHANGED searchVars
  <2>1. corpus' = corpus /\ search' = search /\ served' = served
    BY <1>8 DEF searchVars
  <2> QED BY <2>1 DEF SearchInv, SearchTypeOK, Searchable
<1> QED BY <1>1, <1>2, <1>3, <1>4, <1>5, <1>6, <1>7, <1>8 DEF SearchNext

\* What the invariant says of a search that is done is what is promised.
LEMMA RetrievalFromInv == SearchInv => RetrievalSound
<1> SUFFICES ASSUME SearchInv, search.pc = "done" PROVE RetrievalSound
  BY DEF RetrievalSound
<1>1. PICK lists, chunks, F : lists = search.lists /\ chunks = search.chunks
                              /\ F = Found(lists)
  OBVIOUS
<1>2. Ranked(lists) /\ F \subseteq served /\ Retrieved(lists, chunks)
      /\ search.scores = [d \in Docs |-> RrfScore(lists, d)]
      /\ search.grounded = Gate(chunks, search.scores)
  BY <1>1 DEF SearchInv
<1>3. F \subseteq Docs BY <1>1, <1>2, FoundFinite
<1>4. Range(chunks) \subseteq F \cap served
  <2>1. chunks \in Seq(F) BY <1>1, <1>2 DEF Retrieved
  <2>2. \A i \in DOMAIN chunks : chunks[i] \in F BY <2>1
  <2> QED BY <1>2, <2>2 DEF Range
<1>5. \A d \in F : search.scores[d] = RrfScore(lists, d) BY <1>2, <1>3
<1>6. ASSUME chunks # <<>>
      PROVE  \A d \in F :
               /\ search.scores[chunks[1]] >= search.scores[d]
               /\ Dominates(lists, d, chunks[1]) => Dominates(lists, chunks[1], d)
  BY <1>1, <1>2, <1>5, <1>6 DEF Retrieved
<1>7. ASSUME Threshold <= Weight(LegLimit) PROVE search.grounded <=> F # {}
  <2>1. chunks # <<>> <=> F # {} BY <1>1, <1>2 DEF Retrieved
  <2>2. CASE chunks = <<>> BY <1>2, <2>1, <2>2 DEF Gate
  <2>3. CASE chunks # <<>>
    <3>1. chunks[1] \in F BY <1>1, <1>2, <2>3 DEF Retrieved
    <3>2. PICK x, y : x = search.scores[chunks[1]] /\ y = Weight(LegLimit) OBVIOUS
    <3>3. y <= x /\ x \in Nat BY <1>1, <1>2, <1>5, <3>1, <3>2, RrfScoreFacts
    <3>4. y \in Nat
      <4>1. LegLimit \in 1 .. LegLimit BY SearchAssumption DEF SearchAssumption
      <4> QED BY <3>2, <4>1, WeightFacts
    <3>5. Threshold \in Nat BY SearchAssumption DEF SearchAssumption
    <3>6. x >= Threshold BY <1>7, <3>2, <3>3, <3>4, <3>5
    <3> QED BY <1>2, <2>1, <2>3, <3>2, <3>6 DEF Gate
  <2> QED BY <2>2, <2>3
<1>8. IsInjective(chunks) /\ Len(chunks) = Least(TopK, Cardinality(F))
  BY <1>1, <1>2 DEF Retrieved
<1> QED BY <1>1, <1>4, <1>6, <1>7, <1>8, Zenon DEF RetrievalSound

(***************************************************************************)
(* Whatever the legs find, in whatever order, and whatever is uploaded and *)
(* deleted between them, HybridSearch.search returns chunks that were      *)
(* searchable during the search, each once, as many as there are up to the *)
(* top k; the first one, which RetrievalGate.evaluate looks at, has the    *)
(* best score and no other beats it in every leg; and one hit in one leg   *)
(* is enough for the gate.                                                 *)
(***************************************************************************)
THEOREM RetrievalStaysSound == SearchSpec => []RetrievalSound
<1>1. SearchSpec => []SearchInv BY SearchInvInit, SearchInvStep, PTL DEF SearchSpec
<1> QED BY <1>1, RetrievalFromInv, PTL
=============================================================================
