---------------------------- MODULE ModelRouter ----------------------------
(***************************************************************************)
(* LlmRouter.generate (app/llm/router.py): one call per generation, run as *)
(* a coroutine.  The call walks the fallback chain, skips the providers    *)
(* whose circuit breaker (app/llm/circuit_breaker.py) is open, holds one   *)
(* of the provider's permits while it streams, and falls back to the next  *)
(* provider only as long as no text has reached the caller.                *)
(*                                                                         *)
(* An action is what a coroutine does between two awaits.  The text of a   *)
(* chunk is left out, and with it the test of _reply_leaks_system_prompt:  *)
(* any chunk may be the one that triggers the intervention.                *)
(***************************************************************************)
EXTENDS Integers, Sequences, FiniteSets

CONSTANTS Calls,            \* calls of generate()
          Settings,         \* the sets of providers an API key may be set for
          FailureThreshold, \* failure_threshold of the breakers
          CooldownSeconds,  \* cooldown_seconds, in ticks of the clock
          MaxConcurrent,    \* max_concurrent_per_provider
          MaxText,          \* bound: text deltas of one stream
          MaxNow            \* bound: ticks of the clock

Adapters == {"openai", "anthropic", "groq"}

ASSUME RouterAssumption ==
          /\ Settings \subseteq SUBSET Adapters
          /\ FailureThreshold \in Nat \ {0}
          /\ CooldownSeconds \in Nat
          /\ MaxConcurrent \in Nat \ {0}
          /\ MaxText \in Nat
          /\ MaxNow \in Nat

VARIABLES
  configured, \* the providers this process has a key for
  breaker,    \* the CircuitBreaker of each provider
  free,       \* permits left in the semaphore of each provider
  waiters,    \* calls queued on that semaphore, first come first served
  call,       \* the local variables of each generate()
  now         \* ClockPort.now()

vars == <<configured, breaker, free, waiters, call, now>>

-----------------------------------------------------------------------------
(* The circuit breaker.                                                    *)

BreakerState == {"closed", "open", "half_open"}
None == -1

CircuitBreaker == [state : BreakerState, failures : Nat, openedAt : Nat \cup {None}]

Fresh == [state |-> "closed", failures |-> 0, openedAt |-> None]

\* is_open() returns True.
IsOpen(b) == b.state = "open" /\ now - b.openedAt < CooldownSeconds

\* The breaker after an is_open() that returned False.
Admit(b) == IF b.state = "open" THEN [b EXCEPT !.state = "half_open"] ELSE b

RecordSuccess(b) == Fresh

MutRecordFailure(b) ==
  [b EXCEPT !.failures = @ + 1,
            !.state = IF b.failures + 1 >= FailureThreshold THEN "open" ELSE @]

RecordFailure(b) ==
  LET n == b.failures + 1
  IN  IF b.state = "half_open" \/ n >= FailureThreshold
        THEN [state |-> "open", failures |-> n, openedAt |-> now]
        ELSE [b EXCEPT !.failures = n]

-----------------------------------------------------------------------------
(* The fallback chain.                                                     *)

\* _build_generator: the providers there are keys for, in this order.  Without
\* any, EchoGenerator answers instead of the router.
BuildGenerator(keys) ==
  LET If(p) == IF p \in keys THEN <<p>> ELSE <<>>
  IN  If("openai") \o If("anthropic") \o If("groq")

ModelChain == BuildGenerator(configured)

Provider(c) == ModelChain[call[c].hop]

Call == [pc : {"start", "waiting", "reading", "yielded", "echo",
               "returned", "unavailable", "raised", "closed"},
         hop : 0 .. 3, responded : BOOLEAN, textSent : BOOLEAN, leaked : BOOLEAN,
         texts : 0 .. MaxText, metered : BOOLEAN,
         voices : SUBSET Adapters]   \* whose text the caller has been given

Over == {"returned", "unavailable", "raised", "closed"}

TypeOK ==
  /\ configured \in SUBSET Adapters
  /\ breaker \in [Adapters -> CircuitBreaker]
  /\ free \in [Adapters -> 0 .. MaxConcurrent]
  /\ waiters \in [Adapters -> Seq(Calls)]
  /\ call \in [Calls -> Call]
  /\ now \in 0 .. MaxNow

\* The local variables where nothing has come of hop k yet.
Locals(step, k, voices) ==
  [pc |-> step, hop |-> k, responded |-> FALSE, textSent |-> FALSE,
   leaked |-> FALSE, texts |-> 0, metered |-> FALSE, voices |-> voices]

NewCall == Locals("start", 0, {})

Init ==
  /\ configured \in Settings
  /\ breaker = [p \in Adapters |-> Fresh]
  /\ free = [p \in Adapters |-> MaxConcurrent]
  /\ waiters = [p \in Adapters |-> <<>>]
  /\ call = [c \in Calls |-> NewCall]
  /\ now = 0

\* The local variables at the head of one turn of the loop over the chain.
AtHop(c, k, step) == Locals(step, k, call[c].voices)

\* generate() is over, and its local variables are gone.
Finished(c, step) == AtHop(c, 0, step)

\* The loop from the hop after h, up to the semaphore of the first provider
\* that is not skipped, when the breakers are brk and the semaphores have fr
\* left.
WalkChain(c, h, brk, fr) ==
  LET Skipped(k) == IsOpen(brk[ModelChain[k]])
  IN  \/ /\ \A k \in h + 1 .. Len(ModelChain) : Skipped(k)
         /\ breaker' = brk
         /\ free' = fr
         /\ call' = [call EXCEPT ![c] = Finished(c, "unavailable")]
         /\ UNCHANGED waiters
      \/ \E k \in h + 1 .. Len(ModelChain) :
           LET p == ModelChain[k]
           IN  /\ ~ Skipped(k)
               /\ \A j \in h + 1 .. k - 1 : Skipped(j)
               /\ breaker' = [brk EXCEPT ![p] = Admit(@)]
               /\ IF fr[p] > 0 /\ waiters[p] = <<>>
                    THEN /\ free' = [fr EXCEPT ![p] = @ - 1]
                         /\ call' = [call EXCEPT ![c] = AtHop(c, k, "reading")]
                         /\ UNCHANGED waiters
                    ELSE /\ free' = fr
                         /\ call' = [call EXCEPT ![c] = AtHop(c, k, "waiting")]
                         /\ waiters' = [waiters EXCEPT ![p] = Append(@, c)]

Start(c) ==
  /\ call[c].pc = "start"
  /\ configured # {}
  /\ WalkChain(c, 0, breaker, free)
  /\ UNCHANGED <<configured, now>>

\* asyncio.Semaphore.acquire(): the waiter at the head gets the permit.  The
\* breaker is not asked again.
Acquire(c) ==
  /\ call[c].pc = "waiting"
  /\ LET p == Provider(c)
     IN  /\ Head(waiters[p]) = c
         /\ free[p] > 0
         /\ free' = [free EXCEPT ![p] = @ - 1]
         /\ waiters' = [waiters EXCEPT ![p] = Tail(@)]
  /\ call' = [call EXCEPT ![c].pc = "reading"]
  /\ UNCHANGED <<configured, breaker, now>>

-----------------------------------------------------------------------------
(* What a provider's stream gives next.  "retryable" is a 5xx, a 429 or a  *)
(* transport error (the 30 s timeout included), "fatal" any other HTTP     *)
(* error, "malformed" an exception of the parser that is no ProviderError. *)

\* _parse_openai_compatible_sse reads on after the usage, up to [DONE].
ParseOpenAiCompatible(k) ==
  {"text", "end", "malformed"} \cup (IF k.metered THEN {} ELSE {"usage"})

\* _parse_anthropic_sse returns at message_stop, where it yields the usage.
ParseAnthropic(k) ==
  IF k.metered THEN {"end"} ELSE {"text", "usage", "end", "malformed"}

\* A status of 400 or more is known before the first item; the transport may
\* fail at any time.
HttpErrors(k) ==
  {"retryable"} \cup (IF k.responded THEN {} ELSE {"fatal"})

OpenAiCompatibleStream(k) == HttpErrors(k) \cup ParseOpenAiCompatible(k)

OpenAiStream(k) == OpenAiCompatibleStream(k)

GroqStream(k) == OpenAiCompatibleStream(k)

AnthropicStream(k) ==
  (IF k.metered THEN {} ELSE HttpErrors(k)) \cup ParseAnthropic(k)

Items(c) ==
  CASE Provider(c) = "openai"    -> OpenAiStream(call[c])
    [] Provider(c) = "anthropic" -> AnthropicStream(call[c])
    [] OTHER                     -> GroqStream(call[c])

\* breaker.record_success() at the first item of a stream.
Responded(c) ==
  breaker' = IF call[c].responded
               THEN breaker
               ELSE [breaker EXCEPT ![Provider(c)] = RecordSuccess(@)]

\* _reply_leaks_system_prompt depends on the text: any delta may complete a
\* span of the prompt, or none does.
LeakTest == BOOLEAN

\* The delta reaches the caller.
Relay(k, p) ==
  [k EXCEPT !.textSent = TRUE, !.voices = @ \cup {p}, !.pc = "yielded"]

\* The intervention message takes the place of the delta and of the rest.
Intervene(k, p) == [Relay(k, p) EXCEPT !.leaked = TRUE]

\* A text delta: relayed, replaced by the intervention message, or drained
\* once that message is out.
Text(c) ==
  /\ call[c].pc = "reading"
  /\ "text" \in Items(c)
  /\ call[c].texts < MaxText
  /\ Responded(c)
  /\ \E leaks \in LeakTest :
       LET k == [call[c] EXCEPT !.responded = TRUE, !.texts = @ + 1]
       IN  call' = [call EXCEPT ![c] = IF k.leaked THEN k
                                       ELSE IF leaks THEN Intervene(k, Provider(c))
                                       ELSE Relay(k, Provider(c))]
  /\ UNCHANGED <<configured, free, waiters, now>>

Usage(c) ==
  /\ call[c].pc = "reading"
  /\ "usage" \in Items(c)
  /\ Responded(c)
  /\ call' = [call EXCEPT ![c] =
       [@ EXCEPT !.responded = TRUE, !.metered = TRUE, !.pc = "yielded"]]
  /\ UNCHANGED <<configured, free, waiters, now>>

\* The caller asks for the next item.
Resume(c) ==
  /\ call[c].pc = "yielded"
  /\ call' = [call EXCEPT ![c].pc = "reading"]
  /\ UNCHANGED <<configured, breaker, free, waiters, now>>

\* The call leaves the async with of the semaphore.
Released(c) == [free EXCEPT ![Provider(c)] = @ + 1]

Leave(c, step) ==
  /\ free' = Released(c)
  /\ call' = [call EXCEPT ![c] = Finished(c, step)]
  /\ UNCHANGED <<configured, breaker, waiters, now>>

End(c) ==
  /\ call[c].pc = "reading"
  /\ "end" \in Items(c)
  /\ Leave(c, "returned")

\* The caller stops at an item (cancellation), and the generator is closed.
Close(c) ==
  /\ call[c].pc = "yielded"
  /\ Leave(c, "closed")

MutFallBack(c) ==
  /\ call[c].pc = "reading"
  /\ "retryable" \in Items(c)
  /\ WalkChain(c, call[c].hop, [breaker EXCEPT ![Provider(c)] = RecordFailure(@)],
               Released(c))
  /\ UNCHANGED <<configured, now>>

MutFallBackHolding(c) ==
  /\ call[c].pc = "reading"
  /\ "retryable" \in Items(c)
  /\ ~ call[c].textSent
  /\ WalkChain(c, call[c].hop, [breaker EXCEPT ![Provider(c)] = RecordFailure(@)],
               free)
  /\ UNCHANGED <<configured, now>>

\* A retryable error before any text: the next provider.
FallBack(c) ==
  /\ call[c].pc = "reading"
  /\ "retryable" \in Items(c)
  /\ ~ call[c].textSent
  /\ WalkChain(c, call[c].hop, [breaker EXCEPT ![Provider(c)] = RecordFailure(@)],
               Released(c))
  /\ UNCHANGED <<configured, now>>

\* An error that is not retryable, before any text.
Refused(c) ==
  /\ call[c].pc = "reading"
  /\ "fatal" \in Items(c)
  /\ breaker' = [breaker EXCEPT ![Provider(c)] = RecordFailure(@)]
  /\ free' = Released(c)
  /\ call' = [call EXCEPT ![c] = Finished(c, "unavailable")]
  /\ UNCHANGED <<configured, waiters, now>>

\* A provider error after text, or any other exception, reaches the caller.
Raise(c) ==
  /\ call[c].pc = "reading"
  /\ \/ "retryable" \in Items(c) /\ call[c].textSent
     \/ "malformed" \in Items(c)
  /\ Leave(c, "raised")

\* EchoGenerator.generate: the words of the reply, then the usage.
Echo(c) ==
  /\ configured = {}
  /\ \/ /\ call[c].pc \in {"start", "echo"}
        /\ ~ call[c].metered
        /\ \/ /\ call[c].texts < MaxText
              /\ call' = [call EXCEPT ![c].pc = "echo", ![c].texts = @ + 1,
                                      ![c].textSent = TRUE]
           \/ /\ call[c].textSent
              /\ call' = [call EXCEPT ![c].pc = "echo", ![c].metered = TRUE]
     \/ /\ call[c].metered
        /\ call[c].pc = "echo"
        /\ call' = [call EXCEPT ![c] = Finished(c, "returned")]
     \/ /\ call[c].pc = "echo"
        /\ call' = [call EXCEPT ![c] = Finished(c, "closed")]
  /\ UNCHANGED <<configured, breaker, free, waiters, now>>

Tick ==
  /\ now < MaxNow
  /\ now' = now + 1
  /\ UNCHANGED <<configured, breaker, free, waiters, call>>

CallStep(c) ==
  \/ Start(c) \/ Acquire(c) \/ Text(c) \/ Usage(c) \/ Resume(c) \/ End(c)
  \/ Close(c) \/ FallBack(c) \/ Refused(c) \/ Raise(c) \/ Echo(c)

Next == Tick \/ \E c \in Calls : CallStep(c)

Spec == Init /\ [][Next]_vars

\* A stream is bounded (max_tokens, client timeout) and its consumer reads
\* on or closes it: a coroutine that can go on does.
FairSpec == Spec /\ \A c \in Calls : WF_vars(CallStep(c))

-----------------------------------------------------------------------------
(* Properties.                                                             *)

\* A caller is never given the text of two providers, and never any text of
\* a call that ends with "no provider available": the fallback stops at the
\* first delta that generate() has relayed, leak intervention included.
OneVoice ==
  \A c \in Calls :
    /\ Cardinality(call[c].voices) <= 1
    /\ call[c].pc = "unavailable" => call[c].voices = {}

\* Each breaker stays coherent under calls that overlap (late failures of an
\* open provider, a success that races a failure, and the several probes that
\* OneProbe says there should not be and the code lets through): it is
\* closed exactly while it counts fewer failures than the threshold, it knows
\* when it opened exactly when it is not closed (the assert of is_open()),
\* and it lets no probe through before the cooldown.
BreakerCoherent ==
  \A p \in Adapters :
    LET b == breaker[p]
    IN  /\ (b.state = "closed") <=> (b.failures < FailureThreshold)
        /\ (b.state = "closed") <=> (b.openedAt = None)
        /\ b.state = "half_open" => now - b.openedAt >= CooldownSeconds

\* The calls under way at p that have had no answer yet.
Probing(p) ==
  {c \in Calls : /\ call[c].pc \in {"waiting", "reading"}
                 /\ Provider(c) = p
                 /\ ~ call[c].responded}

\* circuit_breaker.py: half open, "exactly one probe call is allowed through".
\* No call is let through to a half-open provider beside another.
OneProbe ==
  [][\A p \in Adapters, c \in Calls :
       breaker[p].state = "half_open" /\ c \in Probing(p)' \ Probing(p)
         => Probing(p) = {}]_vars

\* The calls that hold a permit of p.
Holders(p) ==
  {c \in Calls : /\ call[c].pc \in {"reading", "yielded"}
                 /\ Provider(c) = p}

\* However a stream ends (normally, an error, a fallback, a caller that
\* closes it), its permit is given back exactly once, and a queued call is
\* in the queue of its provider exactly once.
PermitsConserved ==
  \A p \in Adapters :
    /\ free[p] + Cardinality(Holders(p)) = MaxConcurrent
    /\ \A c \in Calls :
         Cardinality({i \in DOMAIN waiters[p] : waiters[p][i] = c}) =
           IF call[c].pc = "waiting" /\ Provider(c) = p THEN 1 ELSE 0

\* Every call ends, however many share the permits of a provider: nobody
\* queues for ever on a semaphore.
EveryCallEnds == \A c \in Calls : <>(call[c].pc \in Over)
=============================================================================
