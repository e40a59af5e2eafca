---------------------------- MODULE ThreadMemory ----------------------------
(***************************************************************************)
(* The memory of a thread: what MemoryAssembler (app/chat) gives each turn *)
(* of SendMessage to see of the messages before it, and the rolling        *)
(* summary it keeps in memory_summaries, when several turns of one thread  *)
(* run at the same time and the compactor may fail.                        *)
(*                                                                         *)
(* An action is one transaction or one call of the compactor.  A message   *)
(* is its number of tokens, and a summary is the set of the messages that  *)
(* went into it.                                                           *)
(***************************************************************************)
EXTENDS Integers, Sequences, FiniteSets, FiniteSetsExt, SequencesExt

CONSTANTS Turns,       \* turns of the thread, each slot one at a time
          Sizes,       \* bound: token counts of messages
          WindowBudget,\* _WINDOW_TOKEN_BUDGET
          FetchLimit,  \* _COMPACTION_FETCH_LIMIT
          MaxMessages  \* bound: messages of the thread

ASSUME MemoryAssumption ==
          /\ Sizes \subseteq Nat
          /\ WindowBudget \in Nat
          /\ FetchLimit \in Nat \ {0}
          /\ MaxMessages \in Nat

VARIABLES
  messages, \* the token count of each message; its position is its seq
  summary,  \* the row of memory_summaries (upto = 0: none)
  turn,     \* the local variables of each turn
  gap       \* a turn has found more messages than FetchLimit to compact

memoryVars == <<messages, summary, turn, gap>>

Seqs == 1 .. MaxMessages

MemorySummary == [upto : 0 .. MaxMessages, covers : SUBSET Seqs]
NoSummary == [upto |-> 0, covers |-> {}]

Turn == [pc : {"idle", "summary", "recent", "compact", "upsert", "reply"},
         existing : MemorySummary, compact : SUBSET Seqs, window : SUBSET Seqs,
         upto : 0 .. MaxMessages, covers : SUBSET Seqs, failed : BOOLEAN]

IdleTurn == [pc |-> "idle", existing |-> NoSummary, compact |-> {}, window |-> {},
             upto |-> 0, covers |-> {}, failed |-> FALSE]

MemoryTypeOK ==
  /\ messages \in Seq(Sizes)
  /\ summary \in MemorySummary
  /\ turn \in [Turns -> Turn]
  /\ gap \in BOOLEAN

MemoryInit ==
  /\ messages = <<>>
  /\ summary = NoSummary
  /\ turn = [t \in Turns |-> IdleTurn]
  /\ gap = FALSE

-----------------------------------------------------------------------------

\* PostgresMessageStore.recent: the last FetchLimit messages.
Recent == {s \in DOMAIN messages : s > Len(messages) - FetchLimit}

TokensOf(S) == SumFunctionOnSet(messages, S)

\* _split_by_budget: newest first, as long as the budget lasts, and always
\* the newest.
Window(candidates) ==
  {s \in candidates :
     \/ s = Max(candidates)
     \/ TokensOf({u \in candidates : u >= s}) <= WindowBudget}

Becomes(t, local) == turn' = [turn EXCEPT ![t] = local]

\* The user's message is stored: seq is the next of the thread's counter.
PersistMessage(t) ==
  /\ turn[t].pc = "idle"
  /\ Len(messages) < MaxMessages
  /\ \E size \in Sizes : messages' = Append(messages, size)
  /\ Becomes(t, [IdleTurn EXCEPT !.pc = "summary"])
  /\ UNCHANGED <<summary, gap>>

\* get_by_thread.
ReadSummary(t) ==
  /\ turn[t].pc = "summary"
  /\ Becomes(t, [turn[t] EXCEPT !.pc = "recent", !.existing = summary])
  /\ UNCHANGED <<messages, summary, gap>>

MutReadRecent(t) ==
  /\ turn[t].pc = "recent"
  /\ LET candidates == {s \in Recent : s > turn[t].existing.upto + 1}
         window == IF candidates = {} THEN {} ELSE Window(candidates)
         compact == candidates \ window
     IN  /\ Becomes(t, [turn[t] EXCEPT
              !.pc = IF compact = {} THEN "reply" ELSE "compact",
              !.window = window, !.compact = compact,
              !.upto = Len(messages), !.covers = turn[t].existing.covers])
         /\ gap' = (gap \/ Len(messages) - FetchLimit > turn[t].existing.upto)
  /\ UNCHANGED <<messages, summary>>

\* recent, and what of it the summary has not covered, split by the budget.
ReadRecent(t) ==
  /\ turn[t].pc = "recent"
  /\ LET candidates == {s \in Recent : s > turn[t].existing.upto}
         window == IF candidates = {} THEN {} ELSE Window(candidates)
         compact == candidates \ window
     IN  /\ Becomes(t, [turn[t] EXCEPT
              !.pc = IF compact = {} THEN "reply" ELSE "compact",
              !.window = window, !.compact = compact,
              !.upto = Len(messages), !.covers = turn[t].existing.covers])
         /\ gap' = (gap \/ Len(messages) - FetchLimit > turn[t].existing.upto)
  /\ UNCHANGED <<messages, summary>>

\* compactor.summarize: the previous summary and the messages to compact.
Summarize(t) ==
  /\ turn[t].pc = "compact"
  /\ Becomes(t, [turn[t] EXCEPT !.pc = "upsert", !.covers = @ \cup turn[t].compact])
  /\ UNCHANGED <<messages, summary, gap>>

\* It raises: window only, and the summary of before.
SummarizeFails(t) ==
  /\ turn[t].pc = "compact"
  /\ Becomes(t, [turn[t] EXCEPT !.pc = "reply", !.failed = TRUE])
  /\ UNCHANGED <<messages, summary, gap>>

\* INSERT ... ON CONFLICT DO UPDATE: the last one wins.
Upsert(t) ==
  /\ turn[t].pc = "upsert"
  /\ summary' = [upto |-> Max(turn[t].compact), covers |-> turn[t].covers]
  /\ Becomes(t, [turn[t] EXCEPT !.pc = "reply"])
  /\ UNCHANGED <<messages, gap>>

\* The upsert raises: this turn has the new summary, the table the old one.
UpsertFails(t) ==
  /\ turn[t].pc = "upsert"
  /\ Becomes(t, [turn[t] EXCEPT !.pc = "reply"])
  /\ UNCHANGED <<messages, summary, gap>>

\* The reply is stored, or the turn ends without one.
Reply(t) ==
  /\ turn[t].pc = "reply"
  /\ \/ /\ Len(messages) < MaxMessages
        /\ \E size \in Sizes : messages' = Append(messages, size)
     \/ UNCHANGED messages
  /\ Becomes(t, IdleTurn)
  /\ UNCHANGED <<summary, gap>>

MemoryNext ==
  \E t \in Turns :
    \/ PersistMessage(t) \/ ReadSummary(t) \/ ReadRecent(t) \/ Summarize(t)
    \/ SummarizeFails(t) \/ Upsert(t) \/ UpsertFails(t) \/ Reply(t)

MemorySpec == MemoryInit /\ [][MemoryNext]_memoryVars

-----------------------------------------------------------------------------
(* Properties.                                                             *)

\* Nothing said in a thread is forgotten, whatever turns overlap (an older
\* summary may replace a newer one) and whichever compactions fail: the stored
\* summary covers exactly the messages up to upto_seq, a turn whose compaction
\* did not fail sees every message there was in its summary or its window, and
\* the window is within the budget or a single message.  The one exception is
\* a backlog longer than the fetch limit, built up by failing compactions.
MemoryWhole ==
  /\ ~ gap => summary.covers = 1 .. summary.upto
  /\ \A t \in Turns :
       turn[t].pc = "reply" =>
         /\ ~ gap /\ ~ turn[t].failed =>
              turn[t].covers \cup turn[t].window = 1 .. turn[t].upto
         /\ Cardinality(turn[t].window) > 1 =>
              TokensOf(turn[t].window) <= WindowBudget

-----------------------------------------------------------------------------
(* Inductive strengthening.                                                *)

\* The window of a turn, from when it was cut.
WindowInv(r) ==
  r.pc \in {"compact", "upsert", "reply"} =>
    /\ r.upto <= Len(messages)
    /\ r.window \subseteq 1 .. r.upto
    /\ Cardinality(r.window) > 1 => TokensOf(r.window) <= WindowBudget

\* What a turn is to compact begins where the summary it knows ends, and its
\* window begins where that ends.
CompactInv(r) ==
  /\ r.pc = "recent" => r.existing.upto <= Len(messages)
  /\ r.pc \in {"compact", "upsert"} => r.compact # {} /\ r.compact \subseteq 1 .. r.upto
  /\ ~ gap =>
       /\ r.pc = "recent" => r.existing.covers = 1 .. r.existing.upto
       /\ r.pc = "compact" =>
            /\ r.covers \cup r.compact = 1 .. Max(r.compact)
            /\ r.covers \cup r.compact \cup r.window = 1 .. r.upto
       /\ r.pc = "upsert" =>
            /\ r.covers = 1 .. Max(r.compact)
            /\ r.covers \cup r.window = 1 .. r.upto
       /\ r.pc = "reply" /\ ~ r.failed => r.covers \cup r.window = 1 .. r.upto

MemoryInv ==
  /\ Len(messages) <= MaxMessages
  /\ summary.upto <= Len(messages)
  /\ ~ gap => summary.covers = 1 .. summary.upto
  /\ \A t \in Turns : WindowInv(turn[t]) /\ CompactInv(turn[t])
=============================================================================
