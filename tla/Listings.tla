------------------------------ MODULE Listings ------------------------------
(***************************************************************************)
(* The threads of a workspace and the messages of a thread as a client     *)
(* sees them: creation, renaming and soft deletion of threads, feedback on *)
(* messages, and the two lists that are read page by page with a keyset    *)
(* cursor (app/threads, http/routes/threads.py, http/pagination.py) while  *)
(* all that goes on.                                                       *)
(*                                                                         *)
(* A thread's id is its number.  A cursor is what it encodes.              *)
(***************************************************************************)
EXTENDS Integers, Sequences, FiniteSets, SequencesExt

CONSTANTS Threads,     \* threads that may be created: their ids
          PageLimit,   \* page_limit after clamp_limit
          MaxListed,   \* bound: messages
          MaxTime      \* bound: ticks of the database's clock

ASSUME ListingsAssumption ==
          /\ Threads \subseteq Nat /\ IsFiniteSet(Threads)
          /\ PageLimit \in Nat \ {0}
          /\ MaxListed \in Nat
          /\ MaxTime \in Nat

VARIABLES
  time,
  thread,      \* the rows of threads
  threadWalk,  \* a client that reads the list of threads from its start
  roles,       \* the role of each message of a thread; position is seq
  feedback,    \* the caller's rating of each message
  messageWalk  \* a client that reads the list of messages

threadVars == <<time, thread, threadWalk>>
messageVars == <<roles, feedback, messageWalk>>

Thread == [state : {"none", "inserting", "live", "deleted"}, createdAt : 0 .. MaxTime,
           renamed : BOOLEAN]

\* "there" are the threads that have been listable all through the walk.
ThreadWalk == [pc : {"idle", "next", "end"}, cursor : Seq(Nat),
               seen : Seq(Threads), there : SUBSET Threads]
NoThreadWalk == [pc |-> "idle", cursor |-> <<>>, seen |-> <<>>, there |-> {}]

MessageWalk == [pc : {"idle", "next", "end"}, cursor : Seq(Nat), seen : Seq(Nat)]
NoMessageWalk == [pc |-> "idle", cursor |-> <<>>, seen |-> <<>>]

\* The row of the caller for each message, UNIQUE; "none" is no row.
Ratings == {"none", "up", "down"}
Feedbacks == [1 .. MaxListed -> Ratings]

ListingsTypeOK ==
  /\ time \in 0 .. MaxTime
  /\ thread \in [Threads -> Thread]
  /\ threadWalk \in ThreadWalk
  /\ roles \in Seq({"user", "assistant"})
  /\ feedback \in Feedbacks
  /\ messageWalk \in MessageWalk

ListingsInit ==
  /\ time = 0
  /\ thread = [t \in Threads |-> [state |-> "none", createdAt |-> 0, renamed |-> FALSE]]
  /\ threadWalk = NoThreadWalk
  /\ roles = <<>>
  /\ feedback = [m \in 1 .. MaxListed |-> "none"]
  /\ messageWalk = NoMessageWalk

-----------------------------------------------------------------------------
(* Pages.                                                                  *)

\* The routes ask for one row more than the page to know whether there is a
\* next page, whose cursor is the last row of this one.
PageSize(rows) == IF Len(rows) < PageLimit THEN Len(rows) ELSE PageLimit
Page(rows) == SubSeq(rows, 1, PageSize(rows))
HasMore(rows) == Len(rows) > PageLimit

\* ORDER BY created_at DESC, id DESC
Newer(t, u) ==
  \/ thread[t].createdAt > thread[u].createdAt
  \/ thread[t].createdAt = thread[u].createdAt /\ t > u

NewestFirst(S) ==
  CHOOSE rows \in [1 .. Cardinality(S) -> S] :
    \A i, k \in DOMAIN rows : i < k => Newer(rows[i], rows[k])

Live == {t \in Threads : thread[t].state = "live"}

\* The cursor is <<created_at, id>>, or empty: (created_at, id) < cursor.
BelowCursor(t, cursor) ==
  cursor = <<>> \/ thread[t].createdAt < cursor[1]
                \/ (thread[t].createdAt = cursor[1] /\ t < cursor[2])

\* list_by_workspace, with limit = PageLimit + 1.
ListByWorkspace(cursor) ==
  LET rows == NewestFirst({t \in Live : BelowCursor(t, cursor)})
  IN  SubSeq(rows, 1, IF Len(rows) < PageLimit + 1 THEN Len(rows) ELSE PageLimit + 1)

EncodeCreatedAtCursor(t) == <<thread[t].createdAt, t>>

\* list_by_thread: seq < cursor, ORDER BY seq DESC.
ListByThread(cursor) ==
  LET from == IF cursor = <<>> THEN Len(roles) ELSE cursor[1] - 1
      size == IF from < PageLimit + 1 THEN from ELSE PageLimit + 1
  IN  [i \in 1 .. size |-> from - i + 1]

-----------------------------------------------------------------------------
(* Threads.                                                                *)

\* The rows after the statements of PostgresThreadRepository.  created_at is
\* now(), the start of the transaction; soft_delete and update_title look at
\* live threads only.
InsertThread(t) ==
  [thread EXCEPT ![t].state = "inserting", ![t].createdAt = time]

UpdateTitle(t) == [thread EXCEPT ![t].renamed = TRUE]

SoftDelete(t) == [thread EXCEPT ![t].state = "deleted"]

\* CreateThread.
CreateThread(t) ==
  /\ thread[t].state = "none"
  /\ thread' = InsertThread(t)
  /\ UNCHANGED <<time, threadWalk>>

\* The transaction of the request commits, and the row appears.
CommitThread(t) ==
  /\ thread[t].state = "inserting"
  /\ thread' = [thread EXCEPT ![t].state = "live"]
  /\ UNCHANGED <<time, threadWalk>>

\* POST /threads, from its INSERT to its commit.
PostThread(t) == CreateThread(t) \/ CommitThread(t)

\* UpdateThread: any other thread is ThreadNotFoundError.
UpdateThread(t) ==
  /\ t \in Live
  /\ thread' = UpdateTitle(t)
  /\ UNCHANGED <<time, threadWalk>>

DeleteThread(t) ==
  /\ t \in Live
  /\ thread' = SoftDelete(t)
  /\ threadWalk' = [threadWalk EXCEPT !.there = @ \ {t}]
  /\ UNCHANGED time

TimePasses ==
  /\ time < MaxTime
  /\ time' = time + 1
  /\ UNCHANGED <<thread, threadWalk>>

MutNextThreads(rows) ==
  [threadWalk EXCEPT !.pc = IF HasMore(rows) THEN "next" ELSE "end",
     !.cursor = IF HasMore(rows) THEN EncodeCreatedAtCursor(Last(rows)) ELSE <<>>,
     !.seen = @ \o Page(rows)]

\* The page a client gets and the cursor of the next one: the last row of the
\* page, not the row beyond it.
NextThreads(rows) ==
  [threadWalk EXCEPT !.pc = IF HasMore(rows) THEN "next" ELSE "end",
     !.cursor = IF HasMore(rows) THEN EncodeCreatedAtCursor(Last(Page(rows))) ELSE <<>>,
     !.seen = @ \o Page(rows)]

\* GET /threads, the first page or the one of next_cursor.
ListThreads ==
  /\ threadWalk.pc \in {"idle", "next"}
  /\ threadWalk' =
       [NextThreads(ListByWorkspace(threadWalk.cursor)) EXCEPT
          !.there = IF threadWalk.pc = "idle" THEN Live ELSE @]
  /\ UNCHANGED <<time, thread>>

ThreadsNext ==
  \/ \E t \in Threads : PostThread(t) \/ UpdateThread(t) \/ DeleteThread(t)
  \/ TimePasses \/ ListThreads

-----------------------------------------------------------------------------
(* Messages.                                                               *)

\* A turn stores a message; its seq is the thread's counter, locked until the
\* commit, so that messages appear in the order of their seq.
StoreMessage(role) ==
  /\ Len(roles) < MaxListed
  /\ roles' = Append(roles, role)
  /\ UNCHANGED <<feedback, messageWalk>>

\* PostgresFeedbackRepository.upsert: one row for a message and a user.
UpsertFeedback(m, rating) == [feedback EXCEPT ![m] = rating]

\* SubmitFeedback: for a reply only.
SubmitFeedback(m, rating) ==
  /\ roles[m] = "assistant"
  /\ feedback' = UpsertFeedback(m, rating)
  /\ UNCHANGED <<roles, messageWalk>>

NextMessages(rows) ==
  [pc |-> IF HasMore(rows) THEN "next" ELSE "end",
   cursor |-> IF HasMore(rows) THEN <<Last(Page(rows))>> ELSE <<>>,
   seen |-> messageWalk.seen \o Page(rows)]

\* GET .../messages.  (Each item has its citations and the caller's feedback,
\* which are read in the same transaction and leave the page as it is.)
ListMessages ==
  /\ messageWalk.pc \in {"idle", "next"}
  /\ messageWalk' = NextMessages(ListByThread(messageWalk.cursor))
  /\ UNCHANGED <<roles, feedback>>

MessagesNext ==
  \/ \E role \in {"user", "assistant"} : StoreMessage(role)
  \/ \E m \in DOMAIN roles, rating \in {"up", "down"} : SubmitFeedback(m, rating)
  \/ ListMessages

\* The two lists have nothing to do with each other.
ListingsNext ==
  \/ ThreadsNext /\ UNCHANGED messageVars
  \/ MessagesNext /\ UNCHANGED threadVars

ListingsSpec == ListingsInit /\ [][ListingsNext]_<<threadVars, messageVars>>

-----------------------------------------------------------------------------
(* Properties.                                                             *)

\* A client that reads a list to its end while threads are created, renamed
\* and deleted, or messages come in, sees every thread that was there all the
\* time, and every message there was at its first page, exactly once and in
\* order; no page boundary, equal timestamp or late commit loses or repeats
\* one.
PagesWhole ==
  /\ IsInjective(threadWalk.seen)
  /\ threadWalk.pc = "end" => threadWalk.there \subseteq Range(threadWalk.seen)
  /\ \A i, k \in DOMAIN threadWalk.seen :
       i < k => Newer(threadWalk.seen[i], threadWalk.seen[k])
  /\ messageWalk.pc = "end" /\ messageWalk.seen # <<>> =>
       messageWalk.seen = Reverse([s \in 1 .. messageWalk.seen[1] |-> s])

-----------------------------------------------------------------------------
(* Inductive strengthening.                                                *)

\* What a client has seen of the threads is above the cursor, newest first;
\* what it has still to see is below.
ThreadWalkInv(w) ==
  /\ \A i \in 1 .. Len(w.seen) : thread[w.seen[i]].state \in {"live", "deleted"}
  /\ \A i, k \in 1 .. Len(w.seen) : i < k => Newer(w.seen[i], w.seen[k])
  /\ w.there \subseteq Live
  /\ w.pc = "idle" => w.seen = <<>> /\ w.cursor = <<>> /\ w.there = {}
  /\ w.pc = "next" =>
       /\ w.seen # <<>> /\ w.cursor = EncodeCreatedAtCursor(Last(w.seen))
       /\ \A t \in w.there : t \in Range(w.seen) \/ BelowCursor(t, w.cursor)
  /\ w.pc = "end" => w.there \subseteq Range(w.seen)

\* What a client has seen of the messages counts down from the first one, to
\* the cursor or to the beginning of the thread.
MessageWalkInv(w) ==
  /\ \A i \in 1 .. Len(w.seen) : w.seen[i] = w.seen[1] - i + 1
  /\ w.pc = "idle" => w.seen = <<>> /\ w.cursor = <<>>
  /\ w.pc = "next" => w.seen # <<>> /\ w.cursor = <<Last(w.seen)>> /\ Last(w.seen) > 0
  /\ w.pc = "end" /\ w.seen # <<>> => Last(w.seen) = 1

ListingsInv == ThreadWalkInv(threadWalk) /\ MessageWalkInv(messageWalk)
=============================================================================
