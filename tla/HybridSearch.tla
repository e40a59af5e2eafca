---------------------------- MODULE HybridSearch ----------------------------
(***************************************************************************)
(* Retrieval for one turn after the other: the dual-feed query             *)
(* (app/retrieval/query_rewrite.py), the vector and the lexical legs, each *)
(* in a transaction of its own (adapters/postgres/chunk_search.py), their  *)
(* fusion by reciprocal rank, the selection by maximal marginal relevance  *)
(* (app/retrieval/hybrid_search.py) and the gate before the generator      *)
(* (app/retrieval/refusal_gate.py), while documents come and go.           *)
(*                                                                         *)
(* Each document has one chunk here.  How well a chunk matches is left to  *)
(* the legs: a leg may return any order.  A score is an integer: Scale     *)
(* times the fraction of the code.                                         *)
(***************************************************************************)
EXTENDS Integers, Sequences, FiniteSets, SequencesExt

CONSTANTS Docs,        \* documents, each with its chunk
          Twins,       \* the pairs of chunks whose embeddings are parallel
          RrfConstant, \* _RRF_CONSTANT
          LegLimit,    \* _VECTOR_LEG_LIMIT and _LEXICAL_LEG_LIMIT
          Pool,        \* _MMR_CANDIDATE_POOL
          TopK,        \* _DEFAULT_K
          Threshold    \* retrieval_refusal_threshold, times Scale

ASSUME SearchAssumption ==
          /\ RrfConstant \in Nat \ {0} /\ LegLimit \in Nat \ {0}
          /\ Pool \in Nat \ {0} /\ TopK \in 1 .. Pool /\ Threshold \in Nat
          /\ \A a, b \in Docs : <<a, b>> \in Twins => <<b, a>> \in Twins

VARIABLES
  corpus,  \* documents: the chunk of a ready one has its embedding
  search,  \* the local variables of the search
  served   \* the documents that were searchable at some time of the search

searchVars == <<corpus, search, served>>

DocStates == {"processing", "ready", "deleted"}

Search == [pc : {"idle", "vector", "raw", "rewritten", "fuse", "done"},
           rewritten : BOOLEAN, degraded : BOOLEAN,
           lists : Seq(Seq(Docs)), chunks : Seq(Docs), scores : [Docs -> Nat],
           grounded : BOOLEAN]

NoScores == [d \in Docs |-> 0]

NoSearch == [pc |-> "idle", rewritten |-> FALSE, degraded |-> FALSE, lists |-> <<>>,
             chunks |-> <<>>, scores |-> NoScores, grounded |-> FALSE]

SearchTypeOK ==
  /\ corpus \in [Docs -> DocStates]
  /\ search \in Search /\ served \subseteq Docs

SearchInit ==
  /\ corpus = [d \in Docs |-> "processing"]
  /\ search = NoSearch /\ served = {}

-----------------------------------------------------------------------------
(* Fusion and selection.                                                   *)

\* Ranks within a leg are at most LegLimit.
Scale == FoldLeft(LAMBDA p, r : p * (RrfConstant + r), 1, [r \in 1 .. LegLimit |-> r])

Weight(rank) == Scale \div (RrfConstant + rank)

\* The contribution of one leg.
LegScore(list, d) ==
  IF \E r \in DOMAIN list : list[r] = d
    THEN Weight(CHOOSE r \in DOMAIN list : list[r] = d) ELSE 0

RrfScore(lists, d) == SumFunction([i \in DOMAIN lists |-> LegScore(lists[i], d)])

Found(lists) == UNION {Range(lists[i]) : i \in DOMAIN lists}

\* The order in which the chunks were first seen, which sorted() keeps among
\* equal scores: by the first leg that has them, and their rank there.
SeenBefore(lists, a, b) ==
  LET First(d) == CHOOSE i \in DOMAIN lists :
                    /\ d \in Range(lists[i])
                    /\ \A k \in 1 .. i - 1 : d \notin Range(lists[k])
      Rank(d) == CHOOSE r \in DOMAIN lists[First(d)] : lists[First(d)][r] = d
  IN  First(a) < First(b) \/ (First(a) = First(b) /\ Rank(a) < Rank(b))

Higher(lists, a, b) ==
  \/ RrfScore(lists, a) > RrfScore(lists, b)
  \/ RrfScore(lists, a) = RrfScore(lists, b) /\ SeenBefore(lists, a, b)

ReciprocalRankFusion(lists) ==
  CHOOSE fused \in [1 .. Cardinality(Found(lists)) -> Found(lists)] :
    \A i, k \in DOMAIN fused : i < k => Higher(lists, fused[i], fused[k])

\* 0.5 * normalized relevance - 0.5 * the largest similarity to a chunk that
\* is selected already (0 or 1 here), times 2 * (hi - lo).
MmrScore(lists, fused, selected, d) ==
  LET hi == RrfScore(lists, fused[1])
      lo == RrfScore(lists, Last(fused))
      similar == \E i \in DOMAIN selected :
                   <<d, selected[i]>> \in Twins
  IN  IF hi = lo THEN (IF similar THEN 0 ELSE 1)
      ELSE RrfScore(lists, d) - lo - (IF similar THEN hi - lo ELSE 0)

\* One turn of the selection: the first of the best candidates left.
PickBest(lists, fused, selected) ==
  LET left == {i \in DOMAIN fused : fused[i] \notin Range(selected)}
      S(i) == MmrScore(lists, fused, selected, fused[i])
  IN  IF left = {} THEN selected
      ELSE Append(selected,
                  fused[CHOOSE i \in left :
                          \A k \in left : S(i) > S(k) \/ (S(i) = S(k) /\ i <= k)])

MmrSelect(lists, fused) ==
  FoldLeft(LAMBDA selected, n : PickBest(lists, fused, selected), <<>>,
           [n \in 1 .. TopK |-> n])

Candidates(lists) ==
  LET fused == ReciprocalRankFusion(lists)
  IN  SubSeq(fused, 1, IF Len(fused) < Pool THEN Len(fused) ELSE Pool)

\* RetrievalGate.evaluate: only the first chunk is looked at.
Gate(chunks, scores) == chunks # <<>> /\ scores[chunks[1]] >= Threshold

-----------------------------------------------------------------------------
(* The search.                                                             *)

\* The rows a leg may see: d.status = 'ready' AND d.deleted_at IS NULL.
Searchable == {d \in Docs : corpus[d] = "ready"}

\* The orders in which a leg may return n of the chunks in S.
Rankings(S, n) == {list \in UNION {[1 .. k -> S] : k \in 0 .. n} : IsInjective(list)}

Least(a, b) == IF a < b THEN a ELSE b

\* build_dual_feed_query: the rewritten query is a second lexical query, if
\* there is a history, the rewrite comes in time, and it differs.
BuildQuery(rewritten) ==
  /\ search.pc = "idle"
  /\ search' = [NoSearch EXCEPT !.pc = "vector", !.rewritten = rewritten]
  /\ served' = Searchable
  /\ UNCHANGED corpus

\* search_vector: the nearest chunks, however far they are.
VectorLeg ==
  /\ search.pc = "vector"
  /\ \E list \in Rankings(Searchable, LegLimit) :
       /\ Len(list) = Least(LegLimit, Cardinality(Searchable))
       /\ search' = [search EXCEPT !.pc = "raw", !.lists = <<list>>]
  /\ UNCHANGED <<corpus, served>>

\* ChunkSearchUnavailableError: lexical only.
VectorUnavailable ==
  /\ search.pc = "vector"
  /\ search' = [search EXCEPT !.pc = "raw", !.degraded = TRUE, !.lists = << <<>> >>]
  /\ UNCHANGED <<corpus, served>>

\* search_lexical: the chunks that match, for each of the lexical queries.
LexicalLeg ==
  /\ search.pc \in {"raw", "rewritten"}
  /\ \E list \in Rankings(Searchable, LegLimit) :
       search' = [search EXCEPT
         !.pc = IF search.pc = "raw" /\ search.rewritten THEN "rewritten" ELSE "fuse",
         !.lists = Append(@, list)]
  /\ UNCHANGED <<corpus, served>>

MutFuse ==
  /\ search.pc = "fuse"
  /\ LET chunks == Reverse(MmrSelect(search.lists, Candidates(search.lists)))
         scores == [d \in Docs |-> RrfScore(search.lists, d)]
     IN  search' = [search EXCEPT !.pc = "done", !.chunks = chunks, !.scores = scores,
                                  !.grounded = Gate(chunks, scores)]
  /\ UNCHANGED <<corpus, served>>

Fuse ==
  /\ search.pc = "fuse"
  /\ LET chunks == MmrSelect(search.lists, Candidates(search.lists))
         scores == [d \in Docs |-> RrfScore(search.lists, d)]
     IN  search' = [search EXCEPT !.pc = "done", !.chunks = chunks, !.scores = scores,
                                  !.grounded = Gate(chunks, scores)]
  /\ UNCHANGED <<corpus, served>>

\* The turn is over.
EndSearch ==
  /\ search.pc = "done"
  /\ search' = NoSearch
  /\ served' = {}
  /\ UNCHANGED corpus

\* A document becomes ready, with its embedding (attach_embeddings_and_advance).
MakeReady(d) ==
  /\ corpus[d] = "processing"
  /\ corpus' = [corpus EXCEPT ![d] = "ready"]
  /\ served' = IF search.pc = "idle" THEN served ELSE served \cup {d}
  /\ UNCHANGED search

\* DELETE of a document while it is searched.
Delete(d) ==
  /\ corpus[d] = "ready"
  /\ corpus' = [corpus EXCEPT ![d] = "deleted"]
  /\ UNCHANGED <<search, served>>

SearchNext ==
  \/ \E rewritten \in BOOLEAN : BuildQuery(rewritten)
  \/ VectorLeg \/ VectorUnavailable \/ LexicalLeg \/ Fuse \/ EndSearch
  \/ \E d \in Docs : MakeReady(d) \/ Delete(d)

SearchSpec == SearchInit /\ [][SearchNext]_searchVars

-----------------------------------------------------------------------------
(* Properties.                                                             *)

\* a is at least as good as b in every leg.
Dominates(lists, a, b) == \A i \in DOMAIN lists : LegScore(lists[i], a) >= LegScore(lists[i], b)

\* What the legs found and a concurrent delete or upload changed between
\* them, the answer rests on: chunks that were searchable during this search,
\* each once, as many as there are up to the top k, of which the first has
\* the best score of all (it is the one the gate looks at) and is dominated
\* in every leg by none.  The gate refuses only an empty result: one hit at
\* the last rank of one leg clears the threshold, if the threshold is below
\* what such a hit scores, as the configured one is.
RetrievalSound ==
  search.pc = "done" =>
    LET found == Found(search.lists)
        chunks == search.chunks
    IN  /\ Range(chunks) \subseteq found \cap served
        /\ IsInjective(chunks)
        /\ Len(chunks) = Least(TopK, Cardinality(found))
        /\ chunks # <<>> =>
             \A d \in found :
               /\ search.scores[chunks[1]] >= search.scores[d]
               /\ Dominates(search.lists, d, chunks[1]) =>
                    Dominates(search.lists, chunks[1], d)
        /\ Threshold <= Weight(LegLimit) => (search.grounded <=> found # {})
=============================================================================
