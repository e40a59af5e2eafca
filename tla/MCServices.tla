----------------------------- MODULE MCServices -----------------------------
(* The services around a chat turn, for TLC: the calls to the providers,    *)
(* the memory of its thread, the chunks of the documents and their          *)
(* retrieval, the budget it is charged to, and the lists a client reads     *)
(* back.  These parts share no state, and every property is about one of    *)
(* them: a behaviour runs one part, chosen at the start, and leaves the     *)
(* others at their initial states.                                          *)
EXTENDS ModelRouter, ThreadMemory, Listings, Chunking, HybridSearch, Budget

VARIABLE part

CONSTANTS c1, c2, c3, d1, d2, d3, w1, w2, g1, g2, a1

\* No key at all, or a provider of each wire format.
TwoOrNone == {{}, {"anthropic", "groq"}}

SmallThreads == 1 .. 3

TwinPairs == {<<d1, d2>>, <<d2, d1>>}

\* retrieval_refusal_threshold = 0.0082
LowThreshold == (82 * Scale) \div 10000

Block(kind, depth, level, page, sentences) ==
  [kind |-> kind, depth |-> depth, level |-> level, page |-> page, sentences |-> sentences]
Heading(level) == <<Block("heading", 0, level, 1, <<1>>)>>
Paragraph(page, sentences) == <<Block("paragraph", 0, 0, page, sentences)>>
CellAt(depth, inside) ==
  <<Block("row", depth, 0, 2, <<>>), Block("cell", depth + 1, 0, 2, <<>>)>> \o inside
Table(inside) == <<Block("table", 0, 0, 2, <<>>)>> \o CellAt(1, inside)

\* A list of a paragraph, text that is in no paragraph, an empty heading.
List == <<Block("other", 0, 0, 2, <<>>), Block("paragraph", 1, 0, 2, <<2>>)>>
Code == <<Block("other", 0, 0, 2, <<4>>)>>
Untitled == <<Block("heading", 0, 2, 1, <<>>)>>

\* A table with a heading and a table in its cell: not in Markdown.
Nested == Table(<<Block("heading", 3, 2, 2, <<1>>), Block("table", 3, 0, 2, <<>>)>>
                \o CellAt(4, <<Block("paragraph", 6, 0, 2, <<2>>)>>))

\* A paragraph with text in bold and another paragraph in it: only in HTML.
Unclosed == <<Block("paragraph", 0, 0, 1, <<2, 2>>), Block("other", 1, 0, 1, <<1, 9>>),
              Block("paragraph", 1, 0, 1, <<3>>)>>

FewBlocks ==
  {Heading(1), Heading(2), Heading(3), Paragraph(1, <<3, 1>>), Paragraph(1, <<2, 2, 9>>),
   Paragraph(2, <<5>>), Table(<<Block("paragraph", 3, 0, 2, <<2>>)>>)}

Blocks(type) ==
  FewBlocks \cup {Heading(7), List, Code, Untitled}
  \cup (IF type = "markdown" THEN {} ELSE {Nested})
  \cup (IF type = "html" THEN {Unclosed} ELSE {})

Sources(blocks, lengths) ==
  {FlattenSeq(b) : b \in UNION {[1 .. k -> blocks] : k \in lengths}}

Word == [magic |-> "docx", utf8 |-> FALSE, signature |-> FALSE, markup |-> FALSE,
         declared |-> "text"]

\* Every document of up to four plain blocks as Word; in any guise, up to two
\* of the blocks there are of that type.
SmallContents ==
  [evidence : {Word}, source : Sources(FewBlocks, 3 .. 4)]
  \cup UNION {[evidence : {e}, source : Sources(Blocks(DetectDocumentType(e)), 0 .. 2)] :
                e \in Evidence}

serviceVars == <<memoryVars, threadVars, messageVars, document, searchVars, budgetVars>>

\* Without a provider there is no call under way.
NoCalls ==
  /\ configured = {}
  /\ breaker = [p \in Adapters |-> Fresh]
  /\ free = [p \in Adapters |-> MaxConcurrent]
  /\ waiters = [p \in Adapters |-> <<>>]
  /\ call = [c \in Calls |-> Locals("unavailable", 0, {})]
  /\ now = 0

PartInit ==
  /\ MemoryInit /\ ListingsInit /\ ChunkingInit /\ SearchInit /\ BudgetInit
  /\ \/ part = "router" /\ Init
     \/ /\ part \in {"memory", "threads", "messages", "chunking", "search", "budget"}
        /\ NoCalls

PartNext ==
  /\ UNCHANGED part
  /\ \/ part = "router" /\ Next /\ UNCHANGED serviceVars
     \/ /\ UNCHANGED vars
        /\ \/ /\ part = "memory" /\ MemoryNext
              /\ UNCHANGED <<threadVars, messageVars, document, searchVars, budgetVars>>
           \/ /\ part = "threads" /\ ThreadsNext
              /\ UNCHANGED <<memoryVars, messageVars, document, searchVars, budgetVars>>
           \/ /\ part = "messages" /\ MessagesNext
              /\ UNCHANGED <<memoryVars, threadVars, document, searchVars, budgetVars>>
           \/ /\ part = "chunking" /\ ChunkingNext
              /\ UNCHANGED <<memoryVars, threadVars, messageVars, searchVars, budgetVars>>
           \/ /\ part = "search" /\ SearchNext
              /\ UNCHANGED <<memoryVars, threadVars, messageVars, document, budgetVars>>
           \/ /\ part = "budget" /\ BudgetNext
              /\ UNCHANGED <<memoryVars, threadVars, messageVars, document, searchVars>>

PartSpec ==
  /\ PartInit /\ [][PartNext]_<<part, vars, serviceVars>>
  /\ \A c \in Calls : WF_vars(part = "router" /\ CallStep(c))
=============================================================================
