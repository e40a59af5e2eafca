------------------------------ MODULE Chunking ------------------------------
(***************************************************************************)
(* From the bytes of a document to its chunks: type detection, the parser  *)
(* of the type (app/ingestion/parsers) and structure-aware chunking        *)
(* (app/ingestion/chunking.py), as functions of the document, and the one  *)
(* step of DocumentProcessor that applies them.                            *)
(*                                                                         *)
(* A document is the sequence of its elements, each before those inside    *)
(* it.  The text of a sentence is left out: a sentence is its number of    *)
(* tokens, and a character offset is the position of the sentence or table *)
(* among the nodes of the parser.                                          *)
(***************************************************************************)
EXTENDS Integers, Sequences, FiniteSets, SequencesExt

CONSTANTS Contents,      \* the documents that may be uploaded
          TargetTokens,  \* _TARGET_TOKENS
          HardMaxTokens  \* _HARD_MAX_TOKENS

VARIABLE document \* the content at hand, its type, the nodes its parser
                  \* made of it, and its chunks

-----------------------------------------------------------------------------
(* Types and parsers.                                                      *)

\* What the content shows of its type: the MIME type of its magic bytes, if
\* it has any, whether it is UTF-8, whether it starts as HTML does, whether
\* it has any "<", and what the upload declared.
Evidence ==
  [magic : {"pdf", "docx", "other", "none"}, utf8 : BOOLEAN, signature : BOOLEAN,
   markup : BOOLEAN, declared : {"html", "markdown", "text", "other"}]

\* detect_document_type; "unsupported" is UnsupportedDocumentTypeError.
DetectDocumentType(e) ==
  CASE e.magic \in {"pdf", "docx"} -> e.magic
    [] e.magic = "other" -> "unsupported"
    [] e.magic = "none" /\ ~ e.utf8 -> "unsupported"
    [] e.magic = "none" /\ e.utf8 /\ e.signature -> "html"
    [] OTHER -> IF e.declared = "other" THEN "unsupported"
                ELSE IF e.declared = "html" /\ ~ e.markup THEN "text" ELSE e.declared

\* An element of the source, the elements inside it following at a greater
\* depth: "sentences" are the token counts of the text it has itself, before
\* that of the elements inside it.  "other" is all the rest: lists and their
\* items, block quotes, sections, code, content controls, and the inline markup
\* of HTML.
Element ==
  [kind : {"heading", "paragraph", "table", "row", "cell", "other"},
   depth : Nat, level : 0 .. 9, page : Nat, sentences : Seq(Nat)]

ASSUME ChunkingAssumption ==
          /\ TargetTokens \in Nat \ {0} /\ HardMaxTokens \in Nat \ {0}
          /\ \A content \in Contents : /\ content.evidence \in Evidence
                                       /\ content.source \in Seq(Element)

\* A node of the document tree: "sentences" are the token counts of what
\* _split_sentences makes of its text, one for a heading or a table.
DocumentNode ==
  {node \in [kind : {"heading", "paragraph", "table"}, level : 0 .. 6,
             page : Nat, sentences : Seq(Nat)] :
     /\ node.sentences # <<>>
     /\ node.kind = "table" => Len(node.sentences) = 1}

\* No parser makes a node of an empty text.
Node(kind, level, page, sentences) ==
  IF sentences = <<>> THEN <<>>
  ELSE <<[kind |-> kind, level |-> level, page |-> page, sentences |-> sentences]>>

\* Two texts with nothing in between: where they meet there is one sentence.
Meet(s, t) ==
  IF s = <<>> THEN t ELSE IF t = <<>> THEN s
  ELSE Front(s) \o <<Last(s) + Head(t)>> \o Tail(t)

Joined(texts) == FoldLeft(Meet, <<>>, texts)

OneSentence(text) == Joined([k \in DOMAIN text |-> <<text[k]>>])

\* The element i and those inside it.
Inside(source, i) ==
  {j \in i .. Len(source) : \A k \in (i + 1) .. j : source[k].depth > source[i].depth}

InTable(source, i) ==
  \E t \in 1 .. (i - 1) : source[t].kind = "table" /\ i \in Inside(source, t)

TextOf(source, elements) ==
  Joined([j \in DOMAIN source |-> IF j \in elements THEN source[j].sentences ELSE <<>>])

\* get_text(strip=True).
GetText(source, i) == TextOf(source, Inside(source, i))

\* PDF shows pages but no structure: every block of text is a paragraph.
PdfNode(source, i) == Node("paragraph", 0, source[i].page, source[i].sentences)

\* Plain text has neither.
TextNode(source, i) == Node("paragraph", 0, 0, source[i].sentences)

\* Markdown: what has an inline token.  Code and HTML blocks have none and are
\* dropped; a table is a paragraph of its own text.
Inline(source, i) ==
  source[i].kind \in {"heading", "paragraph", "table"} /\ ~ InTable(source, i)

IsHeading(element) == element.kind = "heading" /\ element.level \in 1 .. 6

InlineText(source, i) ==
  IF source[i].kind = "table" THEN GetText(source, i) ELSE source[i].sentences

\* pending_heading_level: an empty heading leaves it to the next inline token
\* that has a text.
Pending(source, i) ==
  {h \in 1 .. i : /\ Inline(source, h) /\ IsHeading(source[h])
                  /\ \A k \in h .. (i - 1) :
                       Inline(source, k) => InlineText(source, k) = <<>>}

MarkdownNode(source, i) ==
  LET text == InlineText(source, i)
      pending == Pending(source, i)
  IN  IF ~ Inline(source, i) THEN <<>>
      ELSE IF pending = {} THEN Node("paragraph", 0, 0, text)
      ELSE Node("heading", source[Max(pending)].level, 0, OneSentence(text))

\* Word: the paragraphs and tables of the body, and of a table the paragraphs
\* of its cells, without the tables in them.  Content controls are dropped.
DocxLevel(level) == IF level = 0 THEN 1 ELSE IF level > 6 THEN 6 ELSE level

DocxTableText(source, t) ==
  TextOf(source, {j \in Inside(source, t) : /\ source[j].kind \in {"heading", "paragraph"}
                                            /\ source[j].depth = source[t].depth + 3})

DocxNode(source, i) ==
  CASE source[i].depth # 0 -> <<>>
    [] source[i].depth = 0 /\ source[i].kind = "heading" ->
         Node("heading", DocxLevel(source[i].level), 0, OneSentence(source[i].sentences))
    [] source[i].depth = 0 /\ source[i].kind = "paragraph" ->
         Node("paragraph", 0, 0, source[i].sentences)
    [] source[i].depth = 0 /\ source[i].kind = "table" ->
         Node("table", 0, 0, OneSentence(DocxTableText(source, i)))
    [] OTHER -> <<>>

\* HTML: the headings, tables and paragraphs at any depth, each with all of the
\* text inside it, but no paragraph of a table.  Text in no such element is
\* dropped; a heading or a table in a table comes again after the outer table, as
\* a paragraph in a paragraph does.
CellTexts(source, row) ==
  Joined([c \in DOMAIN source |->
            IF c \in Inside(source, row) /\ source[c].kind = "cell"
              THEN GetText(source, c) ELSE <<>>])

HtmlTableText(source, t) ==
  Joined([r \in DOMAIN source |->
            IF r \in Inside(source, t) /\ source[r].kind = "row"
              THEN CellTexts(source, r) ELSE <<>>])

HtmlNode(source, i) ==
  CASE source[i].kind = "table" -> Node("table", 0, 0, OneSentence(HtmlTableText(source, i)))
    [] source[i].kind = "paragraph" /\ ~ InTable(source, i) ->
         Node("paragraph", 0, 0, GetText(source, i))
    [] IsHeading(source[i]) ->
         Node("heading", source[i].level, 0, OneSentence(GetText(source, i)))
    [] OTHER -> <<>>

\* The node of an element, if its parser makes one.
ParsedNode(type, source, i) ==
  CASE type = "pdf" -> PdfNode(source, i)
    [] type = "text" -> TextNode(source, i)
    [] type = "markdown" -> MarkdownNode(source, i)
    [] type = "docx" -> DocxNode(source, i)
    [] type = "html" -> HtmlNode(source, i)

Parse(type, source) == FlattenSeq([i \in DOMAIN source |-> ParsedNode(type, source, i)])

-----------------------------------------------------------------------------
(* Flattening.                                                             *)

\* A sentence or a table of the flattened document.  "node" and "at" say
\* where it comes from, "path" the headings it is under (their nodes).
Item == [table : BOOLEAN, node : Nat, at : Nat, tokens : Nat, page : Nat,
         path : Seq(Nat), opens : BOOLEAN]

\* The heading stack after the heading i: from the top, what is as deep or
\* deeper is popped.
PushHeading(stack, nodes, i) ==
  LET Stays(n) == n = 0 \/ nodes[stack[n]].level < nodes[i].level
      top == CHOOSE n \in 0 .. Len(stack) :
               Stays(n) /\ \A m \in (n + 1) .. Len(stack) : ~ Stays(m)
  IN  Append(SubSeq(stack, 1, top), i)

ItemsOf(nodes, i, stack) ==
  [k \in DOMAIN nodes[i].sentences |->
     [table |-> nodes[i].kind = "table", node |-> i, at |-> k,
      tokens |-> nodes[i].sentences[k], page |-> nodes[i].page, path |-> stack,
      opens |-> nodes[i].kind = "heading" /\ nodes[i].level = 1]]

\* One turn of the loop of _flatten_to_sentences, with _interleave.
\* table_positions has one table per number of sentences before it: of two
\* tables with no sentence in between, the second replaces the first.
AddNode(nodes, acc, i) ==
  LET stack == IF nodes[i].kind = "heading" THEN PushHeading(acc.stack, nodes, i)
               ELSE acc.stack
      replaces == nodes[i].kind = "table" /\ acc.items # <<>> /\ Last(acc.items).table
      kept == IF replaces THEN Front(acc.items) ELSE acc.items
  IN  [stack |-> stack, items |-> kept \o ItemsOf(nodes, i, stack)]

Flatten(nodes) ==
  FoldLeft(LAMBDA acc, i : AddNode(nodes, acc, i), [stack |-> <<>>, items |-> <<>>],
           [i \in DOMAIN nodes |-> i]).items

-----------------------------------------------------------------------------
(* Packing.                                                                *)

Tokens(items) == FoldLeft(LAMBDA n, s : n + s.tokens, 0, items)

Pages(items) == {items[i].page : i \in DOMAIN items} \ {0}

\* ChunkDraft: the items, from the first to the last, and the provenance.
Chunk(items) ==
  [items |-> items, path |-> Last(items).path, pages |-> Pages(items),
   tokens |-> Tokens(items)]

Flush(buffer, chunks) == IF buffer = <<>> THEN chunks ELSE Append(chunks, Chunk(buffer))

\* _overlap_tail: the shortest suffix with an eighth of the tokens.
OverlapTail(buffer) ==
  LET Suffix(n) == SubSeq(buffer, Len(buffer) - n + 1, Len(buffer))
      enough == {n \in 0 .. Len(buffer) : 8 * Tokens(Suffix(n)) >= Tokens(buffer)}
  IN  Suffix(CHOOSE n \in enough : \A m \in enough : n <= m)

MutPack(acc, item) ==
  LET closes == item.opens /\ acc.buffer # <<>>
      buffer1 == IF closes THEN <<>> ELSE acc.buffer
      chunks1 == IF closes THEN Flush(acc.buffer, acc.chunks) ELSE acc.chunks
      full == buffer1 # <<>> /\ Tokens(buffer1) + item.tokens > HardMaxTokens
      buffer2 == Append(IF full THEN OverlapTail(buffer1) ELSE buffer1, item)
      chunks2 == IF full THEN Flush(buffer1, chunks1) ELSE chunks1
  IN  IF item.table
        THEN [buffer |-> <<>>, chunks |-> Append(acc.chunks, Chunk(<<item>>))]
        ELSE IF Tokens(buffer2) >= TargetTokens
          THEN [buffer |-> OverlapTail(buffer2), chunks |-> Flush(buffer2, chunks2)]
          ELSE [buffer |-> buffer2, chunks |-> chunks2]

\* One turn of the loop of chunk_document: a table closes the buffer and is a
\* chunk of its own, a top-level heading closes it, a sentence that does not
\* fit closes it and leaves the overlap, and so does reaching the target.
Pack(acc, item) ==
  LET closes == item.opens /\ acc.buffer # <<>>
      buffer1 == IF closes THEN <<>> ELSE acc.buffer
      chunks1 == IF closes THEN Flush(acc.buffer, acc.chunks) ELSE acc.chunks
      full == buffer1 # <<>> /\ Tokens(buffer1) + item.tokens > HardMaxTokens
      buffer2 == Append(IF full THEN OverlapTail(buffer1) ELSE buffer1, item)
      chunks2 == IF full THEN Flush(buffer1, chunks1) ELSE chunks1
  IN  IF item.table
        THEN [buffer |-> <<>>,
              chunks |-> Append(Flush(acc.buffer, acc.chunks), Chunk(<<item>>))]
        ELSE IF Tokens(buffer2) >= TargetTokens
          THEN [buffer |-> OverlapTail(buffer2), chunks |-> Flush(buffer2, chunks2)]
          ELSE [buffer |-> buffer2, chunks |-> chunks2]

ChunkDocument(nodes) ==
  LET packed == FoldLeft(Pack, [buffer |-> <<>>, chunks |-> <<>>], Flatten(nodes))
  IN  Flush(packed.buffer, packed.chunks)

-----------------------------------------------------------------------------
(* The parsing and chunking stages of DocumentProcessor.                   *)

NoDocument == [type |-> "none", source |-> <<>>, nodes |-> <<>>, chunks |-> <<>>]

ChunkingInit == document = NoDocument

\* An unsupported type or a document without any text fails for good.
Process(content) ==
  /\ document = NoDocument
  /\ LET type == DetectDocumentType(content.evidence)
         nodes == IF type = "unsupported" THEN <<>> ELSE Parse(type, content.source)
     IN  document' = IF nodes = <<>>
                       THEN [NoDocument EXCEPT !.type = "unsupported"]
                       ELSE [type |-> type, source |-> content.source, nodes |-> nodes,
                             chunks |-> ChunkDocument(nodes)]

\* The next document; nothing is kept from one to the other.
Finish ==
  /\ document # NoDocument
  /\ document' = NoDocument

ChunkingNext == (\E content \in Contents : Process(content)) \/ Finish

ChunkingSpec == ChunkingInit /\ [][ChunkingNext]_document

-----------------------------------------------------------------------------
(* Properties.                                                             *)

\* The headings a node is under, said without a stack: those before it that
\* no heading in between, of the same or a higher rank, has closed.
Under(nodes, i) ==
  LET headings == {h \in 1 .. i : nodes[h].kind = "heading"}
  IN  {h \in headings :
         \A g \in headings : h < g => nodes[h].level < nodes[g].level}

\* path is those headings, from the outermost to the innermost.
IsPathOf(path, nodes, i) ==
  /\ Range(path) = Under(nodes, i)
  /\ \A a, b \in DOMAIN path : a < b => path[a] < path[b]

\* All of the nodes but the first of two adjacent tables, which chunking
\* drops.
Expected(nodes) ==
  UNION {{<<i, k>> : k \in DOMAIN nodes[i].sentences} :
           i \in {i \in DOMAIN nodes :
                   ~ (/\ nodes[i].kind = "table"
                      /\ i < Len(nodes) /\ nodes[i + 1].kind = "table")}}

Place(item) == <<item.node, item.at>>
Before(a, b) == a[1] < b[1] \/ (a[1] = b[1] /\ a[2] < b[2])

Places(items) == {Place(items[i]) : i \in DOMAIN items}

\* A chunk is over the hard maximum only by the overlap it starts with: what
\* it adds to the chunk before it fits, or is a single sentence.
OverlapOnly(chunks) ==
  \A c \in DOMAIN chunks :
    LET items == chunks[c].items
    IN  \A k \in 1 .. Len(items) - 1 :
          c = 1 \/ Place(items[k]) \notin Places(chunks[c - 1].items)
            => Tokens(SubSeq(items, k, Len(items))) <= HardMaxTokens

\* The chunks give the nodes back: everything in them is in a chunk (the
\* overlap neither skips nor reorders a sentence), a chunk is a gapless piece
\* of them, in the order of the text, no chunk goes on after the start of a
\* top-level section, a table is a chunk of its own, section_path is the
\* headings the end is under, and the hard maximum is passed by the overlap
\* alone.
GivesBack(nodes, chunks) ==
  LET all == Expected(nodes)
      End(c) == Last(chunks[c].items)
  IN  /\ UNION {Places(chunks[c].items) : c \in DOMAIN chunks} = all
      /\ \A c \in DOMAIN chunks :
           LET items == chunks[c].items
           IN  /\ \A i, k \in DOMAIN items :
                    i < k => Before(Place(items[i]), Place(items[k]))
               /\ \A p, q \in Places(items), r \in all :
                    Before(p, r) /\ Before(r, q) => r \in Places(items)
               /\ \A i \in DOMAIN items :
                    (items[i].opens => i = 1) /\ (items[i].table => Len(items) = 1)
               /\ IsPathOf(chunks[c].path, nodes, End(c).node)
      /\ \A c \in DOMAIN chunks :
           c > 1 => ~ Before(Place(End(c)), Place(End(c - 1)))
      /\ OverlapOnly(chunks)

\* The chunks that are indexed give back the nodes the parser made.  (Not the
\* document: a parser drops what it has no node for.)
ChunksWhole == GivesBack(document.nodes, document.chunks)
=============================================================================
