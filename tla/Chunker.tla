------------------------------- MODULE Chunker -------------------------------
(***************************************************************************)
(* From a document's pages to the chunks that are embedded and stored:     *)
(* the page loop of _build_embeddings and _process_section_chunks          *)
(* (core/ingestion/builder.py), _simple_chunk, _chunk_on_line_boundaries   *)
(* and _chunk_by_structure (core/ingestion/parser.py).                     *)
(*                                                                         *)
(* The pages are handed over by the module that composes this one with     *)
(* what stands before it.  Blank lines and trailing blanks do not occur,   *)
(* and headings are short.                                                 *)
(***************************************************************************)
EXTENDS PageText, FiniteSets

CONSTANTS
    NoSection,  \* the empty section path
    ChunkSize,  \* EMBEDDING_CONFIG["chunk_size"]
    MaxChars,   \* EMBEDDING_CONFIG["max_chunk_chars"]
    Overlap,    \* CHUNK_OVERLAP
    MinPiece,   \* 20: shorter pieces of a split text are dropped
    MinPage     \* 10: shorter pages are left out

ASSUME ChunkerAssumption ==
    /\ ChunkSize \in Nat \ {0} /\ MaxChars \in Nat \ {0}
    /\ Overlap \in Nat /\ MinPiece \in Nat /\ MinPage \in Nat \ {0}

\* max_chunk_size
MaxSize == IF ChunkSize < MaxChars THEN ChunkSize ELSE MaxChars

-----------------------------------------------------------------------------
(* Splitting one text: core/ingestion/parser.py.                           *)

\* The chunks finished so far, and the lines collected for the next one with
\* the size they are counted at.
Flush(a) == IF a.cur = <<>> THEN a
            ELSE [chunks |-> Append(a.chunks, a.cur), cur |-> <<>>, size |-> 0]
Collect(a, lines, n) == [a EXCEPT !.cur = @ \o lines, !.size = @ + n]
MakeRoom(a, n, max) == IF a.size + n > max THEN Flush(a) ELSE a
Empty == [chunks |-> <<>>, cur |-> <<>>, size |-> 0]

\* A line cut every max characters.
Pieces(l, max) ==
    [i \in 1..((LineLen(l) + max - 1) \div max) |->
        [l EXCEPT !.kind = "plain",
                  !.from = l.from + (i - 1) * max,
                  !.to   = IF l.from + i * max < l.to THEN l.from + i * max ELSE l.to]]

\* The end of a chunk that the next one repeats: the whole lines among its last
\* n characters, or if there is none the last n characters.
Overlapping(chunk, n) ==
    LET fits(i) == i > 1 /\ Length(SubSeq(chunk, i, Len(chunk))) < n
        whole   == {i \in DOMAIN chunk : fits(i)}
        last    == chunk[Len(chunk)]
    IN  IF n = 0 THEN <<>>
        ELSE IF whole # {}
             THEN SubSeq(chunk, CHOOSE i \in whole : \A j \in whole : i <= j, Len(chunk))
        ELSE <<[last EXCEPT !.kind = "plain",
                            !.from = IF last.to - n > last.from THEN last.to - n ELSE last.from]>>

\* _chunk_on_line_boundaries
OnLineBoundaries(text, max, overlap) ==
    LET step(a, l) ==
            IF LineLen(l) + 1 > max
            THEN LET b == Flush(a)
                 IN  At(Pieces(l, max), LAMBDA ps :
                        [b EXCEPT !.chunks = @ \o [i \in DOMAIN ps |-> <<ps[i]>>]])
            ELSE Collect(MakeRoom(a, LineLen(l) + 1, max), <<l>>, LineLen(l) + 1)
        overlapped(cs) ==
            [i \in DOMAIN cs |-> IF i = 1 THEN cs[1] ELSE Overlapping(cs[i - 1], overlap) \o cs[i]]
    IN  At(Flush(Fold(step, Empty, text)).chunks, overlapped)

\* Consecutive table lines stand together.
InTable(l) == l.kind \in {"row", "separator"}
Blocks(text) ==
    Fold(LAMBDA bs, l : IF InTable(l) /\ bs # <<>> /\ InTable(Last(Last(bs)))
                            THEN ReplaceAt(bs, Len(bs), Append(Last(bs), l))
                            ELSE Append(bs, <<l>>), <<>>, text)

\* The header of a large table: up to its first separator, or two rows.
HeaderLen(table) ==
    LET seps == {i \in DOMAIN table : table[i].kind = "separator"}
    IN  IF seps # {} THEN CHOOSE i \in seps : \A j \in seps : i <= j
        ELSE IF Len(table) < 2 THEN Len(table) ELSE 2

\* A large table becomes tables that repeat its header.
SubTables(table, max) ==
    LET header == SubSeq(table, 1, HeaderLen(table))
        data   == SubSeq(table, HeaderLen(table) + 1, Len(table))
        start  == [chunks |-> <<>>, cur |-> <<>>, size |-> Length(header) + 1]
        flush(a) == [start EXCEPT !.chunks = Append(a.chunks, header \o a.cur)]
        step(a, l) ==
            Collect(IF a.size + LineLen(l) + 1 > max /\ a.cur # <<>> THEN flush(a) ELSE a,
                    <<l>>, LineLen(l) + 1)
    IN  At(Fold(step, start, data),
           LAMBDA a : IF a.cur = <<>> THEN a.chunks ELSE flush(a).chunks)

\* Whether a table is too large to be treated atomically.
LargeTable(b, max) == InTable(b[1]) /\ 2 * Length(b) > 3 * max

\* The pieces of a long line are collected one by one.
Spread(a, pieces, max) ==
    Fold(LAMBDA c, p : Collect(MakeRoom(c, LineLen(p), max), <<p>>, LineLen(p) + 1), a, pieces)

\* _chunk_by_structure
ByStructure(text, max) ==
    LET step(a, b) ==
          CASE b[1].kind = "heading" /\ a.cur # <<>> ->
                 Collect(Flush(a), b, LineLen(b[1]) + 1)
            [] LargeTable(b, max) ->
                 [Flush(a) EXCEPT !.chunks = @ \o SubTables(b, max)]
            [] InTable(b[1]) /\ ~LargeTable(b, max) ->
                 Collect(MakeRoom(a, Length(b), max), b, Length(b))
            [] b[1].kind = "plain" /\ LineLen(b[1]) + 1 > max ->
                 Spread(MakeRoom(a, LineLen(b[1]) + 1, max), Pieces(b[1], max), max)
            [] OTHER -> Collect(MakeRoom(a, LineLen(b[1]) + 1, max), b, LineLen(b[1]) + 1)
    IN  At(Flush(Fold(step, Empty, Blocks(text))).chunks,
           LAMBDA cs : IF cs = <<>> THEN <<text>> ELSE cs)

\* _simple_chunk
Simple(text, max, overlap) ==
    IF Length(text) <= max THEN <<text>>
    ELSE At(ByStructure(text, max),
            LAMBDA cs : IF Len(cs) > 1 THEN cs ELSE OnLineBoundaries(text, max, overlap))

-----------------------------------------------------------------------------
(* One section's pages: _process_section_chunks.                           *)

Tagged(chunks, page) ==
    At(chunks, LAMBDA cs : Keep([i \in DOMAIN cs |-> [text |-> cs[i], page |-> page]],
                                {i \in DOMAIN cs : Length(cs[i]) >= MinPiece}))

\* Adjacent pages share a chunk as long as they fit; an oversized page is split
\* on its own.  A chunk is stored under the first of its pages.
MergePages(pages) ==
    LET close(a) == IF a.text = <<>> THEN a.out
                    ELSE Append(a.out, [text |-> a.text, page |-> a.page])
        step(a, p) ==
            IF Length(p.text) > MaxSize
            THEN [out |-> close(a) \o Tagged(Simple(p.text, MaxSize, Overlap), p.id),
                  text |-> <<>>, page |-> p.id]
            ELSE IF a.text # <<>> /\ Length(a.text) + Length(p.text) + 1 <= MaxSize
            THEN [a EXCEPT !.text = @ \o p.text]
            ELSE [out |-> close(a), text |-> p.text, page |-> p.id]
    IN  At(Fold(step, [out |-> <<>>, text |-> <<>>, page |-> 0], pages), close)

\* Mutant: only oversized pages are split, not what that leaves too large.
SplitOversizedNot(c) == <<c>>

\* What is still more than a fifth too large is split, by structure first.
SplitOversized(c) ==
    IF 10 * Length(c.text) > 12 * MaxSize
    THEN Tagged(At(ByStructure(c.text, MaxSize),
                   LAMBDA cs : IF Len(cs) > 1 THEN cs ELSE Simple(c.text, MaxSize, Overlap)),
                c.page)
    ELSE <<c>>

MergeSmall(chunks) ==
    Fold(LAMBDA out, c :
                IF out # <<>> /\ Length(Last(out).text) + Length(c.text) + 1 <= MaxSize
                THEN ReplaceAt(out, Len(out), [Last(out) EXCEPT !.text = @ \o c.text])
                ELSE Append(out, c), <<>>, chunks)

SplitAll(chunks) == Fold(LAMBDA out, c : out \o SplitOversized(c), <<>>, chunks)

ProcessSection(pages, section) ==
    At(MergeSmall(At(MergePages(pages), SplitAll)),
       LAMBDA cs : [i \in DOMAIN cs |-> [page |-> cs[i].page, idx |-> i - 1,
                                         section |-> section, text |-> cs[i].text]])

-----------------------------------------------------------------------------
(* The page loop.                                                          *)

VARIABLES
    doc,      \* the stored pages in page order: [num, text, section]
    next,     \* the page the loop is at
    section,  \* current_section
    buffer,   \* current_pages
    items     \* chunk_items

chunkVars == <<doc, next, section, buffer, items>>

ChunkInit ==
    /\ doc = <<>>
    /\ next = 1
    /\ section = NoSection
    /\ buffer = <<>>
    /\ items = <<>>

Total(pages) == Fold(LAMBDA n, p : n + Length(p.text), 0, pages)

\* A page of section path ends the section before it.
Turns(path) == section # NoSection /\ section # path

\* Mutant: the section that ends is stored under the path of the next one.
EndedMislabelled(path) == IF Turns(path) THEN ProcessSection(buffer, path) ELSE <<>>

Ended(path) == IF Turns(path) THEN ProcessSection(buffer, section) ELSE <<>>

\* Mutant: the pages of the section that ended stay in the buffer.
CollectedAgain(path, p) == Append(buffer, p)

Collected(path, p) == IF Turns(path) THEN <<p>> ELSE Append(buffer, p)

\* A page too short to be kept.
SkipPage ==
    /\ next <= Len(doc)
    /\ Length(doc[next].text) < MinPage
    /\ next' = next + 1
    /\ UNCHANGED <<doc, section, buffer, items>>

\* The section before the page is processed when the page begins another, and
\* what has been collected is processed when it is more than two chunks' worth.
TakePage ==
    /\ next <= Len(doc)
    /\ Length(doc[next].text) >= MinPage
    /\ LET path == doc[next].section
           kept == Collected(path, [id |-> next, text |-> doc[next].text])
       IN  /\ section' = path
           /\ \/ /\ Total(kept) > 2 * ChunkSize
                 /\ items' = items \o Ended(path) \o ProcessSection(kept, path)
                 /\ buffer' = <<>>
              \/ /\ Total(kept) <= 2 * ChunkSize
                 /\ items' = items \o Ended(path)
                 /\ buffer' = kept
    /\ next' = next + 1
    /\ UNCHANGED doc

\* Mutant: the last section is forgotten.
LastSectionForgotten ==
    /\ next = Len(doc) + 1
    /\ next' = next + 1
    /\ buffer' = <<>>
    /\ UNCHANGED <<doc, section, items>>

\* After the loop: the last section.
LastSection ==
    /\ next = Len(doc) + 1
    /\ next' = next + 1
    /\ items' = items \o ProcessSection(buffer, section)
    /\ buffer' = <<>>
    /\ UNCHANGED <<doc, section>>

ChunkNext == SkipPage \/ TakePage \/ LastSection

Chunked == next = Len(doc) + 2

-----------------------------------------------------------------------------
(* Properties.                                                             *)

\* l2_chunks is keyed by (page_id, chunk_idx) and written with INSERT OR
\* REPLACE: two chunks of a document must never share the pair, although the
\* index starts again with every group of pages.
KeysUnique ==
    \A i, j \in DOMAIN items :
        (items[i].page = items[j].page /\ items[i].idx = items[j].idx) => i = j

\* The characters of a page's line that some chunk holds.
Held(p, no) ==
    LET lines == {l \in UNION {ToSet(items[i].text) : i \in DOMAIN items} :
                    l.page = p /\ l.no = no}
    IN  UNION {l.from..(l.to - 1) : l \in lines}

\* A chunk exceeds max_chunk_size by no more than a fifth or an overlap, small
\* and large tables, long lines and repeated headers included.
ChunksFit ==
    \A i \in DOMAIN items :
        \/ 10 * Length(items[i].text) <= 12 * MaxSize
        \/ Length(items[i].text) <= MaxSize + Overlap + 1

\* By hand: "any single chunk exceeding this will be split" (core/config.py),
\* which a table or an overlap makes false.
HardCap == \A i \in DOMAIN items : Length(items[i].text) <= MaxChars
=============================================================================
