--------------------------- MODULE DocumentReading ---------------------------
(***************************************************************************)
(* From a PDF to its chunks: the parser (PdfParsing), the preprocessing    *)
(* and the analysis of its pages, and the chunker (Chunker).               *)
(*                                                                         *)
(* DocumentPreprocessor (core/ingestion/preprocessing), _sanitize_page_    *)
(* text, _strip_unmapped_glyph_layer, _preprocess_document and _build_l2   *)
(* (core/ingestion/builder.py).  Both work on the pages in parallel and    *)
(* put the results in page order.  A page of a job has, further,           *)
(*   section   its section path                                            *)
(*   garbled   its text fails the quality check                            *)
(*   analyses  its analysis does not raise                                 *)
(* and a job says whether the tesseract binary is installed.  An exception *)
(* of the preprocessing ends the ingestion: IngestPipeline has that.       *)
(***************************************************************************)
EXTENDS PdfParsing, Chunker

CONSTANTS
    MinDirect,   \* 20: shorter texts are replaced by those of local OCR
    MinReadable  \* unmapped_glyph_min_remaining_chars

ASSUME ReadingAssumption == MinDirect \in Nat /\ MinReadable \in Nat

vars == <<pdfVars, chunkVars>>

Source(i) == job.pages[pages[i].of]

\* Whether preprocess_pdf_page asks the local engine to read the page.
Short(i) == Length(pages[i].text) < MinDirect
ReadsImage(i) ==
    /\ pages[i].class # "BLANK"
    /\ \/ Short(i) /\ (job.tesseract \/ job.vision)
       \/ ~Short(i) /\ Source(i).garbled

\* The local engine, external, sees the rendered page or a white one.
Rendition(i) == IF pages[i].image THEN job.pages[images[pages[i].num]].ink ELSE <<>>

\* The text of a short page is what the engine reads, that of a garbled page
\* only if it reads something; where the image cannot be corrected the text stays.
Outcomes == {"read", "nothing", "raised"}
Preprocessed(i, outcome) ==
    LET read == IF outcome = "read" THEN Rendition(i) ELSE <<>>
    IN  IF outcome # "raised" /\ (Short(i) \/ read # <<>>) THEN read ELSE pages[i].text

\* _sanitize_page_text: a long line that stands on the page three times is taken
\* for a watermark.
Sanitized(text) ==
    LET echoes == {i \in DOMAIN text : text[i].kind = "echo"}
    IN  IF Cardinality(echoes) >= 3 THEN Keep(text, DOMAIN text \ echoes) ELSE text

\* _strip_unmapped_glyph_layer: where codes make up a tenth of the text, they go,
\* and the rest with them if it is short.
Codes(text) == {i \in DOMAIN text : text[i].kind = "cid"}
Coded(text) == 10 * Length(Keep(text, Codes(text))) >= Length(text)
Stripped(text) == Keep(text, DOMAIN text \ Codes(text))
Unreadable(text) == text # <<>> /\ Coded(text) /\ Length(Stripped(text)) < MinReadable

\* Mutant: nothing is said of the pages whose analysis failed.
LossesUntold(lost, unreadable) == IF unreadable # {} THEN {<<0, "unreadable pages">>} ELSE {}

\* page_loss_warnings
Losses(lost, unreadable) ==
    (IF lost # {} THEN {<<0, "missing pages">>} ELSE {})
    \cup (IF unreadable # {} THEN {<<0, "unreadable pages">>} ELSE {})

\* The pages are preprocessed, analysed and stored; pages that fail are not.
StorePages ==
    /\ stage = "parsed"
    /\ stage' = "stored"
    /\ \E outcome \in [{i \in DOMAIN pages : ReadsImage(i)} -> Outcomes] :
          LET text(i) == Sanitized(IF ReadsImage(i) THEN Preprocessed(i, outcome[i])
                                   ELSE pages[i].text)
              lost == {i \in DOMAIN pages : ~Source(i).analyses}
              unreadable == {i \in DOMAIN pages \ lost : Unreadable(text(i))}
              stored(i) == IF pages[i].class = "BLANK" \/ i \in unreadable THEN <<>>
                           ELSE IF text(i) # <<>> /\ Coded(text(i)) THEN Stripped(text(i)) ELSE text(i)
              row(i) == [num |-> pages[i].num, text |-> stored(i), section |-> Source(i).section]
              kept == Keep([i \in DOMAIN pages |-> i], DOMAIN pages \ lost)
          IN  /\ doc' = [k \in DOMAIN kept |-> row(kept[k])]
              /\ warnings' = warnings \cup Losses(lost, unreadable)
    /\ UNCHANGED <<job, locked, candidates, classes, images, at, ocr, pages,
                   next, section, buffer, items>>

\* _build_embeddings reads the stored pages; nothing is left to do afterwards.
Init == PdfInit /\ ChunkInit

Finished == stage = "stored" /\ Chunked

Next ==
    \/ PdfNext /\ UNCHANGED chunkVars
    \/ StorePages
    \/ stage = "stored" /\ ChunkNext /\ UNCHANGED pdfVars
    \/ Finished /\ UNCHANGED vars

Spec == Init /\ [][Next]_vars

\* _ingest_warning_metadata
Degraded == warnings # {}

-----------------------------------------------------------------------------
(* Properties.                                                             *)

\* What the code takes for no text, or replaces by what it takes for better.
JudgedBlank(p) == \E i \in DOMAIN pages : pages[i].of = p /\ pages[i].class = "BLANK"
Replaced(p) == \E i \in DOMAIN pages : pages[i].of = p /\ ReadsImage(i)
TooShort(p) == Length(job.pages[p].lines) < MinPage

\* What splitting loses: fragments shorter than MinPiece of a page that does not
\* fit in a chunk, and large tables that are all header, next to other text.
Fragment(p, no) ==
    /\ \E i \in DOMAIN doc : doc[i].num = p /\ Length(doc[i].text) > MaxSize
    /\ LineLen(job.pages[p].lines[no]) - Cardinality(Held(p, no)) < MinPiece
AllHeader(p, no) ==
    \E b \in ToSet(Blocks(job.pages[p].lines)) :
        /\ job.pages[p].lines[no] \in ToSet(b)
        /\ LargeTable(b, MaxSize) /\ HeaderLen(b) = Len(b)

\* A document is degraded, or every line of its text layer is in a chunk: no
\* failure of a page, a pass or the whole extraction loses text of a document
\* that is then verified.  The exceptions are what the code itself decides to
\* leave out, and a page that pdfplumber cannot read.
TextKept ==
    Finished /\ ~Degraded =>
        \A p \in 1..Count : \A no \in DOMAIN job.pages[p].lines :
            LET l == job.pages[p].lines[no]
            IN  \/ Held(p, no) = 0..(LineLen(l) - 1)
                \/ ~job.pages[p].extracts \/ JudgedBlank(p) \/ Replaced(p) \/ TooShort(p)
                \/ l.kind \in {"cid", "echo"}
                \/ Fragment(p, no) \/ AllHeader(p, no)

\* "Generate chunks respecting section boundaries": the pages of a chunk are all
\* of its section, or stand before the first section.
SectionsKept ==
    \A i \in DOMAIN items : \A l \in ToSet(items[i].text) :
        l.page # 0 => job.pages[l.page].section \in {items[i].section, NoSection}

\* By hand: the pages before the first section are chunked with its pages.
OwnSectionOnly ==
    \A i \in DOMAIN items : \A l \in ToSet(items[i].text) :
        l.page # 0 => job.pages[l.page].section = items[i].section

\* By hand: a page that a model or its image declares blank, a page that cannot
\* be read and a short page that local OCR cannot read lose their text, and
\* nothing says so.
NothingLostSilently ==
    Finished /\ ~Degraded =>
        \A p \in 1..Count : \A no \in DOMAIN job.pages[p].lines :
            Length(job.pages[p].lines) < MinPage \/ Held(p, no) # {}
=============================================================================
