----------------------------- MODULE PdfParsing -----------------------------
(***************************************************************************)
(* From a PDF to its parsed pages: _parse_pdf, the renderers and the       *)
(* transcription of a page by the OCR endpoint (core/ingestion/parser.py), *)
(* with the page classifier (core/ingestion/layout/page_classifier.py).    *)
(*                                                                         *)
(* A job is a file, the settings it is read under and the faults it meets; *)
(* a page of it is                                                         *)
(*   lines     its text layer, and extracts: pdfplumber can read it        *)
(*   ink       the lines an image of the page shows, none if it is blank   *)
(*   images    it embeds images;  wide: its text is a flattened table      *)
(*   renders   by "poppler", only by "pdfium", or "never"                  *)
(* What a model answers is chosen anew each time.  Page classification     *)
(* runs on several threads, each for a page of its own.                    *)
(***************************************************************************)
EXTENDS PageText, FiniteSets, FiniteSetsExt

CONSTANTS
    Jobs,       \* [pages, ocr, vision, watermark, opens, scan, crash, mupdf]
    MinVisual,  \* vlm_min_text_len_for_candidate
    MaxRounds   \* ocr_transcription_max_continuations

Renders == {"poppler", "pdfium", "never"}
Classes == {"TEXT", "IMAGE", "CHART", "BLANK"}

\* scan: the pre-filter fails when it opens the file, when it closes it, or
\* not.  crash: the page at which the extraction fails, 0 when it opens the
\* file and one more than there are pages when it closes it.
ASSUME PdfAssumption ==
    /\ \A j \in Jobs :
          /\ j.pages \in Seq(ToSet(j.pages))
          /\ {j.ocr, j.vision, j.opens, j.mupdf} \subseteq BOOLEAN
          /\ j.watermark \in {"none", "cleaned", "left"}
          /\ j.scan \in {"ok", "open", "close"} /\ j.crash \in Nat
          /\ \A i \in DOMAIN j.pages :
                /\ {j.pages[i].lines, j.pages[i].ink} \subseteq Seq(LinesOn({i}))
                /\ \A l \in ToSet(j.pages[i].lines \o j.pages[i].ink) : l.from <= l.to
                /\ j.pages[i].renders \in Renders
                /\ {j.pages[i].extracts, j.pages[i].images, j.pages[i].wide} \subseteq BOOLEAN
    /\ MinVisual \in Nat /\ MaxRounds \in Nat

-----------------------------------------------------------------------------
(* Rendering.                                                              *)

RenderedBy(file, p, how) == file[p].renders \in how

\* pdf2image, external: the images of the pages from first to last in order,
\* or an exception.  An image is the number of the page it shows.
Converts(file, first, last) == \A p \in first..last : RenderedBy(file, p, {"poppler"})
Convert(first, last) == [i \in 1..(last - first + 1) |-> first + i - 1]

\* Consecutive pages are rendered together.
Runs(wanted) ==
    {run \in wanted \X wanted :
        /\ run[1]..run[2] \subseteq wanted /\ run[1] <= run[2]
        /\ run[1] - 1 \notin wanted /\ run[2] + 1 \notin wanted}

\* Mutant: the images of a run are counted from the first page of the file.
RunImagesFromOne(file, first, last) ==
    IF Converts(file, first, last) THEN Convert(first, last)
    ELSE [p \in {q \in first..last : Converts(file, q, q)} |-> Convert(p, p)[1]]

\* A run that fails is tried again page by page.
RunImages(file, first, last) ==
    IF Converts(file, first, last)
    THEN LET images == Convert(first, last)
         IN  [p \in first..last |-> images[p - first + 1]]
    ELSE [p \in {q \in first..last : Converts(file, q, q)} |-> Convert(p, p)[1]]

\* _render_pdf_pages: what pdf2image leaves, pdfium tries.
RenderPages(file, wanted) ==
    LET run(p)  == CHOOSE r \in Runs(wanted) : p \in r[1]..r[2]
        image(p) == RunImages(file, run(p)[1], run(p)[2])
        poppler == {p \in wanted : p \in DOMAIN image(p)}
        pdfium  == {p \in wanted \ poppler : RenderedBy(file, p, {"poppler", "pdfium"})}
    IN  [p \in poppler \cup pdfium |-> IF p \in poppler THEN image(p)[p] ELSE p]

\* _render_single_page
RendersAlone(file, p) == RenderedBy(file, p, {"poppler", "pdfium"})

-----------------------------------------------------------------------------
(* The clean-up of a transcription.                                        *)

\* _trim_exact_period_repeats: one repetition and a piece of it remain.
TrimPeriods(text) ==
    IF text # <<>> /\ Last(text).kind = "periods"
    THEN ReplaceAt(text, Len(text), [Last(text) EXCEPT !.kind = "stub", !.to = @ - 1])
    ELSE text

\* Where the lines of a kind that end at line last begin; after last, if none do.
RunStart(text, last, kind) ==
    CHOOSE i \in 1..(last + 1) :
        /\ \A j \in i..last : text[j].kind = kind
        /\ i > 1 => text[i - 1].kind # kind

\* _trim_numbered_pseudo_repeats: numbered lines with nothing but a stub below
\* go, and the lines that introduce them.
TrimNumbered(text) ==
    LET last == RunStart(text, Len(text), "stub") - 1
        list == RunStart(text, last, "numbered")
    IN  IF list > last THEN text
        ELSE SubSeq(text, 1, RunStart(text, list - 1, "lead") - 1)

\* clean_ocr_transcription_detailed
Cleaned(text) == TrimNumbered(TrimPeriods(text))
Degenerate(text) == Length(Cleaned(text)) < Length(text)

-----------------------------------------------------------------------------
VARIABLES
    job,
    stage,       \* "open", "scan", "classify", "reopen", "read", "ocr", "end" or "parsed"
    locked,      \* _PDFPLUMBER_LOCK
    candidates,  \* vlm_candidate_pages
    classes,     \* page_classes
    images,      \* page_images
    at,        \* the page the extraction is at
    ocr,         \* the transcription under way
    pages,       \* doc.pages
    warnings     \* visual_transcription_warnings, parse_warnings and
                 \* text_integrity_warnings: the page, or 0, and what is said

pdfVars == <<job, stage, locked, candidates, classes, images, at, ocr, pages, warnings>>

Count == Len(job.pages)

\* finish: the model's reason for stopping, "none" after a call that failed.
\* honest, for the properties only: every answer that claims to be complete was.
NoOcr == [text |-> <<>>, finish |-> "none", rounds |-> 0, honest |-> TRUE]

\* A watermark found but not removed leaves a warning.
PdfInit ==
    /\ job \in Jobs
    /\ stage = "open"
    /\ locked = FALSE
    /\ candidates = {}
    /\ classes = <<>>
    /\ images = <<>>
    /\ at = 1
    /\ ocr = NoOcr
    /\ pages = <<>>
    /\ warnings = IF job.watermark = "left" THEN {<<0, "watermark">>} ELSE {}

\* What pdfplumber reads of a page.
Extracted(p) == IF job.pages[p].extracts THEN job.pages[p].lines ELSE <<>>

-----------------------------------------------------------------------------
(* The pre-filter.                                                         *)

\* pypdf reads the file before the lock is taken.
Open ==
    /\ stage = "open"
    /\ \/ /\ job.opens /\ ~locked
          /\ locked' = TRUE
          /\ stage' = "scan"
       \/ /\ ~job.opens
          /\ stage' = "classify"
          /\ UNCHANGED locked
    /\ UNCHANGED <<job, candidates, classes, images, at, ocr, pages, warnings>>

\* Pages that may need a model to look at them: flattened tables, and pages with
\* images and little text.
Visual(p) ==
    LET text == Extracted(p)
    IN  \/ text # <<>> /\ job.pages[p].wide
        \/ job.pages[p].images /\ Length(text) <= MinVisual

ClassOf(p) == IF Extracted(p) = <<>> THEN "BLANK" ELSE "TEXT"

\* The lock is released however the pass ends; if it fails, every page is TEXT,
\* but the candidates found by then remain.
Scan ==
    /\ stage = "scan"
    /\ stage' = "classify"
    /\ locked' = FALSE
    /\ candidates' = IF job.scan = "open" THEN {} ELSE {p \in 1..Count : Visual(p)}
    /\ classes' = IF job.scan = "ok"
                  THEN [p \in 1..Count \ candidates' |-> ClassOf(p)]
                  ELSE [p \in 1..Count |-> "TEXT"]
    /\ UNCHANGED <<job, images, at, ocr, pages, warnings>>

\* PageClassifier.classify: a blank image is not shown to the model; a failure
\* or an answer that names no class is TEXT.
Labels(image) == IF job.pages[image].ink = <<>> THEN {"BLANK"} ELSE Classes

\* Candidates are rendered where something will look at them.  Without the OCR
\* endpoint the model classifies those that could be rendered; a page that has
\* no class by then is TEXT.
Classify ==
    /\ stage = "classify"
    /\ stage' = "reopen"
    /\ images' = IF job.ocr \/ job.vision THEN RenderPages(job.pages, candidates) ELSE <<>>
    /\ \E labels \in [DOMAIN images' -> Classes] :
          /\ \A p \in DOMAIN images' : labels[p] \in Labels(images'[p])
          /\ job.ocr => \A p \in DOMAIN images' : labels[p] = CHOOSE c \in Labels(images'[p]) : TRUE
          /\ classes' = [p \in 1..Count |->
                            IF ~job.ocr /\ p \in DOMAIN images' THEN labels[p]
                            ELSE IF p \in DOMAIN classes THEN classes[p] ELSE "TEXT"]
    /\ UNCHANGED <<job, locked, candidates, at, ocr, pages, warnings>>

-----------------------------------------------------------------------------
(* The extraction.                                                         *)

Reopen ==
    /\ stage = "reopen"
    /\ \/ /\ job.opens /\ ~locked
          /\ locked' = TRUE
          /\ stage' = IF job.crash = 0 THEN "failed" ELSE "read"
       \/ /\ ~job.opens
          /\ stage' = "failed"
          /\ UNCHANGED locked
    /\ UNCHANGED <<job, candidates, classes, images, at, ocr, pages, warnings>>

AtPage == stage = "read" /\ at <= Count /\ at # job.crash

\* A page that the OCR endpoint transcribes.
Transcribed(p) == job.ocr /\ p \in candidates /\ p \in DOMAIN images
BlankImage(p) == job.pages[images[p]].ink = <<>>

\* of and fate are for the properties: the page of the file whose text layer this
\* is, and what became of its transcription, if it has one.
Page(num, text, class, of, fate) ==
    [num |-> num, text |-> text, class |-> class, image |-> num \in DOMAIN images,
     of |-> of, fate |-> fate]

AddPage(text, class, fate) ==
    /\ pages' = Append(pages, Page(at, text, class, at, fate))
    /\ at' = at + 1

\* What a model makes of an image: nothing if the call fails, is answered with
\* nothing or is turned off, or a description.
Descriptions(image) == {<<>>, <<Added("heading", 2)>> \o job.pages[image].ink}

\* BLANK pages have no text; a chart is rendered anew and analysed, an image
\* described, and what the model says follows the text of the page.
ReadPage ==
    /\ AtPage /\ ~Transcribed(at)
    /\ LET class == classes[at]
           seen  == IF class = "CHART" /\ job.vision /\ RendersAlone(job.pages, at) THEN {at}
                    ELSE IF class = "IMAGE" /\ at \in DOMAIN images THEN {images[at]}
                    ELSE {}
       IN  \E said \in {<<>>} \cup UNION {Descriptions(i) : i \in seen} :
              AddPage(IF class = "BLANK" THEN <<>> ELSE Extracted(at) \o said, class, "whole")
    /\ UNCHANGED <<job, stage, locked, candidates, classes, images, ocr, warnings>>

SkipBlankImage ==
    /\ AtPage /\ Transcribed(at) /\ BlankImage(at)
    /\ AddPage(<<>>, "BLANK", "whole")
    /\ UNCHANGED <<job, stage, locked, candidates, classes, images, ocr, warnings>>

\* What may follow in an answer, or be all there is: fabricated repetition.
Junk == {<<>>, <<Added("periods", 3)>>, <<Added("lead", 1), Added("numbered", 2)>>}

\* How many lines of the page a text has.
Given(text) == Cardinality({i \in DOMAIN text : text[i].page # 0})

\* The OCR endpoint, external: some of the lines that follow those of text, junk,
\* and a reason to stop; or, asked to continue, the end of text again.
Answers(ink, text) ==
    LET n == Given(text)
        answer(part, m, f) == [text |-> part, finish |-> f,
                               honest |-> f = "length" \/ m = Len(ink)]
    IN  {answer(SubSeq(ink, n + 1, m) \o junk, m, f) :
            m \in n..Len(ink), junk \in Junk, f \in {"stop", "length"}}
        \cup {answer(SubSeq(text, k, Len(text)), n, f) :
                 k \in DOMAIN text, f \in {"stop", "length"}}

\* A call that fails does not raise: it is answered with no text and no reason.
Failed == [text |-> <<>>, finish |-> "none", honest |-> TRUE]
Calls(ink, text) == Answers(ink, text) \cup {Failed}

Ink == job.pages[images[at]].ink
Repeats(text, part) ==
    \E i \in 1..(Len(text) + 1 - Len(part)) : SubSeq(text, i, i + Len(part) - 1) = part

StartOcr ==
    /\ AtPage /\ Transcribed(at) /\ ~BlankImage(at)
    /\ stage' = "ocr"
    /\ \E a \in Calls(Ink, <<>>) :
          ocr' = [text |-> a.text, finish |-> a.finish, rounds |-> 0, honest |-> a.honest]
    /\ UNCHANGED <<job, locked, candidates, classes, images, at, pages, warnings>>

\* The page is sent again while the answer was cut off, up to MaxRounds times,
\* and not if what there is looks degenerate.
Continues ==
    /\ ocr.rounds < MaxRounds
    /\ ocr.text # <<>> /\ ocr.finish = "length"
    /\ ~Degenerate(ocr.text)

\* An exception around the calls (the image is written and read again for each)
\* leaves no text at all, what was received included.
OcrFails ==
    /\ \/ AtPage /\ Transcribed(at) /\ ~BlankImage(at)
       \/ stage = "ocr" /\ Continues
    /\ stage' = "ocr"
    /\ ocr' = [NoOcr EXCEPT !.rounds = MaxRounds]
    /\ UNCHANGED <<job, locked, candidates, classes, images, at, pages, warnings>>

\* Mutant: an answer that adds nothing counts as complete.
NextFinishKept(a) == IF a.text = <<>> \/ Repeats(ocr.text, a.text) THEN "stop" ELSE a.finish

\* The reason of the last call counts, if it added nothing or failed too.
NextFinish(a) == a.finish

\* A failed call, or an answer that is empty or repeats what there is, ends the
\* transcription with what was received before.
ContinueOcr ==
    /\ stage = "ocr" /\ Continues
    /\ \E a \in Calls(Ink, ocr.text) :
          LET ends == a.text = <<>> \/ Repeats(ocr.text, a.text)
          IN  ocr' = [text   |-> IF ends THEN ocr.text ELSE ocr.text \o a.text,
                      finish |-> NextFinish(a),
                      rounds |-> IF ends THEN MaxRounds ELSE ocr.rounds + 1,
                      honest |-> ocr.honest /\ a.honest]
    /\ UNCHANGED <<job, stage, locked, candidates, classes, images, at, pages, warnings>>

\* Cut off at the token limit, shortened by the clean-up, or nothing at all.
OcrWarnings(text) ==
    IF text = <<>> THEN {"empty or failed"}
    ELSE IF ocr.finish = "length" THEN {"truncated"}
    ELSE IF Degenerate(ocr.text) THEN {"shortened"}
    ELSE {}

\* "untrue" if a claim to be complete was, "cut" if the call to continue failed.
Fate ==
    IF ~ocr.honest THEN "untrue"
    ELSE IF ocr.text # <<>> /\ ocr.finish = "none" THEN "cut"
    ELSE "whole"

EndOcr ==
    /\ stage = "ocr" /\ ~Continues
    /\ stage' = "read"
    /\ LET text == Cleaned(ocr.text)
       IN  /\ AddPage(IF text = <<>> THEN Extracted(at)
                      ELSE Extracted(at) \o <<Added("heading", 2)>> \o text,
                      "IMAGE", Fate)
           /\ warnings' = warnings \cup ({at} \X OcrWarnings(text))
    /\ ocr' = NoOcr
    /\ UNCHANGED <<job, locked, candidates, classes, images>>

PageFails ==
    /\ stage = "read" /\ at = job.crash
    /\ stage' = "failed"
    /\ UNCHANGED <<job, locked, candidates, classes, images, at, ocr, pages, warnings>>

CloseFile ==
    /\ stage = "read" /\ at = Count + 1 /\ at # job.crash
    /\ stage' = "parsed"
    /\ locked' = FALSE
    /\ UNCHANGED <<job, candidates, classes, images, at, ocr, pages, warnings>>

\* _extract_pages_with_pymupdf: the pages that have text.
Recovered ==
    IF job.mupdf THEN Keep([p \in 1..Count |-> p], {p \in 1..Count : job.pages[p].lines # <<>>})
    ELSE <<>>

NoImage(page) == [page EXCEPT !.image = FALSE]
Numbered(of) ==
    [i \in DOMAIN of |->
        NoImage(Page(i, <<Added("plain", 2)>> \o job.pages[of[i]].lines, "TEXT", of[i], "whole"))]

\* After a failure: the pages read so far and a warning, or what MuPDF reads,
\* or a page that says so.
Recover ==
    /\ stage = "failed"
    /\ stage' = "parsed"
    /\ locked' = FALSE
    /\ \/ /\ pages # <<>>
          /\ warnings' = warnings \cup {<<0, "aborted">>}
          /\ UNCHANGED pages
       \/ /\ pages = <<>> /\ Recovered # <<>>
          /\ pages' = Numbered(Recovered)
          /\ warnings' = warnings \cup {<<0, "recovered">>}
       \/ /\ pages = <<>> /\ Recovered = <<>>
          /\ pages' = <<NoImage(Page(1, <<Added("plain", 2)>>, "TEXT", 1, "whole"))>>
          /\ warnings' = warnings \cup {<<0, "failed">>}
    /\ UNCHANGED <<job, candidates, classes, images, at, ocr>>

PdfNext ==
    \/ Open \/ Scan \/ Classify
    \/ Reopen \/ ReadPage \/ SkipBlankImage
    \/ StartOcr \/ ContinueOcr \/ OcrFails \/ EndOcr
    \/ PageFails \/ CloseFile \/ Recover

-----------------------------------------------------------------------------
(* Properties.                                                             *)

\* What stands on a page, its image's description and transcription included,
\* is of the page of that number, or a warning tells of the fallback.
PagesInPlace ==
    \A i \in DOMAIN pages : \A l \in ToSet(pages[i].text) :
        l.page \in {0, pages[i].num} \/ <<0, "recovered">> \in warnings

\* A line of a page that the OCR endpoint was shown and that is not in the page's
\* text is warned of, as long as the model does not call an incomplete answer
\* complete and no call to continue a transcription fails.
TranscriptionKept ==
    \A i \in DOMAIN pages :
        (pages[i].class = "IMAGE" /\ job.ocr /\ pages[i].fate = "whole") =>
            \/ ToSet(job.pages[pages[i].num].ink) \subseteq ToSet(pages[i].text)
            \/ \E w \in warnings : w[1] = pages[i].num

\* Violated: "hollow pages never ship silently", whatever call fails.  A call to
\* continue that fails takes the reason "length" with it: the text cut off
\* before it is kept, and nothing is said.
NoHollowPage ==
    \A i \in DOMAIN pages :
        (pages[i].class = "IMAGE" /\ job.ocr /\ pages[i].fate # "untrue") =>
            \/ ToSet(job.pages[pages[i].num].ink) \subseteq ToSet(pages[i].text)
            \/ \E w \in warnings : w[1] = pages[i].num

\* By hand: page-level addressing survives the fallback, which leaves out empty
\* pages and numbers the rest anew.
AddressKept == \A i \in DOMAIN pages : pages[i].num = pages[i].of
=============================================================================
