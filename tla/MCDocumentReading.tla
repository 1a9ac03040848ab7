--------------------------- MODULE MCDocumentReading ---------------------------
EXTENDS DocumentReading

CONSTANTS Preface, A, B

\* A text from the kinds and lengths of its lines; from line 50 on, what an image
\* of the page shows.
Text(page, first, lines) ==
    [i \in 1..Len(lines) |-> Line(page, first + i, lines[i][1], lines[i][2])]

p(n) == <<"plain", n>>
h(n) == <<"heading", n>>
r(n) == <<"row", n>>
s(n) == <<"separator", n>>
k(kind) == <<kind, 3>>

\* Around a limit of 8: short pages, pages that fit together, lines and tables
\* at and over the limit, tables at and over one and a half limits.
Layouts ==
    { <<p(1)>>,                                    \* left out
      <<h(2), p(3)>>,
      <<p(3), h(2), p(4), p(3)>>,
      <<p(8)>>,                                    \* exactly the limit
      <<p(9)>>,                                    \* leaves a piece of one
      <<p(4), p(18), p(2)>>,
      <<r(3), s(3), r(4)>>,                        \* one and a half limits
      <<h(2), r(3), s(3), r(3), r(3), r(3), p(4)>>,
      <<r(6), s(7), p(4), p(6)>>,                  \* all header
      <<r(6), s(7), r(4), r(5), p(4)>>,            \* a header over the limit
      <<r(5), r(5), r(9), r(5)>> }                 \* no separator

Sound(lines, ink) ==
    [lines |-> lines, ink |-> ink, section |-> A, images |-> FALSE, wide |-> FALSE,
     extracts |-> TRUE, renders |-> "poppler", garbled |-> FALSE, analyses |-> TRUE]
Picture(lines, ink) == [Sound(lines, ink) EXCEPT !.images = TRUE]

Job(file) ==
    [pages |-> file, ocr |-> FALSE, vision |-> FALSE, tesseract |-> FALSE, watermark |-> "none",
     opens |-> TRUE, scan |-> "ok", crash |-> Len(file) + 2, mupdf |-> TRUE]

\* Files of text only, for the chunker; only the first page of a document of
\* three may stand before the sections.
TextFiles ==
    LET page(i, sections) == {[Sound(Text(i, 0, l), <<>>) EXCEPT !.section = x] :
                                  l \in Layouts, x \in sections}
    IN  {<<x, y>> : x \in page(1, {Preface, A}), y \in page(2, {Preface, A, B})}
        \cup {<<x, y, z>> : x \in page(1, {Preface, A}),
                            y \in page(2, {A, B}), z \in page(3, {A, B})}

\* Pages a model may look at: a scan, a scan with a list or a run at its end, a
\* picture with a caption, a flattened table, a page with next to nothing on it.
VisualPages(i) ==
    LET ink == Text(i, 50, <<p(2), p(2)>>)
    IN  { Picture(<<>>, ink),
          Picture(<<>>, Text(i, 50, <<p(2), k("numbered")>>)),
          Picture(<<>>, Text(i, 50, <<p(2), k("periods")>>)),
          Picture(Text(i, 0, <<p(3)>>), ink),
          [Sound(Text(i, 0, <<r(3), r(3)>>), ink) EXCEPT !.wide = TRUE],
          Picture(Text(i, 0, <<p(3)>>), <<>>) }
PlainPages(i) ==
    {Sound(<<>>, <<>>), Sound(Text(i, 0, <<h(2), p(4)>>), Text(i, 50, <<p(4)>>))}

Rendered(pages_, how) == {[x EXCEPT !.renders = w] : x \in pages_, w \in how}

\* Three pages, of which one or two are visual, rendered one by one or together.
VisualFiles ==
    {<<x, y, z>> : x \in PlainPages(1), y \in Rendered(VisualPages(2), Renders),
                   z \in PlainPages(3) \cup
                         Rendered({Picture(<<>>, Text(3, 50, <<p(2), p(2)>>))}, {"poppler", "never"})}

\* Pages whose text is garbled, coded, repeated, short, unreadable or lost.
OddPages(i) ==
    LET ink == Text(i, 50, <<p(4)>>)
        text == Sound(Text(i, 0, <<p(4)>>), ink)
        kinds(x) == Sound(Text(i, 0, x), ink)
    IN  { [text EXCEPT !.garbled = TRUE], [text EXCEPT !.extracts = FALSE],
          [text EXCEPT !.analyses = FALSE], kinds(<<p(1)>>), kinds(<<k("cid"), p(4)>>),
          kinds(<<k("cid"), p(1)>>), kinds(<<k("echo"), k("echo"), p(3), k("echo")>>) }
OddFiles ==
    {<<x, y>> : x \in OddPages(1) \cup PlainPages(1),
                y \in OddPages(2) \cup {[x EXCEPT !.images = TRUE] : x \in OddPages(2)}}

\* A file that cannot be opened, by one reader or by all, is closed in vain, or
\* fails at a page.
Faulty(j) ==
    { [j EXCEPT !.opens = FALSE], [j EXCEPT !.opens = FALSE, !.mupdf = FALSE],
      [j EXCEPT !.scan = "open", !.crash = 0],
      [j EXCEPT !.scan = "close", !.crash = Len(j.pages) + 1],
      [j EXCEPT !.crash = 2] }

MCJobs ==
    {Job(f) : f \in TextFiles}
    \cup {[Job(f) EXCEPT !.ocr = o, !.vision = ~o] : f \in VisualFiles, o \in BOOLEAN}
    \cup UNION {Faulty([Job(<<x, y>>) EXCEPT !.ocr = o, !.vision = ~o]) :
                    x \in PlainPages(1), y \in VisualPages(2), o \in BOOLEAN}
    \cup {[Job(f) EXCEPT !.vision = v, !.tesseract = t, !.watermark = w] :
             f \in OddFiles, v \in BOOLEAN, t \in BOOLEAN, w \in {"none", "left"}}
=============================================================================
