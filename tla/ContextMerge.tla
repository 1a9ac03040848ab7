---------------------------- MODULE ContextMerge ----------------------------
(***************************************************************************)
(* The context a language model is given: the budgets of the executor      *)
(* (core/retrieval/executor.py) and SegmentMerger                          *)
(* (core/retrieval/retriever.py), which lays the pages found into one.     *)
(*                                                                         *)
(* A text is a sequence of pieces with a length: document headers, section *)
(* lines, pages, headings and truncation markers.  Lengths are numbers of  *)
(* characters, counted in any unit.  Industry hooks that rewrite a page's  *)
(* text and the numbering of its paragraphs leave it as it is.             *)
(***************************************************************************)
EXTENDS Integers, FiniteSets, FiniteSetsExt, Folding

CONSTANTS
    Cfg,            \* CONTEXT_CONFIG: the limits, as a record
    LowValue,       \* pages with the words of covers, contents and notices
    Described,      \* pages whose text is a vision model's description
    Dense,          \* pages whose sentences with words of the question alone
                    \* fill more than a page's share
    Rules           \* [search, merge]: by what the rules of industry packs for
                    \* sections raise or lower the pages they name

\* A page is <<document, number>>; a result is a page with a score and the
\* length of the text that comes with it.
Piece(what, page, len) == [what |-> what, page |-> page, len |-> len]
Marker == Piece("marker", <<>>, Cfg.marker)

Size(text) == Fold(LAMBDA n, p : n + p.len, 0, text)

\* text[:n]: a text no longer than n stays as it is, of another the piece at the
\* edge is cut.
Cut(text, n) ==
    LET add(a, p) == IF a.room <= 0 THEN a
                     ELSE [room |-> a.room - p.len,
                           text |-> Append(a.text, [p EXCEPT !.len = Min({@, a.room})])]
    IN  IF Size(text) <= n THEN text ELSE Fold(add, [room |-> n, text |-> <<>>], text).text

\* truncation.py: mark_truncated, is_truncated.
MarkTruncated(text) == Append(text, Marker)
IsTruncated(text) == \E i \in DOMAIN text : text[i] = Marker

PagesIn(text) == {text[i].page : i \in {j \in DOMAIN text : text[j].what = "page"}}

-----------------------------------------------------------------------------
(* The merger.                                                             *)

\* Best score first; equal scores stay in the order they came in.
Ranked(rs) ==
    LET before(i, j) == \/ rs[i].score > rs[j].score
                        \/ rs[i].score = rs[j].score /\ i < j
        order == Sorted(DOMAIN rs, before)
    IN  [i \in DOMAIN rs |-> rs[order[i]]]

\* By what the score of a page rises.
Boosted(rs, by) ==
    [i \in DOMAIN rs |->
        IF rs[i].page \in DOMAIN by THEN [rs[i] EXCEPT !.score = @ + by[rs[i].page]] ELSE rs[i]]

\* How much of a page is worth its score (scores are in hundredths).
ContentCap(score) ==
    CASE score >= 500 -> Cfg.cap_top
      [] score \in 200..499 -> Cfg.cap_high
      [] score \in 50..199 -> Cfg.cap_medium
      [] OTHER -> Cfg.cap_low

\* Pages scored too low are left out, unless that leaves none.
AboveThreshold(rs) ==
    LET good == Keep(rs, {i \in DOMAIN rs : rs[i].score >= Cfg.threshold})
    IN  IF good # <<>> THEN good ELSE Keep(rs, 1..5)

\* Covers and machine-made descriptions give way to the text of the others.
Penalised(r) ==
    [r EXCEPT !.score = @ - (IF r.page \in LowValue THEN 300 ELSE 0)
                          - (IF r.page \in Described THEN 1500 ELSE 0)]
Ordered(rs) ==
    At(AboveThreshold(Ranked(Boosted(rs, Rules.merge))),
       LAMBDA g : Ranked([i \in DOMAIN g |-> Penalised(g[i])]))

\* _smart_truncate: an excerpt, marked only if it had to be cut itself.
SmartTruncate(r, max) ==
    IF r.len <= max THEN <<Piece("page", r.page, r.len)>>
    ELSE LET short == <<Piece("page", r.page, max)>>
         IN  IF r.page \in Dense THEN MarkTruncated(short) ELSE short

\* No page takes more than a part of what its document may take.
Content(r, share) ==
    SmartTruncate(r, Min({ContentCap(r.score), Max({Cfg.cap_floor, share \div Cfg.page_parts})}))

\* One page of a document; "full" ends the document.  A page that fits is laid
\* whole.  One that is too much for its document, but not for the context, is cut
\* and marked, and what is left of it is not counted.
Section(r) == Piece("section", r.page, Cfg.section)
LayWhole(a, r, content) ==
    LET total == Cfg.section + Size(content)
    IN  [a EXCEPT !.text = @ \o <<Section(r)>> \o content, !.cited = @ \cup {r.page},
                  !.chars = @ + total, !.used = @ + total]
LayPart(a, r, content, room) ==
    [a EXCEPT !.text = @ \o <<Section(r)>> \o MarkTruncated(Cut(content, room)),
              !.cited = @ \cup {r.page}, !.full = TRUE]

\* Mutant: a page that does not fit is cited all the same.
AddPageCited(a, r, share, max) ==
    LET content == Content(r, share)
        total   == Cfg.section + Size(content)
    IN  IF a.full THEN a
        ELSE IF a.chars + total <= max /\ a.used + total <= share THEN LayWhole(a, r, content)
        ELSE [a EXCEPT !.full = TRUE, !.cited = @ \cup {r.page}]

AddPage(a, r, share, max) ==
    LET content == Content(r, share)
        total   == Cfg.section + Size(content)
        room    == Min({share - a.used, max - a.chars}) - Cfg.section - Cfg.marker
    IN  CASE ~a.full /\ a.chars + total <= max /\ a.used + total <= share -> LayWhole(a, r, content)
          [] ~a.full /\ a.chars + total <= max /\ share < a.used + total
               /\ a.used < share /\ room > Cfg.min_room -> LayPart(a, r, content, room)
          [] OTHER -> [a EXCEPT !.full = TRUE]

\* The documents, in the order of their first results.
DocsOf(rs) == {rs[i].page[1] : i \in DOMAIN rs}
First(rs, d) == Min({i \in DOMAIN rs : rs[i].page[1] = d})
Grouped(rs) ==
    At(Sorted(DocsOf(rs), LAMBDA d, e : First(rs, d) < First(rs, e)),
       LAMBDA ds : [i \in DOMAIN ds |-> Keep(rs, {j \in DOMAIN rs : rs[j].page[1] = ds[i]})])

\* Mutant: each document gets all the room there is, first come first served.
ShareOfAll(n, max) == max

\* With several documents, each has its share, but no less than a minimum.
Share(n, max) == IF n > 1 THEN Max({max \div n, Cfg.min_per_doc}) ELSE max

AddDoc(a, rs, share, max) ==
    IF a.stop \/ a.chars + Cfg.header > max THEN [a EXCEPT !.stop = TRUE]
    ELSE Fold(LAMBDA b, r : AddPage(b, r, share, max),
              [a EXCEPT !.text = Append(@, Piece("header", <<rs[1].page[1]>>, Cfg.header)),
                        !.chars = @ + Cfg.header, !.used = 0, !.full = FALSE],
              Ordered(rs))

\* The text, the pages its sources name, and whether it had to be cut because
\* pages cut short are not counted.
Merge(results, max) ==
    LET share == Share(Cardinality(DocsOf(results)), max)
        start == [text |-> <<>>, cited |-> {}, chars |-> 0, used |-> 0, full |-> FALSE, stop |-> FALSE]
    IN  At(Fold(LAMBDA a, rs : AddDoc(a, rs, share, max), start, Grouped(results)),
           LAMBDA a : IF Size(a.text) > max
                      THEN [text |-> MarkTruncated(Cut(a.text, max)), cited |-> a.cited, cut |-> TRUE]
                      ELSE [text |-> a.text, cited |-> a.cited, cut |-> FALSE])

-----------------------------------------------------------------------------
(* The executor's budgets.  A step's filter is the set of its documents.   *)

Sum0(s) == Fold(LAMBDA n, x : n + x, 0, s)

\* What a step gets of the whole: the filtered ones share four fifths by the
\* number of their documents, the others what is left.
Portions(filters) ==
    LET docs == Sum0([i \in DOMAIN filters |-> Cardinality(filters[i])])
        free == {i \in DOMAIN filters : filters[i] = {}}
        own(i) == IF docs = 0 THEN 0
                  ELSE (((Cfg.max_chars * 4) \div 5) * Cardinality(filters[i])) \div docs
        left == Cfg.max_chars - Sum0([i \in DOMAIN filters |-> own(i)])
    IN  [i \in DOMAIN filters |-> IF i \in free THEN left \div Cardinality(free) ELSE own(i)]

\* _calculate_step_quotas: no step gets less than a minimum, one alone no more
\* than a maximum, and all together are scaled to one.
Quotas(filters) ==
    LET n == Len(filters)
        least == IF n = 1 THEN Min({Cfg.min_single_step, Cfg.max_chars})
                          ELSE Min({Cfg.min_step, Cfg.max_chars \div n})
        raised(q) == IF n = 1 THEN Min({Max({q, least}), Cfg.single_step_max}) ELSE Max({q, least})
    IN  At([i \in DOMAIN filters |-> raised(Portions(filters)[i])],
           LAMBDA qs : IF Sum0(qs) <= Cfg.multi_step_max THEN qs
                       ELSE [i \in DOMAIN qs |-> (qs[i] * Cfg.multi_step_max) \div Sum0(qs)])

Joined(texts) == Fold(LAMBDA a, t : a \o t, <<>>, texts)

\* Each part is cut in proportion, but keeps at least "least".
Proportional(texts, least) ==
    At(Size(Joined(texts)), LAMBDA total :
       [i \in DOMAIN texts |->
          Cut(texts[i], Max({(Size(texts[i]) * Cfg.budget) \div total, least}))])

\* Mutant: the cut leaves no trace.
AssembleUnmarked(texts, least) ==
    IF Size(Joined(texts)) <= Cfg.budget THEN Joined(texts)
    ELSE Joined(Proportional(texts, least))

\* What goes to the synthesizer.
Assemble(texts, least) ==
    IF Size(Joined(texts)) <= Cfg.budget THEN Joined(texts)
    ELSE IF Len(texts) = 1 THEN MarkTruncated(Cut(texts[1], Cfg.budget))
    ELSE MarkTruncated(Joined(Proportional(texts, least)))
=============================================================================
